---------------------------- MODULE TelnetFraming ----------------------------
(***************************************************************************)
(* What the server of src/src/telnet_protocol.c and the development client *)
(* of src/tools/secure_client.c put on the wire, and what each parser      *)
(* makes of the other's bytes.  A text or payload is a sequence of bytes,  *)
(* numbers in 0 .. 255; what a parser recognises is a sequence of events.  *)
(***************************************************************************)
EXTENDS Integers, SequencesExt

CONSTANTS
    SUBNEGOTIATION_MAX_BYTES,   \* the server's room for a subnegotiation
    SUB_DATA,                   \* the client's: sizeof(state->sub_data)
    GMCP_PACKAGE_MAX_BYTES, GMCP_JSON_MAX_BYTES,
    MSSP_PAYLOAD_MAX_BYTES,
    LABEL,                      \* sizeof(safe_label) of a link
    Outputs, Inputs,            \* what server and client write, sequences of items
    Strings,                    \* texts, packages and JSON, URIs and labels
    Statuses                    \* MSSP statuses

Text == INSTANCE TerminalText WITH Texts <- {}, Sizes <- {}

IAC == 255
Negotiation == 251 .. 254       \* WILL, WONT, DO, DONT
SB == 250
GA == 249
SE == 240
EOR == 239
CR == 13
LF == 10
ESC == 27
GMCP == 201
MSSP == 70

-----------------------------------------------------------------------------
(* Writing.                                                                *)

Quoted(byte) == IF byte = IAC THEN <<IAC, IAC>> ELSE <<byte>>

\* (mutant) data is written as it is
write_telnet_data_raw(data) == data

write_telnet_data(data) == FlattenSeq([i \in DOMAIN data |-> Quoted(data[i])])

\* A prompt's end is marked with what the options of terminal t allow.
PromptMarker(t) ==
    IF t.local_eor THEN <<IAC, EOR>>
    ELSE IF ~t.local_suppress_go_ahead THEN <<IAC, GA>> ELSE <<>>

write_prompt_text(text, t) == write_telnet_data(text) \o PromptMarker(t)

write_telnet_option_raw(command, option) == <<IAC, command, option>>

send_subnegotiation(option, payload) ==
    <<IAC, SB, option>> \o write_telnet_data(payload) \o <<IAC, SE>>

\* A line feed without a carriage return gets one; only this text is looked at.
write_application_text(text) ==
    FlattenSeq([i \in DOMAIN text |->
        IF text[i] = LF /\ (i = 1 \/ text[i - 1] # CR) THEN <<CR, LF>> ELSE Quoted(text[i])])

application_write_prompt(text, t) == write_application_text(text) \o PromptMarker(t)

osc_uri_safe(uri) ==
    /\ Len(uri) \in 1 .. 1024 /\ Text!terminal_text_utf8_valid(uri)
    /\ \A i \in DOMAIN uri : uri[i] >= 32 /\ uri[i] # 127

\* Allowed: the terminal t knows links of this kind.  ESC ] 8 ; ; URI ESC \
\* begins a link and the same without a URI ends it.
application_write_link(uri, label, allowed) ==
    LET safe_label == Text!terminal_text_sanitize(label, LABEL)
        begin == <<ESC, 93, 56, 59, 59>>
        string_terminator == <<ESC, 92>>
    IN  write_telnet_data(
            IF allowed /\ osc_uri_safe(uri)
            THEN begin \o uri \o string_terminator \o safe_label \o begin \o string_terminator
            ELSE safe_label)

gmcp_package_valid(package) ==
    /\ Len(package) \in 1 .. GMCP_PACKAGE_MAX_BYTES
    /\ \A i \in DOMAIN package :
          package[i] \in 65 .. 90 \cup 97 .. 122 \cup 48 .. 57 \cup {46, 95, 45}

\* The payload of a GMCP message is a package name and, after a blank, JSON.
GmcpPayload(package, json) == package \o (IF json = <<>> THEN <<>> ELSE <<32>> \o json)

gmcp_refused(package, json) ==
    \/ ~gmcp_package_valid(package) \/ Len(json) > GMCP_JSON_MAX_BYTES
    \/ ~Text!terminal_text_utf8_valid(json)
    \/ Len(GmcpPayload(package, json)) > SUBNEGOTIATION_MAX_BYTES

send_gmcp_message(package, json) ==
    IF gmcp_refused(package, json) THEN <<>>
    ELSE send_subnegotiation(GMCP, GmcpPayload(package, json))

\* A pair is 1 name 2 value.  After a refusal nothing more is appended.
mssp_append_pair(r, pair) ==
    LET longer == r.payload \o <<1>> \o pair.name \o <<2>> \o pair.value
    IN  IF \/ ~r.ok \/ pair.name = <<>> \/ Len(longer) > MSSP_PAYLOAD_MAX_BYTES
           \/ \E i \in DOMAIN pair.name : pair.name[i] \notin 65 .. 90 \cup {32}
           \/ \E i \in DOMAIN pair.value : pair.value[i] \in {0, 1, 2, IAC}
        THEN [r EXCEPT !.ok = FALSE] ELSE [r EXCEPT !.payload = longer]

RECURSIVE Decimal(_)
Decimal(n) == (IF n < 10 THEN <<>> ELSE Decimal(n \div 10)) \o <<48 + (n % 10)>>

\* The names, and the charset, are told apart by one letter; an empty name or code base is
\* replaced by the server's own, and ports that are not served are left out.
MsspPairs(status) ==
    LET Pair(name, value) == <<[name |-> <<name>>, value |-> value]>>
        Own(value) == IF value = <<>> THEN <<109>> ELSE value
        Port(name, port) == IF port = 0 THEN <<>> ELSE Pair(name, Decimal(port))
    IN  Pair(78, Own(status.name)) \o Pair(80, Decimal(status.players))
        \o Pair(85, Decimal(status.uptime)) \o Pair(67, <<56>>)
        \o Pair(66, Own(status.codebase))
        \o Port(79, status.telnet_port) \o Port(83, status.telnet_tls_port)

\* For a session that has agreed to MSSP and has not reported yet.
send_mssp_status(status) ==
    LET r == FoldLeft(mssp_append_pair, [ok |-> TRUE, payload |-> <<>>], MsspPairs(status))
    IN  IF r.ok THEN send_subnegotiation(MSSP, r.payload) ELSE <<>>

\* The client's side: what is typed.  A read fills at most half the buffer.
send_terminal_input(input) ==
    FlattenSeq([i \in DOMAIN input |-> IF input[i] = LF THEN <<CR, LF>> ELSE Quoted(input[i])])

-----------------------------------------------------------------------------
(* Reading.  The parsers of client and server have the same states.        *)

Fresh == [parser |-> "DATA", command |-> 0, option |-> 0, sub |-> <<>>,
          heard |-> <<>>, failed |-> FALSE]

Hears(p, event) == [p EXCEPT !.parser = "DATA", !.heard = Append(@, event)]

Collect(p, byte, room) ==
    IF Len(p.sub) >= room THEN [p EXCEPT !.failed = TRUE]
    ELSE [p EXCEPT !.parser = "SB_DATA", !.sub = Append(@, byte)]

Parse(p, byte, room) ==
    CASE p.failed -> p
      [] ~p.failed /\ p.parser = "DATA" ->
            IF byte = IAC THEN [p EXCEPT !.parser = "IAC"] ELSE Hears(p, <<"data", byte>>)
      [] ~p.failed /\ p.parser = "IAC" ->
            (CASE byte = IAC -> Hears(p, <<"data", IAC>>)
               [] byte \in Negotiation -> [p EXCEPT !.parser = "OPTION", !.command = byte]
               [] byte = SB -> [p EXCEPT !.parser = "SB_OPTION"]
               [] OTHER -> Hears(p, <<"command", byte>>))
      [] ~p.failed /\ p.parser = "OPTION" -> Hears(p, <<"option", p.command, byte>>)
      [] ~p.failed /\ p.parser = "SB_OPTION" ->
            [p EXCEPT !.parser = "SB_DATA", !.option = byte, !.sub = <<>>]
      [] ~p.failed /\ p.parser = "SB_DATA" ->
            IF byte = IAC THEN [p EXCEPT !.parser = "SB_IAC"] ELSE Collect(p, byte, room)
      [] ~p.failed /\ p.parser = "SB_IAC" ->
            (CASE byte = SE -> Hears([p EXCEPT !.sub = <<>>], <<"sub", p.option, p.sub>>)
               [] byte = IAC -> Collect(p, IAC, room)
               [] OTHER -> [p EXCEPT !.parser = "SB_DATA",
                                     !.heard = Append(@, <<"malformed">>)])

\* The server answers commands and counts malformed subnegotiations.
telnet_session_feed_at(wire) ==
    FoldLeft(LAMBDA p, byte : Parse(p, byte, SUBNEGOTIATION_MAX_BYTES), Fresh, wire)

\* The client passes over both.
process_server_bytes(wire) ==
    LET p == FoldLeft(LAMBDA q, byte : Parse(q, byte, SUB_DATA), Fresh, wire)
    IN  [p EXCEPT !.heard = SelectSeq(@, LAMBDA event : event[1] \notin {"command", "malformed"})]

\* The body handle_gmcp finds in a payload: a package, as a C string, and JSON.
handle_gmcp(payload) ==
    LET blanks == {i \in DOMAIN payload : payload[i] = 32}
        end == IF blanks = {} THEN Len(payload) + 1
               ELSE CHOOSE i \in blanks : \A j \in blanks : i <= j
        nuls == {i \in 1 .. end - 1 : payload[i] = 0}
        name == SubSeq(payload, 1,
                       IF nuls = {} THEN end - 1
                       ELSE (CHOOSE i \in nuls : \A j \in nuls : i <= j) - 1)
        json == SubSeq(payload, end + 1, Len(payload))
    IN  IF /\ payload # <<>> /\ end - 1 <= GMCP_PACKAGE_MAX_BYTES /\ gmcp_package_valid(name)
           /\ Len(json) <= GMCP_JSON_MAX_BYTES /\ Text!terminal_text_utf8_valid(json)
        THEN <<name, json>> ELSE <<>>

-----------------------------------------------------------------------------
(* The items one end writes, and the events the other is to see.           *)

Write(item) ==
    CASE item.kind = "data" -> write_telnet_data(item.text)
      [] item.kind = "prompt" -> write_prompt_text(item.text, item.terminal)
      [] item.kind = "option" -> write_telnet_option_raw(item.command, item.option)
      [] item.kind = "sub" -> send_subnegotiation(item.option, item.text)
      [] item.kind = "typed" -> send_terminal_input(item.text)

DataEvents(data) == [i \in DOMAIN data |-> <<"data", data[i]>>]

\* Without the carriage returns that precede a line feed.
Lines(data) ==
    LET shown == SelectSeq([i \in DOMAIN data |-> i],
                           LAMBDA i : ~(/\ data[i] = CR /\ i < Len(data) /\ data[i + 1] = LF))
    IN  [i \in DOMAIN shown |-> data[shown[i]]]

Meant(item) ==
    CASE item.kind \in {"data", "prompt"} -> DataEvents(item.text)
      [] item.kind = "option" -> <<<<"option", item.command, item.option>>>>
      [] item.kind = "sub" -> <<<<"sub", item.option, item.text>>>>
      [] item.kind = "typed" ->
            DataEvents(FlattenSeq([i \in DOMAIN item.text |->
                IF item.text[i] = LF THEN <<CR, LF>> ELSE <<item.text[i]>>]))

Wire(items) == FlattenSeq([i \in DOMAIN items |-> Write(items[i])])

Told(items) == FlattenSeq([i \in DOMAIN items |-> Meant(items[i])])

\* The parser p understood the items: all of them, unless one has no room.
Understood(p, items, room) ==
    IF \E i \in DOMAIN items : items[i].kind = "sub" /\ Len(items[i].text) > room
    THEN p.failed /\ IsPrefix(p.heard, Told(items))
    ELSE ~p.failed /\ p.parser = "DATA" /\ p.heard = Told(items)

\* "Application data always quotes IAC": the events one end takes from the wire
\* are the ones the other end meant, in order, and no byte of a text or payload
\* is taken for a command or for the end of a subnegotiation.
ItemsUnderstood ==
    /\ \A items \in Outputs : Understood(process_server_bytes(Wire(items)), items, SUB_DATA)
    /\ \A items \in Inputs :
          Understood(telnet_session_feed_at(Wire(items)), items, SUBNEGOTIATION_MAX_BYTES)

Terminals == [local_eor : BOOLEAN, local_suppress_go_ahead : BOOLEAN]

\* The lines of an application's text or prompt arrive as they are, each ended
\* by CR LF, whether or not the end of the prompt is marked.
LinesKept ==
    \A text \in Strings, t \in Terminals :
        LET p == process_server_bytes(application_write_prompt(text, t))
            data == [i \in DOMAIN p.heard |-> p.heard[i][2]]
        IN  /\ p.heard = DataEvents(data) /\ Lines(data) = Lines(text)
            /\ \A i \in DOMAIN data : data[i] = LF => i > 1 /\ data[i - 1] = CR

\* A link holds the escapes that begin and end it and no other, and a label
\* that is written without one holds none.
LinksClosed ==
    \A uri, label \in Strings, allowed \in BOOLEAN :
        LET heard == process_server_bytes(application_write_link(uri, label, allowed)).heard
        IN  Len(SelectSeq(heard, LAMBDA event : event = <<"data", ESC>>))
               = IF allowed /\ osc_uri_safe(uri) THEN 4 ELSE 0

\* A GMCP message that is sent fits a buffer like the server's own and reads as
\* the package and JSON it was made of.
GmcpKept ==
    \A package, json \in Strings :
        LET p == telnet_session_feed_at(send_gmcp_message(package, json))
        IN  IF gmcp_refused(package, json) THEN p.heard = <<>>
            ELSE ~p.failed /\ Len(p.heard) = 1 /\ handle_gmcp(p.heard[1][3]) = <<package, json>>

\* The pairs in an MSSP report: names follow the 1s and values the 2s.
Reported(payload) ==
    LET Places(mark) == SelectSeq([i \in DOMAIN payload |-> i], LAMBDA i : payload[i] = mark)
        names == Places(1)
        values == Places(2)
        End(k) == IF k = Len(names) THEN Len(payload) ELSE names[k + 1] - 1
    IN  IF Len(names) # Len(values) THEN <<>>
        ELSE [k \in DOMAIN names |->
                [name |-> SubSeq(payload, names[k] + 1, values[k] - 1),
                 value |-> SubSeq(payload, values[k] + 1, End(k))]]

\* An MSSP report holds the pairs it was made of, whatever the server's name
\* and code base are, and fits; or it is not sent at all.
MsspKept ==
    \A status \in Statuses :
        LET wire == send_mssp_status(status)
            heard == FoldLeft(LAMBDA p, byte : Parse(p, byte, MSSP_PAYLOAD_MAX_BYTES),
                              Fresh, wire).heard
        IN  wire # <<>> => /\ Len(heard) = 1 /\ heard[1][2] = MSSP
                           /\ Reported(heard[1][3]) = MsspPairs(status)

\* All of it, in both directions.
FramingExact == ItemsUnderstood /\ LinesKept /\ LinksClosed /\ GmcpKept /\ MsspKept
=============================================================================
