-------------------------- MODULE ClientDiscovery ---------------------------
(***************************************************************************)
(* Capability discovery between the server, TelnetCapabilities, and the    *)
(* development client of src/tools/secure_client.c: the options the server *)
(* offers when the session starts, the probes it sends as they are agreed  *)
(* upon, the client's answers and its own CHARSET request, and window      *)
(* sizes that change meanwhile.  Each direction of the connection is a     *)
(* queue of messages, tuples that begin with their kind.  An option is     *)
(* requested and agreed to by an "OPTION" each way: the commands for it    *)
(* are TelnetQ's.                                                          *)
(*                                                                         *)
(* With another peer the server takes TelnetCapabilities' own steps.       *)
(***************************************************************************)
EXTENDS TelnetCapabilities, Sequences

CONSTANTS
    Windows,        \* the widths the client's window may have, 0 where unknown
    MaxResizes      \* bound on how often it changes

ASSUME DiscoveryAssumption == Windows \subseteq Nat /\ MaxResizes \in Nat

VARIABLES
    peer,                   \* "client", or "other"
    to_client, to_server,   \* what is under way
    agreed,                 \* the options the client has agreed upon
    client_utf8,            \* its utf8_enabled
    charset_requested, ttype_requests_received,
    term,                   \* its $TERM, upper case
    window,                 \* external: the width of its window
    window_changed,
    armed,                  \* the handler of SIGWINCH is installed
    resizes,
    unnoticed               \* history: a change after the handler was used up

dvars == <<to_client, to_server, agreed, client_utf8, charset_requested,
           ttype_requests_received, term, window, window_changed, armed, resizes, unnoticed>>
allvars == <<vars, peer, dvars>>

\* The order in which the server offers and requests options.
negotiate_operational_options ==
    <<"local_binary", "remote_binary", "naws", "ttype", "local_charset", "remote_charset",
      "environ">>

Offers == [i \in DOMAIN negotiate_operational_options |->
               <<"OPTION", negotiate_operational_options[i]>>]

DInit ==
    /\ Init
    /\ peer \in {"client", "other"}
    /\ to_client = IF peer = "client" THEN Offers ELSE <<>>
    /\ to_server = <<>> /\ agreed = {} /\ client_utf8 = FALSE
    /\ charset_requested = FALSE /\ ttype_requests_received = 0
    /\ term \in IF peer = "client" THEN Type \cup {"UNKNOWN"} ELSE {"UNKNOWN"}
    /\ window \in IF peer = "client" THEN Windows ELSE {0}
    /\ window_changed = FALSE /\ armed = TRUE /\ resizes = 0 /\ unnoticed = FALSE

-----------------------------------------------------------------------------
(* The client.                                                             *)

\* An unknown size is reported as 80 columns.
send_window_size ==
    IF "naws" \notin agreed' THEN <<>>
    ELSE <<<<"NAWS", IF window = 0 THEN DEFAULT_TERMINAL_WIDTH ELSE window>>>>

maybe_request_utf8 ==
    /\ ~charset_requested /\ (Binary \cup {"remote_charset"}) \subseteq agreed'

\* (mutant) the window is reported only when it changes
client_option_silent(o) ==
    /\ agreed' = agreed \cup {o}
    /\ charset_requested' = (charset_requested \/ maybe_request_utf8)
    /\ to_server' = to_server \o <<<<"OPTION", o>>>>
                    \o (IF maybe_request_utf8 THEN <<<<"CHARSET", "REQUEST">>>> ELSE <<>>)
    /\ UNCHANGED <<client_utf8, ttype_requests_received>>

\* An option: it is agreed upon, and with it the window is reported and UTF-8
\* requested, as soon as that can be done.
client_option(o) ==
    /\ agreed' = agreed \cup {o}
    /\ charset_requested' = (charset_requested \/ maybe_request_utf8)
    /\ to_server' = to_server \o <<<<"OPTION", o>>>>
                    \o (IF o = "naws" /\ o \notin agreed THEN send_window_size ELSE <<>>)
                    \o (IF maybe_request_utf8 THEN <<<<"CHARSET", "REQUEST">>>> ELSE <<>>)
    /\ UNCHANGED <<client_utf8, ttype_requests_received>>

\* The answers to TERMINAL-TYPE SEND: a name, $TERM, then always the same.
send_terminal_type ==
    CASE ttype_requests_received' = 1 -> "TELNET-CLIENT"
      [] ttype_requests_received' = 2 -> term
      [] OTHER -> "MTTS_UTF8"

send_new_environ ==
    <<"ENVIRON", IF client_utf8 THEN "UTF-8" ELSE "ASCII",
      IF client_utf8 THEN "MTTS_UTF8" ELSE "MTTS", term>>

Answers(m) == to_server' = Append(to_server, m)

client_charset(kind) ==
    /\ IF kind = "REQUEST" THEN Answers(<<"CHARSET", "ACCEPTED">>) ELSE UNCHANGED to_server
    /\ client_utf8' = (kind \in {"REQUEST", "ACCEPTED"})
    /\ UNCHANGED <<agreed, charset_requested, ttype_requests_received>>

\* A probe is answered if its option has been agreed upon.
Expected(m) ==
    CASE m[1] = "SEND TYPE" -> "ttype" \in agreed
      [] m[1] = "SEND ENVIRON" -> "environ" \in agreed
      [] OTHER -> m[2] = "REQUEST" => "local_charset" \in agreed

handle_subnegotiation(m) ==
    IF ~Expected(m)
    THEN UNCHANGED <<to_server, agreed, client_utf8, charset_requested,
                     ttype_requests_received>>
    ELSE \/ /\ m[1] = "SEND TYPE"
            /\ ttype_requests_received' = ttype_requests_received + 1
            /\ Answers(<<"TYPE", send_terminal_type>>)
            /\ UNCHANGED <<agreed, client_utf8, charset_requested>>
         \/ m[1] = "CHARSET" /\ client_charset(m[2])
         \/ /\ m[1] = "SEND ENVIRON" /\ Answers(send_new_environ)
            /\ UNCHANGED <<agreed, client_utf8, charset_requested,
                           ttype_requests_received>>

process_server_bytes ==
    /\ to_client # <<>> /\ to_client' = Tail(to_client)
    /\ LET m == Head(to_client) IN
       \/ m[1] = "OPTION" /\ client_option(m[2])
       \/ m[1] # "OPTION" /\ handle_subnegotiation(m)
    /\ UNCHANGED <<vars, term, window, window_changed, armed, resizes, unnoticed>>

\* The top of the client's loop.
report_window ==
    /\ window_changed /\ window_changed' = FALSE /\ UNCHANGED agreed
    /\ to_server' = to_server \o send_window_size
    /\ UNCHANGED <<vars, to_client, client_utf8, charset_requested,
                   ttype_requests_received, term, window, armed, resizes, unnoticed>>

\* The window changes, and SIGWINCH is delivered; its handler is good for one
\* delivery.
resize ==
    /\ resizes < MaxResizes /\ resizes' = resizes + 1
    /\ window' \in Windows \ {window}
    /\ window_changed' = (window_changed \/ armed) /\ armed' = FALSE
    /\ unnoticed' = (unnoticed \/ ~armed)
    /\ UNCHANGED <<vars, to_client, to_server, agreed, client_utf8, charset_requested,
                   ttype_requests_received, term>>

-----------------------------------------------------------------------------
(* The server.                                                             *)

\* The probes a handler has sent.
Probes ==
    (IF terminal_type_requests_sent' > terminal_type_requests_sent
     THEN <<<<"SEND TYPE">>>> ELSE <<>>)
    \o (IF charset_request_sent' /\ ~charset_request_sent
        THEN <<<<"CHARSET", "REQUEST">>>> ELSE <<>>)
    \o (IF new_environ_requested' /\ ~new_environ_requested
        THEN <<<<"SEND ENVIRON">>>> ELSE <<>>)

\* The answer to a CHARSET request.
CharsetAnswer(kind) ==
    IF kind # "REQUEST" \/ "remote_charset" \notin on THEN <<>>
    ELSE <<<<"CHARSET", IF accepts_charset THEN "ACCEPTED" ELSE "REJECTED">>>>

telnet_session_receive ==
    /\ to_server # <<>> /\ to_server' = Tail(to_server)
    /\ LET m == Head(to_server) IN
       \/ /\ \/ m[1] = "OPTION" /\ receive_telnet_option(on \cup {m[2]})
             \/ m[1] = "NAWS" /\ handle_naws(m[2])
             \/ m[1] = "TYPE" /\ handle_terminal_type(m[2])
             \/ m[1] = "ENVIRON" /\ handle_new_environ(m[2], m[3], m[4], "none", TRUE)
          /\ to_client' = to_client \o Probes
       \/ /\ m[1] = "CHARSET" /\ handle_charset(m[2])
          /\ to_client' = to_client \o CharsetAnswer(m[2])
    /\ UNCHANGED <<agreed, client_utf8, charset_requested, ttype_requests_received, term,
                   window, window_changed, armed, resizes, unnoticed>>

login == enter_game /\ UNCHANGED dvars

-----------------------------------------------------------------------------
Exchange == process_server_bytes \/ report_window \/ telnet_session_receive

DNext ==
    /\ UNCHANGED peer
    /\ \/ peer = "client" /\ (Exchange \/ resize \/ login)
       \/ peer = "other" /\ Next /\ UNCHANGED dvars

\* Both processes read what they are sent.
DSpec ==
    /\ DInit /\ [][DNext]_allvars
    /\ WF_allvars(UNCHANGED peer /\ peer = "client" /\ Exchange)

Quiet == to_client = <<>> /\ to_server = <<>> /\ ~window_changed

\* Text the server sends as UTF-8, once CHARSET has been agreed upon, finds the
\* client decoding UTF-8 when it gets there: the client has switched, or the
\* acceptance is ahead of the text.
Utf8Agreed ==
    peer = "client" /\ charset_utf8 =>
        client_utf8 \/ \E i \in DOMAIN to_client : to_client[i] = <<"CHARSET", "ACCEPTED">>

\* However requests, answers and resizes cross, the discovery ends, and then
\* both ends are on UTF-8 and the server knows the terminal and every size
\* the client noticed.
DiscoverySettles ==
    peer = "client" ~>
        /\ Quiet /\ on = Option /\ charset_utf8 /\ client_utf8
        /\ terminal_type = term
        /\ ~unnoticed => width = clamp_dimension(window)

\* A size that NAWS reported has reached the application when nothing more is
\* under way: "Capability changes can be delivered later as NAWS, NEW-ENVIRON,
\* or SSH window/PTY information changes."
NawsDelivered == peer = "client" /\ application /\ Quiet => seen.width = width
=============================================================================
