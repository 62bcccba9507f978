------------------------- MODULE TelnetCapabilities -------------------------
(***************************************************************************)
(* What src/src/telnet_protocol.c learns about the client's terminal, from *)
(* option commands and from NAWS, TERMINAL-TYPE, CHARSET and NEW-ENVIRON   *)
(* subnegotiations, and what it tells the application about it.            *)
(*                                                                         *)
(* A step is one option command or one subnegotiation.  Which options are  *)
(* on is the state TelnetQ negotiates; here a command turns one on or off. *)
(* The terminal is its width, its type, UTF-8 and OSC 8, and the number    *)
(* sent with MTTS is its UTF-8 bit.  Handlers take what they are sent as a *)
(* parameter: Next has it sent by any client, ClientDiscovery by the       *)
(* development client.                                                     *)
(***************************************************************************)
EXTENDS Naturals

CONSTANTS
    Reported,                   \* the widths a client may report
    MIN_TERMINAL_WIDTH, MAX_TERMINAL_WIDTH, DEFAULT_TERMINAL_WIDTH,
    TERMINAL_TYPE_REQUEST_LIMIT

ASSUME CapabilitiesAssumption ==
    /\ Reported \subseteq Nat
    /\ {MIN_TERMINAL_WIDTH, MAX_TERMINAL_WIDTH, TERMINAL_TYPE_REQUEST_LIMIT} \subseteq Nat
    /\ DEFAULT_TERMINAL_WIDTH \in MIN_TERMINAL_WIDTH .. MAX_TERMINAL_WIDTH

Binary == {"local_binary", "remote_binary"}
Option == Binary \cup {"naws", "ttype", "local_charset", "remote_charset", "environ"}

\* What a TERMINAL-TYPE report may say: ANSI or another name, or an MTTS
\* number with or without the UTF-8 bit.
Type == {"ANSI", "TELNET-CLIENT"}
Mtts == {"MTTS", "MTTS_UTF8"}

VARIABLES
    on,                 \* the options that are enabled
    width, terminal_type, utf8_enabled, osc8,   \* session->terminal
    mtts_utf8,          \* TELNET_MTTS_UTF8 of mtts_flags
    charset_utf8, charset_request_sent,
    terminal_type_requests_sent, terminal_type_waiting, last_terminal_type,
    new_environ_requested,
    application,        \* whether the application is open
    seen,               \* what it was last told
    silent              \* history: a report was taken in without telling it

ttype_vars == <<terminal_type_requests_sent, terminal_type_waiting, last_terminal_type>>
charset_vars == <<utf8_enabled, mtts_utf8, charset_utf8, charset_request_sent>>
vars == <<on, width, terminal_type, osc8, ttype_vars, charset_vars,
          new_environ_requested, application, seen, silent>>

Capabilities(w, t, u, o) == [width |-> w, type |-> t, utf8 |-> u, osc8 |-> o]

copy_terminal_capabilities == Capabilities(width, terminal_type, utf8_enabled, osc8)

Init ==
    /\ on = {} /\ width = DEFAULT_TERMINAL_WIDTH /\ terminal_type = "UNKNOWN"
    /\ utf8_enabled = FALSE /\ osc8 = FALSE /\ mtts_utf8 = FALSE
    /\ charset_utf8 = FALSE /\ charset_request_sent = FALSE
    /\ terminal_type_requests_sent = 0 /\ terminal_type_waiting = FALSE
    /\ last_terminal_type = "none" /\ new_environ_requested = FALSE
    /\ application = FALSE /\ seen = copy_terminal_capabilities /\ silent = FALSE

-----------------------------------------------------------------------------
(* The probes, given the state a handler has reached so far.               *)

MayAskType(options, sent, waiting) ==
    /\ ~waiting /\ sent < TERMINAL_TYPE_REQUEST_LIMIT /\ "ttype" \in options

request_terminal_type(options, sent, waiting) ==
    LET ask == MayAskType(options, sent, waiting) IN
    /\ terminal_type_requests_sent' = IF ask THEN sent + 1 ELSE sent
    /\ terminal_type_waiting' = (ask \/ waiting)

request_charset(options, sent) ==
    charset_request_sent' = (sent \/ (Binary \cup {"local_charset"}) \subseteq options)

request_new_environ(options, requested) ==
    new_environ_requested' = (requested \/ "environ" \in options)

\* (mutant) the application is told nothing
notify_nobody == UNCHANGED <<seen, silent>>

notify_application_capabilities ==
    /\ silent' = FALSE
    /\ seen' = IF application
               THEN Capabilities(width', terminal_type', utf8_enabled', osc8')
               ELSE seen

\* A report the application hears of only with the next notification.
Silently == silent' = application /\ UNCHANGED seen

refresh_utf8_metadata == utf8_enabled' = (charset_utf8' \/ mtts_utf8')

\* What follows every option command and every complete NEW-ENVIRON report;
\* the arguments are the state the handler has reached.
update_option_metadata(options, types, waiting, charset, environ) ==
    /\ refresh_utf8_metadata
    /\ request_terminal_type(options, types, waiting)
    /\ request_charset(options, charset)
    /\ request_new_environ(options, environ)
    /\ notify_application_capabilities

-----------------------------------------------------------------------------
\* An option command turns an option on or off, or changes nothing; BINARY is
\* switched both ways together.
Commands == {Binary} \cup {{o} : o \in Option \ Binary}

\* Switching an option off forgets what came through it.
forgets_type(options) == "ttype" \in on \ options

\* The whole handler: resets, cached option state, probes, notification.
receive_telnet_option(options) ==
    LET reset == forgets_type(options)
        charset_off == options \cap {"local_charset", "remote_charset"} = {}
        environ_off == "environ" \in on \ options
    IN  /\ on' = options
        /\ terminal_type' = IF reset THEN "UNKNOWN" ELSE terminal_type
        /\ last_terminal_type' = IF reset THEN "none" ELSE last_terminal_type
        /\ charset_utf8' = (charset_utf8 /\ ~charset_off)
        /\ osc8' = (osc8 /\ ~environ_off)
        /\ UNCHANGED <<width, mtts_utf8, application>>
        /\ update_option_metadata(options,
               IF reset THEN 0 ELSE terminal_type_requests_sent,
               terminal_type_waiting /\ ~reset,
               charset_request_sent /\ "local_charset" \notin on \ options,
               new_environ_requested /\ ~environ_off)

\* A report that nobody has agreed upon is dropped.
IfAgreed(agreed, handled) == IF agreed THEN handled ELSE UNCHANGED vars

clamp_dimension(w) ==
    CASE w = 0 -> DEFAULT_TERMINAL_WIDTH
      [] w \in 1 .. MIN_TERMINAL_WIDTH - 1 -> MIN_TERMINAL_WIDTH
      [] w > MAX_TERMINAL_WIDTH -> MAX_TERMINAL_WIDTH
      [] OTHER -> w

handle_naws(w) ==
    IfAgreed("naws" \in on,
        /\ width' = clamp_dimension(w) /\ Silently
        /\ UNCHANGED <<on, terminal_type, osc8, ttype_vars, charset_vars,
                       new_environ_requested, application>>)

\* The first two answers give the type; MTTS gives flags; a first answer of
\* ANSI, and a repeated one, end the discovery.
handle_terminal_type(reported) ==
    LET first == terminal_type_requests_sent = 1
        stop == (first /\ reported = "ANSI") \/ reported = last_terminal_type
    IN  IfAgreed("ttype" \in on,
        /\ last_terminal_type' = reported
        /\ mtts_utf8' = IF reported \in Mtts THEN reported = "MTTS_UTF8" ELSE mtts_utf8
        /\ terminal_type' = IF reported \notin Mtts /\ terminal_type_requests_sent \in {1, 2}
                            THEN reported ELSE terminal_type
        /\ IF stop
           THEN /\ terminal_type_waiting' = FALSE
                /\ UNCHANGED terminal_type_requests_sent
           ELSE request_terminal_type(on, terminal_type_requests_sent, FALSE)
        /\ UNCHANGED <<charset_utf8, charset_request_sent>>
        /\ refresh_utf8_metadata /\ Silently
        /\ UNCHANGED <<on, width, osc8, new_environ_requested, application>>)

\* A malformed report ends the wait and nothing else.
malformed_terminal_type ==
    IfAgreed("ttype" \in on,
        /\ terminal_type_waiting' = FALSE
        /\ UNCHANGED <<on, width, terminal_type, osc8, terminal_type_requests_sent,
                       last_terminal_type, charset_vars,
                       new_environ_requested, application, seen, silent>>)

\* (mutant) a request that crosses the server's own is rejected
accepts_charset_alone == Binary \subseteq on /\ ~charset_request_sent

\* A request for UTF-8 is accepted while BINARY is on both ways, and otherwise
\* rejected with nothing changed; an answer counts if the server has asked.
accepts_charset == Binary \subseteq on

handle_charset(kind) ==
    IfAgreed(IF kind = "REQUEST" THEN "remote_charset" \in on /\ accepts_charset
                                 ELSE "local_charset" \in on /\ charset_request_sent,
        /\ charset_utf8' = (kind # "REJECTED")
        /\ UNCHANGED <<charset_request_sent, mtts_utf8>>
        /\ refresh_utf8_metadata /\ Silently
        /\ UNCHANGED <<on, width, terminal_type, osc8, ttype_vars,
                       new_environ_requested, application>>)

\* The variables of a NEW-ENVIRON report, in its order; "none" where one is not
\* in it.  CHARSET counts only if it is UTF-8.
apply_new_environ_value(charset, mtts, type, osc) ==
    /\ charset_utf8' = (charset_utf8 \/ charset = "UTF-8")
    /\ mtts_utf8' = IF mtts = "none" THEN mtts_utf8 ELSE mtts = "MTTS_UTF8"
    /\ terminal_type' = IF type = "none" THEN terminal_type ELSE type
    /\ osc8' = IF osc = "none" THEN osc8 ELSE osc = "yes"

Environ ==
    {<<"UTF-8", "none", "none", "none">>}
    \cup {<<"none", m, "none", "none">> : m \in Mtts}
    \cup {<<"none", "none", t, "none">> : t \in Type}
    \cup {<<"none", "none", "none", o>> : o \in {"yes", "no"}}

\* A report that turns out malformed keeps the variables before the error,
\* and skips the update at the end.
handle_new_environ(charset, mtts, type, osc, whole) ==
    IfAgreed("environ" \in on,
        /\ apply_new_environ_value(charset, mtts, type, osc)
        /\ UNCHANGED <<on, width, last_terminal_type, application>>
        /\ IF whole
           THEN update_option_metadata(on, terminal_type_requests_sent, terminal_type_waiting,
                                       charset_request_sent, new_environ_requested)
           ELSE /\ refresh_utf8_metadata /\ Silently
                /\ UNCHANGED <<terminal_type_requests_sent, terminal_type_waiting,
                               charset_request_sent, new_environ_requested>>)

\* enter_game hands the capabilities to application.open.
enter_game ==
    /\ ~application /\ application' = TRUE /\ seen' = copy_terminal_capabilities
    /\ silent' = FALSE
    /\ UNCHANGED <<on, width, terminal_type, osc8, ttype_vars, charset_vars,
                   new_environ_requested>>

\* What any client may send; a NEW-ENVIRON report of several variables is like
\* several reports of one.
Next ==
    \/ \E o \in Commands : \E options \in {on \cup o, on \ o} : receive_telnet_option(options)
    \/ \E w \in Reported : handle_naws(w)
    \/ \E reported \in Type \cup Mtts : handle_terminal_type(reported)
    \/ malformed_terminal_type
    \/ \E kind \in {"REQUEST", "ACCEPTED", "REJECTED"} : handle_charset(kind)
    \/ \E r \in Environ, whole \in BOOLEAN : handle_new_environ(r[1], r[2], r[3], r[4], whole)
    \/ enter_game

Spec == Init /\ [][Next]_vars

-----------------------------------------------------------------------------
\* Every variable has its type.
TypeOK ==
    /\ on \subseteq Option /\ width \in Nat
    /\ terminal_type \in Type \cup {"UNKNOWN"}
    /\ last_terminal_type \in Type \cup Mtts \cup {"none", "UNKNOWN"}
    /\ terminal_type_requests_sent \in Nat
    /\ {utf8_enabled, osc8, mtts_utf8, charset_utf8, charset_request_sent,
        terminal_type_waiting, new_environ_requested, application, silent}
          \subseteq BOOLEAN

\* What the application was told is out of date only in what arrived by NAWS,
\* TERMINAL-TYPE, CHARSET or a malformed NEW-ENVIRON since then.
StaleOnlySilently == application /\ ~silent => seen = copy_terminal_capabilities
=============================================================================
