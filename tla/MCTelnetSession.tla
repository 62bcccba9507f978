--------------------------- MODULE MCTelnetSession ---------------------------
(* Instance of TelnetSession with two names and small limits, of            *)
(* RateWindow with every sequence of up to four calls, and of TelnetFraming *)
(* with up to two items of the bytes that mean something to a parser.       *)
EXTENDS TelnetSession, RateWindow

CONSTANTS ann, bob

\* The clock moves on by nothing, nearly a window, or a window before each
\* call, and cannot be read at one of them, or at none.
MCCalls ==
    LET Steps == {0, window_ms - 1, window_ms} \X (1 .. limit + 1)
        Elapsed(steps, i) == MapThenSumSet(LAMBDA j : steps[j][1], 1 .. i)
    IN  {[i \in DOMAIN steps |->
            [now_ms |-> IF i = unread THEN 0 ELSE 1 + Elapsed(steps, i),
             amount |-> steps[i][2]]] :
            steps \in UNION {[1 .. n -> Steps] : n \in 0 .. 4}, unread \in 0 .. 4}

Bytes(S, longest) == UNION {[1 .. n -> S] : n \in 0 .. longest}

\* IAC, SB and SE, and a letter; payloads may be longer than the client's room.
MCItems(data) ==
    data \cup [kind : {"option"}, command : {251, 254}, option : {1, 255}]
         \cup [kind : {"sub"}, option : {201}, text : Bytes({255, 250, 240, 65}, 3)]

MCOutputs ==
    LET Prompt == [kind : {"prompt"}, text : Bytes({255, 65}, 1),
                   terminal : [local_eor : BOOLEAN, local_suppress_go_ahead : BOOLEAN]]
        Data == [kind : {"data"}, text : Bytes({255, 250, 240, 65}, 2)]
    IN  Bytes(MCItems(Data \cup Prompt), 2)

MCInputs == Bytes(MCItems([kind : {"typed"}, text : Bytes({255, 240, 10, 65}, 2)]), 2)

\* With CR and LF, ESC, blank and DEL, and the bytes of U+009C.
MCStrings == Bytes({255, 10, 27, 32, 65, 127, 194, 156}, 2) \cup Bytes({13, 10, 65}, 3)

MCStatuses ==
    [name : Bytes({1, 65}, 1), codebase : {<<>>, <<255>>, <<56>>, <<65, 65>>},
     players : {0, 10}, uptime : {9}, telnet_port : {0, 1}, telnet_tls_port : {0, 1}]

Framing ==
    INSTANCE TelnetFraming
    WITH SUBNEGOTIATION_MAX_BYTES <- 3, SUB_DATA <- 2, GMCP_PACKAGE_MAX_BYTES <- 1,
         GMCP_JSON_MAX_BYTES <- 1, MSSP_PAYLOAD_MAX_BYTES <- 23, LABEL <- 2,
         Outputs <- MCOutputs, Inputs <- MCInputs, Strings <- MCStrings, Statuses <- MCStatuses

\* The two ends understand each other's bytes, whatever texts and payloads
\* hold (stated, like the windows, of the state a session is created in).
FramingExact == session = "created" => Framing!FramingExact

\* Every limit of a session is kept: those of its buffers and counts at all
\* times, and those of its windows for every sequence of calls (stated of the
\* state it is created in, as no step changes what the windows compute).
LimitsHold == StateBounded /\ (session = "created" => RatesBounded)
=============================================================================
