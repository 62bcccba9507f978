---------------------------- MODULE SecureClient ----------------------------
(***************************************************************************)
(* The development client, src/tools/secure_client.c, logging in to the    *)
(* server of src/src/telnet_protocol.c: its start and its end, the select  *)
(* loop, the signals that arrive between any two of its steps, and the     *)
(* terminal whose echo it turns off while a password is typed.             *)
(*                                                                         *)
(* The negotiation of ECHO is TelnetQ's, run by both ends.  What else      *)
(* travels on the connection is put into the same queues, in order: the    *)
(* server's prompts and its close to the client, typed lines to the        *)
(* server.  `at` is where the client is; "absent" means that there is none *)
(* and that TelnetQ's other connections take TelnetQ's own steps.          *)
(***************************************************************************)
EXTENDS TelnetQ

CONSTANTS
    MaxLines,       \* bound on the lines the player types
    Signals         \* the signals the client may be sent

server == <<"server", "local", "ECHO">>
client == <<"client", "remote", "ECHO">>

\* The client's q_accept_callback answers 1 for the server's ECHO.
ASSUME ClientAssumption ==
    /\ MaxLines \in Nat /\ Signals \subseteq {"SIGINT", "SIGTERM", "SIGWINCH"}
    /\ client \in Accepts

\* What the answer to a prompt is: a password, or a text that may be seen.
Prompt == {"text", "password"}

VARIABLES
    at,                 \* where main is
    terminal_saved,     \* saved_terminal is set and restore_terminal registered
    local_echo_enabled, \* what the client takes the terminal's echo to be
    echo,               \* external: whether the terminal echoes
    armed,              \* signals whose handler is installed
    stop_requested, window_changed,
    missed,             \* history: stop_requested was set between test and select()
    stdin_ready,        \* the keyboard is to be read after the socket
    typed,              \* external: lines in the terminal's input queue
    lines,              \* lines typed so far
    awaited,            \* the server's dialogue: what it waits for, or "closed"
    reply,              \* what its answer to a line still consists of
    prompt,             \* history: the prompt on the screen that is not yet answered,
                        \* until a player is ahead of the prompts
    ahead,              \* history: a line was typed before its prompt was shown
    faulty              \* history: a terminal call of set_local_echo failed

terminal == <<terminal_saved, local_echo_enabled, echo, faulty>>
flags == <<armed, stop_requested, window_changed, missed>>
player == <<typed, lines, prompt, ahead>>
conversation == <<awaited, reply>>
cvars == <<at, terminal, flags, player, conversation, stdin_ready>>
allvars == <<vars, cvars>>

CInit ==
    /\ Init
    /\ at \in {"absent", "start"}
    /\ terminal_saved = FALSE /\ local_echo_enabled = TRUE /\ echo = TRUE
    /\ armed = {} /\ stop_requested = FALSE /\ window_changed = FALSE
    /\ missed = FALSE /\ stdin_ready = FALSE
    /\ typed = 0 /\ lines = 0
    /\ awaited = "name" /\ reply = <<"text">>
    /\ prompt = "none" /\ ahead = FALSE /\ faulty = FALSE

-----------------------------------------------------------------------------
(* The terminal.                                                           *)

\* (mutant) the terminal is not touched again once it has been changed
set_local_echo_once(enabled) ==
    IF terminal_saved /\ local_echo_enabled
    THEN \/ echo' = enabled /\ local_echo_enabled' = enabled /\ UNCHANGED faulty
         \/ faulty' = TRUE /\ UNCHANGED <<echo, local_echo_enabled>>
    ELSE UNCHANGED <<echo, local_echo_enabled, faulty>>

\* tcgetattr and tcsetattr may fail; the echo is then left as it was.
set_local_echo(enabled) ==
    IF terminal_saved /\ local_echo_enabled # enabled
    THEN \/ echo' = enabled /\ local_echo_enabled' = enabled /\ UNCHANGED faulty
         \/ faulty' = TRUE /\ UNCHANGED <<echo, local_echo_enabled>>
    ELSE UNCHANGED <<echo, local_echo_enabled, faulty>>

\* The last tcsetattr is taken to succeed; nothing could be done about it.
restore_terminal == echo' = (echo \/ terminal_saved)

-----------------------------------------------------------------------------
(* Start and end.                                                          *)

\* The client reads nothing more.  The server's session ends with the socket;
\* what is still under way, and what the server still says, reaches nobody.
Disconnect ==
    /\ q' = [s \in Slot |-> telnet_q_init]
    /\ wire' = [s \in Slot |-> <<>>]
    /\ desired' = [s \in Slot |-> FALSE]
    /\ awaited' = "closed" /\ reply' = <<>>

Leave == at' = "cleanup" /\ Disconnect

\* Standard input is not a terminal, or its settings are saved, or they
\* cannot be or restore_terminal cannot be registered.
prepare_terminal ==
    /\ at = "start"
    /\ \/ terminal_saved' \in BOOLEAN /\ at' = "signal"
       \/ at' = "return" /\ UNCHANGED terminal_saved
    /\ UNCHANGED <<vars, local_echo_enabled, echo, faulty, flags, player, conversation,
                   stdin_ready>>

install_handlers ==
    /\ at = "signal" /\ at' = "connect" /\ armed' = {"SIGINT", "SIGTERM", "SIGWINCH"}
    /\ UNCHANGED <<vars, terminal, stop_requested, window_changed, missed, player,
                   conversation, stdin_ready>>

\* Context, socket, handshake and certificate check: every failure ends in
\* cleanup.
connect_tls ==
    /\ at = "connect"
    /\ \/ at' = "loop" /\ UNCHANGED <<vars, conversation>>
       \/ Leave
    /\ UNCHANGED <<terminal, flags, player, stdin_ready>>

cleanup ==
    /\ at = "cleanup" /\ at' = "return"
    /\ set_local_echo(TRUE)
    /\ UNCHANGED <<vars, terminal_saved, flags, player, conversation, stdin_ready>>

\* TLS is shut down, which is bounded in time, the socket is closed, and when
\* main returns exit() runs restore_terminal.
return ==
    /\ at = "return" /\ at' = "exited"
    /\ restore_terminal
    /\ UNCHANGED <<vars, terminal_saved, local_echo_enabled, faulty, flags, player,
                   conversation, stdin_ready>>

-----------------------------------------------------------------------------
(* The loop.                                                               *)

\* (mutant) the loop does not look at stop_requested
loop_top_deaf ==
    /\ at = "loop" /\ window_changed' = FALSE
    /\ \/ at' = "wait" /\ UNCHANGED <<vars, conversation>>
       \/ window_changed /\ Leave
    /\ UNCHANGED <<terminal, armed, stop_requested, missed, player, stdin_ready>>

\* The tests at the top of the loop, and the NAWS report of a resized window.
loop_top ==
    /\ at = "loop"
    /\ \/ stop_requested /\ Leave /\ UNCHANGED window_changed
       \/ /\ ~stop_requested /\ window_changed' = FALSE
          /\ \/ at' = "wait" /\ UNCHANGED <<vars, conversation>>
             \/ window_changed /\ Leave   \* the report cannot be sent
    /\ UNCHANGED <<terminal, armed, stop_requested, missed, player, stdin_ready>>

\* SSL_pending says that there is more, or select() is called.
wait ==
    /\ at = "wait"
    /\ \/ at' = "select"
       \/ wire[client] # <<>> /\ at' = "socket"
    /\ UNCHANGED <<vars, terminal, flags, player, conversation, stdin_ready>>

\* select() has no timeout.
select ==
    /\ at = "select"
    /\ wire[client] # <<>> \/ typed > 0
    /\ IF wire[client] # <<>> THEN at' = "socket" /\ stdin_ready' = (typed > 0)
                              ELSE at' = "stdin" /\ UNCHANGED stdin_ready
    /\ UNCHANGED <<vars, terminal, flags, player, conversation>>

\* One buffer may hold several items; the keyboard is read after the last.
AfterItem ==
    \/ at' = (IF stdin_ready THEN "stdin" ELSE "loop") /\ stdin_ready' = FALSE
    \/ wire'[client] # <<>> /\ at' = "socket" /\ UNCHANGED stdin_ready

\* The echo the terminal gets when ECHO has been switched.
EchoChange == q'[client].state # "YES"

\* The client reads what the server sent: an option command, a prompt, or the
\* end of the connection.
process_server_bytes ==
    /\ at = "socket" /\ wire[client] # <<>>
    /\ \/ /\ Head(wire[client]) \in Command /\ telnet_q_receive(client)
          /\ IF telnet_q_enabled(client) # (q'[client].state = "YES")
             THEN set_local_echo(EchoChange)
             ELSE UNCHANGED <<local_echo_enabled, echo, faulty>>
          /\ AfterItem /\ UNCHANGED <<prompt, conversation>>
       \/ /\ Head(wire[client]) \in Prompt
          /\ prompt' = IF ahead THEN "none" ELSE Head(wire[client])
          /\ Consumes(client) /\ AfterItem
          /\ UNCHANGED <<q, desired, local_echo_enabled, echo, faulty, conversation>>
       \/ /\ Head(wire[client]) = "close" /\ Leave /\ stdin_ready' = FALSE
          /\ UNCHANGED <<local_echo_enabled, echo, faulty, prompt>>
    /\ UNCHANGED <<terminal_saved, flags, typed, lines, ahead>>

\* The record is incomplete, or the connection is broken, or an answer or the
\* screen cannot be written.
read_fails ==
    /\ at = "socket" /\ stdin_ready' = FALSE
    /\ \/ at' = "loop" /\ UNCHANGED <<vars, conversation>>
       \/ Leave
    /\ UNCHANGED <<terminal, flags, player>>

\* One line is read and sent, or it cannot be, or it is the end of the input.
send_terminal_input ==
    /\ at = "stdin"
    /\ \/ /\ typed' = typed - 1 /\ at' = "loop"
          /\ wire' = [wire EXCEPT ![server] = Append(@, "line")]
          /\ UNCHANGED <<q, desired, conversation>>
       \/ Leave /\ UNCHANGED typed
    /\ UNCHANGED <<terminal, flags, lines, prompt, ahead, stdin_ready>>

Client ==
    \/ prepare_terminal \/ install_handlers \/ connect_tls \/ loop_top \/ wait
    \/ select \/ process_server_bytes \/ read_fails \/ send_terminal_input \/ cleanup
    \/ return

-----------------------------------------------------------------------------
(* Signals.  signal() in a C17 program that defines only _POSIX_C_SOURCE   *)
(* installs a handler for one delivery: the next one meets the default.    *)

Gone == at \in {"exited", "killed"}

\* A handler sets its flag and interrupts select().
handler(signal) ==
    /\ signal \in armed /\ armed' = armed \ {signal}
    /\ at' = IF at = "select" THEN "loop" ELSE at
    /\ UNCHANGED <<vars, terminal, conversation>>

request_stop(signal) ==
    /\ handler(signal) /\ stop_requested' = TRUE
    /\ missed' = (missed \/ at = "wait")
    /\ UNCHANGED window_changed

note_window_change ==
    /\ handler("SIGWINCH") /\ window_changed' = TRUE
    /\ UNCHANGED <<stop_requested, missed>>

default_action(signal) ==
    /\ signal \notin armed /\ at' = "killed" /\ Disconnect
    /\ UNCHANGED <<terminal, armed, stop_requested, window_changed, missed>>

Signal ==
    /\ at # "absent" /\ ~Gone
    /\ \/ \E signal \in Signals \ {"SIGWINCH"} : request_stop(signal) \/ default_action(signal)
       \/ "SIGWINCH" \in Signals /\ note_window_change
    /\ UNCHANGED <<player, stdin_ready>>

-----------------------------------------------------------------------------
(* The player, who may type before being asked.                            *)

Running == at \in {"loop", "wait", "select", "socket", "stdin"}

type ==
    /\ Running /\ lines < MaxLines
    /\ typed' = typed + 1 /\ lines' = lines + 1
    /\ ahead' = (ahead \/ prompt = "none") /\ prompt' = "none"
    /\ UNCHANGED <<vars, at, terminal, flags, conversation, stdin_ready>>

-----------------------------------------------------------------------------
(* The server's login dialogue, as far as ECHO and the prompts go.         *)

\* (mutant) the prompt is written before the echo is suppressed
Answer_prompt_first ==
    \/ /\ awaited = "name"
       /\ \/ awaited' = "name" /\ reply' = <<"text">>
          \/ awaited' = "password" /\ reply' = <<"password", "off">>
    \/ /\ awaited = "password"
       /\ \/ awaited' = "password" /\ reply' = <<"password">>
          \/ awaited' \in {"name", "game"} /\ reply' = <<"on", "text">>
          \/ awaited' = "password" /\ reply' = <<"close">>
    \/ /\ awaited = "game" /\ awaited' = "game" /\ reply' \in {<<"text">>, <<"close">>}

\* What a line leads to: the same prompt again, the password, back to the
\* name when no account could be created, the game, or the end.
Answer ==
    \/ /\ awaited = "name"
       /\ \/ awaited' = "name" /\ reply' = <<"text">>
          \/ awaited' = "password" /\ reply' = <<"off", "password">>
    \/ /\ awaited = "password"
       /\ \/ awaited' = "password" /\ reply' = <<"password">>
          \/ awaited' \in {"name", "game"} /\ reply' = <<"on", "text">>
          \/ awaited' = "password" /\ reply' = <<"close">>
    \/ /\ awaited = "game" /\ awaited' = "game" /\ reply' \in {<<"text">>, <<"close">>}

server_read ==
    /\ awaited # "closed" /\ reply = <<>> /\ wire[server] # <<>>
    /\ \/ Head(wire[server]) \in Command /\ telnet_q_receive(server) /\ UNCHANGED conversation
       \/ Head(wire[server]) = "line" /\ Consumes(server) /\ Answer /\ UNCHANGED <<q, desired>>

server_write ==
    /\ reply # <<>> /\ reply' = Tail(reply)
    /\ \/ /\ Head(reply) \in {"off", "on"} /\ telnet_q_request(server, Head(reply) = "off")
          /\ UNCHANGED awaited
       \/ /\ Head(reply) \in Prompt \cup {"close"}
          /\ wire' = [wire EXCEPT ![client] = Append(@, Head(reply))]
          /\ awaited' = IF Head(reply) = "close" THEN "closed" ELSE awaited
          /\ UNCHANGED <<q, desired>>

\* A deadline of the worker.
server_deadline ==
    /\ awaited # "closed" /\ reply = <<>> /\ awaited' = "closed"
    /\ wire' = [wire EXCEPT ![client] = Append(@, "close")]
    /\ UNCHANGED <<q, desired, reply>>

Server ==
    /\ Running /\ (server_read \/ server_write)
    /\ UNCHANGED <<at, terminal, flags, player, stdin_ready>>

Deadline ==
    /\ Running /\ server_deadline
    /\ UNCHANGED <<at, terminal, flags, player, stdin_ready>>

-----------------------------------------------------------------------------
Others == at = "absent" /\ Next /\ UNCHANGED cvars

OthersReceive == at = "absent" /\ (\E s \in Ours : telnet_q_receive(s)) /\ UNCHANGED cvars

Done == Gone /\ UNCHANGED allvars

CNext == Client \/ Signal \/ type \/ Server \/ Deadline \/ Others \/ Done

\* Both processes are scheduled, and a record that has been sent is complete
\* some day.  No player is obliged to type and no deadline to be near.
CSpec ==
    /\ CInit /\ [][CNext]_allvars
    /\ WF_allvars(Client) /\ SF_allvars(process_server_bytes) /\ WF_allvars(Server)
    /\ WF_allvars(OthersReceive)

-----------------------------------------------------------------------------
\* Every variable has its type.
CTypeOK ==
    /\ at \in {"absent", "start", "signal", "connect", "loop", "wait", "select", "socket",
               "stdin", "cleanup", "return", "exited", "killed"}
    /\ {terminal_saved, local_echo_enabled, echo, stop_requested, window_changed, missed,
        stdin_ready, ahead, faulty} \subseteq BOOLEAN
    /\ armed \subseteq {"SIGINT", "SIGTERM", "SIGWINCH"}
    /\ typed \in 0 .. MaxLines /\ lines \in 0 .. MaxLines
    /\ awaited \in {"name", "password", "game", "closed"} /\ prompt \in Prompt \cup {"none"}
    /\ reply \in Seq(Prompt \cup {"on", "off", "close"})

\* A password prompt on the screen means that the terminal no longer echoes
\* ("hides password input when ECHO is negotiated"), for a player who answers
\* each prompt when it is shown: WILL ECHO is sent before the prompt, and no
\* earlier command about ECHO is left to overtake it.
PasswordHidden ==
    Running /\ terminal_saved /\ ~faulty /\ ~ahead /\ prompt = "password" => ~echo

\* However far ahead a player types, the echo ends up where the dialogue
\* wants it: off while the server waits for a password, on otherwise.
EchoSettles ==
    <>[](Running /\ terminal_saved /\ ~faulty => (echo <=> awaited # "password"))

\* The client ends when the server has closed the connection, and when it was
\* told to stop, unless the signal came after the test of stop_requested and
\* before select(); and if no second signal kills it, the terminal echoes
\* again, even where set_local_echo could not see to it.
ClientEnds ==
    LET Ended == at = "killed" \/ (at = "exited" /\ echo)
    IN  /\ awaited = "closed" ~> Ended
        /\ stop_requested /\ ~missed ~> Ended
=============================================================================
