----------------------------- MODULE SshSession -----------------------------
(***************************************************************************)
(* One SSH worker: src/src/ssh_transport.c, from the accepted descriptor   *)
(* to its release.                                                         *)
(*                                                                         *)
(* At "setup" the worker is in the key exchange and at "poll" in           *)
(* ssh_event_dopoll, where libssh runs the callbacks, one step each.  Both *)
(* return no later than `due`.  Input is one byte class per step; what a   *)
(* name or password is, what the store, policy and application answer, and *)
(* whether a rate limit is hit is a free choice.                           *)
(***************************************************************************)
EXTENDS Naturals

CONSTANTS
    Name, None,
    SSH_INPUT_LINE_MAX, SSH_AUTH_TIMEOUT, SSH_IDLE_TIMEOUT, SSH_SESSION_MAX,
    SSH_EVENT_TICK,
    WORK,       \* how long the callbacks of one dopoll may take
    KEX         \* external: how long libssh lets a key exchange take

\* SSH_AUTH_TIMEOUT_MS is two minutes and SSH_IDLE_TIMEOUT_MS fifteen: a shell
\* may be asked for as late as the first after the last activity.
ASSUME SshAssumption ==
    /\ None \notin Name
    /\ {SSH_INPUT_LINE_MAX, SSH_IDLE_TIMEOUT, SSH_SESSION_MAX, WORK, KEX} \subseteq Nat
    /\ {SSH_AUTH_TIMEOUT, SSH_EVENT_TICK} \subseteq Nat \ {0}
    /\ SSH_AUTH_TIMEOUT <= SSH_IDLE_TIMEOUT

VARIABLES
    now, due,
    at,                 \* "setup", "poll", "checks", "cleanup" or "done"
    connected_ms, authenticated_ms, last_activity_ms,
    authenticated, account_name,
    proved,             \* history: the account whose password was verified
    channel,            \* "none", "open" or "ended"
    shell_started, application, close_requested, write_failed,
    line_length, pending_cr, escape_state,
    fd_attached_to_session,
    fd_closes,          \* history: how often client_fd has been closed
    opens,              \* history: how often application.open was called
    heard_after_failure \* history: a line was delivered after a failed write

times == <<connected_ms, authenticated_ms, last_activity_ms>>
login == <<authenticated, account_name, proved>>
input == <<line_length, pending_cr, escape_state>>
fd_vars == <<fd_attached_to_session, fd_closes>>
app_vars == <<shell_started, application, opens>>
ssh_vars == <<now, due, at, times, login, channel, app_vars, close_requested,
          write_failed, input, fd_vars, heard_after_failure>>

SshInit ==
    /\ now = 0 /\ due = KEX /\ at = "setup"
    /\ connected_ms = 0 /\ authenticated_ms = 0 /\ last_activity_ms = 0
    /\ authenticated = FALSE /\ account_name = None /\ proved = None
    /\ channel = "none" /\ shell_started = FALSE /\ application = "none"
    /\ close_requested = FALSE /\ write_failed = FALSE
    /\ line_length = 0 /\ pending_cr = FALSE /\ escape_state = 0
    /\ fd_attached_to_session = FALSE /\ fd_closes = 0 /\ opens = 0
    /\ heard_after_failure = FALSE

Go(place, d) == at' = place /\ due' = now + d

\* (mutant) a failed key exchange is tried again
setup_ssh_session_retries ==
    /\ at = "setup"
    /\ \/ Go("setup", 0) /\ fd_attached_to_session' \in BOOLEAN
       \/ Go("poll", SSH_EVENT_TICK + WORK) /\ fd_attached_to_session' = TRUE
    /\ UNCHANGED <<times, login, channel, app_vars, close_requested, write_failed,
                   input, fd_closes, heard_after_failure>>

\* Anything up to ssh_bind_accept_fd may fail, then the key exchange or the
\* event loop may.
setup_ssh_session ==
    /\ at = "setup"
    /\ \/ Go("cleanup", 0) /\ fd_attached_to_session' \in BOOLEAN
       \/ Go("poll", SSH_EVENT_TICK + WORK) /\ fd_attached_to_session' = TRUE
    /\ UNCHANGED <<times, login, channel, app_vars, close_requested, write_failed,
                   input, fd_closes, heard_after_failure>>

-----------------------------------------------------------------------------
(* Callbacks. *)

\* A failed write is remembered, and nothing is written after it.
channel_write_all == write_failed' \in IF channel = "none" THEN {write_failed}
                                       ELSE {write_failed, TRUE}

\* A hook may write and may ask to close.
hook ==
    /\ channel_write_all
    /\ close_requested' \in {close_requested, TRUE}

\* (mutant) a second password may be tried after the first was accepted
password_auth_again ==
    \E user \in Name :
        /\ proved' = user /\ authenticated' = TRUE
        /\ account_name' = IF authenticated THEN account_name ELSE user
        /\ authenticated_ms' = now /\ last_activity_ms' = now

\* A denied request changes nothing.
password_auth ==
    \E user \in Name :
        /\ ~authenticated
        /\ proved' = user /\ authenticated' = TRUE /\ account_name' = user
        /\ authenticated_ms' = now /\ last_activity_ms' = now

password_auth_callback ==
    /\ password_auth
    /\ UNCHANGED <<connected_ms, channel, app_vars, close_requested, write_failed,
                   input, heard_after_failure>>

session_channel_callback ==
    /\ authenticated /\ channel = "none" /\ channel' = "open"
    /\ UNCHANGED <<times, login, app_vars, close_requested, write_failed, input,
                   heard_after_failure>>

\* PTY, window and environment requests set capabilities and tell an open
\* application; exec and subsystem requests are refused.
capability_callback ==
    /\ channel = "open" /\ application = "open" /\ hook
    /\ UNCHANGED <<times, login, channel, app_vars, input, heard_after_failure>>

\* The application may decline the player.
shell_request_callback ==
    /\ channel = "open" /\ authenticated /\ ~shell_started
    /\ shell_started' = TRUE /\ opens' = opens + 1 /\ channel_write_all
    /\ \/ application' = "open" /\ close_requested' \in {close_requested, TRUE}
       \/ UNCHANGED application /\ close_requested' = TRUE
    /\ UNCHANGED <<times, login, channel, input, heard_after_failure>>

\* (mutant) the echo of the line end may fail unnoticed
complete_line_anyway(byte) ==
    /\ line_length' = 0 /\ pending_cr' = (byte = "CR") /\ hook
    /\ heard_after_failure' = (heard_after_failure \/ write_failed)

\* The line end is echoed first; if that fails the line is not delivered.  A
\* line flood closes before the line is looked at.
complete_line(byte) ==
    \/ /\ write_failed' = TRUE /\ pending_cr' = FALSE
       /\ UNCHANGED <<line_length, close_requested, heard_after_failure>>
    \/ /\ ~write_failed /\ channel_write_all
       /\ close_requested' = TRUE /\ pending_cr' = FALSE
       /\ UNCHANGED <<line_length, heard_after_failure>>
    \/ /\ ~write_failed /\ line_length' = 0 /\ pending_cr' = (byte = "CR") /\ hook
       /\ heard_after_failure' = (heard_after_failure \/ write_failed)

\* CR and LF end a line, except LF right after CR.
line_end(byte) ==
    \/ /\ byte = "LF" /\ pending_cr /\ pending_cr' = FALSE
       /\ UNCHANGED <<line_length, close_requested, write_failed, heard_after_failure>>
    \/ (byte = "CR" \/ ~pending_cr) /\ complete_line(byte)

put_byte ==
    IF line_length >= SSH_INPUT_LINE_MAX
    THEN close_requested' = TRUE /\ UNCHANGED line_length
    ELSE line_length' = line_length + 1 /\ UNCHANGED close_requested

\* Erasing takes a whole UTF-8 character.
edit(byte) ==
    \/ /\ byte = "text" /\ put_byte /\ channel_write_all
    \/ /\ byte = "erase" /\ line_length > 0
       /\ line_length' \in 0 .. line_length - 1
       /\ channel_write_all /\ UNCHANGED close_requested
    \/ /\ byte = "control" \/ (byte = "erase" /\ line_length = 0)
       /\ UNCHANGED <<line_length, write_failed, close_requested>>

\* Escape sequences are swallowed: ESC, then [ or O, then a final byte.
escape(byte) ==
    /\ \/ escape_state = 0 /\ escape_state' = 1
       \/ escape_state = 1 /\ escape_state' = IF byte = "bracket" THEN 2 ELSE 0
       \/ escape_state = 2 /\ byte \in {"text", "bracket"} /\ escape_state' = 0
       \/ escape_state = 2 /\ byte # "bracket" /\ escape_state' = 2
    /\ UNCHANGED <<line_length, close_requested, write_failed>>

\* Control-D closes at once, also inside an escape sequence.
handle_input_byte(byte) ==
    \/ byte \in {"CR", "LF"} /\ line_end(byte) /\ UNCHANGED escape_state
    \/ /\ byte = "eot" /\ close_requested' = TRUE /\ pending_cr' = FALSE
       /\ UNCHANGED <<line_length, escape_state, write_failed, heard_after_failure>>
    \/ /\ byte \notin {"CR", "LF", "eot"}
       /\ escape_state # 0 \/ byte = "ESC"
       /\ escape(byte) /\ pending_cr' = FALSE /\ UNCHANGED heard_after_failure
    \/ /\ byte \in {"text", "bracket", "erase", "control"} /\ escape_state = 0
       /\ edit(IF byte = "bracket" THEN "text" ELSE byte)
       /\ pending_cr' = FALSE /\ UNCHANGED <<escape_state, heard_after_failure>>

Byte == {"text", "bracket", "erase", "control", "ESC", "eot", "CR", "LF"}

\* One byte of input, or a flood; no byte is looked at once a close has been
\* asked for.
channel_data_callback ==
    /\ channel = "open" /\ shell_started /\ application = "open"
    /\ \/ /\ close_requested' = TRUE
          /\ UNCHANGED <<last_activity_ms, input, write_failed, heard_after_failure>>
       \/ /\ ~close_requested /\ last_activity_ms' = now
          /\ \E byte \in Byte : handle_input_byte(byte)
    /\ UNCHANGED <<connected_ms, authenticated_ms, login, channel, app_vars>>

channel_close_callback ==
    /\ channel = "open" /\ channel' = "ended" /\ close_requested' = TRUE
    /\ UNCHANGED <<times, login, app_vars, write_failed, input, heard_after_failure>>

Callback ==
    /\ at = "poll"
    /\ \/ password_auth_callback \/ session_channel_callback \/ capability_callback
       \/ shell_request_callback \/ channel_data_callback \/ channel_close_callback
    /\ UNCHANGED <<now, due, at, fd_vars>>

-----------------------------------------------------------------------------
(* The event loop. *)

\* ssh_event_dopoll returns, with an error if the connection is lost.
dopoll_returns ==
    /\ at = "poll"
    /\ Go("checks", 0) \/ Go("cleanup", 0)
    /\ UNCHANGED <<times, login, channel, app_vars, close_requested, write_failed,
                   input, fd_vars, heard_after_failure>>

\* (mutant) waiting for the shell has no deadline
Expired_without_shell ==
    \/ ~authenticated /\ now - connected_ms >= SSH_AUTH_TIMEOUT
    \/ shell_started /\ now - last_activity_ms >= SSH_IDLE_TIMEOUT

Expired ==
    \/ ~authenticated /\ now - connected_ms >= SSH_AUTH_TIMEOUT
    \/ authenticated /\ ~shell_started /\ now - authenticated_ms >= SSH_AUTH_TIMEOUT
    \/ shell_started /\ now - last_activity_ms >= SSH_IDLE_TIMEOUT

\* The tests after dopoll in order: deadlines, the application's poll, the
\* session limit, the state of the channel; then the loop condition.
checks ==
    /\ at = "checks"
    /\ \/ /\ Expired /\ Go("cleanup", 0) /\ UNCHANGED close_requested
          /\ IF shell_started THEN channel_write_all ELSE UNCHANGED write_failed
       \/ /\ ~Expired
          /\ IF application = "open" THEN hook ELSE UNCHANGED <<write_failed, close_requested>>
          /\ IF \/ now - connected_ms >= SSH_SESSION_MAX
                \/ channel = "ended"
                \/ close_requested'
             THEN Go("cleanup", 0)
             ELSE Go("poll", SSH_EVENT_TICK + WORK)
    /\ UNCHANGED <<times, login, channel, app_vars, input, fd_vars, heard_after_failure>>

\* ssh_free closes a descriptor that was handed over.
ssh_free == IF fd_attached_to_session THEN 1 ELSE 0

\* (mutant) the worker closes the descriptor whoever owns it
close_always == 1

close == IF fd_attached_to_session THEN 0 ELSE 1

cleanup_ssh_connection ==
    /\ at = "cleanup" /\ Go("done", 0)
    /\ application' = IF application = "open" THEN "closed" ELSE application
    /\ fd_closes' = fd_closes + ssh_free + close
    /\ UNCHANGED <<times, login, channel, shell_started, opens, close_requested,
                   write_failed, input, fd_attached_to_session, heard_after_failure>>

tick ==
    /\ now < due /\ now' = now + 1
    /\ UNCHANGED <<due, at, times, login, channel, app_vars, close_requested,
                   write_failed, input, fd_vars, heard_after_failure>>

Loop ==
    /\ setup_ssh_session \/ dopoll_returns \/ checks \/ cleanup_ssh_connection
    /\ UNCHANGED now

Done == at = "done" /\ UNCHANGED ssh_vars

SshNext == Callback \/ Loop \/ tick \/ Done

\* The worker is scheduled, and a dopoll that may last does again and again.
SshSpec == SshInit /\ [][SshNext]_ssh_vars /\ WF_ssh_vars(Loop) /\ SF_ssh_vars(tick)

-----------------------------------------------------------------------------
\* Every variable has its type, and a line fits SSH_INPUT_LINE_MAX.
SshTypeOK ==
    /\ now \in Nat /\ due \in Nat /\ now <= due
    /\ at \in {"setup", "poll", "checks", "cleanup", "done"}
    /\ {connected_ms, authenticated_ms, last_activity_ms} \subseteq 0 .. now
    /\ {authenticated, shell_started, close_requested, write_failed, pending_cr,
        fd_attached_to_session, heard_after_failure} \subseteq BOOLEAN
    /\ account_name \in Name \cup {None} /\ proved \in Name \cup {None}
    /\ channel \in {"none", "open", "ended"}
    /\ application \in {"none", "open", "closed"}
    /\ line_length \in 0 .. SSH_INPUT_LINE_MAX /\ escape_state \in 0 .. 2
    /\ fd_closes \in Nat /\ opens \in Nat

\* One connection opens the application at most once, for the account whose
\* password was verified; that account does not change while it is open, and
\* the application is closed when the worker is done.
OneVerifiedApplication ==
    /\ shell_started => authenticated /\ account_name # None /\ account_name = proved
    /\ opens <= 1
    /\ at = "done" => application # "open"

\* The deadlines hold to within one event tick: for a client that has not
\* logged in, for one that has logged in and asked for no shell
\* (SSH_AUTH_TIMEOUT_MS each), and for a silent player (SSH_IDLE_TIMEOUT_MS).
DeadlinesHold ==
    at = "poll" =>
        /\ ~authenticated =>
               now - connected_ms < SSH_AUTH_TIMEOUT + SSH_EVENT_TICK + WORK + KEX
        /\ authenticated /\ ~shell_started =>
               now - authenticated_ms < SSH_AUTH_TIMEOUT + SSH_EVENT_TICK + WORK
        /\ shell_started =>
               now - last_activity_ms < SSH_IDLE_TIMEOUT + SSH_EVENT_TICK + WORK

\* Once output has failed, the player cannot see answers, and no further line
\* reaches the application.
DeafAfterFailure == ~heard_after_failure

\* client_fd is closed exactly once, by libssh if it was handed over and by
\* the worker otherwise.
DescriptorClosedOnce == fd_closes = IF at = "done" THEN 1 ELSE 0

\* Every SSH worker comes to its end and releases its slot.
Released == <>(at = "done")
=============================================================================
