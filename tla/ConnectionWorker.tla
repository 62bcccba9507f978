-------------------------- MODULE ConnectionWorker --------------------------
(***************************************************************************)
(* One Telnet worker thread of src/src/secure_server.c in time: the TLS    *)
(* handshake, the read loop with its deadlines, and the bounded shutdown.  *)
(*                                                                         *)
(* The worker is at one of a few places.  At most of them it is inside a   *)
(* call that takes time: it returns before `due` more ticks of the clock   *)
(* have passed.  What the session prints is sent at "write", as fast as    *)
(* the peer drains it.  What the Telnet session and the socket answer is a *)
(* free choice.  A moment the code remembers is kept as the time that has  *)
(* passed since.                                                           *)
(***************************************************************************)
EXTENDS Integers

CONSTANTS
    TLS_HANDSHAKE_TIMEOUT, LOGIN_TIMEOUT, IDLE_TIMEOUT, SESSION_MAX,
    TLS_SHUTDOWN_TIMEOUT,
    SOCKET_WRITE_TIMEOUT,   \* also SO_SNDTIMEO: how long one send may block
    MAX_OUTPUT,     \* bound on the portions in which one call's output is sent
    READ_TICK,      \* SO_RCVTIMEO: how long one receive may block
    SHUTDOWN_TICK,  \* the same during the TLS shutdown
    WORK            \* how long a call of the session may take without its output

ASSUME WorkerAssumption ==
    /\ {TLS_HANDSHAKE_TIMEOUT, LOGIN_TIMEOUT, IDLE_TIMEOUT, SESSION_MAX,
        MAX_OUTPUT, WORK} \subseteq Nat
    /\ {TLS_SHUTDOWN_TIMEOUT, SOCKET_WRITE_TIMEOUT, READ_TICK, SHUTDOWN_TICK}
           \subseteq Nat \ {0}

VARIABLES
    transport,      \* "plain" or "tls"
    at,             \* where the worker is
    due,            \* how long the call it is in may still take
    left,           \* portions of output not yet sent
    after,          \* where the worker goes when they are
    started,        \* since the handshake, the write or the shutdown began
    connected_at, last_activity,
    in_game,        \* telnet_session_is_in_game
    close_requested,    \* telnet_session_should_close
    failed,         \* writer.failed
    fatal_tls_error, handshake_complete,
    ssl,            \* external: "none", "handshaking", "open" or "broken"
    live,           \* whether the Telnet session exists
    stopping,       \* runtime.stopping
    stopped_at,     \* history: since it was set
    fed_after_failure   \* history: blocks processed after a failed write

times == <<started, connected_at, last_activity>>
player == <<in_game, close_requested, live>>
tls == <<fatal_tls_error, handshake_complete, ssl>>
stop_vars == <<stopping, stopped_at>>
output == <<left, after>>
vars == <<transport, at, due, output, times, player, failed, tls, stop_vars,
          fed_after_failure>>

\* No such moment, or the clock could not be read (a reading of 0).
Unknown == -1

Init ==
    /\ due = 0 /\ transport \in {"plain", "tls"} /\ at = "new"
    /\ left = 0 /\ after = "loop" /\ started = Unknown
    /\ connected_at = Unknown /\ last_activity = Unknown
    /\ in_game = FALSE /\ close_requested = FALSE /\ live = FALSE
    /\ failed = FALSE /\ fatal_tls_error = FALSE /\ handshake_complete = FALSE
    /\ ssl = "none" /\ stopping = FALSE /\ stopped_at = Unknown /\ fed_after_failure = 0

\* How long the call at a place may take.  The application's poll belongs to
\* the read that follows it.
Duration(place) ==
    CASE place \in {"create", "feed", "cleanup"} -> WORK
      [] place = "read" -> WORK + READ_TICK
      [] place = "accept" -> READ_TICK
      [] place = "write" -> SOCKET_WRITE_TIMEOUT
      [] place = "shutdown" -> SHUTDOWN_TICK
      [] OTHER -> 0

Enter(place) == at' = place /\ due' = Duration(place)

\* The call has produced output, which is sent before the worker goes on;
\* after a failed write connection_write returns at once.
Output(place) ==
    \/ Enter(place) /\ UNCHANGED <<output, started>>
    \/ /\ ~failed /\ left' \in 1 .. MAX_OUTPUT /\ after' = place
       /\ Enter("write") /\ started' \in {0, Unknown}

-----------------------------------------------------------------------------
worker_start ==
    /\ at = "new"
    /\ \/ /\ transport = "plain" /\ Enter("create")
          /\ UNCHANGED <<ssl, started, fatal_tls_error>>
       \/ /\ transport = "tls" /\ ssl' = "handshaking" /\ started' = 0
          /\ IF stopping THEN Enter("cleanup") ELSE Enter("accept")
          /\ fatal_tls_error' = stopping
       \/ /\ transport = "tls" /\ Enter("cleanup")
          /\ UNCHANGED <<ssl, started, fatal_tls_error>>
    /\ UNCHANGED <<output, connected_at, last_activity, player, failed,
                   handshake_complete, fed_after_failure>>

\* SSL_accept returns: done (even if late), too late or failed, or try again
\* unless the server is stopping.
tls_accept_with_deadline ==
    /\ at = "accept"
    /\ \/ /\ Enter("create") /\ ssl' = "open" /\ handshake_complete' = TRUE
          /\ started' = Unknown /\ UNCHANGED fatal_tls_error
       \/ /\ Enter("cleanup") /\ ssl' \in {ssl, "broken"} /\ fatal_tls_error' = TRUE
          /\ started' = Unknown /\ UNCHANGED handshake_complete
       \/ /\ started < TLS_HANDSHAKE_TIMEOUT
          /\ IF stopping THEN Enter("cleanup") /\ fatal_tls_error' = TRUE
                         ELSE Enter("accept") /\ UNCHANGED fatal_tls_error
          /\ UNCHANGED <<started, ssl, handshake_complete>>
    /\ UNCHANGED <<output, connected_at, last_activity, player, failed, fed_after_failure>>

\* The session is created and greets the player.
create_session ==
    /\ at = "create"
    /\ \/ Enter("cleanup") /\ UNCHANGED <<output, started, live>>
       \/ Output("greeted") /\ live' = TRUE
    /\ UNCHANGED <<connected_at, last_activity, in_game, close_requested, failed, tls,
                   fed_after_failure>>

greeted ==
    /\ at = "greeted" /\ Enter("loop")
    /\ connected_at' \in {0, Unknown} /\ last_activity' = connected_at'
    /\ UNCHANGED <<output, started, player, failed, tls, fed_after_failure>>

-----------------------------------------------------------------------------
(* Output. *)

\* (mutant) a peer that drains nothing is waited for
connection_write_patient ==
    /\ at = "write"
    /\ \/ /\ left' \in 1 .. left - 1 /\ started' \in {started, 0, Unknown}
          /\ Enter("write") /\ UNCHANGED <<after, failed, ssl>>
       \/ Enter("write") /\ UNCHANGED <<output, started, failed, ssl>>
       \/ /\ Enter(after) /\ left' = 0 /\ after' = "loop" /\ started' = Unknown
          /\ \/ UNCHANGED <<failed, ssl>>
             \/ failed' = TRUE /\ ssl' \in {ssl, IF transport = "tls" THEN "broken" ELSE ssl}
    /\ UNCHANGED <<connected_at, last_activity, player, fatal_tls_error,
                   handshake_complete, fed_after_failure>>

\* One send: some of it is taken, and then the rest of the text or the next
\* one is sent; nothing is, which is retried for a while (and not at all if
\* the clock cannot be read); or the last portion is, or the write fails
\* because the peer is too slow or the connection is broken.
connection_write ==
    /\ at = "write"
    /\ \/ /\ left' \in 1 .. left - 1 /\ started' \in {started, 0, Unknown}
          /\ Enter("write") /\ UNCHANGED <<after, failed, ssl>>
       \/ /\ started # Unknown /\ started < SOCKET_WRITE_TIMEOUT
          /\ Enter("write") /\ UNCHANGED <<output, started, failed, ssl>>
       \/ /\ Enter(after) /\ left' = 0 /\ after' = "loop" /\ started' = Unknown
          /\ \/ UNCHANGED <<failed, ssl>>
             \/ failed' = TRUE /\ ssl' \in {ssl, IF transport = "tls" THEN "broken" ELSE ssl}
    /\ UNCHANGED <<connected_at, last_activity, player, fatal_tls_error,
                   handshake_complete, fed_after_failure>>

-----------------------------------------------------------------------------
(* The read loop. *)

\* (mutant) the login deadline runs from the last input, as the idle one does
Expired_login_idle ==
    \/ connected_at >= SESSION_MAX
    \/ ~in_game /\ last_activity >= LOGIN_TIMEOUT
    \/ in_game /\ (last_activity = Unknown \/ last_activity >= IDLE_TIMEOUT)

Expired ==
    \/ connected_at >= SESSION_MAX
    \/ ~in_game /\ connected_at >= LOGIN_TIMEOUT
    \/ in_game /\ (last_activity = Unknown \/ last_activity >= IDLE_TIMEOUT)

\* (mutant) the loop condition looks at the session only
Ended_ignores_writer == close_requested

Ended == failed \/ close_requested

\* The loop's tests in order, then telnet_session_poll.
loop_top ==
    /\ at = "loop"
    /\ \/ Ended /\ Enter("cleanup") /\ UNCHANGED <<output, started, close_requested>>
       \/ /\ ~Ended       \* stopping, or the clock cannot be read
          /\ Enter("cleanup") /\ UNCHANGED <<output, started, close_requested>>
       \/ /\ ~Ended /\ ~stopping /\ connected_at # Unknown /\ Expired
          /\ Output("cleanup") /\ UNCHANGED close_requested
       \/ /\ ~Ended /\ ~stopping /\ connected_at # Unknown /\ ~Expired
          /\ \/ Output("cleanup") /\ close_requested' = TRUE
             \/ Output("read") /\ UNCHANGED close_requested
    /\ UNCHANGED <<connected_at, last_activity, in_game, live, failed, tls,
                   fed_after_failure>>

\* A block arrives, nothing does, the peer closes, or the read fails.
read ==
    /\ at = "read"
    /\ \/ /\ ssl # "broken" /\ Enter("feed") /\ last_activity' \in {0, Unknown}
          /\ fed_after_failure' = IF failed THEN fed_after_failure + 1 ELSE 0
          /\ UNCHANGED <<fatal_tls_error, ssl>>
       \/ /\ \/ Enter("loop")
             \/ Enter("cleanup")
          /\ UNCHANGED <<last_activity, fatal_tls_error, ssl, fed_after_failure>>
       \/ /\ transport = "tls" /\ Enter("cleanup")
          /\ fatal_tls_error' = TRUE /\ ssl' = "broken"
          /\ UNCHANGED <<last_activity, fed_after_failure>>
    /\ UNCHANGED <<output, started, connected_at, player, failed, handshake_complete>>

\* telnet_session_feed_at: the player may get into the game, and the session
\* may ask to be closed.
feed ==
    /\ at = "feed" /\ in_game' \in {in_game, TRUE}
    /\ \/ Output("cleanup") /\ close_requested' = TRUE
       \/ Output("loop") /\ UNCHANGED close_requested
    /\ UNCHANGED <<connected_at, last_activity, live, failed, tls, fed_after_failure>>

-----------------------------------------------------------------------------
(* Cleanup. *)

MayShutdown == ssl # "none" /\ handshake_complete /\ ~fatal_tls_error /\ ~failed

\* The session is destroyed, and with it the application's; its last output
\* may still fail to be written.
cleanup ==
    /\ at = "cleanup"
    /\ live' = FALSE /\ in_game' = FALSE /\ close_requested' = FALSE
    /\ connected_at' = Unknown /\ last_activity' = Unknown     \* not looked at again
    /\ IF live THEN Output("cleanup_tls")
               ELSE Enter("cleanup_tls") /\ UNCHANGED <<output, started>>
    /\ UNCHANGED <<failed, tls, fed_after_failure>>

cleanup_tls ==
    /\ at = "cleanup_tls"
    /\ \/ MayShutdown /\ Enter("shutdown") /\ started' = 0
       \/ ~MayShutdown /\ Enter("close") /\ UNCHANGED started
    /\ UNCHANGED <<output, connected_at, last_activity, player, failed, tls,
                   fed_after_failure>>

tls_shutdown_bounded ==
    /\ at = "shutdown"
    /\ \/ Enter("close")
       \/ /\ started < TLS_SHUTDOWN_TIMEOUT
          /\ Enter("shutdown")
    /\ UNCHANGED <<output, times, player, failed, tls, fed_after_failure>>

\* (mutant) a worker whose peer is gone does not release its connection
release_unless_failed ==
    /\ at = "close" /\ Enter(IF failed THEN "close" ELSE "done") /\ ssl' = "none"
    /\ UNCHANGED <<output, times, player, failed, fatal_tls_error, handshake_complete,
                   fed_after_failure>>

\* close(client_fd) and runtime_release_connection.
release ==
    /\ at = "close" /\ Enter("done") /\ ssl' = "none"
    /\ UNCHANGED <<output, times, player, failed, fatal_tls_error, handshake_complete,
                   fed_after_failure>>

Worker ==
    /\ \/ worker_start \/ tls_accept_with_deadline \/ create_session \/ greeted
       \/ connection_write \/ loop_top \/ read \/ feed \/ cleanup \/ cleanup_tls
       \/ tls_shutdown_bounded \/ release
    /\ UNCHANGED <<transport, stop_vars>>

\* runtime_begin_shutdown by the main thread.
stop ==
    /\ ~stopping /\ at # "done"
    /\ stopping' = TRUE /\ stopped_at' = 0
    /\ UNCHANGED <<transport, at, due, output, times, player, failed, tls,
                   fed_after_failure>>

Later(since) == IF since = Unknown THEN Unknown ELSE since + 1

tick ==
    /\ due > 0 /\ due' = due - 1
    /\ started' = Later(started) /\ stopped_at' = Later(stopped_at)
    /\ connected_at' = Later(connected_at) /\ last_activity' = Later(last_activity)
    /\ UNCHANGED <<transport, at, output, player, failed, tls, stopping, fed_after_failure>>

Done == at = "done" /\ UNCHANGED vars

Next == Worker \/ stop \/ tick \/ Done

\* The thread is scheduled, and time passes: calls that may take time do take
\* some again and again.
Spec == Init /\ [][Next]_vars /\ WF_vars(Worker) /\ SF_vars(tick)

-----------------------------------------------------------------------------
\* Every variable has its type, a call never outlives its bound, and there is
\* no session over TLS before the handshake is complete.
TypeOK ==
    /\ due \in 0 .. Duration(at)
    /\ {started, connected_at, last_activity, stopped_at} \subseteq Nat \cup {Unknown}
    /\ transport \in {"plain", "tls"}
    /\ at \in {"new", "accept", "create", "loop", "read", "feed", "cleanup",
               "cleanup_tls", "shutdown", "close", "done", "write", "greeted"}
    /\ {in_game, close_requested, live, failed, fatal_tls_error,
        handshake_complete, stopping} \subseteq BOOLEAN
    /\ left \in 0 .. MAX_OUTPUT /\ (at = "write" <=> left > 0)
    /\ after \in {"greeted", "loop", "read", "cleanup", "cleanup_tls"}
    /\ ssl \in {"none", "handshaking", "open", "broken"}
    /\ live /\ transport = "tls" => handshake_complete
    /\ fed_after_failure \in Nat

\* Sending one call's output takes no longer than this, however slowly the
\* peer drains it: as long as something is taken the deadline of the write is
\* not looked at, so every portion may take the time of a retry and a send.
WRITE == MAX_OUTPUT * (2 * SOCKET_WRITE_TIMEOUT - 1)

\* Every deadline is kept to within one loop iteration: nobody is still typing
\* a name or password after LOGIN_TIMEOUT_MS, however busily they type, a
\* silent player is gone after IDLE_TIMEOUT_MS, and no session outlives
\* SESSION_MAX_MS, however slowly the peer reads.
DeadlinesHold ==
    /\ at \in {"read", "feed"} /\ ~in_game =>
           connected_at < LOGIN_TIMEOUT + WRITE + 2 * WORK + READ_TICK
    /\ at = "read" /\ in_game =>
           last_activity < IDLE_TIMEOUT + WRITE + WORK + READ_TICK
    /\ live /\ connected_at # Unknown =>
           connected_at < SESSION_MAX + 3 * WRITE + 3 * WORK + READ_TICK

\* After a write has failed at most one more block of input is processed, and
\* the TLS shutdown is never attempted on a connection that OpenSSL has
\* reported broken, whichever of read, write or handshake found out.
FailureIsFinal ==
    /\ fed_after_failure <= 1
    /\ at = "shutdown" => ssl = "open"

\* A worker is out within one iteration, its output and the TLS shutdown of a
\* stop, so that the main thread, which waits for it, can finish ("finite
\* socket/TLS shutdown/write behavior").
StopPrompt ==
    stopping /\ at # "done" =>
        stopped_at < 3 * WRITE + 3 * WORK + READ_TICK + SHUTDOWN_TICK
                           + TLS_SHUTDOWN_TIMEOUT

\* Every worker releases its connection, stop or no stop and whatever the
\* peer sends or fails to read.
Released == <>(at = "done")
=============================================================================
