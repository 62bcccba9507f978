----------------------- MODULE ConnectionWorkerProofs -----------------------
(***************************************************************************)
(* Proofs about ConnectionWorker for any deadlines, ticks and amount of    *)
(* output.                                                                 *)
(*                                                                         *)
(* The argument for the deadlines: Rest bounds how long the call the       *)
(* worker is in can still take, and every tick uses up some of it.  From   *)
(* one look at the clock to the next the worker makes a fixed series of    *)
(* calls, so that the time since the player connected, or typed last, plus *)
(* what is left of that series stays below the deadline plus one pass      *)
(* through the loop.  After a stop the same holds of the calls up to the   *)
(* end of the worker.                                                      *)
(***************************************************************************)
EXTENDS ConnectionWorker, TLAPS

Place == {"new", "accept", "create", "loop", "read", "feed", "cleanup",
          "cleanup_tls", "shutdown", "close", "done", "write", "greeted"}
After == {"greeted", "loop", "read", "cleanup", "cleanup_tls"}

Moment(t) == t \in Int /\ t >= Unknown

Typed ==
    /\ at \in Place /\ after \in After
    /\ due \in Nat /\ due <= Duration(at)
    /\ Moment(started) /\ Moment(connected_at) /\ Moment(last_activity) /\ Moment(stopped_at)
    /\ at = "write" => left \in 1 .. MAX_OUTPUT
    /\ at = "shutdown" => started >= 0
    /\ stopping \in BOOLEAN /\ in_game \in BOOLEAN
    /\ stopping => stopped_at >= 0

-----------------------------------------------------------------------------
\* The constants are numbers.
LEMMA Constants ==
    /\ TLS_HANDSHAKE_TIMEOUT \in Nat /\ LOGIN_TIMEOUT \in Nat /\ IDLE_TIMEOUT \in Nat
    /\ SESSION_MAX \in Nat /\ MAX_OUTPUT \in Nat /\ WORK \in Nat
    /\ TLS_SHUTDOWN_TIMEOUT \in Nat \ {0} /\ SOCKET_WRITE_TIMEOUT \in Nat \ {0}
    /\ READ_TICK \in Nat \ {0} /\ SHUTDOWN_TICK \in Nat \ {0}
BY WorkerAssumption

\* How long each call may take is a number.
LEMMA Durations ==
    /\ \A p : Duration(p) \in Nat
    /\ Duration("create") = WORK /\ Duration("feed") = WORK /\ Duration("cleanup") = WORK
    /\ Duration("read") = WORK + READ_TICK /\ Duration("accept") = READ_TICK
    /\ Duration("write") = SOCKET_WRITE_TIMEOUT /\ Duration("shutdown") = SHUTDOWN_TICK
    /\ \A p \in {"new", "greeted", "loop", "cleanup_tls", "close", "done"} : Duration(p) = 0
BY Constants DEF Duration

\* The worker starts with variables of the right type.
LEMMA InitTyped == Init => Typed
<1>. SUFFICES ASSUME Init PROVE Typed
  OBVIOUS
<1>1. Duration(at) \in Nat /\ due = 0
  BY Durations DEF Init
<1>2. due \in Nat /\ due <= Duration(at)
  BY <1>1
<1>3. /\ started = -1 /\ connected_at = -1 /\ last_activity = -1 /\ stopped_at = -1
      /\ at = "new" /\ after = "loop" /\ stopping = FALSE /\ in_game = FALSE
  BY DEF Init, Unknown
<1>4. Moment(started) /\ Moment(connected_at) /\ Moment(last_activity) /\ Moment(stopped_at)
  BY <1>3 DEF Moment, Unknown
<1>5. /\ at \in Place /\ after \in After /\ at # "write" /\ at # "shutdown"
      /\ ~stopping /\ stopping \in BOOLEAN /\ in_game \in BOOLEAN
  BY <1>3, Zenon DEF Place, After
<1>. QED
  BY <1>2, <1>4, <1>5 DEF Typed

\* Every variable keeps its type.
LEMMA TypedStep == Typed /\ [Next]_vars => Typed'
<1>. SUFFICES ASSUME Typed, [Next]_vars PROVE Typed'
  OBVIOUS
<1>. USE DEF Typed, Moment, Unknown
<1>a. ASSUME NEW p, Enter(p) PROVE at' = p /\ due' \in Nat /\ due' <= Duration(p)
  BY <1>a, Durations DEF Enter
<1>b. ASSUME NEW p \in After, Output(p)
      PROVE  /\ at' \in {p, "write"} /\ due' \in Nat /\ due' <= Duration(at')
             /\ after' \in After /\ started' \in Int /\ started' >= -1
             /\ at' = "write" => left' \in 1 .. MAX_OUTPUT
  BY <1>b, <1>a DEF Output, After, output
<1>c. CASE UNCHANGED <<transport, stop_vars>> /\ Worker
  <2>. USE DEF stop_vars, player, output, times, tls, Place, After
  <2>1. CASE worker_start
    BY <1>a, <1>c, <2>1 DEF worker_start
  <2>2. CASE tls_accept_with_deadline
    BY <1>a, <1>c, <2>2 DEF tls_accept_with_deadline
  <2>3. CASE create_session
    BY <1>a, <1>b, <1>c, <2>3 DEF create_session
  <2>4. CASE greeted
    BY <1>a, <1>c, <2>4 DEF greeted
  <2>5. CASE connection_write
    BY <1>a, <1>c, <2>5, Constants DEF connection_write
  <2>6. CASE loop_top
    <3>1. \/ Output("cleanup") \/ Output("read")
          \/ Enter("cleanup") /\ UNCHANGED <<output, started>>
      BY <2>6 DEF loop_top
    <3>. QED
      BY <1>a, <1>b, <1>c, <2>6, <3>1 DEF loop_top
  <2>7. CASE read
    BY <1>a, <1>c, <2>7 DEF read
  <2>8. CASE feed
    <3>1. Output("cleanup") \/ Output("loop")
      BY <2>8 DEF feed
    <3>. QED
      BY <1>b, <1>c, <2>8, <3>1, Zenon DEF feed
  <2>9. CASE cleanup
    <3>1. Output("cleanup_tls")
      BY <2>9 DEF cleanup, Output
    <3>2. in_game' = FALSE /\ connected_at' = Unknown /\ last_activity' = Unknown
      BY <2>9 DEF cleanup
    <3>3. /\ at' \in {"cleanup_tls", "write"} /\ due' \in Nat /\ due' <= Duration(at')
          /\ after' \in After /\ started' \in Int /\ started' >= -1
          /\ at' = "write" => left' \in 1 .. MAX_OUTPUT
      BY <1>b, <3>1
    <3>4. in_game' \in BOOLEAN /\ UNCHANGED <<stopping, stopped_at>>
      BY <1>c, <3>2, Zenon
    <3>. QED
      BY <3>2, <3>3, <3>4
  <2>10. CASE cleanup_tls
    BY <1>a, <1>c, <2>10 DEF cleanup_tls
  <2>11. CASE tls_shutdown_bounded
    BY <1>a, <1>c, <2>11 DEF tls_shutdown_bounded
  <2>12. CASE release
    BY <1>a, <1>c, <2>12 DEF release
  <2>. QED
    BY <1>c, <2>1, <2>2, <2>3, <2>4, <2>5, <2>6, <2>7, <2>8, <2>9, <2>10, <2>11, <2>12
       DEF Worker
<1>d. CASE stop
  BY <1>d DEF stop, times, player, output, tls
<1>e. CASE tick
  BY <1>e, Durations DEF tick, Later, player, output, tls
<1>f. CASE UNCHANGED vars
  BY <1>f DEF vars, times, player, output, tls, stop_vars
<1>. QED
  BY <1>c, <1>d, <1>e, <1>f DEF Next, Worker, Done

-----------------------------------------------------------------------------
\* The longest a portion of output may take.
PORTION == 2 * SOCKET_WRITE_TIMEOUT - 1

\* How long the portion being sent, and the TLS shutdown, may still take, t
\* after it began and in a call that returns within d.
PortionRest(t, d) ==
    IF t # Unknown /\ t < SOCKET_WRITE_TIMEOUT THEN PORTION - t ELSE d
ShutdownRest(t, d) ==
    IF t < TLS_SHUTDOWN_TIMEOUT THEN TLS_SHUTDOWN_TIMEOUT - 1 - t + SHUTDOWN_TICK ELSE d

\* The same for all n portions, the first being sent.
WriteRest(n, t, d) == (n - 1) * PORTION + PortionRest(t, d)

\* How long the worker can still stay where it is.
Rest ==
    CASE at = "write" -> WriteRest(left, started, due)
      [] at = "shutdown" -> ShutdownRest(started, due)
      [] OTHER -> due

SHUTDOWN == TLS_SHUTDOWN_TIMEOUT - 1 + SHUTDOWN_TICK

\* Multiplying by the length of a portion keeps the order.
LEMMA Portions ==
    /\ PORTION \in Nat \ {0} /\ WRITE = MAX_OUTPUT * PORTION /\ WRITE \in Nat
    /\ \A i \in Nat : i * PORTION \in Nat
    /\ \A i, j \in Nat : i <= j => i * PORTION <= j * PORTION
    /\ \A i \in Nat : (i - 1) * PORTION = i * PORTION - PORTION
<1>1. PORTION \in Nat \ {0} /\ WRITE = MAX_OUTPUT * PORTION
  BY Constants DEF PORTION, WRITE
<1>. HIDE DEF PORTION
<1>2. \A i \in Nat : i * PORTION \in Nat
  BY <1>1
<1>3. ASSUME NEW i \in Nat, NEW j \in Nat, i <= j PROVE i * PORTION <= j * PORTION
  BY <1>1, <1>3
<1>4. \A i \in Nat : (i - 1) * PORTION = i * PORTION - PORTION
  BY <1>1
<1>. QED
  BY <1>1, <1>2, <1>3, <1>4, Constants

\* What is left of a write is within the bound, and less of it with fewer
\* portions.
LEMMA WriteRests ==
    ASSUME NEW n \in Nat \ {0}, NEW t \in Int, t >= -1,
           NEW d \in Nat, d <= SOCKET_WRITE_TIMEOUT
    PROVE  /\ WriteRest(n, t, d) \in Nat
           /\ PortionRest(t, d) \in Nat /\ PortionRest(t, d) <= PORTION
           /\ n <= MAX_OUTPUT => WriteRest(n, t, d) <= WRITE
           /\ \A m \in Nat, u \in Int, e \in Nat :
                 n < m /\ u >= -1 /\ e <= SOCKET_WRITE_TIMEOUT =>
                     WriteRest(n, t, d) <= WriteRest(m, u, e)
<1>1. \A u \in Int, e \in Nat : u >= -1 /\ e <= SOCKET_WRITE_TIMEOUT =>
          PortionRest(u, e) \in Nat /\ PortionRest(u, e) <= PORTION
  BY Constants DEF PortionRest, PORTION, Unknown
<1>2. /\ (n - 1) * PORTION = n * PORTION - PORTION
      /\ (n - 1) * PORTION \in Nat /\ n * PORTION \in Nat
  BY Portions
<1>3. WriteRest(n, t, d) \in Nat /\ WriteRest(n, t, d) <= n * PORTION
  BY <1>1, <1>2, Portions DEF WriteRest
<1>4. n <= MAX_OUTPUT => n * PORTION <= WRITE
  BY Portions, Constants
<1>5. ASSUME NEW m \in Nat, NEW u \in Int, NEW e \in Nat,
             n < m, u >= -1, e <= SOCKET_WRITE_TIMEOUT
      PROVE  WriteRest(n, t, d) <= WriteRest(m, u, e)
  <2>1. n <= m - 1 /\ m - 1 \in Nat
    BY <1>5
  <2>2. n * PORTION <= (m - 1) * PORTION /\ (m - 1) * PORTION \in Nat
    BY <2>1, Portions
  <2>3. PortionRest(u, e) \in Nat
    BY <1>1, <1>5
  <2>4. WriteRest(m, u, e) >= n * PORTION
    BY <1>2, <2>2, <2>3 DEF WriteRest
  <2>5. WriteRest(m, u, e) \in Int
    BY <2>2, <2>3 DEF WriteRest
  <2>. QED
    BY <1>2, <1>3, <2>4, <2>5
<1>6. n <= MAX_OUTPUT => WriteRest(n, t, d) <= WRITE
  BY <1>2, <1>3, <1>4, Portions
<1>. QED
  BY <1>1, <1>3, <1>5, <1>6

\* Sending output takes a length of time.
LEMMA WriteType == WRITE \in Nat
BY Portions

\* A worker that has produced output is done with it after WRITE.
LEMMA OutputRest ==
    ASSUME Typed, NEW p \in After, Output(p)
    PROVE  \/ at' = p /\ Rest' = Duration(p)
           \/ /\ at' = "write" /\ after' = p /\ ~failed
              /\ Rest' \in Nat /\ Rest' <= WRITE
<1>1. CASE Enter(p) /\ UNCHANGED <<output, started>>
  BY <1>1 DEF Enter, Rest, After
<1>2. CASE /\ ~failed /\ left' \in 1 .. MAX_OUTPUT /\ after' = p
           /\ Enter("write") /\ started' \in {0, Unknown}
  <2>1. PICK n, t : n = left' /\ t = started'
    OBVIOUS
  <2>2. at' = "write" /\ due' = SOCKET_WRITE_TIMEOUT
    BY <1>2, Durations DEF Enter
  <2>3. Rest' = WriteRest(n, t, SOCKET_WRITE_TIMEOUT)
    BY <2>1, <2>2 DEF Rest
  <2>4. n \in Nat \ {0} /\ n <= MAX_OUTPUT /\ t \in Int /\ t >= -1
    BY <1>2, <2>1, Constants DEF Unknown
  <2>5. Rest' \in Nat /\ Rest' <= WRITE
    BY <2>3, <2>4, WriteRests, Constants
  <2>. QED
    BY <1>2, <2>2, <2>5
<1>. QED
  BY <1>1, <1>2 DEF Output

\* The rest is a length of time.
LEMMA RestType ==
    ASSUME Typed PROVE Rest \in Nat /\ (at \notin {"write", "shutdown"} => Rest = due)
<1>1. CASE at = "write"
  <2>1. /\ left \in Nat \ {0} /\ started \in Int /\ started >= -1
        /\ due \in Nat /\ due <= SOCKET_WRITE_TIMEOUT
    BY <1>1, Durations, Constants DEF Typed, Moment, Unknown
  <2>2. WriteRest(left, started, due) \in Nat
    BY <2>1, WriteRests
  <2>. QED
    BY <1>1, <2>2 DEF Rest
<1>2. CASE at = "shutdown"
  BY <1>2, Constants DEF Rest, ShutdownRest, Typed, Moment
<1>3. CASE at \notin {"write", "shutdown"}
  BY <1>3 DEF Rest, Typed
<1>. QED
  BY <1>1, <1>2, <1>3

\* And so it is after a step.
LEMMA NextRestType == Typed' => Rest' \in Nat
<1>. DEFINE RestTyped == Rest \in Nat
<1>1. Typed => RestTyped
  BY RestType
<1>. HIDE DEF RestTyped
<1>2. Typed' => RestTyped'
  BY <1>1, PTL
<1>. QED
  BY <1>2 DEF RestTyped

\* A send leaves no more to wait for than before, or ends the write.
LEMMA SendRest ==
    ASSUME Typed, connection_write
    PROVE  /\ at = "write"
           /\ \/ at' = "write" /\ after' = after /\ failed' = failed /\ Rest' <= Rest
              \/ at' = after /\ Rest' = Duration(after)
<1>0. /\ at = "write" /\ left \in 1 .. MAX_OUTPUT /\ after \in After
      /\ due \in Nat /\ due <= SOCKET_WRITE_TIMEOUT /\ started \in Int /\ started >= -1
      /\ Rest = WriteRest(left, started, due)
  BY Durations DEF connection_write, Typed, Moment, Rest, Unknown
<1>1. CASE /\ left' \in 1 .. left - 1 /\ started' \in {started, 0, Unknown}
           /\ Enter("write") /\ UNCHANGED <<after, failed, ssl>>
  <2>1. PICK n, t : n = left' /\ t = started'
    OBVIOUS
  <2>2. at' = "write" /\ due' = SOCKET_WRITE_TIMEOUT
    BY <1>1, Durations DEF Enter
  <2>3. Rest' = WriteRest(n, t, SOCKET_WRITE_TIMEOUT)
    BY <2>1, <2>2 DEF Rest
  <2>4. /\ n \in Nat \ {0} /\ n < left /\ left \in Nat
        /\ t \in Int /\ t >= -1
    BY <1>0, <1>1, <2>1, Constants DEF Unknown
  <2>5. SOCKET_WRITE_TIMEOUT \in Nat /\ SOCKET_WRITE_TIMEOUT <= SOCKET_WRITE_TIMEOUT
    BY Constants
  <2>6. \A m \in Nat, u \in Int, e \in Nat :
            n < m /\ u >= -1 /\ e <= SOCKET_WRITE_TIMEOUT =>
                WriteRest(n, t, SOCKET_WRITE_TIMEOUT) <= WriteRest(m, u, e)
    BY <2>4, <2>5, WriteRests, Zenon
  <2>7. Rest' <= Rest
    BY <1>0, <2>3, <2>4, <2>6
  <2>. QED
    BY <1>0, <1>1, <2>2, <2>7
<1>2. CASE /\ started # Unknown /\ started < SOCKET_WRITE_TIMEOUT
           /\ Enter("write") /\ UNCHANGED <<output, started, failed, ssl>>
  <2>1. at' = "write" /\ left' = left /\ after' = after /\ failed' = failed
    BY <1>2 DEF Enter, output
  <2>2. WriteRest(left, started, due)' = WriteRest(left, started, due)
    BY <1>2, <2>1 DEF WriteRest, PortionRest
  <2>3. Rest' = Rest
    BY <1>0, <2>1, <2>2 DEF Rest
  <2>. QED
    BY <1>0, <2>1, <2>3, RestType
<1>3. CASE Enter(after)
  BY <1>0, <1>3 DEF Enter, Rest, After
<1>. QED
  BY <1>0, <1>1, <1>2, <1>3 DEF connection_write

\* A tick of the clock uses up some of the rest.
LEMMA TickRest ==
    ASSUME Typed, tick
    PROVE  Rest' <= Rest - 1 /\ at' = at /\ after' = after
<1>0. /\ at' = at /\ after' = after /\ left' = left
      /\ due \in Nat /\ due > 0 /\ due' = due - 1 /\ due <= Duration(at)
      /\ started \in Int /\ started >= -1
      /\ started' = IF started = -1 THEN -1 ELSE started + 1
  BY DEF tick, Later, Typed, Moment, output, Unknown
<1>1. CASE at = "write"
  <2>. DEFINE t == IF started = -1 THEN -1 ELSE started + 1
              now == PortionRest(started, due)
              later == PortionRest(t, due - 1)
              others == (left - 1) * PORTION
  <2>1. later <= now - 1 /\ now \in Int /\ later \in Int
    BY <1>0, <1>1, Durations, Constants DEF PortionRest, PORTION, Unknown
  <2>2. others \in Nat
    BY <1>1, Portions, Constants DEF Typed
  <2>3. Rest = others + now /\ Rest' = others + later
    BY <1>0, <1>1 DEF Rest, WriteRest
  <2>. HIDE DEF now, later, others
  <2>. QED
    BY <1>0, <2>1, <2>2, <2>3
<1>2. CASE at = "shutdown"
  BY <1>0, <1>2, Durations, Constants DEF Rest, ShutdownRest, Typed
<1>3. CASE at \notin {"write", "shutdown"}
  BY <1>0, <1>3 DEF Rest
<1>. QED
  BY <1>1, <1>2, <1>3

-----------------------------------------------------------------------------
\* How far a clock may have run when the call the worker is in returns: the
\* login clock and the idle clock up to the next look at them, the session's
\* until the session is destroyed.
LoginInTime(p, a, t) ==
    /\ p = "write" /\ a = "read" => t < LOGIN_TIMEOUT + WRITE
    /\ p = "read" => t < LOGIN_TIMEOUT + WRITE + WORK + READ_TICK
    /\ p = "feed" => t < LOGIN_TIMEOUT + WRITE + 2 * WORK + READ_TICK
IdleInTime(p, a, t) ==
    /\ p = "write" /\ a = "read" => t < IDLE_TIMEOUT + WRITE
    /\ p = "read" => t < IDLE_TIMEOUT + WRITE + WORK + READ_TICK
SessionInTime(p, a, t) ==
    /\ p = "write" /\ a = "read" => t < SESSION_MAX + WRITE
    /\ p = "read" => t < SESSION_MAX + WRITE + WORK + READ_TICK
    /\ p = "feed" => t < SESSION_MAX + WRITE + 2 * WORK + READ_TICK
    /\ p = "write" /\ a = "loop" => t < SESSION_MAX + 2 * WRITE + 2 * WORK + READ_TICK
    /\ p = "loop" => t < SESSION_MAX + 2 * WRITE + 2 * WORK + READ_TICK
    /\ p = "write" /\ a = "cleanup" => t < SESSION_MAX + 3 * WRITE + 2 * WORK + READ_TICK
    /\ p = "cleanup" => t < SESSION_MAX + 3 * WRITE + 3 * WORK + READ_TICK

\* Before the loop and after the session there is no clock.
Outside(p, a) ==
    \/ p \in {"new", "accept", "create", "greeted", "cleanup_tls", "shutdown", "close", "done"}
    \/ p = "write" /\ a \in {"greeted", "cleanup_tls"}

DeadlineInv ==
    /\ Typed
    /\ ~in_game => LoginInTime(at, after, connected_at + Rest)
    /\ in_game => IdleInTime(at, after, last_activity + Rest)
    /\ SessionInTime(at, after, connected_at + Rest)
    /\ Outside(at, after) => connected_at = Unknown

\* An earlier time is in time where a later one is.
LEMMA Earlier ==
    ASSUME NEW p, NEW a, NEW t \in Int, NEW u \in Int, u <= t
    PROVE  /\ LoginInTime(p, a, t) => LoginInTime(p, a, u)
           /\ IdleInTime(p, a, t) => IdleInTime(p, a, u)
           /\ SessionInTime(p, a, t) => SessionInTime(p, a, u)
<1>. USE Constants, WriteType
<1>1. LoginInTime(p, a, t) => LoginInTime(p, a, u)
  BY DEF LoginInTime
<1>2. IdleInTime(p, a, t) => IdleInTime(p, a, u)
  BY DEF IdleInTime
<1>3. SessionInTime(p, a, t) => SessionInTime(p, a, u)
  BY DEF SessionInTime
<1>. QED
  BY <1>1, <1>2, <1>3

\* Entering a place other than a write or the shutdown.
LEMMA EnterRest ==
    ASSUME NEW p, p \notin {"write", "shutdown"}, Enter(p)
    PROVE  at' = p /\ Rest' = Duration(p)
BY DEF Enter, Rest

\* The clock only runs up to the bounds.
LEMMA TickDeadline == ASSUME DeadlineInv, tick PROVE DeadlineInv'
<1>1. Typed /\ Typed'
  <2>1. Typed /\ Next
    BY DEF DeadlineInv, Next
  <2>. QED
    BY <2>1, TypedStep
<1>2. PICK r : r = Rest'
  OBVIOUS
<1>3. r \in Int /\ r <= Rest - 1 /\ Rest \in Int /\ at' = at /\ after' = after
  BY <1>1, <1>2, RestType, NextRestType, TickRest
<1>4. PICK c, l : c = connected_at' /\ l = last_activity'
  OBVIOUS
<1>5. /\ c \in Int /\ l \in Int /\ c <= connected_at + 1 /\ l <= last_activity + 1
      /\ connected_at \in Int /\ last_activity \in Int
      /\ connected_at = Unknown => c = Unknown
  BY <1>1, <1>4 DEF tick, Later, Typed, Moment, Unknown
<1>6. /\ c + r \in Int /\ c + r <= connected_at + Rest /\ connected_at + Rest \in Int
      /\ l + r \in Int /\ l + r <= last_activity + Rest /\ last_activity + Rest \in Int
  BY <1>3, <1>5
<1>7. in_game' = in_game
  BY DEF tick, player
<1>8. ~in_game => LoginInTime(at, after, c + r)
  BY <1>6, Earlier DEF DeadlineInv
<1>9. in_game => IdleInTime(at, after, l + r)
  BY <1>6, Earlier DEF DeadlineInv
<1>10. SessionInTime(at, after, c + r)
  BY <1>6, Earlier DEF DeadlineInv
<1>. QED
  BY <1>1, <1>2, <1>3, <1>4, <1>5, <1>7, <1>8, <1>9, <1>10 DEF DeadlineInv

\* Writing never takes longer than was allowed for it.
LEMMA WriteDeadline ==
    ASSUME DeadlineInv, Typed', connection_write PROVE DeadlineInv'
<1>. USE Constants, WriteType
<1>a. Typed /\ Rest \in Nat
  BY RestType DEF DeadlineInv
<1>c. Rest' \in Nat
  BY NextRestType
<1>d. at = "write" /\ UNCHANGED <<connected_at, last_activity, in_game>>
  BY DEF connection_write, player
<1>1. Typed /\ Rest \in Nat /\ Rest' \in Nat /\ at = "write"
      /\ UNCHANGED <<connected_at, last_activity, in_game>>
      /\ connected_at \in Int /\ last_activity \in Int
  BY <1>a, <1>c, <1>d DEF Typed, Moment
<1>2. CASE at' = "write" /\ after' = after /\ Rest' <= Rest
  <2>1. PICK r \in Nat : r = Rest' /\ r <= Rest
    BY <1>1, <1>2
  <2>2. /\ connected_at + r \in Int /\ connected_at + r <= connected_at + Rest
        /\ last_activity + r \in Int /\ last_activity + r <= last_activity + Rest
        /\ connected_at + Rest \in Int /\ last_activity + Rest \in Int
    <3>1. connected_at \in Int /\ last_activity \in Int /\ Rest \in Int
      BY <1>1
    <3>2. r \in Int /\ r <= Rest
      BY <2>1
    <3>. QED
      BY <3>1, <3>2
  <2>3. ~in_game => LoginInTime(at, after, connected_at + r)
    BY <2>2, Earlier DEF DeadlineInv
  <2>4. in_game => IdleInTime(at, after, last_activity + r)
    BY <2>2, Earlier DEF DeadlineInv
  <2>5. SessionInTime(at, after, connected_at + r)
    BY <2>2, Earlier DEF DeadlineInv
  <2>. QED
    BY <1>1, <1>2, <2>1, <2>3, <2>4, <2>5 DEF DeadlineInv
<1>3. CASE at' = after /\ Rest' = Duration(after)
  <2>1. after \in After /\ (Outside(at, after) => connected_at = Unknown)
    BY <1>1 DEF DeadlineInv, Typed
  <2>2. CASE after \in {"greeted", "cleanup_tls"}
    <3>1. connected_at = Unknown
      BY <1>1, <2>1, <2>2 DEF Outside
    <3>. QED
      BY <1>1, <1>3, <2>2, <3>1
         DEF DeadlineInv, LoginInTime, IdleInTime, SessionInTime
  <2>3. CASE after = "loop"
    <3>1. Rest' = 0 /\ connected_at + Rest < SESSION_MAX + 2 * WRITE + 2 * WORK + READ_TICK
      BY <1>1, <1>3, <2>3, Durations DEF DeadlineInv, SessionInTime
    <3>2. connected_at + 0 < SESSION_MAX + 2 * WRITE + 2 * WORK + READ_TICK
      BY <1>1, <3>1
    <3>. QED
      BY <1>1, <1>3, <2>3, <3>1, <3>2
         DEF DeadlineInv, LoginInTime, IdleInTime, SessionInTime, Outside
  <2>4. CASE after = "cleanup"
    <3>1. /\ Rest' = WORK
          /\ connected_at + Rest < SESSION_MAX + 3 * WRITE + 2 * WORK + READ_TICK
      BY <1>1, <1>3, <2>4, Durations DEF DeadlineInv, SessionInTime
    <3>2. connected_at + WORK < SESSION_MAX + 3 * WRITE + 3 * WORK + READ_TICK
      BY <1>1, <3>1
    <3>. QED
      BY <1>1, <1>3, <2>4, <3>1, <3>2
         DEF DeadlineInv, LoginInTime, IdleInTime, SessionInTime, Outside
  <2>5. CASE after = "read"
    <3>. DEFINE d == WORK + READ_TICK
    <3>1. /\ Rest' = d
          /\ connected_at + Rest < SESSION_MAX + WRITE
          /\ ~in_game => connected_at + Rest < LOGIN_TIMEOUT + WRITE
          /\ in_game => last_activity + Rest < IDLE_TIMEOUT + WRITE
      BY <1>1, <1>3, <2>5, Durations DEF DeadlineInv, SessionInTime,
         LoginInTime, IdleInTime
    <3>2. connected_at + d < SESSION_MAX + WRITE + WORK + READ_TICK
      BY <1>1, <3>1
    <3>3. ~in_game => connected_at + d < LOGIN_TIMEOUT + WRITE + WORK + READ_TICK
      BY <1>1, <3>1
    <3>4. in_game => last_activity + d < IDLE_TIMEOUT + WRITE + WORK + READ_TICK
      BY <1>1, <3>1
    <3>. HIDE DEF d
    <3>. QED
      BY <1>1, <1>3, <2>5, <3>1, <3>2, <3>3, <3>4
         DEF DeadlineInv, LoginInTime, IdleInTime, SessionInTime, Outside
  <2>. QED
    BY <2>1, <2>2, <2>3, <2>4, <2>5 DEF After
<1>. QED
  BY <1>1, <1>2, <1>3, SendRest

\* Every other action of the worker is within the bounds.
LEMMA WorkerDeadline ==
    ASSUME DeadlineInv, Typed', Worker, ~connection_write PROVE DeadlineInv'
<1>. USE Constants, WriteType
<1>0. /\ Typed /\ Rest \in Nat /\ Rest' \in Nat
      /\ connected_at \in Int /\ last_activity \in Int
      /\ connected_at >= Unknown /\ in_game \in BOOLEAN
  BY RestType, NextRestType DEF DeadlineInv, Typed, Moment
<1>1. ASSUME connected_at' = Unknown, Outside(at', after')
      PROVE  DeadlineInv'
  <2>1. /\ at' \notin {"read", "feed", "loop", "cleanup"}
        /\ at' = "write" => after' \notin {"read", "loop", "cleanup"}
    BY <1>1 DEF Outside
  <2>. QED
    BY <1>1, <2>1 DEF DeadlineInv, LoginInTime, IdleInTime, SessionInTime
<1>2. ASSUME at' = "cleanup", Rest' = WORK, UNCHANGED connected_at,
             connected_at < SESSION_MAX + 3 * WRITE + 2 * WORK + READ_TICK
      PROVE  DeadlineInv'
  <2>1. connected_at + WORK < SESSION_MAX + 3 * WRITE + 3 * WORK + READ_TICK
    BY <1>0, <1>2
  <2>. QED
    BY <1>2, <2>1 DEF DeadlineInv, LoginInTime, IdleInTime, SessionInTime, Outside
<1>3. ASSUME Output("cleanup"), UNCHANGED connected_at,
             connected_at < SESSION_MAX + 2 * WRITE + 2 * WORK + READ_TICK
      PROVE  DeadlineInv'
  <2>1. CASE at' = "cleanup" /\ Rest' = Duration("cleanup")
    <3>1. connected_at < SESSION_MAX + 3 * WRITE + 2 * WORK + READ_TICK
      BY <1>0, <1>3
    <3>. QED
      BY <1>2, <1>3, <2>1, <3>1, Durations
  <2>2. CASE at' = "write" /\ after' = "cleanup" /\ Rest' <= WRITE
    <3>1. PICK r \in Nat : r = Rest'
      BY <1>0
    <3>2. r \in Nat /\ r <= WRITE
      BY <2>2, <3>1
    <3>3. connected_at + r < SESSION_MAX + 3 * WRITE + 2 * WORK + READ_TICK
      BY <1>0, <1>3, <3>2
    <3>. QED
      BY <1>3, <2>2, <3>1, <3>3
         DEF DeadlineInv, LoginInTime, IdleInTime, SessionInTime, Outside
  <2>. QED
    BY <1>0, <1>3, <2>1, <2>2, OutputRest DEF After
<1>4. ASSUME Outside(at, after) PROVE connected_at = Unknown
  BY <1>4 DEF DeadlineInv
<1>5. connected_at = Unknown => connected_at < SESSION_MAX + 2 * WRITE + 2 * WORK + READ_TICK
  BY DEF Unknown
<1>6. connected_at < SESSION_MAX + 2 * WRITE + 2 * WORK + READ_TICK =>
          connected_at < SESSION_MAX + 3 * WRITE + 2 * WORK + READ_TICK
  BY <1>0
<1>7. CASE worker_start
  <2>1. /\ connected_at = Unknown /\ UNCHANGED connected_at
        /\ Enter("create") \/ Enter("cleanup") \/ Enter("accept")
    BY <1>4, <1>7 DEF worker_start, Outside
  <2>. QED
    BY <1>1, <1>2, <1>5, <1>6, <2>1, EnterRest, Durations DEF Outside
<1>8. CASE tls_accept_with_deadline
  <2>1. /\ connected_at = Unknown /\ UNCHANGED connected_at
        /\ Enter("create") \/ Enter("cleanup") \/ Enter("accept")
    BY <1>4, <1>8 DEF tls_accept_with_deadline, Outside
  <2>. QED
    BY <1>1, <1>2, <1>5, <1>6, <2>1, EnterRest, Durations DEF Outside
<1>9. CASE create_session
  <2>1. /\ connected_at = Unknown /\ UNCHANGED connected_at
        /\ Enter("cleanup") \/ Output("greeted")
    BY <1>4, <1>9 DEF create_session, Outside
  <2>2. CASE Enter("cleanup")
    BY <1>2, <1>5, <1>6, <2>1, <2>2, EnterRest, Durations
  <2>3. CASE Output("greeted")
    <3>1. at' = "greeted" \/ (at' = "write" /\ after' = "greeted")
      BY <1>0, <2>3, OutputRest DEF After
    <3>. QED
      BY <1>1, <2>1, <3>1 DEF Outside
  <2>. QED
    BY <2>1, <2>2, <2>3
<1>10. CASE greeted
  <2>1. at' = "loop" /\ Rest' = 0 /\ connected_at' \in {0, -1}
    BY <1>10, EnterRest, Durations DEF greeted, Unknown
  <2>2. PICK c \in Int : c = connected_at' /\ c <= 0
    BY <2>1
  <2>3. c + 0 < SESSION_MAX + 2 * WRITE + 2 * WORK + READ_TICK
    <3>1. c \in Int /\ c <= 0
      BY <2>2
    <3>. QED
      BY <3>1
  <2>. QED
    BY <2>1, <2>2, <2>3, Zenon DEF DeadlineInv, LoginInTime, IdleInTime,
       SessionInTime, Outside
<1>11. CASE loop_top
  <2>1. /\ at = "loop" /\ UNCHANGED <<connected_at, last_activity, in_game>>
    BY <1>11 DEF loop_top
  <2>2. connected_at < SESSION_MAX + 2 * WRITE + 2 * WORK + READ_TICK
    <3>1. connected_at + Rest < SESSION_MAX + 2 * WRITE + 2 * WORK + READ_TICK
      BY <2>1 DEF DeadlineInv, SessionInTime
    <3>. QED
      BY <1>0, <3>1
  <2>3. CASE Enter("cleanup")
    BY <1>2, <1>6, <2>1, <2>2, <2>3, EnterRest, Durations
  <2>4. CASE Output("cleanup")
    BY <1>3, <2>1, <2>2, <2>4
  <2>5. CASE ~Expired /\ Output("read")
    <3>1. /\ connected_at < SESSION_MAX
          /\ ~in_game => connected_at < LOGIN_TIMEOUT
          /\ in_game => last_activity < IDLE_TIMEOUT
      BY <1>0, <2>5 DEF Expired
    <3>2. CASE at' = "read" /\ Rest' = Duration("read")
      <4>. DEFINE d == WORK + READ_TICK
      <4>1. connected_at + d < SESSION_MAX + WRITE + WORK + READ_TICK
        BY <1>0, <3>1
      <4>2. ~in_game => connected_at + d < LOGIN_TIMEOUT + WRITE + WORK + READ_TICK
        BY <1>0, <3>1
      <4>3. in_game => last_activity + d < IDLE_TIMEOUT + WRITE + WORK + READ_TICK
        BY <1>0, <3>1
      <4>4. Rest' = d
        BY <3>2, Durations
      <4>. HIDE DEF d
      <4>. QED
        BY <2>1, <3>2, <4>1, <4>2, <4>3, <4>4
           DEF DeadlineInv, LoginInTime, IdleInTime, SessionInTime, Outside
    <3>3. CASE at' = "write" /\ after' = "read" /\ Rest' <= WRITE
      <4>1. PICK r \in Nat : r = Rest'
        BY <1>0
      <4>2. r \in Nat /\ r <= WRITE
        BY <3>3, <4>1
      <4>3. connected_at + r < SESSION_MAX + WRITE
        BY <1>0, <3>1, <4>2
      <4>4. ~in_game => connected_at + r < LOGIN_TIMEOUT + WRITE
        BY <1>0, <3>1, <4>2
      <4>5. in_game => last_activity + r < IDLE_TIMEOUT + WRITE
        BY <1>0, <3>1, <4>2
      <4>. QED
        BY <2>1, <3>3, <4>1, <4>3, <4>4, <4>5
           DEF DeadlineInv, LoginInTime, IdleInTime, SessionInTime, Outside
    <3>. QED
      BY <1>0, <2>5, <3>2, <3>3, OutputRest DEF After
  <2>. QED
    BY <1>11, <2>3, <2>4, <2>5 DEF loop_top
<1>12. CASE read
  <2>1. at = "read" /\ UNCHANGED <<connected_at, in_game>>
    BY <1>12 DEF read, player
  <2>2. /\ connected_at < SESSION_MAX + WRITE + WORK + READ_TICK
        /\ ~in_game => connected_at < LOGIN_TIMEOUT + WRITE + WORK + READ_TICK
    <3>1. connected_at + Rest < SESSION_MAX + WRITE + WORK + READ_TICK
      BY <2>1 DEF DeadlineInv, SessionInTime
    <3>2. ~in_game => connected_at + Rest < LOGIN_TIMEOUT + WRITE + WORK + READ_TICK
      BY <2>1 DEF DeadlineInv, LoginInTime
    <3>. QED
      BY <1>0, <3>1, <3>2
  <2>3. CASE Enter("cleanup")
    <3>1. connected_at < SESSION_MAX + 3 * WRITE + 2 * WORK + READ_TICK
      BY <1>0, <2>2
    <3>. QED
      BY <1>2, <2>1, <2>3, <3>1, EnterRest, Durations
  <2>4. CASE Enter("loop")
    <3>1. connected_at + 0 < SESSION_MAX + 2 * WRITE + 2 * WORK + READ_TICK
      BY <1>0, <2>2
    <3>2. at' = "loop" /\ Rest' = 0
      BY <2>4, EnterRest, Durations
    <3>. QED
      BY <2>1, <3>1, <3>2 DEF DeadlineInv, LoginInTime, IdleInTime,
         SessionInTime, Outside
  <2>5. CASE Enter("feed")
    <3>1. connected_at + WORK < SESSION_MAX + WRITE + 2 * WORK + READ_TICK
      BY <1>0, <2>2
    <3>2. ~in_game => connected_at + WORK < LOGIN_TIMEOUT + WRITE + 2 * WORK + READ_TICK
      BY <1>0, <2>2
    <3>3. at' = "feed" /\ Rest' = WORK
      BY <2>5, EnterRest, Durations
    <3>. QED
      BY <2>1, <3>1, <3>2, <3>3
         DEF DeadlineInv, LoginInTime, IdleInTime, SessionInTime, Outside
  <2>. QED
    BY <1>12, <2>3, <2>4, <2>5 DEF read
<1>13. CASE feed
  <2>1. at = "feed" /\ UNCHANGED connected_at
    BY <1>13 DEF feed
  <2>2. connected_at < SESSION_MAX + WRITE + 2 * WORK + READ_TICK
    <3>1. connected_at + Rest < SESSION_MAX + WRITE + 2 * WORK + READ_TICK
      BY <2>1 DEF DeadlineInv, SessionInTime
    <3>. QED
      BY <1>0, <3>1
  <2>3. CASE Output("cleanup")
    <3>1. connected_at < SESSION_MAX + 2 * WRITE + 2 * WORK + READ_TICK
      BY <1>0, <2>2
    <3>. QED
      BY <1>3, <2>1, <2>3, <3>1
  <2>4. CASE Output("loop")
    <3>1. /\ at' = "loop" \/ (at' = "write" /\ after' = "loop")
          /\ Rest' <= WRITE
      <4>1. \/ at' = "loop" /\ Rest' = 0
            \/ at' = "write" /\ after' = "loop" /\ Rest' <= WRITE
        BY <1>0, <2>4, OutputRest, Durations DEF After
      <4>. QED
        BY <4>1
    <3>2. PICK r \in Nat : r = Rest'
      BY <1>0
    <3>3. r \in Nat /\ r <= WRITE
      BY <3>1, <3>2
    <3>4. connected_at + r < SESSION_MAX + 2 * WRITE + 2 * WORK + READ_TICK
      BY <1>0, <2>2, <3>3
    <3>. QED
      BY <2>1, <3>1, <3>2, <3>4
         DEF DeadlineInv, LoginInTime, IdleInTime, SessionInTime, Outside
  <2>. QED
    BY <1>13, <2>3, <2>4 DEF feed
<1>14. CASE cleanup
  <2>1. Output("cleanup_tls") /\ connected_at' = Unknown
    BY <1>14 DEF cleanup, Output
  <2>2. at' = "cleanup_tls" \/ (at' = "write" /\ after' = "cleanup_tls")
    BY <1>0, <2>1, OutputRest DEF After
  <2>. QED
    BY <1>1, <2>1, <2>2 DEF Outside
<1>15. CASE cleanup_tls \/ tls_shutdown_bounded \/ release
  <2>1. /\ connected_at = Unknown /\ UNCHANGED connected_at
        /\ at' \in {"shutdown", "close", "done"}
    BY <1>4, <1>15
       DEF cleanup_tls, tls_shutdown_bounded, release, Outside, Enter, times
  <2>. QED
    BY <1>1, <2>1 DEF Outside
<1>. QED
  BY <1>7, <1>8, <1>9, <1>10, <1>11, <1>12, <1>13, <1>14, <1>15 DEF Worker

\* No step lets a clock run past its bound.
LEMMA DeadlineStep == DeadlineInv /\ [Next]_vars => DeadlineInv'
<1>. SUFFICES ASSUME DeadlineInv, [Next]_vars PROVE DeadlineInv'
  OBVIOUS
<1>1. Typed'
  BY TypedStep DEF DeadlineInv
<1>2. CASE tick
  BY <1>2, TickDeadline
<1>3. CASE Worker
  BY <1>1, <1>3, WorkerDeadline, WriteDeadline
<1>4. CASE stop \/ UNCHANGED vars
  <2>1. /\ UNCHANGED <<at, after, left, due, started, connected_at, last_activity, in_game>>
    BY <1>4 DEF stop, vars, times, player, output
  <2>2. Rest' = Rest
    BY <2>1 DEF Rest
  <2>. QED
    BY <1>1, <2>1, <2>2 DEF DeadlineInv
<1>. QED
  BY <1>2, <1>3, <1>4 DEF Next, Done

\* For any deadlines and any amount of output: nobody is still logging in, idle
\* or connected after the deadline and one pass through the loop.
THEOREM DeadlinesHoldAlways == Spec => []DeadlinesHold
<1>1. Init => DeadlineInv
  <2>. SUFFICES ASSUME Init PROVE DeadlineInv
    OBVIOUS
  <2>1. Typed
    BY InitTyped
  <2>2. at = "new" /\ connected_at = Unknown
    BY DEF Init
  <2>. QED
    BY <2>1, <2>2 DEF DeadlineInv, LoginInTime, IdleInTime, SessionInTime
<1>2. DeadlineInv => DeadlinesHold
  <2>. SUFFICES ASSUME DeadlineInv PROVE DeadlinesHold
    OBVIOUS
  <2>. USE Constants, WriteType
  <2>1. /\ Rest \in Nat /\ connected_at \in Int /\ last_activity \in Int
        /\ at \in Place /\ after \in After
    BY RestType DEF DeadlineInv, Typed, Moment
  <2>2. ASSUME at \in {"read", "feed"}, ~in_game
        PROVE  connected_at < LOGIN_TIMEOUT + WRITE + 2 * WORK + READ_TICK
    <3>1. \/ connected_at + Rest < LOGIN_TIMEOUT + WRITE + WORK + READ_TICK
          \/ connected_at + Rest < LOGIN_TIMEOUT + WRITE + 2 * WORK + READ_TICK
      BY <2>2 DEF DeadlineInv, LoginInTime
    <3>. QED
      BY <2>1, <3>1
  <2>3. ASSUME at = "read", in_game
        PROVE  last_activity < IDLE_TIMEOUT + WRITE + WORK + READ_TICK
    <3>1. last_activity + Rest < IDLE_TIMEOUT + WRITE + WORK + READ_TICK
      BY <2>3 DEF DeadlineInv, IdleInTime
    <3>. QED
      BY <2>1, <3>1
  <2>4. ASSUME connected_at # Unknown
        PROVE  connected_at < SESSION_MAX + 3 * WRITE + 3 * WORK + READ_TICK
    <3>1. ~Outside(at, after)
      BY <2>4 DEF DeadlineInv
    <3>2. \/ connected_at + Rest < SESSION_MAX + WRITE
          \/ connected_at + Rest < SESSION_MAX + WRITE + WORK + READ_TICK
          \/ connected_at + Rest < SESSION_MAX + WRITE + 2 * WORK + READ_TICK
          \/ connected_at + Rest < SESSION_MAX + 2 * WRITE + 2 * WORK + READ_TICK
          \/ connected_at + Rest < SESSION_MAX + 3 * WRITE + 2 * WORK + READ_TICK
          \/ connected_at + Rest < SESSION_MAX + 3 * WRITE + 3 * WORK + READ_TICK
      BY <2>1, <3>1, SMTT(30) DEF DeadlineInv, SessionInTime, Outside, Place, After
    <3>. QED
      BY <2>1, <3>2
  <2>. QED
    BY <2>2, <2>3, <2>4 DEF DeadlinesHold
<1>. QED
  BY <1>1, <1>2, DeadlineStep, PTL DEF Spec

-----------------------------------------------------------------------------
\* A failed write, and what OpenSSL has found broken, is remembered.
FailureInv ==
    /\ at \in Place /\ after \in After
    /\ failed \in BOOLEAN /\ fatal_tls_error \in BOOLEAN /\ handshake_complete \in BOOLEAN
    /\ stopping \in BOOLEAN
    /\ fed_after_failure \in {0, 1}
    /\ ~failed => fed_after_failure = 0
    /\ at = "write" => ~failed
    /\ at = "read" => fed_after_failure = 0
    /\ at \in {"new", "accept"} => ~handshake_complete
    /\ handshake_complete => ssl \in {"open", "broken"} \/ at = "done"
    /\ ssl = "broken" => fatal_tls_error \/ failed
    /\ at = "shutdown" => ssl = "open"

\* Every action of the worker remembers it.
LEMMA FailureStep == FailureInv /\ [Next]_vars => FailureInv'
<1>. SUFFICES ASSUME FailureInv, [Next]_vars PROVE FailureInv'
  OBVIOUS
<1>. USE DEF FailureInv, tls, output, player, times, Enter
<1>1. ASSUME NEW p \in After, Output(p)
      PROVE  /\ at' \in {p, "write"} /\ after' \in After /\ (at' = "write" => ~failed)
  BY <1>1 DEF Output, After
<1>0. ASSUME Worker PROVE stopping' = stopping
  BY <1>0 DEF Worker, stop_vars
<1>2. CASE Worker /\ worker_start
  <2>1. /\ at = "new" /\ at' \in {"create", "cleanup", "accept"}
        /\ ssl' \in {ssl, "handshaking"} /\ fatal_tls_error' \in {fatal_tls_error, stopping}
        /\ UNCHANGED <<failed, handshake_complete, fed_after_failure, after>>
    BY <1>2 DEF worker_start
  <2>2. ssl' = "broken" => ssl = "broken" /\ fatal_tls_error' = fatal_tls_error
    BY <1>2 DEF worker_start
  <2>. QED
    BY <1>0, <1>2, <2>1, <2>2 DEF Place
<1>3. CASE Worker /\ tls_accept_with_deadline
  <2>1. /\ at = "accept" /\ ~handshake_complete
        /\ UNCHANGED <<failed, fed_after_failure, after>>
    BY <1>3 DEF tls_accept_with_deadline
  <2>2. CASE /\ at' = "create" /\ ssl' = "open" /\ handshake_complete' = TRUE
             /\ UNCHANGED fatal_tls_error
    BY <1>0, <1>3, <2>1, <2>2 DEF Place
  <2>3. CASE at' = "cleanup" /\ fatal_tls_error' = TRUE /\ UNCHANGED handshake_complete
    BY <1>0, <1>3, <2>1, <2>3 DEF Place
  <2>4. CASE at' = "accept" /\ UNCHANGED <<ssl, fatal_tls_error, handshake_complete>>
    BY <1>0, <1>3, <2>1, <2>4 DEF Place
  <2>. QED
    BY <1>3, <2>2, <2>3, <2>4, Zenon DEF tls_accept_with_deadline
<1>4. CASE Worker /\ create_session
  <2>1. at' \in {"greeted", "write", "cleanup"} /\ after' \in After /\ (at' = "write" => ~failed)
    BY <1>1, <1>4 DEF create_session, After
  <2>2. at = "create" /\ UNCHANGED <<failed, tls, fed_after_failure>>
    BY <1>4 DEF create_session
  <2>. QED
    BY <1>0, <1>4, <2>1, <2>2 DEF Place
<1>5. CASE Worker /\ greeted
  BY <1>0, <1>5, SMTT(30) DEF greeted, Place
<1>6. CASE Worker /\ connection_write
  <2>1. /\ at = "write" /\ ~failed /\ fed_after_failure = 0
        /\ UNCHANGED <<fatal_tls_error, handshake_complete, fed_after_failure>>
    BY <1>6 DEF connection_write
  <2>2. CASE at' = "write" /\ UNCHANGED <<after, failed, ssl>>
    BY <1>0, <1>6, <2>1, <2>2 DEF Place
  <2>3. CASE at' = after /\ after' = "loop" /\ UNCHANGED <<failed, ssl>>
    BY <1>0, <1>6, <2>1, <2>3 DEF Place, After
  <2>4. CASE at' = after /\ after' = "loop" /\ failed' = TRUE /\ ssl' \in {ssl, "broken"}
    BY <1>0, <1>6, <2>1, <2>4 DEF Place, After
  <2>. QED
    BY <1>6, <2>2, <2>3, <2>4, Zenon DEF connection_write
<1>7. CASE Worker /\ loop_top
  <2>1. UNCHANGED <<failed, tls, fed_after_failure>> /\ at = "loop"
    BY <1>7 DEF loop_top
  <2>2. CASE Enter("cleanup") /\ UNCHANGED output
    BY <1>0, <1>7, <2>1, <2>2 DEF Place
  <2>3. CASE ~Ended /\ (Output("cleanup") \/ Output("read"))
    <3>1. /\ at' \in {"cleanup", "read", "write"} /\ after' \in After /\ ~failed
      BY <1>1, <2>3, SMTT(30) DEF After, Ended
    <3>. QED
      BY <1>0, <1>7, <2>1, <3>1 DEF Place
  <2>. QED
    BY <1>7, <2>2, <2>3 DEF loop_top
<1>8. CASE Worker /\ read
  <2>1. /\ at = "read" /\ fed_after_failure = 0
        /\ UNCHANGED <<failed, handshake_complete, after>>
    BY <1>8 DEF read
  <2>2. CASE /\ at' = "feed" /\ UNCHANGED <<fatal_tls_error, ssl>>
             /\ fed_after_failure' = IF failed THEN fed_after_failure + 1 ELSE 0
    <3>1. fed_after_failure' \in {0, 1} /\ (~failed => fed_after_failure' = 0)
      BY <2>1, <2>2
    <3>. QED
      BY <1>0, <1>8, <2>1, <2>2, <3>1 DEF Place
  <2>3. CASE /\ at' \in {"loop", "cleanup"}
             /\ UNCHANGED <<fatal_tls_error, ssl, fed_after_failure>>
    BY <1>0, <1>8, <2>1, <2>3 DEF Place
  <2>4. CASE /\ at' = "cleanup" /\ fatal_tls_error' = TRUE /\ ssl' = "broken"
             /\ UNCHANGED fed_after_failure
    BY <1>0, <1>8, <2>1, <2>4 DEF Place
  <2>. QED
    BY <1>8, <2>2, <2>3, <2>4, Zenon DEF read
<1>9. CASE Worker /\ feed
  <2>1. /\ at' \in {"cleanup", "loop", "write"} /\ after' \in After /\ (at' = "write" => ~failed)
    BY <1>1, <1>9 DEF feed, After
  <2>2. at = "feed" /\ UNCHANGED <<failed, tls, fed_after_failure>>
    BY <1>9 DEF feed
  <2>. QED
    BY <1>0, <1>9, <2>1, <2>2 DEF Place
<1>10. CASE Worker /\ cleanup
  <2>1. Output("cleanup_tls")
    BY <1>10 DEF cleanup, Output
  <2>2. /\ at' \in {"cleanup_tls", "write"} /\ after' \in After /\ (at' = "write" => ~failed)
    BY <1>1, <2>1 DEF After
  <2>3. at = "cleanup" /\ UNCHANGED <<failed, tls, fed_after_failure>>
    BY <1>10 DEF cleanup
  <2>. QED
    BY <1>0, <1>10, <2>2, <2>3 DEF Place
<1>11. CASE Worker /\ cleanup_tls
  BY <1>0, <1>11 DEF cleanup_tls, MayShutdown, Place
<1>12. CASE Worker /\ tls_shutdown_bounded
  BY <1>0, <1>12 DEF tls_shutdown_bounded, Place
<1>13. CASE Worker /\ release
  BY <1>0, <1>13 DEF release, Place
<1>14. CASE stop \/ tick \/ UNCHANGED vars
  <2>1. /\ stopping' \in BOOLEAN
        /\ UNCHANGED <<at, after, failed, fatal_tls_error, handshake_complete, ssl,
                       fed_after_failure>>
    BY <1>14, Zenon DEF stop, tick, vars, stop_vars
  <2>. QED
    BY <2>1, SMTT(20)
<1>. QED
  BY <1>2, <1>3, <1>4, <1>5, <1>6, <1>7, <1>8, <1>9, <1>10, <1>11, <1>12,
     <1>13, <1>14, Zenon
     DEF Next, Worker, Done

\* After a failed write at most one more block is processed, and the TLS
\* shutdown is attempted only on a connection OpenSSL has not found broken.
THEOREM FailureIsFinalHolds == Spec => []FailureIsFinal
<1>1. Init => FailureInv
  BY Zenon DEF Init, FailureInv, Place, After
<1>2. FailureInv => FailureIsFinal
  BY DEF FailureInv, FailureIsFinal
<1>. QED
  BY <1>1, <1>2, FailureStep, PTL DEF Spec

-----------------------------------------------------------------------------
\* What a worker that is to stop does after the call at p, at most, and with
\* that call.
CLEANUP == WORK + WRITE + SHUTDOWN
Todo(p) ==
    CASE p = "new" -> READ_TICK + WORK + WRITE + CLEANUP
      [] p \in {"accept", "read"} -> WORK + WRITE + CLEANUP
      [] p \in {"create", "feed"} -> WRITE + CLEANUP
      [] p \in {"greeted", "loop"} -> CLEANUP
      [] p = "cleanup" -> WRITE + SHUTDOWN
      [] p = "cleanup_tls" -> SHUTDOWN
      [] OTHER -> 0
Full(p) == Duration(p) + Todo(p)

Remaining == Rest + (IF at = "write" THEN Full(after) ELSE Todo(at))

TOTAL == 3 * WRITE + 3 * WORK + READ_TICK + SHUTDOWN

StopInv ==
    /\ Typed /\ Remaining <= TOTAL
    /\ stopping => stopped_at + Remaining <= TOTAL

\* The sums.
LEMMA Sums ==
    /\ SHUTDOWN \in Nat /\ CLEANUP \in Nat /\ TOTAL \in Nat
    /\ CLEANUP = WORK + WRITE + SHUTDOWN
    /\ TOTAL = 3 * WRITE + 3 * WORK + READ_TICK + SHUTDOWN
    /\ Full("accept") = Todo("new") /\ Todo("new") <= TOTAL
    /\ Full("create") = Todo("accept") /\ Full("feed") = Todo("read")
    /\ Todo("create") = WRITE + CLEANUP /\ Todo("feed") = WRITE + CLEANUP
    /\ Todo("accept") = WORK + WRITE + CLEANUP /\ Todo("read") = WORK + WRITE + CLEANUP
    /\ Full("greeted") = CLEANUP /\ Full("loop") = CLEANUP /\ Full("cleanup") = CLEANUP
    /\ Todo("greeted") = CLEANUP /\ Todo("loop") = CLEANUP
    /\ WRITE + Full("read") = TOTAL
    /\ Todo("cleanup") = WRITE + SHUTDOWN /\ Full("cleanup_tls") = SHUTDOWN
    /\ Todo("cleanup_tls") = SHUTDOWN
    /\ Full("close") = 0 /\ Full("done") = 0 /\ Todo("shutdown") = 0
    /\ \A p : Todo(p) \in Nat /\ Full(p) \in Nat
<1>. USE Constants, WriteType
<1>1. SHUTDOWN \in Nat
  BY DEF SHUTDOWN
<1>2. CLEANUP \in Nat /\ TOTAL \in Nat
  BY <1>1 DEF CLEANUP, TOTAL
<1>3. \A p : Todo(p) \in Nat
  BY <1>1, <1>2 DEF Todo
<1>4. \A p : Full(p) \in Nat
  BY <1>3, Durations DEF Full
<1>. QED
  BY <1>1, <1>2, <1>3, <1>4, Durations DEF Todo, Full, CLEANUP, TOTAL

\* The TLS shutdown takes no longer than this.
LEMMA FirstShutdown == \A d : ShutdownRest(0, d) = SHUTDOWN
<1>. SUFFICES ASSUME NEW d PROVE ShutdownRest(0, d) = SHUTDOWN
  OBVIOUS
<1>1. 0 < TLS_SHUTDOWN_TIMEOUT
  BY Constants
<1>2. ShutdownRest(0, d) = TLS_SHUTDOWN_TIMEOUT - 1 - 0 + SHUTDOWN_TICK
  BY <1>1 DEF ShutdownRest
<1>3. TLS_SHUTDOWN_TIMEOUT - 1 - 0 + SHUTDOWN_TICK = SHUTDOWN
  BY Constants DEF SHUTDOWN
<1>. QED
  BY <1>2, <1>3

\* What remains is a length of time.
LEMMA RemainingType ==
    ASSUME Typed PROVE Remaining \in Nat /\ (at # "write" => Todo(at) <= Remaining)
BY RestType, Sums DEF Remaining

\* What remains after entering a place, and after producing output.
LEMMA EnterRemaining ==
    ASSUME NEW p, p \notin {"write", "shutdown"}, Enter(p) PROVE Remaining' = Full(p)
<1>1. at' = p /\ Rest' = Duration(p)
  BY EnterRest
<1>. QED
  BY <1>1 DEF Remaining, Full

\* Output adds at most the time of a write.
LEMMA OutputRemaining ==
    ASSUME Typed, NEW p \in After, Output(p)
    PROVE  Remaining' \in Nat /\ Remaining' <= WRITE + Full(p)
<1>1. CASE at' = p /\ Rest' = Duration(p)
  <2>1. Remaining' = Full(p)
    BY <1>1 DEF Remaining, Full, After
  <2>2. Full(p) \in Nat
    BY Sums
  <2>. QED
    BY <2>1, <2>2, WriteType
<1>2. CASE at' = "write" /\ after' = p /\ Rest' \in Nat /\ Rest' <= WRITE
  <2>1. PICK r \in Nat : r = Rest' /\ r <= WRITE
    BY <1>2
  <2>2. Remaining' = r + Full(p)
    BY <1>2, <2>1 DEF Remaining
  <2>3. r \in Nat /\ r <= WRITE /\ Full(p) \in Nat
    BY <2>1, Sums
  <2>4. r + Full(p) \in Nat /\ r + Full(p) <= WRITE + Full(p)
    BY <2>3, WriteType, SMTT(20)
  <2>. QED
    BY <2>2, <2>4
<1>. QED
  BY <1>1, <1>2, OutputRest

\* No call leaves more to do than a whole pass, and after a stop none leaves
\* more to do than there was.
LEMMA WorkerRemaining ==
    ASSUME Typed, Typed', Worker
    PROVE  \/ Remaining' \in Nat /\ Remaining' <= TOTAL /\ (stopping => Remaining' <= Remaining)
           \/ Remaining' <= Remaining
<1>. USE Constants, WriteType, Sums
<1>0. Remaining \in Nat /\ (at # "write" => Todo(at) <= Remaining)
  BY RemainingType
<1>1. ASSUME NEW n \in Nat, Remaining' = n, n <= TOTAL, stopping => n <= Remaining
      PROVE  Remaining' \in Nat /\ Remaining' <= TOTAL /\ (stopping => Remaining' <= Remaining)
  BY <1>1
<1>2. CASE worker_start
  <2>1. /\ Todo("new") <= Remaining /\ Remaining' \in {Full("create"), Full("cleanup"), Full("accept")}
    BY <1>0, <1>2, EnterRemaining DEF worker_start
  <2>2. PICK n \in {Full("create"), Full("cleanup"), Full("accept")} : n = Remaining'
    BY <2>1
  <2>a. n \in {Full("create"), Full("cleanup"), Full("accept")}
    BY <2>2
  <2>3. n \in Nat /\ n <= Todo("new")
    <3>1. /\ Full("create") \in Nat /\ Full("create") <= Todo("new")
          /\ Full("cleanup") \in Nat /\ Full("cleanup") <= Todo("new")
          /\ Full("accept") \in Nat /\ Full("accept") <= Todo("new")
      BY DEF Todo
    <3>. QED
      BY <2>a, <3>1
  <2>. QED
    BY <1>0, <1>1, <2>1, <2>2, <2>3, SMTT(20)
<1>3. CASE tls_accept_with_deadline
  <2>1. /\ Todo("accept") <= Remaining
        /\ Remaining' \in {Full("create"), Full("cleanup"), Full("accept")}
        /\ stopping => Remaining' \in {Full("create"), Full("cleanup")}
    BY <1>0, <1>3, EnterRemaining DEF tls_accept_with_deadline
  <2>2. PICK n : n = Remaining'
    OBVIOUS
  <2>a. /\ n \in {Full("create"), Full("cleanup"), Full("accept")}
        /\ stopping => n \in {Full("create"), Full("cleanup")}
    BY <2>1, <2>2
  <2>3. n \in Nat /\ n <= TOTAL /\ (stopping => n <= Todo("accept"))
    BY <2>a
  <2>. QED
    BY <1>0, <1>1, <2>1, <2>2, <2>3, SMTT(20)
<1>4. CASE create_session
  <2>1. Todo("create") <= Remaining /\ (Enter("cleanup") \/ Output("greeted"))
    BY <1>0, <1>4 DEF create_session
  <2>2. PICK n : n = Remaining'
    OBVIOUS
  <2>3. n \in Nat /\ n <= WRITE + CLEANUP
    BY <2>1, <2>2, EnterRemaining, OutputRemaining DEF After
  <2>. QED
    BY <1>0, <1>1, <2>1, <2>2, <2>3
<1>5. CASE greeted
  <2>1. Todo("greeted") <= Remaining /\ Remaining' = Full("loop")
    BY <1>0, <1>5, EnterRemaining, SMTT(20) DEF greeted
  <2>. QED
    BY <1>0, <1>1, <2>1, SMTT(20)
<1>6. CASE connection_write
  <2>1. at = "write" /\ Remaining = Rest + Full(after) /\ Rest \in Nat /\ after \in After
    BY <1>6, SendRest, RestType DEF Remaining, Typed
  <2>2. CASE at' = "write" /\ after' = after /\ Rest' <= Rest
    <3>1. PICK r \in Nat : r = Rest' /\ r <= Rest
      BY <2>2, NextRestType, SMTT(20)
    <3>2. Remaining' = r + Full(after)
      BY <2>2, <3>1 DEF Remaining
    <3>3. r \in Nat /\ r <= Rest /\ Full(after) \in Nat
      BY <3>1
    <3>4. r + Full(after) <= Remaining
      BY <2>1, <3>3, SMTT(20)
    <3>. QED
      BY <3>2, <3>4, SMTT(20)
  <2>3. CASE at' = after /\ Rest' = Duration(after)
    <3>1. Remaining' = Full(after)
      BY <2>1, <2>3, SMTT(20) DEF Remaining, Full, After
    <3>. QED
      BY <2>1, <3>1, SMTT(30)
  <2>. QED
    BY <1>6, <2>2, <2>3, SendRest, ZenonT(30)
<1>7. CASE loop_top
  <2>1. /\ Todo("loop") <= Remaining
        /\ stopping => Enter("cleanup")
        /\ Enter("cleanup") \/ Output("cleanup") \/ Output("read")
    BY <1>0, <1>7, SMTT(20) DEF loop_top
  <2>2. PICK n : n = Remaining'
    OBVIOUS
  <2>3. n \in Nat /\ n <= TOTAL
    <3>1. Enter("cleanup") => n \in Nat /\ n <= TOTAL
      BY <2>2, EnterRemaining, SMTT(20)
    <3>2. Output("cleanup") => n \in Nat /\ n <= WRITE + CLEANUP
      BY <2>2, OutputRemaining, SMTT(20) DEF After
    <3>3. Output("read") => n \in Nat /\ n <= TOTAL
      BY <2>2, OutputRemaining, SMTT(20) DEF After
    <3>. QED
      BY <2>1, <3>1, <3>2, <3>3, SMTT(20)
  <2>4. stopping => n = CLEANUP
    BY <2>1, <2>2, EnterRemaining, SMTT(20)
  <2>. QED
    BY <1>0, <1>1, <2>1, <2>2, <2>3, <2>4, SMTT(30)
<1>8. CASE read
  <2>1. Todo("read") <= Remaining /\ (Enter("feed") \/ Enter("loop") \/ Enter("cleanup"))
    BY <1>0, <1>8, SMTT(30) DEF read
  <2>2. PICK n : n = Remaining'
    OBVIOUS
  <2>3. n \in Nat /\ n <= Todo("read")
    BY <2>1, <2>2, EnterRemaining, SMTT(30)
  <2>. QED
    BY <1>0, <1>1, <2>1, <2>2, <2>3, SMTT(30)
<1>9. CASE feed
  <2>1. Todo("feed") <= Remaining /\ (Output("cleanup") \/ Output("loop"))
    BY <1>0, <1>9, ZenonT(30) DEF feed
  <2>2. PICK n : n = Remaining'
    OBVIOUS
  <2>3. n \in Nat /\ n <= WRITE + CLEANUP
    BY <2>1, <2>2, OutputRemaining, ZenonT(30) DEF After
  <2>. QED
    BY <1>0, <1>1, <2>1, <2>2, <2>3, SMTT(30)
<1>10. CASE cleanup
  <2>1. Todo("cleanup") <= Remaining /\ Output("cleanup_tls")
    BY <1>0, <1>10, SMTT(20) DEF cleanup, Output
  <2>2. PICK n : n = Remaining'
    OBVIOUS
  <2>3. n \in Nat /\ n <= WRITE + SHUTDOWN
    BY <2>1, <2>2, OutputRemaining, ZenonT(30) DEF After
  <2>. QED
    BY <1>0, <1>1, <2>1, <2>2, <2>3, SMTT(20)
<1>11. CASE cleanup_tls
  <2>1. Todo("cleanup_tls") <= Remaining
    BY <1>0, <1>11, SMTT(20) DEF cleanup_tls
  <2>2. Remaining' \in {SHUTDOWN, 0}
    <3>1. CASE Enter("shutdown") /\ started' = 0
      <4>1. at' = "shutdown" /\ Rest' = ShutdownRest(0, due')
        BY <3>1, SMTT(20) DEF Enter, Rest
      <4>3. Remaining' = Rest' + Todo("shutdown")
        BY <4>1, SMTT(20) DEF Remaining
      <4>4. Rest' = SHUTDOWN
        BY <4>1, FirstShutdown, SMTT(20)
      <4>. QED
        BY <4>3, <4>4
    <3>2. CASE Enter("close")
      BY <3>2, EnterRemaining, SMTT(20)
    <3>. QED
      BY <1>11, <3>1, <3>2, SMTT(20) DEF cleanup_tls
  <2>. QED
    BY <1>0, <1>1, <2>1, <2>2, SMTT(20)
<1>12. CASE tls_shutdown_bounded
  <2>1. CASE started < TLS_SHUTDOWN_TIMEOUT /\ Enter("shutdown")
    <3>1. at = "shutdown" /\ at' = "shutdown" /\ started' = started
      BY <1>12, <2>1 DEF tls_shutdown_bounded, Enter, times
    <3>2. Rest' = Rest
      BY <2>1, <3>1, SMTT(20) DEF Rest, ShutdownRest
    <3>3. Remaining' = Remaining
      BY <3>1, <3>2, SMTT(20) DEF Remaining
    <3>. QED
      BY <1>0, <3>3, SMTT(20)
  <2>2. CASE Enter("close")
    BY <1>0, <1>1, <2>2, EnterRemaining, SMTT(20)
  <2>. QED
    BY <1>12, <2>1, <2>2, SMTT(30) DEF tls_shutdown_bounded
<1>13. CASE release
  <2>1. Remaining' = 0
    BY <1>13, EnterRemaining DEF release
  <2>. QED
    BY <1>0, <1>1, <2>1, SMTT(30)
<1>. QED
  BY <1>2, <1>3, <1>4, <1>5, <1>6, <1>7, <1>8, <1>9, <1>10, <1>11, <1>12,
     <1>13 DEF Worker

\* What remains is a length of time after a step, too.
LEMMA NextRemainingType == Typed' => Remaining' \in Nat
<1>. DEFINE RemainingTyped == Remaining \in Nat
<1>1. Typed => RemainingTyped
  BY RemainingType
<1>. HIDE DEF RemainingTyped
<1>2. Typed' => RemainingTyped'
  BY <1>1, PTL
<1>. QED
  BY <1>2 DEF RemainingTyped

\* The time since the stop and what remains never exceed a whole pass.
LEMMA StopStep == StopInv /\ [Next]_vars => StopInv'
<1>. SUFFICES ASSUME StopInv, [Next]_vars PROVE StopInv'
  OBVIOUS
<1>0. Typed /\ Typed'
  BY TypedStep, ZenonT(30) DEF StopInv
<1>1. /\ Remaining \in Nat /\ Remaining <= TOTAL /\ TOTAL \in Nat
      /\ stopped_at \in Int /\ (stopping => stopped_at >= 0) /\ stopping \in BOOLEAN
      /\ stopping => stopped_at + Remaining <= TOTAL
  BY <1>0, RemainingType, Sums DEF StopInv, Typed, Moment
<1>2. PICK n \in Nat : n = Remaining'
  BY <1>0, NextRemainingType
<1>3. CASE Worker
  <2>1. UNCHANGED <<stopping, stopped_at>>
    BY <1>3 DEF Worker, stop_vars
  <2>2. (n <= TOTAL /\ (stopping => n <= Remaining)) \/ n <= Remaining
    BY <1>0, <1>2, <1>3, WorkerRemaining
  <2>3. n \in Nat
    BY <1>2
  <2>4. n <= TOTAL /\ (stopping => stopped_at + n <= TOTAL)
    BY <1>1, <2>2, <2>3
  <2>. QED
    BY <1>0, <1>2, <2>1, <2>4 DEF StopInv
<1>4. CASE stop
  <2>1. /\ UNCHANGED <<at, after, left, due, started>> /\ stopped_at' = 0
    BY <1>4 DEF stop, output, times
  <2>2. Remaining' = Remaining
    BY <2>1 DEF Remaining, Rest
  <2>3. 0 + Remaining <= TOTAL
    BY <1>1
  <2>. QED
    BY <1>0, <1>1, <2>1, <2>2, <2>3 DEF StopInv
<1>5. CASE tick
  <2>1. /\ Rest' <= Rest - 1 /\ UNCHANGED <<at, after, stopping>>
        /\ stopped_at' = Later(stopped_at)
    BY <1>0, <1>5, TickRest DEF tick
  <2>2. PICK r \in Nat : r = Rest' /\ r <= Rest - 1
    BY <1>0, <2>1, NextRestType, SMTT(30)
  <2>. DEFINE rest == IF at = "write" THEN Full(after) ELSE Todo(at)
  <2>3. Remaining = Rest + rest /\ Remaining' = r + rest /\ rest \in Nat /\ Rest \in Nat
    BY <1>0, <2>1, <2>2, RestType, Sums DEF Remaining
  <2>. HIDE DEF rest
  <2>4. r \in Nat /\ r <= Rest - 1
    BY <2>2
  <2>5. r + rest <= Remaining - 1
    BY <2>3, <2>4
  <2>6. r + rest \in Nat
    BY <2>3, <2>4
  <2>7. r + rest <= TOTAL
    BY <1>1, <2>5, <2>6
  <2>8. stopping => stopped_at' = stopped_at + 1
    BY <1>1, <2>1 DEF Later, Unknown
  <2>9. stopping => (stopped_at + 1) + (r + rest) <= TOTAL
    BY <1>1, <2>5, <2>6
  <2>. QED
    BY <1>0, <2>1, <2>3, <2>7, <2>8, <2>9 DEF StopInv
<1>6. CASE UNCHANGED vars
  BY <1>0, <1>6 DEF StopInv, Remaining, Rest, vars, output, times, stop_vars
<1>. QED
  BY <1>3, <1>4, <1>5, <1>6 DEF Next, Done

\* For any deadlines and any amount of output, a worker is out within one pass
\* through the loop and a TLS shutdown of a stop.
THEOREM StopPromptHolds == Spec => []StopPrompt
<1>1. Init => StopInv
  <2>. SUFFICES ASSUME Init PROVE StopInv
    OBVIOUS
  <2>1. Typed /\ ~stopping
    BY InitTyped DEF Init
  <2>2. at = "new" /\ Rest = 0
    BY <2>1, RestType DEF Init
  <2>3. Remaining = 0 + Todo("new")
    BY <2>2 DEF Remaining
  <2>. QED
    BY <2>1, <2>3, Sums DEF StopInv
<1>2. StopInv => StopPrompt
  <2>. SUFFICES ASSUME StopInv, stopping
       PROVE  stopped_at < 3 * WRITE + 3 * WORK + READ_TICK + SHUTDOWN_TICK
                                 + TLS_SHUTDOWN_TIMEOUT
    BY DEF StopPrompt
  <2>1. stopped_at + Remaining <= TOTAL /\ Remaining \in Nat /\ stopped_at \in Int
    BY RemainingType DEF StopInv, Typed, Moment
  <2>. QED
    BY <2>1, Constants, WriteType DEF TOTAL, SHUTDOWN
<1>. QED
  BY <1>1, <1>2, StopStep, PTL DEF Spec
=============================================================================
