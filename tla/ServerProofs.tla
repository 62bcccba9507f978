---------------------------- MODULE ServerProofs ----------------------------
(***************************************************************************)
(* Proofs about the server's threads: ServerRuntime, for any number of     *)
(* clients, any listeners and any MAX_ACTIVE_CONNECTIONS, and one SSH      *)
(* worker, for any timeouts, lengths of line and names, and any order of   *)
(* libssh's callbacks.                                                     *)
(*                                                                         *)
(* ServerRuntime: the counter equals the number of slot holders, so when   *)
(* runtime_wait_for_workers finds it zero there is no worker left; and a   *)
(* connection can take a slot only while the main thread is in the accept  *)
(* loop, when everything shared has been initialised and nothing freed.    *)
(*                                                                         *)
(* SshSession: the deadlines are tested only between two calls of          *)
(* ssh_event_dopoll.  The invariant bounds the time at which the call in   *)
(* progress returns, rather than the present time.                         *)
(***************************************************************************)
EXTENDS ServerRuntime, SshSession, FiniteSetTheorems, TLAPS

\* What is initialised, and what is not, at each point of secure_server_run.
SetupInv ==
    /\ main \in Running \cup {"listen"} => Shared \subseteq held
    /\ main = "start" => held = {}
    /\ main = "mutex" => held \subseteq {"libssh"}
    /\ main = "condition" => held \subseteq {"libssh", "mutex"} /\ "mutex" \in held
    /\ main = "audit" => /\ held \subseteq {"libssh", "mutex", "condition"}
                         /\ {"mutex", "condition"} \subseteq held
    /\ main = "security" => {"mutex", "condition", "audit"} \subseteq held
    /\ main = "store" => {"mutex", "condition", "audit", "security"} \subseteq held
    /\ main = "tls_context" => Shared \ {"tls_context"} \subseteq held
    /\ main = "cleanup_runtime" => held \subseteq {"libssh", "mutex", "condition"}
    /\ main = "cleanup_ssh" => held \subseteq {"libssh"}
    /\ main = "returned" => held = {}
    /\ main \in {"start", "mutex", "condition", "audit", "security", "store",
                 "tls_context", "wait", "asleep", "cleanup_runtime",
                 "cleanup_ssh", "returned"} => listening = {}

SlotInv ==
    /\ SlotsExact
    /\ main \notin Running => Holders = {}

RuntimeInv == TypeOK /\ SetupInv /\ SlotInv

-----------------------------------------------------------------------------
\* The bound on workers is a number.
LEMMA MaxActiveType == MaxActive \in Nat
BY RuntimeAssumption

\* The listeners are finitely many.
LEMMA ListenersType == Len(Listeners) \in Nat
BY RuntimeAssumption

Phase == Queued \cup MainOwned \cup Working \cup Over

\* How a step that moves one connection changes the set of slot holders.
LEMMA HoldersMove ==
    ASSUME phase \in [Conn -> Phase], NEW c \in Conn, NEW to \in Phase,
           phase' = [phase EXCEPT ![c] = to]
    PROVE  /\ (phase[c] \in HoldsSlot <=> to \in HoldsSlot) => Holders' = Holders
           /\ phase[c] \notin HoldsSlot /\ to \in HoldsSlot
                 => Holders' = Holders \cup {c} /\ c \notin Holders
           /\ phase[c] \in HoldsSlot /\ to \notin HoldsSlot
                 => Holders' = Holders \ {c} /\ c \in Holders
<1>1. \A d \in Conn : phase'[d] = IF d = c THEN to ELSE phase[d]
  OBVIOUS
<1>2. \A d \in Conn : d \in Holders <=> phase[d] \in HoldsSlot
  BY DEF Holders
<1>3. \A d \in Conn : d \in Holders' <=> phase'[d] \in HoldsSlot
  BY DEF Holders
<1>4. Holders \subseteq Conn /\ Holders' \subseteq Conn
  BY DEF Holders
<1>. QED
  BY <1>1, <1>2, <1>3, <1>4

\* A bounded set of connections has finitely many slot holders.
LEMMA HoldersFinite ==
    /\ IsFiniteSet(Holders) /\ Cardinality(Holders) \in Nat
    /\ Cardinality(Holders) = 0 <=> Holders = {}
BY RuntimeAssumption, FS_Subset, FS_CardinalityType, FS_EmptySet DEF Holders

\* A step that leaves the slot holders alone leaves the counter exact.
LEMMA SlotKept ==
    ASSUME SlotsExact, Holders' = Holders, active_connections' = active_connections
    PROVE  SlotsExact'
BY DEF SlotsExact

\* accept taking a slot: the counter and the holders grow by one.
LEMMA SlotTaken ==
    ASSUME SlotsExact, NEW c, c \notin Holders, Holders' = Holders \cup {c},
           active_connections' = active_connections + 1
    PROVE  SlotsExact'
BY HoldersFinite, FS_AddElement DEF SlotsExact

\* A worker giving its slot back: the counter and the holders shrink by one.
LEMMA SlotReleased ==
    ASSUME SlotsExact, NEW c, c \in Holders, Holders' = Holders \ {c},
           active_connections' = Decrement
    PROVE  SlotsExact' /\ active_connections > 0
<1>1. active_connections \in Nat /\ active_connections # 0
  BY HoldersFinite DEF SlotsExact
<1>2. Cardinality(Holders \ {c}) = Cardinality(Holders) - 1
  BY HoldersFinite, FS_RemoveElement, SMTT(30)
<1>. QED
  BY <1>1, <1>2 DEF SlotsExact, Decrement

-----------------------------------------------------------------------------
\* Everything but connections: the order of setup and cleanup.
LEMMA SetupStep == TypeOK /\ SetupInv /\ [Next]_vars => SetupInv'
<1>. SUFFICES ASSUME TypeOK, SetupInv, [Next]_vars PROVE SetupInv'
  OBVIOUS
<1>. USE DEF SetupInv, Running, Shared, setup_vars, conn_vars, Goto
<1>a. held \subseteq Resource
  BY Zenon DEF TypeOK
<1>1. CASE ssh_transport_global_init
  BY <1>1 DEF ssh_transport_global_init, Acquire
<1>2. CASE pthread_mutex_init
  BY <1>2 DEF pthread_mutex_init, Acquire
<1>3. CASE pthread_cond_init
  BY <1>3 DEF pthread_cond_init
<1>4. CASE audit_log_open
  BY <1>4 DEF audit_log_open, Acquire
<1>5. CASE security_policy_create
  BY <1>5 DEF security_policy_create, Acquire
<1>6. CASE player_store_open
  BY <1>6 DEF player_store_open, Acquire
<1>7. CASE create_tls_context
  BY <1>7 DEF create_tls_context, Acquire
<1>8. CASE open_listener
  BY <1>8 DEF open_listener
<1>9. CASE server_start
  BY <1>9 DEF server_start
<1>10. CASE accept_loop \/ end_of_scan \/ runtime_begin_shutdown
  BY <1>10 DEF accept_loop, end_of_scan, runtime_begin_shutdown
<1>11. ASSUME NEW c \in Conn,
              \/ accept_client(c) \/ allow_connection(c)
              \/ runtime_reserve_connection(c) \/ pthread_create(c)
       PROVE  SetupInv'
  BY <1>11 DEF accept_client, allow_connection, runtime_reserve_connection,
               pthread_create, Refuse
<1>12. CASE close_listeners
  BY <1>12 DEF close_listeners, CloseListeners
<1>13. CASE runtime_wait_for_workers \/ spurious_wakeup
  BY <1>13 DEF runtime_wait_for_workers, spurious_wakeup
<1>14. CASE cleanup
  BY <1>14, <1>a DEF cleanup, CloseListeners, Resource
<1>15. CASE cleanup_runtime
  BY <1>15 DEF cleanup_runtime
<1>16. CASE cleanup_ssh
  BY <1>16 DEF cleanup_ssh
<1>17. ASSUME NEW c \in Conn, connect(c) \/ connection_worker(c) \/ connection_loop(c)
       PROVE  SetupInv'
  <2>1. UNCHANGED <<main, held, listening>>
    BY <1>17 DEF connect, connection_worker, connection_loop, Worker, worker_start,
                 tls_accept_with_deadline, worker_cleanup,
                 ssh_transport_run_connection, runtime_release_connection
  <2>. QED
    BY <2>1, ZenonT(30)
<1>18. CASE request_stop \/ Returned \/ UNCHANGED vars
  BY <1>18 DEF request_stop, Returned, vars
<1>. QED
  BY <1>1, <1>2, <1>3, <1>4, <1>5, <1>6, <1>7, <1>8, <1>9, <1>10, <1>11, <1>12,
     <1>13, <1>14, <1>15, <1>16, <1>17, <1>18, Zenon DEF Next, secure_server_run

-----------------------------------------------------------------------------
\* What a step does to one connection: nothing, a move that keeps its claim
\* to a slot, a move that takes a slot under the limit, or one that gives it
\* back.
ConnStep ==
    \/ UNCHANGED <<phase, active_connections>>
    \/ /\ phase' = [c \in Conn |-> IF phase[c] = "backlog" THEN "reset" ELSE phase[c]]
       /\ UNCHANGED active_connections
    \/ \E c \in Conn, to \in Phase :
          /\ phase' = [phase EXCEPT ![c] = to]
          /\ \/ /\ phase[c] \in HoldsSlot <=> to \in HoldsSlot
                /\ UNCHANGED active_connections
             \/ /\ phase[c] \notin HoldsSlot /\ to \in HoldsSlot
                /\ active_connections' = active_connections + 1
                /\ active_connections < MaxActive
             \/ /\ phase[c] \in HoldsSlot /\ to \notin HoldsSlot
                /\ active_connections' = Decrement

\* Every step treats connections in one of these ways.
LEMMA NextConnStep == Next => ConnStep
<1>. SUFFICES ASSUME Next PROVE ConnStep
  OBVIOUS
<1>. USE DEF conn_vars, setup_vars
<1>1. CASE \/ ssh_transport_global_init \/ pthread_mutex_init \/ pthread_cond_init
           \/ audit_log_open \/ security_policy_create \/ player_store_open
           \/ create_tls_context
  BY <1>1, ZenonT(30) DEF ssh_transport_global_init, pthread_mutex_init,
     pthread_cond_init,
              audit_log_open, security_policy_create, player_store_open,
              create_tls_context, Acquire, ConnStep
<1>2. CASE \/ open_listener \/ server_start \/ accept_loop \/ end_of_scan
           \/ runtime_begin_shutdown \/ runtime_wait_for_workers
           \/ cleanup_runtime \/ cleanup_ssh
           \/ spurious_wakeup \/ request_stop \/ Returned
  BY <1>2 DEF open_listener, server_start, accept_loop, end_of_scan,
              runtime_begin_shutdown, runtime_wait_for_workers, cleanup_runtime,
              cleanup_ssh, spurious_wakeup, request_stop, Returned, vars, ConnStep
<1>3. CASE close_listeners \/ cleanup
  BY <1>3 DEF close_listeners, cleanup, CloseListeners, ConnStep
<1>. USE DEF Phase, HoldsSlot, Queued, MainOwned, Working, Over
<1>4. ASSUME NEW c \in Conn, accept_client(c) \/ allow_connection(c) \/ connect(c)
      PROVE  ConnStep
  BY <1>4 DEF accept_client, allow_connection, connect, Refuse, ConnStep
<1>5. ASSUME NEW c \in Conn, runtime_reserve_connection(c)
      PROVE  ConnStep
  BY <1>5 DEF runtime_reserve_connection, Refuse, ConnStep
<1>6. ASSUME NEW c \in Conn, pthread_create(c)
      PROVE  ConnStep
  BY <1>6 DEF pthread_create, Refuse, ConnStep
<1>7. ASSUME NEW c \in Conn, connection_worker(c) \/ connection_loop(c)
      PROVE  ConnStep
  <2>1. CASE worker_start(c)
    BY <2>1 DEF worker_start, Worker, ConnStep
  <2>2. CASE tls_accept_with_deadline(c) \/ connection_loop(c)
    BY <2>2 DEF tls_accept_with_deadline, connection_loop, Worker, ConnStep
  <2>3. CASE worker_cleanup(c) \/ ssh_transport_run_connection(c)
    BY <2>3 DEF worker_cleanup, ssh_transport_run_connection, Worker, ConnStep
  <2>4. CASE runtime_release_connection(c)
    <3>1. /\ phase' = [phase EXCEPT ![c] = "done"] /\ phase[c] = "closed"
          /\ active_connections' = Decrement
      BY <2>4 DEF runtime_release_connection, Worker
    <3>2. "closed" \in HoldsSlot /\ "done" \notin HoldsSlot /\ "done" \in Phase
      OBVIOUS
    <3>. QED
      BY <3>1, <3>2, Zenon DEF ConnStep
  <2>. QED
    BY <1>7, <2>1, <2>2, <2>3, <2>4 DEF connection_worker
<1>. QED
  BY <1>1, <1>2, <1>3, <1>4, <1>5, <1>6, <1>7 DEF Next, secure_server_run

\* Only the accept loop hands out slots, and it leaves the wait for workers
\* only when the counter is zero.
LEMMA SlotStep == RuntimeInv /\ [Next]_vars => SlotInv'
<1>. SUFFICES ASSUME RuntimeInv, [Next]_vars PROVE SlotInv'
  OBVIOUS
<1>1. /\ phase \in [Conn -> Phase] /\ SlotsExact
      /\ main \notin Running => Holders = {}
  BY Zenon DEF RuntimeInv, TypeOK, SlotInv, Phase
<1>2. SlotsExact'
  <2>1. CASE UNCHANGED <<phase, active_connections>>
    BY <1>1, <2>1, SlotKept DEF Holders
  <2>2. CASE /\ phase' = [c \in Conn |-> IF phase[c] = "backlog" THEN "reset" ELSE phase[c]]
             /\ UNCHANGED active_connections
    <3>1. Holders' = Holders
      BY <2>2 DEF Holders, HoldsSlot, Working
    <3>. QED
      BY <1>1, <2>2, <3>1, SlotKept
  <2>3. ASSUME NEW c \in Conn, NEW to \in Phase, phase' = [phase EXCEPT ![c] = to],
               \/ /\ phase[c] \in HoldsSlot <=> to \in HoldsSlot
                  /\ UNCHANGED active_connections
               \/ /\ phase[c] \notin HoldsSlot /\ to \in HoldsSlot
                  /\ active_connections' = active_connections + 1
               \/ /\ phase[c] \in HoldsSlot /\ to \notin HoldsSlot
                  /\ active_connections' = Decrement
        PROVE  SlotsExact'
    BY <1>1, <2>3, HoldersMove, SlotKept, SlotTaken, SlotReleased, Zenon
  <2>4. CASE UNCHANGED vars
    BY <2>1, <2>4 DEF vars
  <2>. QED
    BY <2>1, <2>2, <2>3, <2>4, NextConnStep DEF ConnStep
<1>3. ASSUME main' \notin Running PROVE Holders' = {}
  <2>. USE <1>3 DEF Running, Goto, conn_vars, setup_vars
  <2>1. CASE main \in Running
    <3>1. runtime_wait_for_workers /\ active_connections = 0 /\ UNCHANGED phase
      BY <2>1, Zenon DEF Next, secure_server_run, ssh_transport_global_init,
         pthread_mutex_init, pthread_cond_init, audit_log_open, Acquire,
         security_policy_create, player_store_open, create_tls_context,
         open_listener, server_start, accept_loop, end_of_scan,
         accept_client, allow_connection, runtime_reserve_connection,
         pthread_create, Refuse, runtime_begin_shutdown, close_listeners,
         CloseListeners, runtime_wait_for_workers, cleanup, cleanup_runtime,
         cleanup_ssh, spurious_wakeup, request_stop, connect, connection_worker,
         connection_loop, Worker, worker_start, tls_accept_with_deadline,
         worker_cleanup, ssh_transport_run_connection,
         runtime_release_connection, Returned, vars
    <3>. QED
      BY <1>1, <3>1, HoldersFinite DEF SlotsExact, Holders
  <2>2. CASE main \notin Running
    <3>1. Holders = {}
      BY <1>1, <2>2
    <3>2. \A c \in Conn : phase[c] \notin HoldsSlot
      BY <3>1, SMTT(30) DEF Holders
    <3>3. \A c \in Conn : phase'[c] \notin HoldsSlot
      <4>1. CASE UNCHANGED phase
        BY <3>2, <4>1
      <4>2. CASE phase' = [c \in Conn |-> IF phase[c] = "backlog" THEN "reset" ELSE phase[c]]
        BY <3>2, <4>2 DEF HoldsSlot, Working
      <4>3. ASSUME NEW c \in Conn, connect(c)
            PROVE  \A d \in Conn : phase'[d] \notin HoldsSlot
        BY <1>1, <3>2, <4>3, ZenonT(30) DEF connect, HoldsSlot, Working
      <4>4. ASSUME NEW c \in Conn, connection_worker(c) \/ connection_loop(c)
            PROVE  FALSE
        BY <3>2, <4>4, SMTT(20) DEF connection_worker, connection_loop, Worker,
           worker_start, tls_accept_with_deadline, worker_cleanup,
           ssh_transport_run_connection, runtime_release_connection,
           HoldsSlot, Working
      <4>. QED
        BY <2>2, <4>1, <4>2, <4>3, <4>4, Zenon
           DEF Next, secure_server_run, ssh_transport_global_init,
           pthread_mutex_init, pthread_cond_init, audit_log_open, Acquire,
           security_policy_create, player_store_open, create_tls_context,
           open_listener, server_start, accept_loop, end_of_scan,
           accept_client, allow_connection, runtime_reserve_connection,
           pthread_create, runtime_begin_shutdown, close_listeners,
           CloseListeners, runtime_wait_for_workers, cleanup, cleanup_runtime,
           cleanup_ssh, spurious_wakeup, request_stop, Returned, vars
    <3>. QED
      BY <3>3 DEF Holders
  <2>. QED
    BY <2>1, <2>2
<1>. QED
  BY <1>2, <1>3 DEF SlotInv

\* Only open_listener and the two places that close the listeners touch them.
LEMMA ListenerSteps ==
    ASSUME [Next]_vars
    PROVE  \/ UNCHANGED <<listening, tried>>
           \/ listening' = {} /\ UNCHANGED tried
           \/ open_listener
<1>. USE DEF conn_vars, setup_vars
<1>1. CASE close_listeners \/ cleanup
  BY <1>1, SMTT(20) DEF close_listeners, cleanup, CloseListeners
<1>2. ASSUME NEW c \in Conn,
             \/ accept_client(c) \/ allow_connection(c) \/ connect(c)
             \/ runtime_reserve_connection(c) \/ pthread_create(c)
             \/ connection_worker(c) \/ connection_loop(c)
      PROVE  UNCHANGED <<listening, tried>>
  BY <1>2, Zenon DEF accept_client, allow_connection, connect,
              runtime_reserve_connection, pthread_create, connection_worker,
              connection_loop, Worker, worker_start, tls_accept_with_deadline,
              worker_cleanup, ssh_transport_run_connection,
              runtime_release_connection
<1>. QED
  BY <1>1, <1>2, Zenon DEF Next, secure_server_run, ssh_transport_global_init,
     pthread_mutex_init, pthread_cond_init, audit_log_open, Acquire,
     security_policy_create, player_store_open, create_tls_context,
     server_start, accept_loop, end_of_scan, runtime_begin_shutdown,
     runtime_wait_for_workers, cleanup_runtime, cleanup_ssh, spurious_wakeup,
     request_stop, Returned, vars

\* Every step keeps the types; the counter stays within the limit because
\* it is exact and is raised only below the limit.
LEMMA TypeStep == RuntimeInv /\ [Next]_vars => TypeOK'
<1>. SUFFICES ASSUME RuntimeInv, [Next]_vars PROVE TypeOK'
  OBVIOUS
<1>0. TypeOK
  BY DEF RuntimeInv
<1>1. phase' \in [Conn -> Phase]
  <2>1. phase \in [Conn -> Phase]
    BY <1>0, Zenon DEF TypeOK, Phase
  <2>2. CASE UNCHANGED phase
    BY <2>1, <2>2
  <2>3. CASE phase' = [c \in Conn |-> IF phase[c] = "backlog" THEN "reset" ELSE phase[c]]
    BY <2>1, <2>3 DEF Phase, Over
  <2>4. ASSUME NEW c \in Conn, NEW to \in Phase, phase' = [phase EXCEPT ![c] = to]
        PROVE  phase' \in [Conn -> Phase]
    BY <2>1, <2>4
  <2>. QED
    BY <2>2, <2>3, <2>4, NextConnStep DEF ConnStep, vars
<1>2. active_connections' \in 0 .. MaxActive
  <2>1. active_connections \in 0 .. MaxActive
    BY <1>0, Zenon DEF TypeOK
  <2>2. CASE UNCHANGED active_connections
    BY <2>1, <2>2
  <2>3. CASE active_connections' = active_connections + 1 /\ active_connections < MaxActive
    BY <2>1, <2>3, MaxActiveType
  <2>4. CASE active_connections' = Decrement
    BY <2>1, <2>4, MaxActiveType DEF Decrement
  <2>. QED
    BY <2>2, <2>3, <2>4, NextConnStep DEF ConnStep, vars
<1>. DEFINE Bound == Len(Listeners)
<1>. HIDE DEF Bound
<1>b. Bound \in Nat /\ listening \subseteq 1 .. Bound /\ tried \in 0 .. Bound
  BY <1>0, ListenersType, Zenon DEF TypeOK, Bound
<1>c. listening' \subseteq 1 .. Bound /\ tried' \in 0 .. Bound
  <2>1. CASE UNCHANGED <<listening, tried>>
    BY <1>b, <2>1
  <2>2. CASE listening' = {} /\ UNCHANGED tried
    BY <1>b, <2>2
  <2>3. CASE open_listener
    <3>1. /\ tried < Bound /\ tried' = tried + 1
          /\ listening' = listening \/ listening' = listening \cup {tried + 1}
      BY <2>3 DEF open_listener, Bound
    <3>2. tried + 1 \in 1 .. Bound /\ tried + 1 \in 0 .. Bound
      BY <1>b, <3>1
    <3>. QED
      BY <1>b, <3>1, <3>2, Zenon
  <2>. QED
    BY <2>1, <2>2, <2>3, ListenerSteps
<1>d. listening' \subseteq 1 .. Len(Listeners) /\ tried' \in 0 .. Len(Listeners)
  BY <1>c DEF Bound
<1>. DEFINE Rest == /\ main' \in MainState
                    /\ held' \subseteq Resource
                    /\ fd' \in [Conn -> {"none", "open", "closed", "closed twice"}]
                    /\ stopping' \in BOOLEAN /\ stop_requested' \in BOOLEAN
                    /\ broadcast' \in BOOLEAN
<1>e. /\ main \in MainState /\ held \subseteq Resource
      /\ fd \in [Conn -> {"none", "open", "closed", "closed twice"}]
      /\ stopping \in BOOLEAN /\ stop_requested \in BOOLEAN /\ broadcast \in BOOLEAN
  BY <1>0, Zenon DEF TypeOK
<1>f. ASSUME Rest PROVE TypeOK'
  BY <1>1, <1>2, <1>d, <1>f, Zenon DEF TypeOK, Phase
<1>. USE <1>e DEF conn_vars, setup_vars, Goto, MainState, Running, Resource, Shared
<1>3. CASE \/ ssh_transport_global_init \/ pthread_mutex_init \/ pthread_cond_init
           \/ audit_log_open \/ security_policy_create \/ player_store_open
           \/ create_tls_context
  <2>1. Rest
    BY <1>3, Zenon DEF ssh_transport_global_init, pthread_mutex_init,
       pthread_cond_init,
                audit_log_open, security_policy_create, player_store_open,
                create_tls_context, Acquire
  <2>. QED
    BY <1>f, <2>1, Zenon
<1>4. CASE open_listener
  <2>1. Rest
    BY <1>4, Zenon DEF open_listener
  <2>. QED
    BY <1>f, <2>1, Zenon
<1>5. CASE \/ server_start \/ accept_loop \/ end_of_scan
           \/ runtime_begin_shutdown \/ runtime_wait_for_workers
           \/ cleanup_runtime \/ cleanup_ssh
           \/ spurious_wakeup \/ request_stop \/ Returned \/ UNCHANGED vars
  <2>1. Rest
    BY <1>5, ZenonT(40) DEF server_start, accept_loop, end_of_scan,
                runtime_begin_shutdown, runtime_wait_for_workers, cleanup_runtime,
                cleanup_ssh, spurious_wakeup, request_stop, Returned, vars
  <2>. QED
    BY <1>f, <2>1, Zenon
<1>6. CASE close_listeners \/ cleanup
  <2>1. Rest
    BY <1>6, Zenon DEF close_listeners, cleanup, CloseListeners
  <2>. QED
    BY <1>f, <2>1, Zenon
<1>7. ASSUME NEW c \in Conn,
             \/ accept_client(c) \/ allow_connection(c) \/ connect(c)
             \/ runtime_reserve_connection(c) \/ pthread_create(c)
      PROVE  TypeOK'
  <2>1. Rest
    BY <1>7, Zenon DEF accept_client, allow_connection, connect,
                runtime_reserve_connection, pthread_create, Refuse, Close
  <2>. QED
    BY <1>f, <2>1, Zenon
<1>8. ASSUME NEW c \in Conn, connection_worker(c) \/ connection_loop(c)
      PROVE  TypeOK'
  <2>1. Rest
    BY <1>8, ZenonT(40) DEF connection_worker, connection_loop, Worker, worker_start,
                tls_accept_with_deadline, worker_cleanup, Close,
                ssh_transport_run_connection, runtime_release_connection
  <2>. QED
    BY <1>f, <2>1, Zenon
<1>. QED
  BY <1>3, <1>4, <1>5, <1>6, <1>7, <1>8, Zenon DEF Next, secure_server_run

\* The server starts with nothing open and no slot taken.
LEMMA RuntimeInit == Init => RuntimeInv
<1>. SUFFICES ASSUME Init PROVE RuntimeInv
  OBVIOUS
<1>1. TypeOK
  <2>. DEFINE Bound == Len(Listeners)
  <2>. HIDE DEF Bound
  <2>1. {} \subseteq 1 .. Bound /\ 0 \in 0 .. Bound /\ 0 \in 0 .. MaxActive
    BY ListenersType, MaxActiveType DEF Bound
  <2>. QED
    BY <2>1, Zenon DEF Init, TypeOK, MainState, Queued, Bound
<1>2. SetupInv
  BY DEF Init, SetupInv, Running
<1>3. Holders = {}
  BY DEF Init, Holders, HoldsSlot, Working
<1>. QED
  BY <1>1, <1>2, <1>3, FS_EmptySet DEF Init, RuntimeInv, SlotInv, SlotsExact

\* Every step of the accept loop, of a worker and of cleanup keeps the invariant.
LEMMA RuntimeInductive == RuntimeInv /\ [Next]_vars => RuntimeInv'
BY TypeStep, SetupStep, SlotStep DEF RuntimeInv

\* So the invariant holds throughout.
LEMMA RuntimeInvariant == Spec => []RuntimeInv
BY RuntimeInit, RuntimeInductive, PTL DEF Spec

\* The state of secure_server_run is well formed; in particular the counter
\* never exceeds MAX_ACTIVE_CONNECTIONS.
THEOREM TypeCorrect == Spec => []TypeOK
<1>1. RuntimeInv => TypeOK
  BY DEF RuntimeInv
<1>. QED
  BY <1>1, RuntimeInvariant, PTL

\* The slot counter is exact, whatever fails.
THEOREM SlotsExactHolds == Spec => []SlotsExact
<1>1. RuntimeInv => SlotsExact
  BY DEF RuntimeInv, SlotInv
<1>. QED
  BY <1>1, RuntimeInvariant, PTL

\* Never more than MAX_ACTIVE_CONNECTIONS slot holders.
THEOREM CapacityHolds == Spec => []Capacity
<1>1. RuntimeInv => Capacity
  <2>. SUFFICES ASSUME RuntimeInv PROVE Capacity
    OBVIOUS
  <2>1. active_connections \in 0 .. MaxActive
    BY Zenon DEF RuntimeInv, TypeOK
  <2>2. active_connections <= MaxActive
    BY <2>1, MaxActiveType
  <2>. QED
    BY <2>2 DEF RuntimeInv, SlotInv, SlotsExact, Capacity
<1>. QED
  BY <1>1, RuntimeInvariant, PTL

\* "Shared objects live until the listener and all workers have stopped."
THEOREM SharedOutlivesWorkersHolds == Spec => []SharedOutlivesWorkers
<1>1. RuntimeInv => SharedOutlivesWorkers
  BY DEF RuntimeInv, SlotInv, SetupInv, SharedOutlivesWorkers
<1>. QED
  BY <1>1, RuntimeInvariant, PTL

\* secure_server_run returns with everything released.
THEOREM ReturnsCleanHolds == Spec => []ReturnsClean
<1>1. RuntimeInv => ReturnsClean
  BY DEF RuntimeInv, SetupInv, ReturnsClean
<1>. QED
  BY <1>1, RuntimeInvariant, PTL

-----------------------------------------------------------------------------
(* The descriptors.  Whether one is open follows from what has become of   *)
(* its connection: accept opens it, and whoever ends the connection closes *)
(* it in the same step.  This needs an application that can be opened; the *)
(* check of the arguments in ssh_transport_run_connection otherwise leaves *)
(* the descriptor of an SSH connection open.                               *)

\* The state of the descriptor of a connection in phase p.
FdOf(p) == IF p \in Queued \cup {"reset"} THEN "none"
           ELSE IF p \in {"refused", "closed", "done"} THEN "closed" ELSE "open"

DescriptorInv == \A c \in Conn : fd[c] = FdOf(phase[c])

FdTyped ==
    /\ phase \in [Conn -> Phase]
    /\ fd \in [Conn -> {"none", "open", "closed", "closed twice"}]

\* One connection moves, and its descriptor with it.
FdMove(c, to) ==
    /\ to \in Phase /\ phase' = [phase EXCEPT ![c] = to]
    /\ \/ fd' = fd /\ FdOf(to) = FdOf(phase[c])
       \/ fd' = [fd EXCEPT ![c] = FdOf(to)]

LEMMA FdMoved ==
    ASSUME DescriptorInv, FdTyped, NEW c \in Conn, NEW to, FdMove(c, to)
    PROVE  DescriptorInv'
<1>1. \A d \in Conn : phase'[d] = IF d = c THEN to ELSE phase[d]
  BY Zenon DEF FdTyped, FdMove
<1>2. \A d \in Conn : fd'[d] = IF d = c THEN FdOf(to) ELSE fd[d]
  BY Zenon DEF FdTyped, FdMove, DescriptorInv
<1>. QED
  BY <1>1, <1>2 DEF DescriptorInv

\* The main thread closes what it refuses.
LEMMA RefuseMove ==
    ASSUME DescriptorInv, NEW c \in Conn, phase[c] \in MainOwned, Refuse(c)
    PROVE  FdMove(c, "refused")
<1>1. fd[c] = "open"
  BY DEF DescriptorInv, FdOf, MainOwned, Queued
<1>2. fd' = [fd EXCEPT ![c] = "closed"]
  BY <1>1 DEF Refuse, Close
<1>3. FdOf("refused") = "closed" /\ "refused" \in Phase
  BY DEF FdOf, Queued, Phase, Over
<1>. QED
  BY <1>2, <1>3, Zenon DEF FdMove, Refuse

LEMMA MainFd ==
    ASSUME DescriptorInv, NEW c \in Conn,
           \/ accept_client(c) \/ allow_connection(c) \/ connect(c)
           \/ runtime_reserve_connection(c) \/ pthread_create(c)
    PROVE  \E to \in Phase : FdMove(c, to)
<1>1. {"accepted", "allowed", "reserved", "new", "backlog", "refused"} \subseteq Phase
  BY DEF Phase, Queued, MainOwned, Working, Over
<1>2. /\ FdOf("accepted") = "open" /\ FdOf("allowed") = "open" /\ FdOf("reserved") = "open"
      /\ FdOf("new") = "open" /\ FdOf("backlog") = "none" /\ FdOf("absent") = "none"
  BY DEF FdOf, Queued
<1>3. CASE accept_client(c)
  <2>1. FdMove(c, "accepted")
    BY <1>1, <1>2, <1>3, Zenon DEF accept_client, FdMove
  <2>. QED
    BY <1>1, <2>1
<1>4. CASE connect(c)
  <2>1. FdMove(c, "backlog")
    BY <1>1, <1>2, <1>4 DEF connect, FdMove
  <2>. QED
    BY <1>1, <2>1
<1>5. CASE Refuse(c) /\ phase[c] \in {"accepted", "allowed", "reserved"}
  BY <1>1, <1>5, RefuseMove DEF MainOwned
<1>6. CASE allow_connection(c) /\ ~Refuse(c)
  <2>1. FdMove(c, "allowed")
    BY <1>1, <1>2, <1>6 DEF allow_connection, FdMove
  <2>. QED
    BY <1>1, <2>1
<1>7. CASE runtime_reserve_connection(c) /\ ~Refuse(c)
  <2>1. FdMove(c, "reserved")
    BY <1>1, <1>2, <1>7 DEF runtime_reserve_connection, FdMove
  <2>. QED
    BY <1>1, <2>1
<1>8. CASE pthread_create(c) /\ ~Refuse(c)
  <2>1. FdMove(c, "new")
    BY <1>1, <1>2, <1>8, ZenonT(30) DEF pthread_create, FdMove
  <2>. QED
    BY <1>1, <2>1
<1>9. allow_connection(c) \/ runtime_reserve_connection(c) \/ pthread_create(c)
         => phase[c] \in {"accepted", "allowed", "reserved"}
  BY DEF allow_connection, runtime_reserve_connection, pthread_create
<1>. QED
  BY <1>3, <1>4, <1>5, <1>6, <1>7, <1>8, <1>9

LEMMA WorkerFd ==
    ASSUME AppOpen, DescriptorInv, NEW c \in Conn, connection_worker(c) \/ connection_loop(c)
    PROVE  \E to \in Phase : FdMove(c, to)
<1>1. Working \subseteq Phase /\ "done" \in Phase
  BY DEF Phase, Over
<1>2. /\ FdOf("new") = "open" /\ FdOf("handshake") = "open" /\ FdOf("session") = "open"
      /\ FdOf("ssh") = "open" /\ FdOf("cleanup") = "open"
      /\ FdOf("closed") = "closed" /\ FdOf("done") = "closed"
  BY DEF FdOf, Queued
<1>3. CASE worker_start(c) \/ tls_accept_with_deadline(c) \/ connection_loop(c)
  <2>1. PICK to \in {"ssh", "handshake", "session", "cleanup"} :
           /\ phase[c] \in {"new", "handshake", "session"}
           /\ phase' = [phase EXCEPT ![c] = to] /\ fd' = fd
    BY <1>3 DEF worker_start, tls_accept_with_deadline, connection_loop, Worker
  <2>2. to \in Phase
    BY <1>1 DEF Working
  <2>. QED
    BY <1>2, <2>1, <2>2, Zenon DEF FdMove
<1>4. CASE worker_cleanup(c) \/ ssh_transport_run_connection(c)
  <2>1. phase[c] \in {"cleanup", "ssh"} /\ phase' = [phase EXCEPT ![c] = "closed"] /\ Close(c)
    BY <1>4 DEF worker_cleanup, ssh_transport_run_connection, Worker
  <2>2. fd[c] = "open"
    BY <1>2, <2>1 DEF DescriptorInv
  <2>3. FdMove(c, "closed")
    BY <1>1, <1>2, <2>1, <2>2, Zenon DEF FdMove, Close, Working
  <2>. QED
    BY <1>1, <2>3 DEF Working
<1>5. CASE runtime_release_connection(c)
  <2>1. FdMove(c, "done")
    BY <1>1, <1>2, <1>5 DEF runtime_release_connection, Worker, FdMove
  <2>. QED
    BY <1>1, <2>1
<1>. QED
  BY <1>3, <1>4, <1>5 DEF connection_worker

\* Every other step of the main thread leaves the descriptors alone; closing
\* a listener resets connections that have none yet.
LEMMA OtherFd ==
    ASSUME [Next]_vars
    PROVE  \/ UNCHANGED <<phase, fd>>
           \/ /\ phase' = [c \in Conn |-> IF phase[c] = "backlog" THEN "reset" ELSE phase[c]]
              /\ UNCHANGED fd
           \/ \E c \in Conn : \/ accept_client(c) \/ allow_connection(c) \/ connect(c)
                              \/ runtime_reserve_connection(c) \/ pthread_create(c)
           \/ \E c \in Conn : connection_worker(c) \/ connection_loop(c)
<1>. USE DEF conn_vars
<1>1. CASE close_listeners \/ cleanup
  BY <1>1, ZenonT(30) DEF close_listeners, cleanup, CloseListeners
<1>2. CASE \/ ssh_transport_global_init \/ pthread_mutex_init \/ pthread_cond_init
           \/ audit_log_open \/ security_policy_create \/ player_store_open
           \/ create_tls_context
  BY <1>2, ZenonT(30) DEF ssh_transport_global_init, pthread_mutex_init,
     pthread_cond_init,
     audit_log_open, security_policy_create, player_store_open, create_tls_context, Acquire
<1>3. CASE \/ open_listener \/ server_start \/ accept_loop \/ end_of_scan
           \/ runtime_begin_shutdown \/ runtime_wait_for_workers \/ cleanup_runtime
           \/ cleanup_ssh \/ spurious_wakeup \/ request_stop \/ Returned \/ UNCHANGED vars
  BY <1>3 DEF open_listener, server_start, accept_loop, end_of_scan,
     runtime_begin_shutdown, runtime_wait_for_workers, cleanup_runtime, cleanup_ssh,
     spurious_wakeup, request_stop, Returned, vars
<1>. QED
  BY <1>1, <1>2, <1>3, Zenon DEF Next, secure_server_run

LEMMA DescriptorStep ==
    ASSUME AppOpen, TypeOK, DescriptorInv, [Next]_vars
    PROVE  DescriptorInv'
<1>1. FdTyped
  BY Zenon DEF TypeOK, FdTyped, Phase
<1>2. CASE UNCHANGED <<phase, fd>>
  BY <1>2 DEF DescriptorInv
<1>3. CASE /\ phase' = [c \in Conn |-> IF phase[c] = "backlog" THEN "reset" ELSE phase[c]]
           /\ UNCHANGED fd
  BY <1>3 DEF DescriptorInv, FdOf, Queued
<1>4. ASSUME NEW c \in Conn,
             \/ accept_client(c) \/ allow_connection(c) \/ connect(c)
             \/ runtime_reserve_connection(c) \/ pthread_create(c)
      PROVE  DescriptorInv'
  BY <1>1, <1>4, MainFd, FdMoved
<1>5. ASSUME NEW c \in Conn, connection_worker(c) \/ connection_loop(c)
      PROVE  DescriptorInv'
  BY <1>1, <1>5, WorkerFd, FdMoved
<1>. QED
  BY <1>2, <1>3, <1>4, <1>5, OtherFd

\* DescriptorsClosedOnce: for any number of connections, each descriptor that
\* accept() returns is closed once, by the main thread or by the worker that
\* took it, whichever call fails on the way.
THEOREM DescriptorsClosedOnceHolds ==
    ASSUME AppOpen
    PROVE  Spec => []DescriptorsClosedOnce
<1>1. Init => DescriptorInv
  BY DEF Init, DescriptorInv, FdOf, Queued
<1>2. TypeOK /\ DescriptorInv /\ [Next]_vars => DescriptorInv'
  BY DescriptorStep
<1>3. DescriptorInv => DescriptorsClosedOnce
  BY Zenon DEF DescriptorInv, DescriptorsClosedOnce, FdOf, Queued
<1>. QED
  BY <1>1, <1>2, <1>3, TypeCorrect, PTL DEF Spec

-----------------------------------------------------------------------------
\* SshSession.

Poll == SSH_EVENT_TICK + WORK

TimeInv ==
    /\ now \in Nat /\ due \in Nat /\ now <= due
    /\ connected_ms = 0 /\ authenticated_ms \in Nat /\ last_activity_ms \in Nat
    /\ authenticated_ms <= now /\ last_activity_ms <= now

PhaseInv ==
    /\ at \in {"setup", "poll", "checks", "cleanup", "done"}
    /\ authenticated \in BOOLEAN /\ shell_started \in BOOLEAN
    /\ at = "setup" => ~authenticated /\ application = "none" /\ due = KEX
    /\ shell_started => authenticated
    /\ ~shell_started => last_activity_ms = authenticated_ms /\ application = "none"

DueInv ==
    at = "poll" =>
        /\ due <= now + Poll
        /\ ~authenticated => due < SSH_AUTH_TIMEOUT + Poll + KEX
        /\ authenticated /\ ~shell_started =>
               due < authenticated_ms + SSH_AUTH_TIMEOUT + Poll
        /\ shell_started => due < last_activity_ms + SSH_IDLE_TIMEOUT + Poll

SshInv == TimeInv /\ PhaseInv /\ DueInv

LEMMA SshConstants ==
    /\ KEX \in Nat /\ WORK \in Nat /\ SSH_EVENT_TICK \in Nat /\ Poll \in Nat
    /\ SSH_AUTH_TIMEOUT \in Nat /\ SSH_AUTH_TIMEOUT > 0
    /\ SSH_IDLE_TIMEOUT \in Nat /\ SSH_AUTH_TIMEOUT <= SSH_IDLE_TIMEOUT
    /\ Poll = SSH_EVENT_TICK + WORK /\ SSH_SESSION_MAX \in Nat
BY SshAssumption DEF Poll

-----------------------------------------------------------------------------
\* A login starts the second deadline, which the call in progress keeps.
LEMMA AuthStep ==
    ASSUME SshInv, at = "poll", password_auth_callback, UNCHANGED <<now, due, at>>
    PROVE  SshInv'
<1>1. /\ ~authenticated /\ authenticated' = TRUE
      /\ authenticated_ms' = now /\ last_activity_ms' = now
      /\ UNCHANGED <<connected_ms, shell_started, application>>
  BY DEF password_auth_callback, password_auth, app_vars
<1>2. TimeInv' /\ PhaseInv'
  BY <1>1 DEF SshInv, TimeInv, PhaseInv
<1>3. DueInv'
  BY <1>1, SshConstants DEF SshInv, TimeInv, PhaseInv, DueInv
<1>. QED
  BY <1>2, <1>3 DEF SshInv

\* A shell is started in time for the idle deadline, which is the longer one.
LEMMA ShellStep ==
    ASSUME SshInv, at = "poll", shell_request_callback, UNCHANGED <<now, due, at>>
    PROVE  SshInv'
<1>1. /\ authenticated /\ ~shell_started /\ shell_started' = TRUE
      /\ UNCHANGED <<connected_ms, authenticated_ms, last_activity_ms, authenticated>>
  BY DEF shell_request_callback, times, login
<1>2. TimeInv' /\ PhaseInv'
  BY <1>1 DEF SshInv, TimeInv, PhaseInv
<1>3. DueInv'
  BY <1>1, SshConstants DEF SshInv, TimeInv, PhaseInv, DueInv
<1>. QED
  BY <1>2, <1>3 DEF SshInv

LEMMA DataStep ==
    ASSUME SshInv, at = "poll", channel_data_callback, UNCHANGED <<now, due, at>>
    PROVE  SshInv'
<1>1. /\ shell_started
      /\ UNCHANGED <<connected_ms, authenticated_ms, authenticated, shell_started, application>>
      /\ last_activity_ms' = last_activity_ms \/ last_activity_ms' = now
  BY DEF channel_data_callback, login, app_vars
<1>2. TimeInv' /\ PhaseInv'
  BY <1>1 DEF SshInv, TimeInv, PhaseInv
<1>3. DueInv'
  BY <1>1, SshConstants DEF SshInv, TimeInv, PhaseInv, DueInv
<1>. QED
  BY <1>2, <1>3 DEF SshInv

\* The other callbacks change nothing that the deadlines depend on.
LEMMA OtherStep ==
    ASSUME SshInv, UNCHANGED <<now, due, at, connected_ms, authenticated_ms, last_activity_ms,
                               authenticated, shell_started, application>>
    PROVE  SshInv'
BY DEF SshInv, TimeInv, PhaseInv, DueInv

LEMMA CallbackStep ==
    ASSUME SshInv, Callback
    PROVE  SshInv'
<1>1. at = "poll" /\ UNCHANGED <<now, due, at>>
  BY DEF Callback
<1>2. CASE session_channel_callback \/ capability_callback \/ channel_close_callback
  BY <1>1, <1>2, OtherStep
     DEF session_channel_callback, capability_callback, channel_close_callback, times, login,
         app_vars
<1>. QED
  BY <1>1, <1>2, AuthStep, ShellStep, DataStep DEF Callback

LEMMA SshSetupStep ==
    ASSUME SshInv, setup_ssh_session, UNCHANGED now
    PROVE  SshInv'
<1>1. /\ at = "setup" /\ \/ at' = "cleanup" /\ due' = now + 0
                         \/ at' = "poll" /\ due' = now + Poll
      /\ UNCHANGED <<connected_ms, authenticated_ms, last_activity_ms, authenticated,
                     shell_started, application>>
  BY DEF setup_ssh_session, Go, times, login, app_vars, Poll
<1>2. TimeInv' /\ PhaseInv'
  BY <1>1, SshConstants DEF SshInv, TimeInv, PhaseInv
<1>3. DueInv'
  BY <1>1, SshConstants DEF SshInv, TimeInv, PhaseInv, DueInv
<1>. QED
  BY <1>2, <1>3 DEF SshInv

LEMMA ChecksStep ==
    ASSUME SshInv, checks, UNCHANGED now
    PROVE  SshInv'
<1>1. /\ at = "checks"
      /\ UNCHANGED <<connected_ms, authenticated_ms, last_activity_ms, authenticated,
                     shell_started, application>>
      /\ \/ at' = "cleanup" /\ due' = now + 0
         \/ ~Expired /\ at' = "poll" /\ due' = now + Poll
  BY DEF checks, Go, times, login, app_vars, Poll
<1>2. TimeInv' /\ PhaseInv'
  BY <1>1, SshConstants DEF SshInv, TimeInv, PhaseInv
<1>3. DueInv'
  BY <1>1, SshConstants DEF SshInv, TimeInv, PhaseInv, DueInv, Expired
<1>. QED
  BY <1>2, <1>3 DEF SshInv

LEMMA EndStep ==
    ASSUME SshInv, dopoll_returns \/ cleanup_ssh_connection, UNCHANGED now
    PROVE  SshInv'
<1>1. /\ at \in {"poll", "cleanup"} /\ at' \in {"checks", "cleanup", "done"} /\ due' = now + 0
      /\ UNCHANGED <<connected_ms, authenticated_ms, last_activity_ms, authenticated,
                     shell_started>>
      /\ application = "none" => application' = "none"
  BY DEF dopoll_returns, cleanup_ssh_connection, Go, times, login, app_vars
<1>2. TimeInv' /\ PhaseInv'
  BY <1>1, SshConstants DEF SshInv, TimeInv, PhaseInv
<1>3. DueInv'
  BY <1>1 DEF DueInv
<1>. QED
  BY <1>2, <1>3 DEF SshInv

LEMMA TickStep ==
    ASSUME SshInv, tick
    PROVE  SshInv'
<1>1. /\ now < due /\ now' = now + 1
      /\ UNCHANGED <<due, at, connected_ms, authenticated_ms, last_activity_ms, authenticated,
                     shell_started, application>>
  BY DEF tick, times, login, app_vars
<1>2. TimeInv' /\ PhaseInv'
  BY <1>1 DEF SshInv, TimeInv, PhaseInv
<1>3. DueInv'
  BY <1>1, SshConstants DEF SshInv, TimeInv, PhaseInv, DueInv
<1>. QED
  BY <1>2, <1>3 DEF SshInv

LEMMA InitSsh == SshInit => SshInv
<1>. SUFFICES ASSUME SshInit PROVE SshInv
  OBVIOUS
<1>1. TimeInv
  BY SshConstants DEF SshInit, TimeInv
<1>2. PhaseInv
  BY Zenon DEF SshInit, PhaseInv
<1>3. DueInv
  BY DEF SshInit, DueInv
<1>. QED
  BY <1>1, <1>2, <1>3 DEF SshInv

LEMMA NextSsh == SshInv /\ [SshNext]_ssh_vars => SshInv'
<1>. SUFFICES ASSUME SshInv, [SshNext]_ssh_vars PROVE SshInv'
  OBVIOUS
<1>1. CASE Loop
  BY <1>1, SshSetupStep, ChecksStep, EndStep DEF Loop
<1>2. CASE UNCHANGED ssh_vars
  BY <1>2, OtherStep DEF ssh_vars, times, login, app_vars
<1>. QED
  BY <1>1, <1>2, CallbackStep, TickStep DEF SshNext, Done

LEMMA SshAlways == SshSpec => []SshInv
BY InitSsh, NextSsh, PTL DEF SshSpec

\* DeadlinesHold: whatever order libssh runs the callbacks in, a client that
\* has not logged in, one that has asked for no shell and a silent player are
\* each gone one event tick after their deadline.
THEOREM DeadlinesHoldAlways == SshSpec => []DeadlinesHold
<1>1. SshInv => DeadlinesHold
  BY SshConstants DEF SshInv, TimeInv, PhaseInv, DueInv, DeadlinesHold
<1>. QED
  BY <1>1, SshAlways, PTL

-----------------------------------------------------------------------------
(* Whose application is open, and who closes what.                         *)

OwnerInv ==
    /\ at \in {"setup", "poll", "checks", "cleanup", "done"}
    /\ authenticated => account_name \in Name /\ account_name = proved
    /\ shell_started => authenticated
    /\ opens = IF shell_started THEN 1 ELSE 0
    /\ at = "done" => application # "open"
    /\ fd_closes = IF at = "done" THEN 1 ELSE 0

LEMMA InitOwner == SshInit => OwnerInv
BY ZenonT(30) DEF SshInit, OwnerInv

LEMMA NextOwner == OwnerInv /\ [SshNext]_ssh_vars => OwnerInv'
<1>. SUFFICES ASSUME OwnerInv, [SshNext]_ssh_vars PROVE OwnerInv'
  OBVIOUS
<1>. USE DEF OwnerInv
<1>1. CASE Callback
  <2>1. at = "poll" /\ UNCHANGED <<at, fd_closes>>
    BY <1>1 DEF Callback, fd_vars
  <2>2. CASE password_auth_callback
    BY <2>1, <2>2 DEF password_auth_callback, password_auth, app_vars
  <2>3. CASE shell_request_callback
    <3>1. authenticated /\ ~shell_started /\ shell_started' = TRUE /\ opens' = opens + 1
      BY <2>3 DEF shell_request_callback
    <3>2. UNCHANGED <<authenticated, account_name, proved>>
      BY <2>3, ZenonT(30) DEF shell_request_callback, login
    <3>. QED
      BY <2>1, <3>1, <3>2
  <2>4. CASE \/ session_channel_callback \/ capability_callback \/ channel_data_callback
             \/ channel_close_callback
    BY <2>1, <2>4 DEF session_channel_callback, capability_callback,
       channel_data_callback,
       channel_close_callback, login, app_vars
  <2>. QED
    BY <1>1, <2>2, <2>3, <2>4 DEF Callback
<1>2. CASE setup_ssh_session \/ dopoll_returns \/ checks
  <2>1. /\ at # "done" /\ at' \in {"poll", "checks", "cleanup"}
        /\ UNCHANGED <<authenticated, account_name, proved, shell_started, opens, fd_closes>>
    BY <1>2 DEF setup_ssh_session, dopoll_returns, checks, Go, login, app_vars,
       fd_vars
  <2>. QED
    BY <2>1, ZenonT(30)
<1>3. CASE cleanup_ssh_connection
  <2>1. /\ at = "cleanup" /\ at' = "done" /\ fd_closes' = 1 /\ application' # "open"
    BY <1>3 DEF cleanup_ssh_connection, Go, ssh_free, close
  <2>2. UNCHANGED <<authenticated, account_name, proved, shell_started, opens>>
    BY <1>3 DEF cleanup_ssh_connection, login
  <2>. QED
    BY <2>1, <2>2
<1>4. CASE tick
  BY <1>4 DEF tick, login, app_vars, fd_vars
<1>5. CASE UNCHANGED ssh_vars
  BY <1>5, ZenonT(30) DEF ssh_vars, login, app_vars, fd_vars
<1>. QED
  BY <1>1, <1>2, <1>3, <1>4, <1>5, ZenonT(30) DEF SshNext, Loop, Done

LEMMA OwnerAlways == SshSpec => []OwnerInv
BY InitOwner, NextOwner, PTL DEF SshSpec

\* OneVerifiedApplication: however often a client asks for a login or a shell,
\* the application is opened once, for the account whose password was
\* verified, and closed when the worker is done.
THEOREM OneVerifiedApplicationHolds == SshSpec => []OneVerifiedApplication
<1>1. OwnerInv => OneVerifiedApplication
  BY SshAssumption DEF OwnerInv, OneVerifiedApplication
<1>. QED
  BY <1>1, OwnerAlways, PTL

\* DescriptorClosedOnce: on every way out of the worker the descriptor is
\* closed once, by libssh or by the worker.
THEOREM DescriptorClosedOnceHolds == SshSpec => []DescriptorClosedOnce
<1>1. OwnerInv => DescriptorClosedOnce
  BY DEF OwnerInv, DescriptorClosedOnce
<1>. QED
  BY <1>1, OwnerAlways, PTL

-----------------------------------------------------------------------------
(* What the application hears.                                             *)

\* No byte of input delivers a line after a write has failed: the line end is
\* echoed first, and that write fails as well.
LEMMA ByteStep ==
    ASSUME DeafAfterFailure, NEW byte \in Byte, handle_input_byte(byte)
    PROVE  DeafAfterFailure'
<1>1. CASE line_end(byte)
  BY <1>1, Zenon DEF line_end, complete_line, DeafAfterFailure
<1>2. CASE UNCHANGED heard_after_failure
  BY <1>2 DEF DeafAfterFailure
<1>. QED
  BY <1>1, <1>2 DEF handle_input_byte

LEMMA NextDeaf == DeafAfterFailure /\ [SshNext]_ssh_vars => DeafAfterFailure'
<1>. SUFFICES ASSUME DeafAfterFailure, [SshNext]_ssh_vars PROVE DeafAfterFailure'
  OBVIOUS
<1>1. CASE UNCHANGED heard_after_failure
  BY <1>1 DEF DeafAfterFailure
<1>2. CASE Callback /\ channel_data_callback
  BY <1>1, <1>2, ByteStep DEF channel_data_callback
<1>3. CASE Callback /\ ~channel_data_callback
  BY <1>1, <1>3, Zenon DEF Callback, password_auth_callback, session_channel_callback,
     capability_callback, shell_request_callback, channel_close_callback
<1>4. CASE Loop \/ tick
  BY <1>1, <1>4 DEF Loop, setup_ssh_session, dopoll_returns, checks,
     cleanup_ssh_connection,
     tick
<1>. QED
  BY <1>1, <1>2, <1>3, <1>4 DEF SshNext, Done, ssh_vars

\* DeafAfterFailure: whatever the client sends and whenever its channel stops
\* taking output, no line reaches the application once a write has failed.
THEOREM DeafAfterFailureHolds == SshSpec => []DeafAfterFailure
<1>1. SshInit => DeafAfterFailure
  BY DEF SshInit, DeafAfterFailure
<1>. QED
  BY <1>1, NextDeaf, PTL DEF SshSpec
=============================================================================
