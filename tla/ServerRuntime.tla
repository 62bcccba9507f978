---------------------------- MODULE ServerRuntime ----------------------------
(***************************************************************************)
(* The listener and worker lifecycle of src/src/secure_server.c: the main  *)
(* thread sets the server up, accepts connections, hands each one to a     *)
(* detached worker thread, and on a signal or a listener error stops,      *)
(* waits for the workers and frees what they share.                        *)
(*                                                                         *)
(* A critical section of runtime.mutex is one step.  Waiting on            *)
(* runtime.condition is two: the main thread falls asleep in the section   *)
(* that tests the counter, and continues only after a broadcast.           *)
(***************************************************************************)
EXTENDS Naturals, Sequences, FiniteSets

CONSTANTS
    Conn,           \* the connection attempts of all clients
    Transport,      \* Transport[c]: the listener a client connects to
    Listeners,      \* the listeners in setup order: [transport, required]
    MaxActive,      \* MAX_ACTIVE_CONNECTIONS
    AppOpen         \* whether config->application->open is set

TransportKind == {"telnet", "tls", "ssh"}

ASSUME RuntimeAssumption ==
    /\ IsFiniteSet(Conn)
    /\ Transport \in [Conn -> TransportKind]
    /\ Listeners \in Seq([transport : TransportKind, required : BOOLEAN])
    /\ MaxActive \in Nat
    /\ AppOpen \in BOOLEAN

\* What workers use: the mutex and condition of server_runtime, and the
\* objects it points to.
Shared == {"mutex", "condition", "audit", "security", "store", "tls_context"}

Resource == Shared \cup {"libssh"}

VARIABLES
    main,               \* where the main thread is in secure_server_run
    held,               \* the resources that are initialised
    listening,          \* the open listeners, as indices of Listeners
    tried,              \* how many listeners have been tried
    phase,              \* what has become of each connection attempt
    fd,                 \* client_fd of each connection
    active_connections, \* runtime.active_connections
    stopping,           \* runtime.stopping
    stop_requested,     \* set by the signal handler
    broadcast           \* a wake-up the sleeping main thread has received

conn_vars == <<phase, fd, active_connections>>
setup_vars == <<held, listening, tried>>
vars == <<main, held, listening, tried, phase, fd, active_connections,
          stopping, stop_requested, broadcast>>

\* Phases: waiting in a listen queue, owned by the main thread, owned by a
\* worker, and over.
Queued == {"absent", "backlog"}
MainOwned == {"accepted", "allowed", "reserved"}
Working == {"new", "handshake", "session", "ssh", "cleanup", "closed"}
Over == {"refused", "reset", "done"}

\* The phases in which a slot of active_connections is taken.
HoldsSlot == {"reserved"} \cup Working

Holders == {c \in Conn : phase[c] \in HoldsSlot}

Running == {"loop", "scan", "allow", "reserve", "spawn", "begin_shutdown",
            "close_listeners", "wait", "asleep"}

MainState == {"start", "mutex", "condition", "audit", "security", "store",
              "tls_context", "listen", "cleanup", "cleanup_runtime",
              "cleanup_ssh", "returned"} \cup Running

Init ==
    /\ main = "start"
    /\ held = {} /\ listening = {} /\ tried = 0
    /\ phase = [c \in Conn |-> "absent"]
    /\ fd = [c \in Conn |-> "none"]
    /\ active_connections = 0
    /\ stopping = FALSE /\ stop_requested = FALSE /\ broadcast = FALSE

-----------------------------------------------------------------------------
(* Setup.  Each initialisation succeeds and goes on, or fails and jumps to *)
(* the cleanup label that undoes the earlier ones.                         *)

Goto(label) == main' = label

Acquire(from, resource, to, failure) ==
    /\ main = from
    /\ \/ held' = held \cup {resource} /\ Goto(to)
       \/ held' = held /\ Goto(failure)
    /\ UNCHANGED <<listening, tried, conn_vars, stopping, stop_requested, broadcast>>

\* config->ssh_port is set, and a failure of libssh returns at once; or it is
\* zero, and libssh is left alone.
ssh_transport_global_init ==
    \/ Acquire("start", "libssh", "mutex", "returned")
    \/ /\ main = "start" /\ Goto("mutex")
       /\ UNCHANGED <<setup_vars, conn_vars, stopping, stop_requested, broadcast>>

pthread_mutex_init == Acquire("mutex", "mutex", "condition", "cleanup_ssh")

\* (mutant) a failed pthread_cond_init leaves the mutex behind
pthread_cond_init_leaks == Acquire("condition", "condition", "audit", "cleanup_ssh")

\* The failure branch destroys the mutex itself.
pthread_cond_init ==
    /\ main = "condition"
    /\ \/ held' = held \cup {"condition"} /\ Goto("audit")
       \/ held' = held \ {"mutex"} /\ Goto("cleanup_ssh")
    /\ UNCHANGED <<listening, tried, conn_vars, stopping, stop_requested, broadcast>>

audit_log_open == Acquire("audit", "audit", "security", "cleanup_runtime")

security_policy_create == Acquire("security", "security", "store", "cleanup")

player_store_open == Acquire("store", "store", "tls_context", "cleanup")

create_tls_context == Acquire("tls_context", "tls_context", "listen", "cleanup")

\* A missing IPv6 loopback is LISTENER_UNAVAILABLE, any other error -1.
create_loopback_listener(i) ==
    {"descriptor", "failed"} \cup IF Listeners[i].required THEN {} ELSE {"unavailable"}

\* Without config->ssh_port the SSH listeners are passed over.
open_listener ==
    /\ main = "listen" /\ tried < Len(Listeners)
    /\ tried' = tried + 1
    /\ \E result \in IF Listeners[tried + 1].transport = "ssh" /\ "libssh" \notin held
                       THEN {"unavailable"} ELSE create_loopback_listener(tried + 1) :
          \/ /\ result = "descriptor"
             /\ listening' = listening \cup {tried + 1} /\ UNCHANGED main
          \/ result = "unavailable" /\ UNCHANGED <<main, listening>>
          \/ result = "failed" /\ Goto("cleanup") /\ UNCHANGED listening
    /\ UNCHANGED <<held, conn_vars, stopping, stop_requested, broadcast>>

server_start ==
    /\ main = "listen" /\ tried = Len(Listeners)
    /\ Goto("loop")
    /\ UNCHANGED <<setup_vars, conn_vars, stopping, stop_requested, broadcast>>

-----------------------------------------------------------------------------
(* The clients and the operating system.                                   *)

connect(c) ==
    /\ phase[c] = "absent"
    /\ \E i \in listening : Listeners[i].transport = Transport[c]
    /\ phase' = [phase EXCEPT ![c] = "backlog"]
    /\ UNCHANGED <<main, setup_vars, fd, active_connections, stopping,
                   stop_requested, broadcast>>

request_stop ==
    /\ main # "returned"
    /\ stop_requested' = TRUE
    /\ UNCHANGED <<main, setup_vars, conn_vars, stopping, broadcast>>

-----------------------------------------------------------------------------
(* The accept loop.                                                        *)

\* stop_requested is read once per poll; a poll that times out or is
\* interrupted just tests it again.
accept_loop ==
    /\ main = "loop"
    /\ \/ stop_requested /\ Goto("begin_shutdown")
       \/ ~stop_requested /\ (\E c \in Conn : phase[c] = "backlog") /\ Goto("scan")
       \/ ~stop_requested /\ Goto("begin_shutdown")     \* poll failed
    /\ UNCHANGED <<setup_vars, conn_vars, stopping, stop_requested, broadcast>>

\* One pass over the ready listeners accepts one connection from each, or
\* none if accept() is interrupted; any other error ends the server.
accept_client(c) ==
    /\ main = "scan" /\ phase[c] = "backlog"
    /\ phase' = [phase EXCEPT ![c] = "accepted"]
    /\ fd' = [fd EXCEPT ![c] = "open"]
    /\ Goto("allow")
    /\ UNCHANGED <<setup_vars, active_connections, stopping, stop_requested, broadcast>>

end_of_scan ==
    /\ main = "scan"
    /\ Goto("loop") \/ Goto("begin_shutdown")
    /\ UNCHANGED <<setup_vars, conn_vars, stopping, stop_requested, broadcast>>

\* close(client_fd): a second close could hit a descriptor that has been
\* given to somebody else.
Close(c) == fd' = [fd EXCEPT ![c] = IF @ = "open" THEN "closed" ELSE "closed twice"]

Refuse(c) ==
    /\ Close(c)
    /\ phase' = [phase EXCEPT ![c] = "refused"]
    /\ Goto("scan")

allow_connection(c) ==
    /\ main = "allow" /\ phase[c] = "accepted"
    /\ \/ Refuse(c)
       \/ /\ phase' = [phase EXCEPT ![c] = "allowed"]
          /\ Goto("reserve") /\ UNCHANGED fd
    /\ UNCHANGED <<setup_vars, active_connections, stopping, stop_requested, broadcast>>

\* (mutant) the accept loop waits for a free slot
runtime_reserve_connection_blocks(c) ==
    /\ main = "reserve" /\ phase[c] = "allowed"
    /\ ~stopping /\ active_connections < MaxActive
    /\ active_connections' = active_connections + 1
    /\ phase' = [phase EXCEPT ![c] = "reserved"]
    /\ Goto("spawn") /\ UNCHANGED fd
    /\ UNCHANGED <<setup_vars, stopping, stop_requested, broadcast>>

runtime_reserve_connection(c) ==
    /\ main = "reserve" /\ phase[c] = "allowed"
    /\ \/ /\ ~stopping /\ active_connections < MaxActive
          /\ active_connections' = active_connections + 1
          /\ phase' = [phase EXCEPT ![c] = "reserved"]
          /\ Goto("spawn") /\ UNCHANGED fd
       \/ /\ stopping \/ active_connections >= MaxActive
          /\ Refuse(c) /\ UNCHANGED active_connections
    /\ UNCHANGED <<setup_vars, stopping, stop_requested, broadcast>>

Decrement == IF active_connections > 0 THEN active_connections - 1 ELSE 0

\* (mutant) a failed pthread_create keeps the slot
pthread_create_keeps_slot(c) ==
    /\ main = "spawn" /\ phase[c] = "reserved"
    /\ \/ /\ phase' = [phase EXCEPT ![c] = "new"]
          /\ Goto("scan") /\ UNCHANGED fd
       \/ Refuse(c)
    /\ UNCHANGED <<setup_vars, active_connections, stopping, stop_requested, broadcast>>

\* calloc or pthread_create may fail; the slot and the descriptor are given
\* back by the main thread.
pthread_create(c) ==
    /\ main = "spawn" /\ phase[c] = "reserved"
    /\ \/ /\ phase' = [phase EXCEPT ![c] = "new"]
          /\ Goto("scan") /\ UNCHANGED <<fd, active_connections>>
       \/ /\ Refuse(c)
          /\ active_connections' = Decrement
    /\ UNCHANGED <<setup_vars, stopping, stop_requested, broadcast>>

-----------------------------------------------------------------------------
(* The worker threads: connection_worker.                                  *)

Worker(c, from, to) ==
    /\ phase[c] = from
    /\ phase' = [phase EXCEPT ![c] = to]
    /\ UNCHANGED <<main, setup_vars, stopping, stop_requested>>

\* The transport decides the path; SSL_new, SSL_set_fd or
\* telnet_session_create may fail.
worker_start(c) ==
    /\ \/ Transport[c] = "ssh" /\ Worker(c, "new", "ssh")
       \/ Transport[c] = "tls" /\ Worker(c, "new", "handshake")
       \/ Transport[c] = "telnet" /\ Worker(c, "new", "session")
       \/ Transport[c] # "ssh" /\ Worker(c, "new", "cleanup")
    /\ UNCHANGED <<fd, active_connections, broadcast>>

\* Ends after TLS_HANDSHAKE_TIMEOUT_MS at the latest, or one read tick after
\* runtime.stopping is set.
tls_accept_with_deadline(c) ==
    /\ \/ Worker(c, "handshake", "session")
       \/ Worker(c, "handshake", "cleanup")
    /\ UNCHANGED <<fd, active_connections, broadcast>>

\* The loop ends for many reasons; ConnectionWorker has them.
connection_loop(c) ==
    /\ Worker(c, "session", "cleanup")
    /\ UNCHANGED <<fd, active_connections, broadcast>>

worker_cleanup(c) ==
    /\ Worker(c, "cleanup", "closed")
    /\ Close(c)
    /\ UNCHANGED <<active_connections, broadcast>>

\* (mutant) the worker closes the descriptor again after the SSH session
ssh_transport_run_connection_falls_through(c) ==
    /\ Worker(c, "ssh", "cleanup")
    /\ Close(c)
    /\ UNCHANGED <<active_connections, broadcast>>

\* Every path through cleanup_ssh_connection closes the descriptor, itself
\* or through libssh; the check of the arguments returns before that.
ssh_transport_run_connection(c) ==
    /\ Worker(c, "ssh", "closed")
    /\ IF AppOpen THEN Close(c) ELSE UNCHANGED fd
    /\ UNCHANGED <<active_connections, broadcast>>

\* (mutant) the waiting main thread is not told
runtime_release_connection_silent(c) ==
    /\ Worker(c, "closed", "done")
    /\ active_connections' = Decrement
    /\ UNCHANGED <<fd, broadcast>>

\* A broadcast reaches the main thread only if it is asleep.
runtime_release_connection(c) ==
    /\ Worker(c, "closed", "done")
    /\ active_connections' = Decrement
    /\ broadcast' = (broadcast \/ main = "asleep")
    /\ UNCHANGED fd

-----------------------------------------------------------------------------
(* Shutdown.                                                               *)

runtime_begin_shutdown ==
    /\ main = "begin_shutdown"
    /\ stopping' = TRUE
    /\ Goto("close_listeners")
    /\ UNCHANGED <<setup_vars, conn_vars, stop_requested, broadcast>>

\* Closing a listener resets what is still in its queue.
CloseListeners ==
    /\ listening' = {}
    /\ phase' = [c \in Conn |-> IF phase[c] = "backlog" THEN "reset" ELSE phase[c]]
    /\ UNCHANGED <<tried, fd, active_connections, stopping, stop_requested, broadcast>>

close_listeners ==
    /\ main = "close_listeners"
    /\ CloseListeners /\ Goto("wait") /\ UNCHANGED held

\* (mutant) the workers are not waited for
runtime_wait_for_workers_skips ==
    /\ main = "wait" /\ Goto("cleanup")
    /\ UNCHANGED <<setup_vars, conn_vars, stopping, stop_requested, broadcast>>

runtime_wait_for_workers ==
    /\ \/ main = "wait" /\ active_connections = 0 /\ Goto("cleanup") /\ UNCHANGED broadcast
       \/ main = "wait" /\ active_connections > 0 /\ Goto("asleep") /\ broadcast' = FALSE
       \/ main = "asleep" /\ broadcast /\ Goto("wait") /\ UNCHANGED broadcast
    /\ UNCHANGED <<setup_vars, conn_vars, stopping, stop_requested>>

\* pthread_cond_wait may also return without a broadcast.
spurious_wakeup ==
    /\ main = "asleep" /\ Goto("wait")
    /\ UNCHANGED <<setup_vars, conn_vars, stopping, stop_requested, broadcast>>

\* The three labels at the end of secure_server_run; the first tolerates
\* objects that were never made.
cleanup ==
    /\ main = "cleanup"
    /\ CloseListeners /\ Goto("cleanup_runtime")
    /\ held' = held \ {"tls_context", "store", "security", "audit"}

cleanup_runtime ==
    /\ main = "cleanup_runtime" /\ Goto("cleanup_ssh")
    /\ held' = held \ {"condition", "mutex"}
    /\ UNCHANGED <<listening, tried, conn_vars, stopping, stop_requested, broadcast>>

cleanup_ssh ==
    /\ main = "cleanup_ssh" /\ Goto("returned")
    /\ held' = held \ {"libssh"}
    /\ UNCHANGED <<listening, tried, conn_vars, stopping, stop_requested, broadcast>>

-----------------------------------------------------------------------------
secure_server_run ==
    \/ ssh_transport_global_init \/ pthread_mutex_init \/ pthread_cond_init
    \/ audit_log_open \/ security_policy_create \/ player_store_open
    \/ create_tls_context \/ open_listener \/ server_start
    \/ accept_loop \/ end_of_scan
    \/ \E c \in Conn : \/ accept_client(c) \/ allow_connection(c)
                       \/ runtime_reserve_connection(c) \/ pthread_create(c)
    \/ runtime_begin_shutdown \/ close_listeners \/ runtime_wait_for_workers
    \/ cleanup \/ cleanup_runtime \/ cleanup_ssh

connection_worker(c) ==
    \/ worker_start(c) \/ tls_accept_with_deadline(c) \/ worker_cleanup(c)
    \/ ssh_transport_run_connection(c) \/ runtime_release_connection(c)

\* Nothing is left to do once secure_server_run has returned.
Returned == main = "returned" /\ UNCHANGED vars

Next ==
    \/ secure_server_run
    \/ spurious_wakeup
    \/ request_stop
    \/ \E c \in Conn : connect(c) \/ connection_worker(c) \/ connection_loop(c)
    \/ Returned

\* The operating system runs every thread.  All blocking calls of a worker
\* are bounded (handshake, socket and SSH session deadlines); a Telnet loop
\* is only bound to end here when it sees runtime.stopping.  poll() keeps
\* reporting a listener with a queued connection, and a pass accepts from it.
Fairness ==
    /\ WF_vars(secure_server_run)
    /\ \A c \in Conn : /\ SF_vars(accept_client(c))
                       /\ WF_vars(connection_worker(c))
                       /\ WF_vars(stopping /\ connection_loop(c))

Spec == Init /\ [][Next]_vars /\ Fairness

-----------------------------------------------------------------------------
TypeOK ==
    /\ main \in MainState
    /\ held \subseteq Resource
    /\ listening \subseteq 1 .. Len(Listeners)
    /\ tried \in 0 .. Len(Listeners)
    /\ phase \in [Conn -> Queued \cup MainOwned \cup Working \cup Over]
    /\ fd \in [Conn -> {"none", "open", "closed", "closed twice"}]
    /\ active_connections \in 0 .. MaxActive
    /\ stopping \in BOOLEAN /\ stop_requested \in BOOLEAN /\ broadcast \in BOOLEAN

\* runtime.active_connections counts exactly the connections that hold a
\* slot, through every failure path of accept_connection and the workers, so
\* capacity neither leaks nor is handed out twice.
SlotsExact == active_connections = Cardinality(Holders)

\* No more than MAX_ACTIVE_CONNECTIONS workers exist at once.
Capacity == Cardinality(Holders) <= MaxActive

\* "Shared objects live until the listener and all workers have stopped":
\* while a connection holds a slot, nothing its worker uses is freed.
SharedOutlivesWorkers == Holders # {} => Shared \subseteq held

\* A descriptor is closed exactly once: by the main thread if no worker
\* takes it, otherwise by the worker before it gives up its slot.
DescriptorsClosedOnce ==
    \A c \in Conn :
        /\ fd[c] # "closed twice"
        /\ phase[c] \in {"refused", "closed", "done"} => fd[c] = "closed"

\* "ssh_transport_run_connection owns client_fd once called": when an SSH
\* worker is done, its descriptor has been closed.
SshOwnsDescriptor ==
    \A c \in Conn : Transport[c] = "ssh" /\ phase[c] = "done" => fd[c] = "closed"

\* Whichever setup step fails and however the server stops, everything that
\* was initialised is released and no listener stays open.
ReturnsClean == main = "returned" => held = {} /\ listening = {}

\* A requested stop ends secure_server_run: no wake-up is lost between the
\* last worker's release and the main thread's wait.
StopReturns == stop_requested ~> main = "returned"

\* "a stalled terminal does not stall accept()": a queued connection is
\* handed to a worker, refused or reset even if no worker ever finishes its
\* session.
AcceptNotStalled ==
    \A c \in Conn : phase[c] = "backlog" ~> phase[c] \in Working \cup Over
=============================================================================
