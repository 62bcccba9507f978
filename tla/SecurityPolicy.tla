---------------------------- MODULE SecurityPolicy ----------------------------
(***************************************************************************)
(* The shared abuse policy of src/src/security_policy.c and the way its    *)
(* callers use it.  Every function runs under the policy's mutex and is    *)
(* one step.  Between the steps of one login lies the password check: a    *)
(* worker reads the clock when its input arrives, asks for permission,     *)
(* verifies, and reports the outcome with the time it read at first, while *)
(* other workers do the same.  The main thread asks about connections.     *)
(*                                                                         *)
(* The last four variables are history: what the policy has granted.       *)
(***************************************************************************)
EXTENDS Integers, Sequences, FiniteSets

CONSTANTS
    Worker, Main,           \* the worker threads and the main thread
    Peer, Account, None,
    MAX_PEER_RECORDS, MAX_ACCOUNT_RECORDS,
    PEER_CONNECTION_LIMIT, GLOBAL_CONNECTION_LIMIT, CONNECTION_WINDOW,
    PEER_CREATION_LIMIT, GLOBAL_CREATION_LIMIT, CREATION_WINDOW,
    ACCOUNT_AUTH_FAILURE_LIMIT, ACCOUNT_AUTH_LOCK,
    PEER_DELAY, PEER_DELAY_MAX, \* 1000 ms and 60000 ms of peer_backoff_ms
    Mixes,                  \* bound: the mixes of calls one behaviour may make
    MaxDelay,               \* bound: age of a worker's clock reading
    MaxTime                 \* bound: the clock

ASSUME PolicyAssumption ==
    /\ IsFiniteSet(Worker) /\ Main \notin Worker
    /\ None \notin Peer \cup Account \cup Int
    /\ {MAX_PEER_RECORDS, MAX_ACCOUNT_RECORDS, ACCOUNT_AUTH_FAILURE_LIMIT, ACCOUNT_AUTH_LOCK}
         \subseteq Nat \ {0}
    /\ {PEER_CONNECTION_LIMIT, GLOBAL_CONNECTION_LIMIT, CONNECTION_WINDOW,
        PEER_CREATION_LIMIT, GLOBAL_CREATION_LIMIT, CREATION_WINDOW,
        PEER_DELAY, PEER_DELAY_MAX, MaxDelay, MaxTime}
         \subseteq Nat
    /\ Mixes \subseteq SUBSET {"connect", "auth", "create"}

VARIABLES
    peers, accounts,        \* the record tables
    global_connections, global_creations,   \* the global windows
    clock,
    mix,                    \* the calls this behaviour makes
    caller,                 \* what each thread is doing, and its clock reading
    connected, created,     \* times of the granted connections and creations
    peer_connected,         \* the same for each peer that has a record
    lock_time               \* when an account's lock began

policy_vars == <<peers, accounts, global_connections, global_creations>>
history == <<connected, created, peer_connected, lock_time>>
vars == <<policy_vars, clock, mix, caller, history>>

NewPeer == [key |-> None, last_seen |-> 0, connections |-> <<>>, creations |-> <<>>,
            auth_failures |-> 0, auth_blocked_until |-> 0]
NewAccount == [key |-> None, last_seen |-> 0, auth_failures |-> 0,
               auth_blocked_until |-> 0]

Idle == [pc |-> "idle"]

\* The clock starts at 1: monotonic_milliseconds returns 0 on failure only.
Init ==
    /\ peers = [i \in 1 .. MAX_PEER_RECORDS |-> NewPeer]
    /\ accounts = [i \in 1 .. MAX_ACCOUNT_RECORDS |-> NewAccount]
    /\ global_connections = <<>> /\ global_creations = <<>>
    /\ clock = 1 /\ mix \in Mixes
    /\ caller = [w \in Worker \cup {Main} |-> Idle]
    /\ connected = <<>> /\ created = <<>>
    /\ peer_connected = [p \in Peer |-> <<>>]
    /\ lock_time = [a \in Account |-> None]

-----------------------------------------------------------------------------
(* Rolling windows and tables.                                             *)

current(then, now, width) == now >= then /\ now - then < width

\* The loop over the events: what it has kept after count of them.
prune_window(window, now, width) ==
    LET kept[count \in 0 .. Len(window)] ==
            IF count = 0 THEN <<>>
            ELSE IF current(window[count], now, width)
                 THEN Append(kept[count - 1], window[count]) ELSE kept[count - 1]
    IN  kept[Len(window)]

\* (mutant) one event more than the limit
window_full_late(window, limit) == Len(window) > limit

window_full(window, limit) == Len(window) >= limit

\* A full window stays full: only what has expired is dropped.
window_allow(window, limit, width, now) ==
    LET kept == prune_window(window, now, width)
    IN  IF window_full(kept, limit)
        THEN [allowed |-> FALSE, window |-> kept]
        ELSE [allowed |-> TRUE, window |-> Append(kept, now)]

First(S) == CHOOSE i \in S : \A j \in S : i <= j

Find(table, key) == {i \in DOMAIN table : table[i].key = key}

\* The slot for a key: its own, else the first empty one, else the first of
\* those seen least recently.
slot_for(table, key) ==
    IF Find(table, key) # {} THEN First(Find(table, key))
    ELSE IF Find(table, None) # {} THEN First(Find(table, None))
    ELSE First({i \in DOMAIN table :
                  \A j \in DOMAIN table : table[i].last_seen <= table[j].last_seen})

record_for(table, key, new, now) ==
    LET i == slot_for(table, key)
        kept == IF table[i].key = key THEN table[i] ELSE [new EXCEPT !.key = key]
    IN  [table EXCEPT ![i] = [kept EXCEPT !.last_seen = now]]

peer_record_for(p, now) == record_for(peers, p, NewPeer, now)

account_record_for(a, now) == record_for(accounts, a, NewAccount, now)

Smaller(x, y) == IF x < y THEN x ELSE y

\* 1 << shift, for the shifts up to 6.
shifted == [shift \in 0 .. 6 |-> <<1, 2, 4, 8, 16, 32, 64>>[shift + 1]]

peer_backoff(failures) ==
    IF failures < 3 THEN 0
    ELSE Smaller(PEER_DELAY * shifted[Smaller(failures - 3, 6)], PEER_DELAY_MAX)

\* (mutant) an account waits as long as a peer
account_backoff_as_peer(failures) ==
    IF failures >= ACCOUNT_AUTH_FAILURE_LIMIT THEN PEER_DELAY ELSE 0

account_backoff(failures) ==
    IF failures >= ACCOUNT_AUTH_FAILURE_LIMIT THEN ACCOUNT_AUTH_LOCK ELSE 0

\* History: an evicted peer starts over, an account's lock begins when its
\* failures reach the limit and ends when they are forgotten.
ForgetEvicted(granted) ==
    [p \in Peer |-> IF \E i \in DOMAIN peers' : peers'[i].key = p
                    THEN granted[p] ELSE <<>>]

NoteLocks ==
    lock_time' = [a \in Account |->
        IF \E i \in DOMAIN accounts' :
              /\ accounts'[i].key = a
              /\ accounts'[i].auth_failures >= ACCOUNT_AUTH_FAILURE_LIMIT
        THEN IF lock_time[a] = None THEN clock ELSE lock_time[a]
        ELSE None]

-----------------------------------------------------------------------------
(* The callers.                                                            *)

At(w, pc) == caller[w].pc = pc

Goto(w, pc) == caller' = [caller EXCEPT ![w].pc = pc]

Done(w) == caller' = [caller EXCEPT ![w] = Idle]

read_clock(w, pc, p, a) ==
    /\ At(w, "idle") /\ pc \in mix
    /\ pc = "connect" <=> w = Main
    /\ caller' = [caller EXCEPT ![w] = [pc |-> pc, peer |-> p, account |-> a, now |-> clock]]
    /\ UNCHANGED <<policy_vars, clock, history>>

\* The peer's window is asked first and keeps the event even when the global
\* window refuses it.
allow_connection(w) ==
    /\ At(w, "connect")
    /\ LET p == caller[w].peer
           now == caller[w].now
           table == peer_record_for(p, now)
           i == slot_for(table, p)
           peer == window_allow(table[i].connections, PEER_CONNECTION_LIMIT,
                                CONNECTION_WINDOW, now)
           global == window_allow(global_connections, GLOBAL_CONNECTION_LIMIT,
                                  CONNECTION_WINDOW, now)
           allowed == peer.allowed /\ global.allowed
       IN  /\ peers' = [table EXCEPT ![i].connections = peer.window]
           /\ global_connections' =
                 IF peer.allowed THEN global.window ELSE global_connections
           /\ connected' = IF allowed THEN Append(connected, now) ELSE connected
           /\ peer_connected' = ForgetEvicted(
                 IF allowed THEN [peer_connected EXCEPT ![p] = Append(@, now)]
                            ELSE peer_connected)
    /\ Done(w)
    /\ UNCHANGED <<accounts, global_creations, clock, created, lock_time>>

\* "A completed cooldown starts a fresh set of attempts."
cooled(record, now) ==
    IF record.auth_blocked_until # 0 /\ record.auth_blocked_until <= now
    THEN [record EXCEPT !.auth_failures = 0, !.auth_blocked_until = 0]
    ELSE record

\* (mutant) only the peer's delay is looked at
waits_peer_only(peer, account, now) == peer.auth_blocked_until > now

waits(peer, account, now) ==
    peer.auth_blocked_until > now \/ account.auth_blocked_until > now

\* Telnet asks once more after a failure, only to decide whether to hang up.
allow_auth_attempt(w) ==
    /\ At(w, "auth") \/ At(w, "recheck")
    /\ LET now == caller[w].now
           ptable == peer_record_for(caller[w].peer, now)
           atable == account_record_for(caller[w].account, now)
           i == slot_for(ptable, caller[w].peer)
           j == slot_for(atable, caller[w].account)
           peer == cooled(ptable[i], now)
           account == cooled(atable[j], now)
       IN  /\ peers' = [ptable EXCEPT ![i] = peer]
           /\ accounts' = [atable EXCEPT ![j] = account]
           /\ IF waits(peer, account, now) \/ At(w, "recheck")
              THEN Done(w) ELSE Goto(w, "verify")
    /\ NoteLocks
    /\ peer_connected' = ForgetEvicted(peer_connected)
    /\ UNCHANGED <<global_connections, global_creations, clock, connected, created>>

\* The counter saturates at 1000000.
counted(record) == Smaller(record.auth_failures + 1, 1000000)

\* (mutant) a failure during a lock prolongs it
failed_prolongs(record, delay, now) ==
    [record EXCEPT !.auth_failures = counted(record),
                   !.auth_blocked_until = IF delay = 0 THEN @
                                          ELSE (IF @ > now THEN @ ELSE now) + delay]

failed(record, delay, now) ==
    [record EXCEPT !.auth_failures = counted(record),
                   !.auth_blocked_until = IF delay > 0 THEN now + delay ELSE @]

note_auth_failure(w) ==
    /\ At(w, "verify")
    /\ LET now == caller[w].now
           ptable == peer_record_for(caller[w].peer, now)
           atable == account_record_for(caller[w].account, now)
           i == slot_for(ptable, caller[w].peer)
           j == slot_for(atable, caller[w].account)
       IN  /\ peers' = [ptable EXCEPT ![i] = failed(@, peer_backoff(counted(@)), now)]
           /\ accounts' = [atable EXCEPT ![j] = failed(@, account_backoff(counted(@)), now)]
    /\ Done(w) \/ Goto(w, "recheck")
    /\ NoteLocks
    /\ peer_connected' = ForgetEvicted(peer_connected)
    /\ UNCHANGED <<global_connections, global_creations, clock, connected, created>>

cleared(record) == [record EXCEPT !.auth_failures = 0, !.auth_blocked_until = 0]

\* After a verified password, and after a creation.
note_auth_success(w) ==
    /\ At(w, "verify") \/ At(w, "created")
    /\ LET now == caller[w].now
           ptable == peer_record_for(caller[w].peer, now)
           atable == account_record_for(caller[w].account, now)
           i == slot_for(ptable, caller[w].peer)
           j == slot_for(atable, caller[w].account)
       IN  /\ peers' = [ptable EXCEPT ![i] = cleared(@)]
           /\ accounts' = [atable EXCEPT ![j] = cleared(@)]
    /\ Done(w)
    /\ NoteLocks
    /\ peer_connected' = ForgetEvicted(peer_connected)
    /\ UNCHANGED <<global_connections, global_creations, clock, connected, created>>

allow_account_creation(w) ==
    /\ At(w, "create")
    /\ LET p == caller[w].peer
           now == caller[w].now
           table == peer_record_for(p, now)
           i == slot_for(table, p)
           peer == window_allow(table[i].creations, PEER_CREATION_LIMIT,
                                CREATION_WINDOW, now)
           global == window_allow(global_creations, GLOBAL_CREATION_LIMIT,
                                  CREATION_WINDOW, now)
           allowed == peer.allowed /\ global.allowed
       IN  /\ peers' = [table EXCEPT ![i].creations = peer.window]
           /\ global_creations' =
                 IF peer.allowed THEN global.window ELSE global_creations
           /\ created' = IF allowed THEN Append(created, now) ELSE created
           /\ IF allowed THEN Goto(w, "created") ELSE Done(w)
    /\ peer_connected' = ForgetEvicted(peer_connected)
    /\ UNCHANGED <<accounts, global_connections, clock, connected, lock_time>>

\* player_store_create failed, for instance because the name is taken.
creation_failed(w) ==
    /\ At(w, "created")
    /\ Done(w)
    /\ UNCHANGED <<policy_vars, clock, history>>

\* Time passes, but no caller dwells on a reading for longer than MaxDelay.
tick ==
    /\ clock < MaxTime
    /\ \A w \in DOMAIN caller : ~At(w, "idle") => clock - caller[w].now < MaxDelay
    /\ clock' = clock + 1
    /\ UNCHANGED <<policy_vars, caller, history>>

-----------------------------------------------------------------------------
Next ==
    /\ \/ \E w \in DOMAIN caller :
             \/ allow_connection(w) \/ allow_auth_attempt(w) \/ note_auth_failure(w)
             \/ note_auth_success(w) \/ allow_account_creation(w) \/ creation_failed(w)
             \/ \E pc \in mix, p \in Peer, a \in Account : read_clock(w, pc, p, a)
       \/ tick
    /\ UNCHANGED mix

Spec == Init /\ [][Next]_vars

-----------------------------------------------------------------------------
Time == 0 .. MaxTime

Within(times, limit, width) ==
    \A t \in Time :
        Cardinality({i \in DOMAIN times : times[i] >= t /\ times[i] < t + width}) <= limit

\* The creation window, as the comment on struct event_window says: no rolling
\* window of the configured width sees more than the limit of granted account
\* creations.
CreationWindow == Within(created, GLOBAL_CREATION_LIMIT, CREATION_WINDOW)

\* The rolling windows keep their limits: for connections from all peers
\* together, from each peer for as long as the table keeps its record, and for
\* creations as long as none is granted with a clock reading older than one
\* granted before.
WindowsHold ==
    /\ Within(connected, GLOBAL_CONNECTION_LIMIT, CONNECTION_WINDOW)
    /\ \A p \in Peer : Within(peer_connected[p], PEER_CONNECTION_LIMIT, CONNECTION_WINDOW)
    /\ (\A i, j \in DOMAIN created : i <= j => created[i] <= created[j]) => CreationWindow

Verifying(a) == {w \in Worker : At(w, "verify") /\ caller[w].account = a}

\* Workers that were let in before a lock began may still fail, but no more
\* than there are: an account never sees more failures than the limit and one
\* for each further worker.
AttemptsBounded ==
    \A i \in DOMAIN accounts :
        accounts[i].key # None =>
            accounts[i].auth_failures + Cardinality(Verifying(accounts[i].key))
                <= ACCOUNT_AUTH_FAILURE_LIMIT - 1 + Cardinality(Worker)

\* "Three bad passwords pause an account for five minutes": an attempt is let
\* in again only when the lock has lasted, less the age of a clock reading.
CooldownHolds ==
    [][\A w \in Worker : At(w, "auth") /\ caller'[w].pc = "verify" =>
          LET locked == lock_time[caller[w].account]
          IN  locked # None => clock >= locked + ACCOUNT_AUTH_LOCK - MaxDelay]_vars

\* Every pause is temporary: it ends within the lock time, whatever is tried
\* in the meantime.
PauseIsTemporary ==
    /\ \A i \in DOMAIN accounts : accounts[i].auth_blocked_until <= clock + ACCOUNT_AUTH_LOCK
    /\ \A i \in DOMAIN peers : peers[i].auth_blocked_until <= clock + PEER_DELAY_MAX
=============================================================================
