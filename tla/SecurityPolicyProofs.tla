------------------------- MODULE SecurityPolicyProofs -------------------------
(***************************************************************************)
(* Proofs about the account lock, the rolling windows and the pauses of    *)
(* security_policy.c, for any workers, peers, accounts, sizes of the       *)
(* tables, limits and delays.                                              *)
(*                                                                         *)
(* The difficulty of the lock is that a worker asks for permission and     *)
(* reports its failure in two steps, both with the time it read before the *)
(* first, and that the record of an account can be evicted in between.     *)
(* That of the windows is what a window knows of the past: see             *)
(* EventWindowProofs.  Here their lemmas are applied to each step.         *)
(***************************************************************************)
EXTENDS EventWindowProofs

Slot == 1 .. MAX_ACCOUNT_RECORDS

AccountRecord == [key : Account \cup {None}, last_seen : Nat, auth_failures : Nat,
                  auth_blocked_until : Nat]

\* A key has at most one record.
Keyed(table) ==
    /\ table \in [Slot -> AccountRecord]
    /\ \A i, j \in Slot : table[i].key = table[j].key /\ table[i].key # None => i = j

-----------------------------------------------------------------------------
(* The slot of a key.                                                      *)

LEMMA SlotFor ==
    ASSUME NEW table, Keyed(table), NEW a \in Account
    PROVE  /\ slot_for(table, a) \in Slot
           /\ \A j \in Slot : table[j].key = a => j = slot_for(table, a)
<1>1. Slot \in SUBSET Nat /\ Slot # {} /\ a # None
  BY PolicyConstants DEF Slot
<1>2. /\ DOMAIN table = Slot
      /\ \A j \in Slot : table[j].last_seen \in Nat
  BY DEF Keyed, AccountRecord
<1>3. \A i, j \in Slot : table[i].key = table[j].key /\ table[i].key # None => i = j
  BY Zenon DEF Keyed
<1>. QED
  BY <1>1, <1>2, <1>3, SlotOf, Zenon

LEMMA RecordFor ==
    ASSUME Keyed(accounts), NEW a \in Account, NEW t \in Nat,
           NEW T, T = account_record_for(a, t), NEW i, i = slot_for(accounts, a)
    PROVE  /\ i \in Slot /\ T \in [Slot -> AccountRecord] /\ T[i].key = a
           /\ slot_for(T, a) = i
           /\ \A j \in Slot \ {i} : T[j] = accounts[j] /\ accounts[j].key # a
           /\ accounts[i].key = a =>
                 /\ T[i].auth_failures = accounts[i].auth_failures
                 /\ T[i].auth_blocked_until = accounts[i].auth_blocked_until
           /\ accounts[i].key # a => T[i].auth_failures = 0 /\ T[i].auth_blocked_until = 0
<1>1. i \in Slot /\ \A j \in Slot : accounts[j].key = a => j = i
  BY SlotFor
<1>. DEFINE kept == IF accounts[i].key = a THEN accounts[i] ELSE [NewAccount EXCEPT !.key = a]
<1>2. /\ kept \in AccountRecord /\ kept.key = a
      /\ accounts[i].key = a => kept = accounts[i]
      /\ accounts[i].key # a => kept.auth_failures = 0 /\ kept.auth_blocked_until = 0
  <2>1. [NewAccount EXCEPT !.key = a] =
           [key |-> a, last_seen |-> 0, auth_failures |-> 0, auth_blocked_until |-> 0]
    BY DEF NewAccount
  <2>2. [key |-> a, last_seen |-> 0, auth_failures |-> 0, auth_blocked_until |-> 0]
           \in AccountRecord
    BY DEF AccountRecord
  <2>. QED
    BY <1>1, <2>1, <2>2 DEF Keyed
<1>3. T = [accounts EXCEPT ![i] = [kept EXCEPT !.last_seen = t]]
  BY DEF account_record_for, record_for
<1>. HIDE DEF kept
<1>4. /\ [kept EXCEPT !.last_seen = t] \in AccountRecord
      /\ [kept EXCEPT !.last_seen = t].key = a
      /\ [kept EXCEPT !.last_seen = t].auth_failures = kept.auth_failures
      /\ [kept EXCEPT !.last_seen = t].auth_blocked_until = kept.auth_blocked_until
  BY <1>2 DEF AccountRecord
<1>5. /\ T \in [Slot -> AccountRecord] /\ T[i] = [kept EXCEPT !.last_seen = t]
      /\ \A j \in Slot \ {i} : T[j] = accounts[j]
  BY <1>1, <1>3, <1>4 DEF Keyed
<1>6. T[i].key = a /\ \A j \in Slot \ {i} : T[j].key = accounts[j].key /\ T[j].key # a
  BY <1>1, <1>4, <1>5
<1>7. Keyed(T)
  <2>1. ASSUME NEW j \in Slot, NEW k \in Slot, T[j].key = T[k].key, T[j].key # None
        PROVE  j = k
    BY <1>1, <1>6, <2>1 DEF Keyed
  <2>. QED
    BY <1>5, <2>1 DEF Keyed
<1>8. slot_for(T, a) = i
  BY <1>1, <1>6, <1>7, SlotFor
<1>. QED
  BY <1>1, <1>2, <1>4, <1>5, <1>8

-----------------------------------------------------------------------------
(* One step of the policy: the record of account a, which may be new, goes *)
(* from f failures and the pause b to g failures and the pause c.          *)
Changed(a, f, b, g, c) ==
    \E i \in Slot :
        /\ Keyed(accounts') /\ accounts'[i].key = a
        /\ accounts'[i].auth_failures = g /\ accounts'[i].auth_blocked_until = c
        /\ \A j \in Slot \ {i} : accounts'[j] = accounts[j] /\ accounts[j].key # a
        /\ accounts[i].key = a =>
              accounts[i].auth_failures = f /\ accounts[i].auth_blocked_until = b
        /\ accounts[i].key # a => f = 0 /\ b = 0

LEMMA ChangedBy ==
    ASSUME Keyed(accounts), NEW a \in Account, NEW t \in Nat,
           NEW T, T = account_record_for(a, t), NEW r \in AccountRecord, r.key = a,
           accounts' = [T EXCEPT ![slot_for(T, a)] = r]
    PROVE  LET old == T[slot_for(T, a)] IN
           /\ old \in AccountRecord /\ old.key = a
           /\ Changed(a, old.auth_failures, old.auth_blocked_until,
                      r.auth_failures, r.auth_blocked_until)
<1>. DEFINE i == slot_for(accounts, a)
<1>1. /\ i \in Slot /\ T \in [Slot -> AccountRecord] /\ T[i].key = a
      /\ slot_for(T, a) = i
      /\ \A j \in Slot \ {i} : T[j] = accounts[j] /\ accounts[j].key # a
      /\ accounts[i].key = a =>
            /\ T[i].auth_failures = accounts[i].auth_failures
            /\ T[i].auth_blocked_until = accounts[i].auth_blocked_until
      /\ accounts[i].key # a => T[i].auth_failures = 0 /\ T[i].auth_blocked_until = 0
  BY RecordFor
<1>. HIDE DEF i
<1>2. /\ accounts' \in [Slot -> AccountRecord] /\ accounts'[i] = r
      /\ \A j \in Slot \ {i} : accounts'[j] = accounts[j]
  BY <1>1
<1>3. Keyed(accounts')
  BY <1>1, <1>2 DEF Keyed
<1>. QED
  BY <1>1, <1>2, <1>3 DEF Changed

\* The three kinds of change.
LEMMA AttemptChanges ==
    ASSUME Keyed(accounts), NEW w, caller[w].account \in Account, caller[w].now \in Nat,
           allow_auth_attempt(w)
    PROVE  \E f, b, g, c \in Nat :
              /\ Changed(caller[w].account, f, b, g, c)
              /\ IF b # 0 /\ b <= caller[w].now THEN g = 0 /\ c = 0 ELSE g = f /\ c = b
              /\ (Goto(w, "verify") /\ c <= caller[w].now) \/ Done(w)
<1>. DEFINE a == caller[w].account
            t == caller[w].now
            T == account_record_for(a, t)
            old == T[slot_for(T, a)]
            r == cooled(old, t)
<1>1. old \in AccountRecord /\ old.key = a
  BY RecordFor
<1>2. accounts' = [T EXCEPT ![slot_for(T, a)] = r]
  BY ZenonT(30) DEF allow_auth_attempt
<1>3. (Goto(w, "verify") /\ ~(r.auth_blocked_until > t)) \/ Done(w)
  BY DEF allow_auth_attempt, waits
<1>. HIDE DEF T
<1>4. /\ r \in AccountRecord /\ r.key = a
      /\ IF old.auth_blocked_until # 0 /\ old.auth_blocked_until <= t
         THEN r.auth_failures = 0 /\ r.auth_blocked_until = 0
         ELSE /\ r.auth_failures = old.auth_failures
              /\ r.auth_blocked_until = old.auth_blocked_until
  BY <1>1, Zenon DEF cooled, AccountRecord
<1>5. Changed(a, old.auth_failures, old.auth_blocked_until,
              r.auth_failures, r.auth_blocked_until)
  BY <1>2, <1>4, ChangedBy, ZenonT(40) DEF T
<1>6. /\ old.auth_failures \in Nat /\ old.auth_blocked_until \in Nat
      /\ r.auth_failures \in Nat /\ r.auth_blocked_until \in Nat
  BY <1>1, <1>4 DEF AccountRecord
<1>. HIDE DEF r, old
<1>7. (Goto(w, "verify") /\ r.auth_blocked_until <= t) \/ Done(w)
  BY <1>3, <1>6
<1>. QED
  BY <1>4, <1>5, <1>6, <1>7

LEMMA FailureChanges ==
    ASSUME Keyed(accounts), NEW w, caller[w].account \in Account, caller[w].now \in Nat,
           note_auth_failure(w)
    PROVE  \E f, b, g, c \in Nat :
              /\ Changed(caller[w].account, f, b, g, c) /\ g <= f + 1
              /\ c = b \/ c = caller[w].now + ACCOUNT_AUTH_LOCK
              /\ g >= ACCOUNT_AUTH_FAILURE_LIMIT => c = caller[w].now + ACCOUNT_AUTH_LOCK
<1>. DEFINE a == caller[w].account
            t == caller[w].now
            T == account_record_for(a, t)
            old == T[slot_for(T, a)]
            r == failed(old, account_backoff(counted(old)), t)
<1>1. old \in AccountRecord /\ old.key = a /\ T \in [Slot -> AccountRecord]
      /\ slot_for(T, a) \in Slot
  BY RecordFor, SMTT(20)
<1>2. accounts' = [T EXCEPT ![slot_for(T, a)] = r]
  BY <1>1 DEF note_auth_failure
<1>. HIDE DEF T, old
<1>3. /\ counted(old) \in Nat /\ counted(old) <= old.auth_failures + 1
      /\ account_backoff(counted(old)) \in {0, ACCOUNT_AUTH_LOCK}
      /\ counted(old) >= ACCOUNT_AUTH_FAILURE_LIMIT =>
            account_backoff(counted(old)) = ACCOUNT_AUTH_LOCK
  <2>1. old.auth_failures \in Nat
    BY <1>1 DEF AccountRecord
  <2>2. counted(old) \in Nat /\ counted(old) <= old.auth_failures + 1
    BY <2>1, Counts, Zenon
  <2>. QED
    BY <2>2, PolicyConstants DEF account_backoff
<1>4. /\ r \in AccountRecord /\ r.key = a /\ r.auth_failures = counted(old)
      /\ \/ r.auth_blocked_until = old.auth_blocked_until
         \/ r.auth_blocked_until = t + ACCOUNT_AUTH_LOCK
      /\ counted(old) >= ACCOUNT_AUTH_FAILURE_LIMIT =>
            r.auth_blocked_until = t + ACCOUNT_AUTH_LOCK
  <2>. DEFINE n == counted(old)
              d == account_backoff(n)
              until == IF d > 0 THEN t + d ELSE old.auth_blocked_until
  <2>1. n \in Nat /\ d \in Nat /\ until \in Nat
    BY <1>1, <1>3, PolicyConstants DEF AccountRecord
  <2>2. r = [old EXCEPT !.auth_failures = n, !.auth_blocked_until = until]
    BY <1>1 DEF failed, AccountRecord
  <2>3. /\ n >= ACCOUNT_AUTH_FAILURE_LIMIT => until = t + ACCOUNT_AUTH_LOCK
        /\ until = old.auth_blocked_until \/ until = t + ACCOUNT_AUTH_LOCK
    BY <1>3, PolicyConstants
  <2>. HIDE DEF n, d, until, r
  <2>4. /\ r \in AccountRecord /\ r.key = a /\ r.auth_failures = n
        /\ r.auth_blocked_until = until
    BY <1>1, <2>1, <2>2, Zenon DEF AccountRecord
  <2>. QED
    BY <2>3, <2>4 DEF n
<1>5. Changed(a, old.auth_failures, old.auth_blocked_until,
              r.auth_failures, r.auth_blocked_until)
  BY <1>2, <1>4, ChangedBy, Zenon DEF T, old
<1>6. /\ old.auth_failures \in Nat /\ old.auth_blocked_until \in Nat
      /\ r.auth_failures \in Nat /\ r.auth_blocked_until \in Nat
  BY <1>1, <1>4 DEF AccountRecord
<1>. HIDE DEF r
<1>. QED
  BY <1>3, <1>4, <1>5, <1>6

LEMMA SuccessChanges ==
    ASSUME Keyed(accounts), NEW w, caller[w].account \in Account, caller[w].now \in Nat,
           note_auth_success(w)
    PROVE  \E f, b \in Nat : Changed(caller[w].account, f, b, 0, 0)
<1>. DEFINE a == caller[w].account
            t == caller[w].now
            T == account_record_for(a, t)
            old == T[slot_for(T, a)]
            r == cleared(old)
<1>1. old \in AccountRecord /\ old.key = a /\ T \in [Slot -> AccountRecord]
      /\ slot_for(T, a) \in Slot
  BY RecordFor
<1>2. accounts' = [T EXCEPT ![slot_for(T, a)] = r]
  BY <1>1 DEF note_auth_success
<1>. HIDE DEF T, old
<1>3. /\ r \in AccountRecord /\ r.key = a /\ r.auth_failures = 0 /\ r.auth_blocked_until = 0
  BY <1>1, Zenon DEF cleared, AccountRecord
<1>4. Changed(a, old.auth_failures, old.auth_blocked_until,
              r.auth_failures, r.auth_blocked_until)
  BY <1>2, <1>3, ChangedBy, ZenonT(30) DEF T, old
<1>5. old.auth_failures \in Nat /\ old.auth_blocked_until \in Nat
  BY <1>1 DEF AccountRecord
<1>. HIDE DEF r
<1>. QED
  BY <1>3, <1>4, <1>5, ZenonT(30)

-----------------------------------------------------------------------------
(* The locks.  A record with the limit of failures has a pause, which is   *)
(* as long as the lock, less the age of the clock reading that set it.     *)

LockInv ==
    /\ Keyed(accounts) /\ lock_time \in [Account -> Nat \cup {None}]
    /\ \A a \in Account : lock_time[a] # None =>
          /\ lock_time[a] <= clock
          /\ \E i \in Slot : /\ accounts[i].key = a
                             /\ accounts[i].auth_failures >= ACCOUNT_AUTH_FAILURE_LIMIT
    /\ \A i \in Slot :
          /\ accounts[i].key # None
          /\ accounts[i].auth_failures >= ACCOUNT_AUTH_FAILURE_LIMIT
          => /\ lock_time[accounts[i].key] # None
             /\ accounts[i].auth_blocked_until # 0
             /\ accounts[i].auth_blocked_until + MaxDelay
                   >= lock_time[accounts[i].key] + ACCOUNT_AUTH_LOCK

LEMMA LockKept ==
    ASSUME LockInv, clock \in Nat, clock' = clock, NoteLocks,
           NEW a \in Account, NEW f, NEW b, NEW g \in Nat, NEW c \in Nat, Changed(a, f, b, g, c),
           g >= ACCOUNT_AUTH_FAILURE_LIMIT =>
               /\ c # 0
               /\ lock_time[a] = None => c + MaxDelay >= clock + ACCOUNT_AUTH_LOCK
               /\ lock_time[a] # None => c + MaxDelay >= lock_time[a] + ACCOUNT_AUTH_LOCK
    PROVE  LockInv'
<1>1. PICK i \in Slot :
        /\ Keyed(accounts') /\ accounts'[i].key = a
        /\ accounts'[i].auth_failures = g /\ accounts'[i].auth_blocked_until = c
        /\ \A j \in Slot \ {i} : accounts'[j] = accounts[j] /\ accounts[j].key # a
  BY DEF Changed
<1>. DEFINE Locked(k) ==
               \E j \in Slot : /\ accounts'[j].key = k
                               /\ accounts'[j].auth_failures >= ACCOUNT_AUTH_FAILURE_LIMIT
<1>2. DOMAIN accounts' = Slot
  BY <1>1 DEF Keyed
<1>3. /\ lock_time' = [k \in Account |-> IF Locked(k)
                         THEN IF lock_time[k] = None THEN clock ELSE lock_time[k] ELSE None]
  BY <1>2 DEF NoteLocks
<1>. HIDE DEF Locked
<1>4. lock_time' \in [Account -> Nat \cup {None}]
  BY <1>3 DEF LockInv
<1>5. ASSUME NEW k \in Account, lock_time'[k] # None
      PROVE  /\ lock_time'[k] <= clock'
             /\ \E j \in Slot : /\ accounts'[j].key = k
                                /\ accounts'[j].auth_failures >= ACCOUNT_AUTH_FAILURE_LIMIT
  <2>1. Locked(k)
    BY <1>3, <1>5
  <2>2. lock_time'[k] <= clock
    BY <1>3, <2>1 DEF LockInv
  <2>. QED
    BY <2>1, <2>2 DEF Locked
<1>6. ASSUME NEW j \in Slot, accounts'[j].key # None,
             accounts'[j].auth_failures >= ACCOUNT_AUTH_FAILURE_LIMIT
      PROVE  /\ lock_time'[accounts'[j].key] # None
             /\ accounts'[j].auth_blocked_until # 0
             /\ accounts'[j].auth_blocked_until + MaxDelay
                   >= lock_time'[accounts'[j].key] + ACCOUNT_AUTH_LOCK
  <2>. DEFINE k == accounts'[j].key
  <2>1. k \in Account /\ Locked(k)
    BY <1>1, <1>6 DEF Keyed, AccountRecord, Locked
  <2>2. /\ lock_time'[k] = IF lock_time[k] = None THEN clock ELSE lock_time[k]
        /\ lock_time[k] \in Nat \cup {None}
    BY <1>3, <2>1 DEF LockInv
  <2>3. lock_time'[k] # None
    BY <2>2, PolicyConstants
  <2>4. CASE j = i
    BY <1>1, <1>6, <2>2, <2>3, <2>4
  <2>5. CASE j # i
    <3>1. accounts'[j] = accounts[j]
      BY <1>1, <2>5
    <3>2. /\ lock_time[k] # None /\ accounts[j].auth_blocked_until # 0
          /\ accounts[j].auth_blocked_until + MaxDelay >= lock_time[k] + ACCOUNT_AUTH_LOCK
      BY <1>6, <3>1 DEF LockInv
    <3>. QED
      BY <2>2, <2>3, <3>1, <3>2
  <2>. QED
    BY <2>4, <2>5
<1>. QED
  BY <1>1, <1>4, <1>5, <1>6 DEF LockInv

LEMMA LockSame ==
    ASSUME LockInv, UNCHANGED <<accounts, lock_time>>, clock \in Nat, clock' \in Nat, clock' >= clock
    PROVE  LockInv'
<1>1. \A a \in Account : lock_time'[a] # None => lock_time'[a] <= clock'
  BY DEF LockInv
<1>. QED
  BY <1>1 DEF LockInv

\* What the record of a locked account holds, and that there is one.
LEMMA OldRecord ==
    ASSUME LockInv, NEW a \in Account, NEW f, NEW b, NEW g, NEW c, Changed(a, f, b, g, c)
    PROVE  /\ lock_time[a] # None => f >= ACCOUNT_AUTH_FAILURE_LIMIT
           /\ f >= ACCOUNT_AUTH_FAILURE_LIMIT =>
                 /\ lock_time[a] # None /\ b # 0
                 /\ b + MaxDelay >= lock_time[a] + ACCOUNT_AUTH_LOCK
<1>1. PICK i \in Slot :
        /\ \A j \in Slot \ {i} : accounts[j].key # a
        /\ accounts[i].key = a =>
              accounts[i].auth_failures = f /\ accounts[i].auth_blocked_until = b
        /\ accounts[i].key # a => f = 0 /\ b = 0
  BY DEF Changed
<1>2. lock_time[a] # None => f >= ACCOUNT_AUTH_FAILURE_LIMIT
  BY <1>1 DEF LockInv
<1>3. f >= ACCOUNT_AUTH_FAILURE_LIMIT => accounts[i].key = a /\ accounts[i].key # None
  BY <1>1, PolicyConstants
<1>. QED
  BY <1>1, <1>2, <1>3 DEF LockInv

\* The lock after each step of a login.
LEMMA AttemptLocks ==
    ASSUME CallerInv, LockInv, NEW w \in DOMAIN caller, allow_auth_attempt(w)
    PROVE  /\ LockInv'
           /\ Goto(w, "verify") /\ lock_time[caller[w].account] # None /\ ~Done(w) =>
                 clock >= lock_time[caller[w].account] + ACCOUNT_AUTH_LOCK - MaxDelay
<1>. DEFINE a == caller[w].account
            t == caller[w].now
<1>1. a \in Account /\ t \in Nat /\ t <= clock /\ clock \in Nat /\ Keyed(accounts)
  BY Asks DEF allow_auth_attempt, At, CallerInv, LockInv
<1>2. PICK f, b, g, c \in Nat :
         /\ Changed(a, f, b, g, c)
         /\ IF b # 0 /\ b <= t THEN g = 0 /\ c = 0 ELSE g = f /\ c = b
         /\ (Goto(w, "verify") /\ c <= t) \/ Done(w)
  BY <1>1, AttemptChanges, ZenonT(30)
<1>3. /\ lock_time[a] # None => f >= ACCOUNT_AUTH_FAILURE_LIMIT
      /\ f >= ACCOUNT_AUTH_FAILURE_LIMIT =>
            /\ lock_time[a] # None /\ b # 0
            /\ b + MaxDelay >= lock_time[a] + ACCOUNT_AUTH_LOCK
      /\ lock_time[a] \in Nat \cup {None}
  BY <1>1, <1>2, OldRecord, ZenonT(30) DEF LockInv
<1>4. LockInv'
  <2>1. g >= ACCOUNT_AUTH_FAILURE_LIMIT =>
           /\ c # 0 /\ lock_time[a] # None
           /\ c + MaxDelay >= lock_time[a] + ACCOUNT_AUTH_LOCK
    BY <1>2, <1>3, PolicyConstants
  <2>2. NoteLocks /\ clock' = clock
    BY ZenonT(30) DEF allow_auth_attempt
  <2>. QED
    BY <1>1, <1>2, <2>1, <2>2, LockKept, ZenonT(30)
<1>5. ASSUME c <= t, lock_time[a] # None
      PROVE  clock >= lock_time[a] + ACCOUNT_AUTH_LOCK - MaxDelay
  <2>1. b <= t
    BY <1>1, <1>2, <1>5
  <2>. QED
    BY <1>1, <1>2, <1>3, <1>5, <2>1, PolicyConstants
<1>. QED
  BY <1>2, <1>4, <1>5, ZenonT(30)

LEMMA FailureLocks ==
    ASSUME CallerInv, LockInv, NEW w \in DOMAIN caller, note_auth_failure(w)
    PROVE  LockInv'
<1>. DEFINE a == caller[w].account
            t == caller[w].now
<1>1. /\ a \in Account /\ t \in Nat /\ clock <= t + MaxDelay /\ clock \in Nat /\ Keyed(accounts)
  BY Asks DEF note_auth_failure, At, CallerInv, LockInv
<1>2. PICK f, b, g, c \in Nat :
         /\ Changed(a, f, b, g, c)
         /\ g >= ACCOUNT_AUTH_FAILURE_LIMIT => c = t + ACCOUNT_AUTH_LOCK
  BY <1>1, FailureChanges
<1>3. lock_time[a] # None => lock_time[a] <= clock /\ lock_time[a] \in Nat
  BY <1>1 DEF LockInv
<1>4. g >= ACCOUNT_AUTH_FAILURE_LIMIT =>
         /\ c # 0 /\ c + MaxDelay >= clock + ACCOUNT_AUTH_LOCK
         /\ lock_time[a] # None => c + MaxDelay >= lock_time[a] + ACCOUNT_AUTH_LOCK
  BY <1>1, <1>2, <1>3, PolicyConstants
<1>5. NoteLocks /\ clock' = clock
  BY DEF note_auth_failure
<1>. QED
  BY <1>1, <1>2, <1>4, <1>5, LockKept, ZenonT(30)

LEMMA SuccessLocks ==
    ASSUME CallerInv, LockInv, NEW w \in DOMAIN caller, note_auth_success(w)
    PROVE  LockInv'
<1>. DEFINE a == caller[w].account
<1>1. a \in Account /\ caller[w].now \in Nat /\ clock \in Nat /\ Keyed(accounts)
  BY Asks DEF note_auth_success, At, CallerInv, LockInv
<1>2. PICK f, b \in Nat : Changed(a, f, b, 0, 0)
  BY <1>1, SuccessChanges
<1>3. ~(0 >= ACCOUNT_AUTH_FAILURE_LIMIT) /\ NoteLocks /\ clock' = clock
  BY PolicyConstants DEF note_auth_success
<1>. QED
  BY <1>1, <1>2, <1>3, LockKept, ZenonT(30)

-----------------------------------------------------------------------------
PolicyInv == CallerInv /\ LockInv

LEMMA InitPolicy == Init => PolicyInv
<1>. SUFFICES ASSUME Init PROVE PolicyInv
  OBVIOUS
<1>1. /\ accounts = [i \in Slot |-> NewAccount] /\ clock = 1 /\ mix \in Mixes
      /\ caller = [w \in Worker \cup {Main} |-> Idle] /\ lock_time = [a \in Account |-> None]
  BY DEF Init, Slot
<1>2. NewAccount \in AccountRecord /\ NewAccount.key = None /\ NewAccount.auth_failures = 0
  BY DEF NewAccount, AccountRecord
<1>3. CallerInv
  BY <1>1, AskingPc, PolicyConstants DEF CallerInv
<1>4. Keyed(accounts)
  BY <1>1, <1>2 DEF Keyed
<1>5. LockInv
  BY <1>1, <1>2, <1>4, PolicyConstants, ZenonT(30) DEF LockInv
<1>. QED
  BY <1>3, <1>5 DEF PolicyInv

LEMMA NextLocks ==
    ASSUME PolicyInv, [Next]_vars
    PROVE  LockInv'
<1>1. CASE /\ UNCHANGED <<accounts, lock_time>> /\ clock' \in {clock, clock + 1}
  BY <1>1, LockSame DEF PolicyInv, CallerInv
<1>2. CASE UNCHANGED vars \/ tick
  BY <1>1, <1>2, SMTT(30) DEF vars, policy_vars, history, tick
<1>3. ASSUME NEW w \in DOMAIN caller,
             \/ allow_connection(w) \/ allow_account_creation(w) \/ creation_failed(w)
             \/ \E pc \in mix, p \in Peer, a \in Account : read_clock(w, pc, p, a)
      PROVE  LockInv'
  BY <1>1, <1>3, Zenon DEF allow_connection, allow_account_creation,
     creation_failed, read_clock,
     policy_vars, history
<1>. QED
  BY <1>2, <1>3, AttemptLocks, FailureLocks, SuccessLocks DEF Next, PolicyInv

LEMMA PolicyAlways == Spec => []PolicyInv
<1>1. PolicyInv /\ [Next]_vars => PolicyInv'
  BY NextCallers, NextLocks DEF PolicyInv
<1>. QED
  BY <1>1, InitPolicy, PTL DEF Spec

\* Only the caller that takes a step moves, and a worker that asks to log in
\* moves only by allow_auth_attempt.
LEMMA OthersStay ==
    ASSUME CallerInv, NEW w \in DOMAIN caller, NEW v \in DOMAIN caller, v # w,
           \/ allow_connection(v) \/ allow_auth_attempt(v) \/ note_auth_failure(v)
           \/ note_auth_success(v) \/ allow_account_creation(v) \/ creation_failed(v)
           \/ \E pc \in mix, p \in Peer, a \in Account : read_clock(v, pc, p, a)
    PROVE  caller'[w] = caller[w]
<1>1. \E c : caller' = [caller EXCEPT ![v] = c]
  BY Zenon DEF allow_connection, allow_auth_attempt, note_auth_failure,
     note_auth_success,
     allow_account_creation, creation_failed, read_clock, Done, Goto
<1>. QED
  BY <1>1, SMTT(30) DEF CallerInv

\* CooldownHolds: for any number of workers and any sizes of the tables, an
\* account that has reached the limit lets nobody in until the lock has lasted
\* since it began, less the age of a clock reading.
THEOREM CooldownHoldsAlways == Spec => CooldownHolds
<1>. DEFINE Cooled(w) ==
               At(w, "auth") /\ caller'[w].pc = "verify" =>
                   LET locked == lock_time[caller[w].account]
                   IN  locked # None => clock >= locked + ACCOUNT_AUTH_LOCK - MaxDelay
<1>1. ASSUME PolicyInv, Next, NEW w \in Worker
      PROVE  Cooled(w)
  <2>. SUFFICES ASSUME caller[w].pc = "auth", caller'[w].pc = "verify",
                       lock_time[caller[w].account] # None
       PROVE  clock >= lock_time[caller[w].account] + ACCOUNT_AUTH_LOCK - MaxDelay
    BY DEF At
  <2>1. w \in DOMAIN caller /\ CallerInv /\ LockInv
    BY <1>1 DEF PolicyInv, CallerInv
  <2>2. caller' # caller
    BY ZenonT(30)
  <2>3. PICK v \in DOMAIN caller :
           \/ allow_connection(v) \/ allow_auth_attempt(v) \/ note_auth_failure(v)
           \/ note_auth_success(v) \/ allow_account_creation(v) \/ creation_failed(v)
           \/ \E pc \in mix, p \in Peer, a \in Account : read_clock(v, pc, p, a)
    BY <1>1, <2>2, ZenonT(30) DEF Next, tick
  <2>4. v = w
    BY <2>1, <2>3, OthersStay, SMTT(30)
  <2>5. allow_auth_attempt(w)
    BY <2>3, <2>4, Zenon DEF allow_connection, note_auth_failure, note_auth_success,
       allow_account_creation, creation_failed, read_clock, At
  <2>6. ~Done(w)
    BY <2>1, AskingPc, ZenonT(30) DEF Done, CallerInv
  <2>7. Goto(w, "verify")
    BY <2>5, <2>6 DEF allow_auth_attempt
  <2>. QED
    BY <2>1, <2>5, <2>6, <2>7, AttemptLocks, ZenonT(30)
<1>2. PolicyInv /\ [Next]_vars => [\A w \in Worker : Cooled(w)]_vars
  BY <1>1
<1>3. CooldownHolds <=> [][\A w \in Worker : Cooled(w)]_vars
  BY DEF CooldownHolds
<1>. HIDE DEF Cooled
<1>. QED
  BY <1>2, <1>3, PolicyAlways, PTL DEF Spec

-----------------------------------------------------------------------------
(* The number of attempts.                                                 *)

LEMMA VerifyingBound ==
    /\ Cardinality(Worker) \in Nat
    /\ \A S \in SUBSET Worker : /\ Cardinality(S) \in Nat /\ IsFiniteSet(S)
                                /\ Cardinality(S) <= Cardinality(Worker)
BY PolicyConstants, FS_Subset, FS_CardinalityType

NextVerifying(k) ==
    {w \in Worker : caller'[w].pc = "verify" /\ caller'[w].account = k}

Bound == ACCOUNT_AUTH_FAILURE_LIMIT - 1 + Cardinality(Worker)

LEMMA BoundNat == Bound \in Nat /\ Bound >= Cardinality(Worker)
BY VerifyingBound, PolicyConstants DEF Bound

\* The callers that verify after a step of w.
LEMMA VerifiersAfter ==
    ASSUME CallerInv, NEW w \in Worker, caller[w] \in Asking,
           Done(w) \/ Goto(w, "verify") \/ Goto(w, "recheck") \/ Goto(w, "created")
    PROVE  /\ \A k \in Account \ {caller[w].account} : NextVerifying(k) \subseteq Verifying(k)
           /\ Goto(w, "verify") \/ \A k \in Account : NextVerifying(k) \subseteq Verifying(k) \ {w}
<1>1. w \in DOMAIN caller /\ Worker \subseteq DOMAIN caller
  BY DEF CallerInv
<1>2. CASE Done(w)
  <2>1. caller'[w].pc = "idle" /\ \A v \in Worker \ {w} : caller'[v] = caller[v]
    BY <1>1, <1>2, AskingPc DEF Done
  <2>. QED
    BY <2>1 DEF NextVerifying, Verifying, At
<1>3. ASSUME NEW p, Goto(w, p)
      PROVE  /\ caller'[w].pc = p /\ caller'[w].account = caller[w].account
             /\ \A v \in Worker \ {w} : caller'[v] = caller[v]
  BY <1>1, <1>3 DEF Goto, Asking
<1>4. CASE Goto(w, "verify")
  BY <1>3, <1>4 DEF NextVerifying, Verifying, At
<1>5. CASE Goto(w, "recheck") \/ Goto(w, "created")
  <2>1. caller'[w].pc # "verify" /\ \A v \in Worker \ {w} : caller'[v] = caller[v]
    BY <1>3, <1>5
  <2>. QED
    BY <2>1 DEF NextVerifying, Verifying, At
<1>. QED
  BY <1>2, <1>4, <1>5

\* The bound after a step, whatever it changes.
LEMMA BoundNext ==
    ASSUME Keyed(accounts'),
           \A i \in Slot : accounts'[i].key # None =>
               accounts'[i].auth_failures + Cardinality(NextVerifying(accounts'[i].key)) <= Bound
    PROVE  AttemptsBounded'
<1>1. DOMAIN accounts' = Slot
  BY DEF Keyed
<1>. QED
  BY <1>1 DEF AttemptsBounded, Verifying, At, NextVerifying, Bound

\* The record of an account whose verifiers do not grow keeps within it.
LEMMA BoundShrinks ==
    ASSUME AttemptsBounded, Keyed(accounts), NEW j \in Slot, accounts[j].key # None,
           NextVerifying(accounts[j].key) \subseteq Verifying(accounts[j].key)
    PROVE  accounts[j].auth_failures + Cardinality(NextVerifying(accounts[j].key)) <= Bound
<1>. DEFINE k == accounts[j].key
            f == accounts[j].auth_failures
<1>1. f \in Nat /\ DOMAIN accounts = Slot
  BY DEF Keyed, AccountRecord
<1>2. f + Cardinality(Verifying(k)) <= Bound
  BY <1>1 DEF AttemptsBounded, Bound
<1>3. Verifying(k) \subseteq Worker /\ NextVerifying(k) \subseteq Verifying(k)
  BY DEF Verifying
<1>4. /\ Cardinality(NextVerifying(k)) <= Cardinality(Verifying(k))
      /\ Cardinality(NextVerifying(k)) \in Nat /\ Cardinality(Verifying(k)) \in Nat
  BY <1>3, VerifyingBound, FS_Subset
<1>. HIDE DEF f, k
<1>5. f + Cardinality(NextVerifying(k)) <= Bound
  BY <1>1, <1>2, <1>4, BoundNat, SMTT(30)
<1>. QED
  BY <1>5 DEF f, k

\* A step that changes the record of account a keeps the bound if it does so
\* for a and lets nobody verify for another account.
LEMMA AttemptsKept ==
    ASSUME AttemptsBounded, Keyed(accounts), NEW a \in Account, NEW f, NEW b, NEW g \in Nat, NEW c,
           Changed(a, f, b, g, c),
           \A k \in Account \ {a} : NextVerifying(k) \subseteq Verifying(k),
           g + Cardinality(NextVerifying(a)) <= Bound
    PROVE  AttemptsBounded'
<1>1. PICK i \in Slot :
        /\ Keyed(accounts') /\ accounts'[i].key = a /\ accounts'[i].auth_failures = g
        /\ \A j \in Slot \ {i} : accounts'[j] = accounts[j] /\ accounts[j].key # a
  BY DEF Changed
<1>2. ASSUME NEW j \in Slot, accounts'[j].key # None
      PROVE  accounts'[j].auth_failures + Cardinality(NextVerifying(accounts'[j].key)) <= Bound
  <2>1. CASE j = i
    BY <1>1, <2>1
  <2>2. CASE j # i
    <3>1. accounts'[j] = accounts[j] /\ accounts[j].key \in Account \ {a}
      BY <1>1, <1>2, <2>2, ZenonT(30) DEF Keyed, AccountRecord
    <3>2. accounts[j].auth_failures + Cardinality(NextVerifying(accounts[j].key)) <= Bound
      BY <1>2, <3>1, BoundShrinks, ZenonT(30)
    <3>. QED
      BY <3>1, <3>2
  <2>. QED
    BY <2>1, <2>2, ZenonT(30)
<1>. QED
  BY <1>1, <1>2, BoundNext, ZenonT(30)

\* A step that leaves the records alone keeps it if nobody starts to verify.
LEMMA AttemptsSame ==
    ASSUME AttemptsBounded, Keyed(accounts), accounts' = accounts,
           \A k \in Account : NextVerifying(k) \subseteq Verifying(k)
    PROVE  AttemptsBounded'
<1>1. ASSUME NEW j \in Slot, accounts[j].key # None
      PROVE  accounts[j].auth_failures + Cardinality(NextVerifying(accounts[j].key)) <= Bound
  <2>1. accounts[j].key \in Account
    BY <1>1 DEF Keyed, AccountRecord
  <2>. QED
    BY <1>1, <2>1, BoundShrinks
<1>. QED
  BY <1>1, BoundNext

\* The failures a record had before the step are within the bound.
LEMMA OldBound ==
    ASSUME AttemptsBounded, Keyed(accounts), NEW a \in Account, NEW f \in Nat, NEW b, NEW g, NEW c,
           Changed(a, f, b, g, c)
    PROVE  f + Cardinality(Verifying(a)) <= Bound
<1>1. PICK i \in Slot :
        /\ accounts[i].key = a => accounts[i].auth_failures = f
        /\ accounts[i].key # a => f = 0
  BY DEF Changed
<1>2. DOMAIN accounts = Slot /\ a # None
  BY PolicyConstants, SMTT(30) DEF Keyed
<1>3. CASE accounts[i].key = a
  BY <1>1, <1>2, <1>3, ZenonT(30) DEF AttemptsBounded, Bound
<1>4. CASE accounts[i].key # a
  <2>1. Verifying(a) \subseteq Worker
    BY ZenonT(30) DEF Verifying
  <2>. QED
    BY <1>1, <1>4, <2>1, VerifyingBound, BoundNat
<1>. QED
  BY <1>3, <1>4

\* The bound after each step of a login.
LEMMA AttemptBounds ==
    ASSUME PolicyInv, AttemptsBounded, NEW w \in DOMAIN caller, allow_auth_attempt(w)
    PROVE  AttemptsBounded'
<1>. DEFINE a == caller[w].account
            t == caller[w].now
<1>1. /\ a \in Account /\ t \in Nat /\ Keyed(accounts) /\ w \in Worker /\ caller[w] \in Asking
      /\ CallerInv /\ LockInv
  BY Asks, SMTT(30) DEF allow_auth_attempt, At, PolicyInv, LockInv
<1>2. PICK f, b, g, c \in Nat :
         /\ Changed(a, f, b, g, c)
         /\ IF b # 0 /\ b <= t THEN g = 0 /\ c = 0 ELSE g = f /\ c = b
         /\ (Goto(w, "verify") /\ c <= t) \/ Done(w)
  BY <1>1, AttemptChanges, ZenonT(40)
<1>3. \A k \in Account \ {a} : NextVerifying(k) \subseteq Verifying(k)
  BY <1>1, <1>2, VerifiersAfter
<1>4. NextVerifying(a) \subseteq Worker /\ Verifying(a) \subseteq Worker
  BY DEF NextVerifying, Verifying
<1>5. /\ Cardinality(NextVerifying(a)) \in Nat /\ Cardinality(Verifying(a)) \in Nat
      /\ Cardinality(NextVerifying(a)) <= Cardinality(Worker)
  BY <1>4, VerifyingBound, SMTT(20)
<1>6. g + Cardinality(NextVerifying(a)) <= Bound
  <2>1. CASE Goto(w, "verify") /\ c <= t
    <3>1. f >= ACCOUNT_AUTH_FAILURE_LIMIT => b # 0
      BY <1>1, <1>2, OldRecord, ZenonT(30)
    <3>2. g <= ACCOUNT_AUTH_FAILURE_LIMIT - 1
      BY <1>1, <1>2, <2>1, <3>1, PolicyConstants, SMTT(30)
    <3>. QED
      BY <1>2, <1>5, <3>2, VerifyingBound, PolicyConstants, SMTT(30) DEF Bound
  <2>2. CASE Done(w)
    <3>1. NextVerifying(a) \subseteq Verifying(a)
      <4>1. caller'[w].pc = "idle" /\ \A v \in Worker \ {w} : caller'[v] = caller[v]
        BY <1>1, <2>2, AskingPc DEF Done, CallerInv
      <4>. QED
        BY <4>1 DEF NextVerifying, Verifying, At
    <3>2. Cardinality(NextVerifying(a)) <= Cardinality(Verifying(a))
      BY <1>4, <3>1, VerifyingBound, FS_Subset, ZenonT(30)
    <3>3. f + Cardinality(Verifying(a)) <= Bound
      BY <1>1, <1>2, OldBound, ZenonT(30)
    <3>. QED
      BY <1>2, <1>5, <3>2, <3>3, BoundNat, SMTT(30)
  <2>. QED
    BY <1>2, <2>1, <2>2, ZenonT(30)
<1>. QED
  BY <1>1, <1>2, <1>3, <1>6, AttemptsKept, ZenonT(30)

LEMMA FailureBounds ==
    ASSUME PolicyInv, AttemptsBounded, NEW w \in DOMAIN caller, note_auth_failure(w)
    PROVE  AttemptsBounded'
<1>. DEFINE a == caller[w].account
<1>1. /\ a \in Account /\ caller[w].now \in Nat /\ Keyed(accounts) /\ w \in Worker
      /\ caller[w] \in Asking /\ CallerInv /\ caller[w].pc = "verify"
      /\ Done(w) \/ Goto(w, "recheck")
  BY Asks, SMTT(20) DEF note_auth_failure, At, PolicyInv, LockInv
<1>2. PICK f, b, g, c \in Nat : Changed(a, f, b, g, c) /\ g <= f + 1
  BY <1>1, FailureChanges, Zenon
<1>3. caller'[w].pc # "verify"
  BY <1>1, AskingPc DEF Done, Goto, CallerInv, Asking
<1>4. \A v \in Worker \ {w} : caller'[v] = caller[v]
  BY <1>1 DEF Done, Goto, CallerInv
<1>5. /\ \A k \in Account : NextVerifying(k) \subseteq Verifying(k)
      /\ NextVerifying(a) \subseteq Verifying(a) \ {w}
  BY <1>3, <1>4, ZenonT(30) DEF NextVerifying, Verifying, At
<1>6. w \in Verifying(a) /\ Verifying(a) \subseteq Worker
  BY <1>1, SMTT(20) DEF Verifying, At
<1>7. /\ Cardinality(Verifying(a) \ {w}) = Cardinality(Verifying(a)) - 1
      /\ Cardinality(Verifying(a)) \in Nat /\ IsFiniteSet(Verifying(a) \ {w})
  BY <1>6, VerifyingBound, FS_RemoveElement
<1>8. Cardinality(NextVerifying(a)) <= Cardinality(Verifying(a)) - 1
  BY <1>5, <1>7, FS_Subset, SMTT(30)
<1>9. f + Cardinality(Verifying(a)) <= Bound
  BY <1>1, <1>2, OldBound
<1>10. Cardinality(NextVerifying(a)) \in Nat
  BY <1>5, <1>6, VerifyingBound
<1>11. g + Cardinality(NextVerifying(a)) <= Bound
  BY <1>2, <1>7, <1>8, <1>9, <1>10, BoundNat, SMTT(30)
<1>. QED
  BY <1>1, <1>2, <1>5, <1>11, AttemptsKept, ZenonT(30)

LEMMA SuccessBounds ==
    ASSUME PolicyInv, AttemptsBounded, NEW w \in DOMAIN caller, note_auth_success(w)
    PROVE  AttemptsBounded'
<1>. DEFINE a == caller[w].account
<1>1. /\ a \in Account /\ caller[w].now \in Nat /\ Keyed(accounts) /\ w \in Worker
      /\ caller[w] \in Asking /\ CallerInv /\ Done(w)
  BY Asks, SMTT(30) DEF note_auth_success, At, PolicyInv, LockInv
<1>2. PICK f, b \in Nat : Changed(a, f, b, 0, 0)
  BY <1>1, SuccessChanges, Zenon
<1>3. \A k \in Account \ {a} : NextVerifying(k) \subseteq Verifying(k)
  BY <1>1, VerifiersAfter, ZenonT(30)
<1>4. NextVerifying(a) \subseteq Worker
  BY DEF NextVerifying
<1>5. 0 + Cardinality(NextVerifying(a)) <= Bound
  BY <1>4, VerifyingBound, BoundNat
<1>. QED
  BY <1>1, <1>2, <1>3, <1>5, AttemptsKept, ZenonT(30)

LEMMA OtherBounds ==
    ASSUME PolicyInv, AttemptsBounded, NEW w \in DOMAIN caller,
           \/ allow_connection(w) \/ allow_account_creation(w) \/ creation_failed(w)
           \/ \E pc \in mix, p \in Peer, a \in Account : read_clock(w, pc, p, a)
    PROVE  AttemptsBounded'
<1>1. accounts' = accounts /\ CallerInv /\ Keyed(accounts)
  BY Zenon DEF allow_connection, allow_account_creation, creation_failed,
     read_clock, policy_vars,
     PolicyInv, LockInv
<1>2. DOMAIN caller = Worker \cup {Main}
  BY <1>1, SMTT(30) DEF CallerInv
<1>3. /\ \A v \in Worker \ {w} : caller'[v] = caller[v]
      /\ caller'[w].pc # "verify"
  <2>1. CASE Done(w)
    BY <1>2, <2>1, AskingPc DEF Done
  <2>2. CASE Goto(w, "created") /\ caller[w].pc = "create"
    <3>1. caller[w] \in Asking
      BY <1>1, <2>2, Asks, ZenonT(30)
    <3>. QED
      BY <1>2, <2>2, <3>1, ZenonT(30) DEF Goto, Asking
  <2>3. ASSUME NEW pc \in mix, NEW p \in Peer, NEW a \in Account, read_clock(w, pc, p, a)
        PROVE  <1>3!:
    <3>1. pc # "verify"
      BY <1>1, <2>3, ZenonT(30) DEF CallerInv
    <3>. QED
      BY <1>2, <2>3, <3>1 DEF read_clock
  <2>. QED
    BY <2>1, <2>2, <2>3, Zenon DEF allow_connection, allow_account_creation,
       creation_failed, At
<1>4. \A k \in Account : NextVerifying(k) \subseteq Verifying(k)
  BY <1>3 DEF NextVerifying, Verifying, At
<1>. QED
  BY <1>1, <1>4, AttemptsSame

\* AttemptsBounded: for any number of workers, accounts and records, the
\* failures an account sees and the checks still running for it stay within the
\* limit and one for each further worker.
THEOREM AttemptsBoundedHolds == Spec => []AttemptsBounded
<1>1. Init => AttemptsBounded
  BY DEF Init, AttemptsBounded, NewAccount
<1>2. ASSUME PolicyInv, AttemptsBounded, UNCHANGED vars \/ tick
      PROVE  AttemptsBounded'
  <2>1. accounts' = accounts /\ caller' = caller /\ Keyed(accounts)
    BY <1>2 DEF vars, tick, policy_vars, PolicyInv, LockInv
  <2>2. \A k \in Account : NextVerifying(k) \subseteq Verifying(k)
    BY <2>1 DEF NextVerifying, Verifying, At
  <2>. QED
    BY <1>2, <2>1, <2>2, AttemptsSame, ZenonT(30)
<1>3. PolicyInv /\ AttemptsBounded /\ [Next]_vars => AttemptsBounded'
  BY <1>2, AttemptBounds, FailureBounds, SuccessBounds, OtherBounds,
     ZenonT(30) DEF Next
<1>. QED
  BY <1>1, <1>3, PolicyAlways, PTL DEF Spec

-----------------------------------------------------------------------------
(* The time up to which every question about a connection has been asked:  *)
(* only the main thread asks, with the clock it has read last.             *)

Reading == IF caller[Main].pc = "connect" THEN caller[Main].now ELSE clock

LEMMA ReadingNat ==
    ASSUME CallerInv
    PROVE  Reading \in Nat /\ Reading <= clock /\ clock \in Nat
<1>1. Main \in DOMAIN caller /\ clock \in Nat
  BY DEF CallerInv
<1>2. CASE caller[Main].pc = "connect"
  BY <1>1, <1>2, Asks DEF Reading
<1>3. CASE caller[Main].pc # "connect"
  BY <1>1, <1>3 DEF Reading
<1>. QED
  BY <1>2, <1>3

LEMMA ReadingNext == CallerInv' => (Reading \in Nat)'
<1>1. CallerInv => Reading \in Nat
  BY ReadingNat
<1>. QED
  BY <1>1, PTL

LEMMA ReadingSame ==
    ASSUME CallerInv, caller'[Main] = caller[Main], clock' \in Nat, clock <= clock'
    PROVE  Reading <= Reading'
<1>1. Reading \in Nat /\ clock \in Nat
  BY ReadingNat
<1>2. CASE caller[Main].pc = "connect"
  <2>1. Reading' = Reading
    BY <1>2, Zenon DEF Reading
  <2>. QED
    BY <1>1, <2>1
<1>3. CASE caller[Main].pc # "connect"
  <2>1. Reading' = clock' /\ Reading = clock
    BY <1>3, Zenon DEF Reading
  <2>. QED
    BY <2>1, Zenon
<1>. QED
  BY <1>2, <1>3

\* Of the steps of a caller, a worker's leaves the reading alone, and the main
\* thread's ends or begins a question.
LEMMA ReadingGrows ==
    ASSUME CallerInv, [Next]_vars
    PROVE  Reading <= Reading'
<1>1. Reading \in Nat /\ Reading <= clock /\ clock \in Nat /\ Main \in DOMAIN caller
      /\ clock <= clock
  BY ReadingNat DEF CallerInv
<1>2. CASE UNCHANGED vars
  <2>1. caller' = caller /\ clock' = clock
    BY <1>2, Zenon DEF vars
  <2>. QED
    BY <1>1, <2>1, ReadingSame, Zenon
<1>3. CASE tick
  <2>1. caller' = caller /\ clock' = clock + 1
    BY <1>3, Zenon DEF tick
  <2>2. clock' \in Nat /\ clock <= clock'
    BY <1>1, <2>1
  <2>. QED
    BY <2>1, <2>2, ReadingSame, Zenon
<1>4. ASSUME NEW v \in DOMAIN caller,
             \/ allow_connection(v) \/ allow_auth_attempt(v) \/ note_auth_failure(v)
             \/ note_auth_success(v) \/ allow_account_creation(v) \/ creation_failed(v)
             \/ \E pc \in mix, p \in Peer, a \in Account : read_clock(v, pc, p, a)
      PROVE  Reading <= Reading'
  <2>1. clock' = clock
    BY <1>4, ZenonT(40) DEF allow_connection, allow_auth_attempt, note_auth_failure,
       note_auth_success, allow_account_creation, creation_failed, read_clock
  <2>2. CASE v # Main
    <3>1. caller'[Main] = caller[Main]
      BY <1>1, <1>4, <2>2, OthersStay, ZenonT(30)
    <3>. QED
      BY <1>1, <2>1, <3>1, ReadingSame, Zenon
  <2>3. CASE v = Main
    <3>1. caller[Main].pc = "idle" \/ caller[Main].pc = "connect"
      BY DEF CallerInv
    <3>2. CASE allow_connection(Main)
      <4>1. caller' = [caller EXCEPT ![Main] = Idle]
        BY <3>2, Zenon DEF allow_connection, Done
      <4>2. caller'[Main].pc # "connect"
        BY <1>1, <4>1, AskingPc
      <4>. QED
        BY <1>1, <2>1, <4>2, Zenon DEF Reading
    <3>3. ASSUME NEW pc \in mix, NEW p \in Peer, NEW a \in Account,
                 read_clock(Main, pc, p, a)
          PROVE  Reading <= Reading'
      <4>1. /\ caller[Main].pc = "idle"
            /\ caller' = [caller EXCEPT ![Main] =
                            [pc |-> pc, peer |-> p, account |-> a, now |-> clock]]
        BY <3>3, Zenon DEF read_clock, At
      <4>2. caller'[Main] = [pc |-> pc, peer |-> p, account |-> a, now |-> clock]
        BY <1>1, <4>1, Zenon
      <4>3. caller'[Main].now = clock
        BY <4>2
      <4>4. Reading' = clock
        BY <2>1, <4>3, Zenon DEF Reading
      <4>. QED
        BY <1>1, <4>4
    <3>. QED
      BY <1>4, <2>3, <3>1, <3>2, <3>3, ZenonT(30) DEF allow_auth_attempt,
         note_auth_failure,
         note_auth_success, allow_account_creation, creation_failed, At
  <2>. QED
    BY <2>2, <2>3, Zenon
<1>. QED
  BY <1>2, <1>3, <1>4, Zenon DEF Next

-----------------------------------------------------------------------------
(* The windows of the peers that have a record guard what they have been   *)
(* granted, and the others have been granted nothing.                      *)

PeersInv ==
    /\ PeerTable(peers) /\ peer_connected \in [Peer -> Seq(Nat)]
    /\ \A i \in PeerSlot : peers[i].key # None =>
          Guards(peer_connected[peers[i].key], peers[i].connections,
                 PEER_CONNECTION_LIMIT, CONNECTION_WINDOW, Reading)
    /\ \A p \in Peer : (\A i \in PeerSlot : peers[i].key # p) => peer_connected[p] = <<>>
    /\ \A i \in PeerSlot : peers[i].auth_blocked_until <= clock + PEER_DELAY_MAX

\* The record a peer had before the step, or a new one.
LEMMA OldPeer ==
    ASSUME CallerInv, PeersInv, NEW p \in Peer, NEW s, NEW b, NEW r, PeerChanged(p, s, b, r)
    PROVE  /\ Guards(peer_connected[p], s, PEER_CONNECTION_LIMIT, CONNECTION_WINDOW, Reading)
           /\ b <= clock + PEER_DELAY_MAX
<1>1. PICK i \in PeerSlot :
        /\ \A j \in PeerSlot \ {i} : peers[j].key # p
        /\ peers[i].key = p =>
              peers[i].connections = s /\ peers[i].auth_blocked_until = b
        /\ peers[i].key # p => s = <<>> /\ b = 0
  BY Zenon DEF PeerChanged
<1>2. CASE peers[i].key = p
  <2>1. p # None
    BY PeerConstants, Zenon
  <2>. QED
    BY <1>1, <1>2, <2>1, Zenon DEF PeersInv
<1>3. CASE peers[i].key # p
  <2>1. peer_connected[p] = <<>>
    BY <1>1, <1>3, Zenon DEF PeersInv
  <2>2. PEER_CONNECTION_LIMIT \in Nat /\ CONNECTION_WINDOW \in Nat /\ PEER_DELAY_MAX \in Nat
        /\ Reading \in Nat /\ clock \in Nat
    BY PeerConstants, ReadingNat, Zenon
  <2>3. 0 <= clock + PEER_DELAY_MAX
    BY <2>2
  <2>. QED
    BY <1>1, <1>3, <2>1, <2>2, <2>3, GuardsNothing, Zenon
<1>. QED
  BY <1>2, <1>3, Zenon

\* The invariant after a step that changes the record of peer p, after which
\* the peers have been granted G.
LEMMA PeersKept ==
    ASSUME CallerInv, PeersInv, CallerInv', Reading <= Reading', clock' = clock,
           NEW p \in Peer, NEW s, NEW b, NEW r \in PeerRecord, PeerChanged(p, s, b, r),
           NEW G \in [Peer -> Seq(Nat)],
           \A q \in Peer \ {p} : G[q] = peer_connected[q],
           peer_connected' = ForgetEvicted(G),
           r.auth_blocked_until <= clock + PEER_DELAY_MAX,
           Guards(G[p], r.connections, PEER_CONNECTION_LIMIT, CONNECTION_WINDOW, Reading')
    PROVE  PeersInv'
<1>1. PICK i \in PeerSlot :
        /\ PeerTable(peers') /\ peers'[i] = r /\ r.key = p
        /\ \A j \in PeerSlot \ {i} : peers'[j] = peers[j] /\ peers[j].key # p
  BY Zenon DEF PeerChanged
<1>2. DOMAIN peers' = PeerSlot
  BY <1>1 DEF PeerTable
<1>3. peer_connected' = [q \in Peer |-> IF \E j \in PeerSlot : peers'[j].key = q
                                        THEN G[q] ELSE <<>>]
  BY <1>2, Zenon DEF ForgetEvicted
<1>4. peer_connected' \in [Peer -> Seq(Nat)]
  BY <1>3
<1>5. \A q \in Peer : (\A j \in PeerSlot : peers'[j].key # q) => peer_connected'[q] = <<>>
  BY <1>3, Zenon
<1>6. ASSUME NEW j \in PeerSlot, peers'[j].key # None
      PROVE  Guards(peer_connected'[peers'[j].key], peers'[j].connections,
                    PEER_CONNECTION_LIMIT, CONNECTION_WINDOW, Reading')
  <2>. DEFINE q == peers'[j].key
  <2>1. q \in Peer
    BY <1>1, <1>6 DEF PeerTable, PeerRecord
  <2>2. peer_connected'[q] = G[q]
    BY <1>3, <2>1, Zenon
  <2>3. CASE j = i
    BY <1>1, <2>2, <2>3, Zenon
  <2>4. CASE j # i
    <3>1. peers'[j] = peers[j] /\ q # p /\ q = peers[j].key
      BY <1>1, <2>4, Zenon
    <3>2. Guards(peer_connected[q], peers[j].connections,
                 PEER_CONNECTION_LIMIT, CONNECTION_WINDOW, Reading)
      BY <1>6, <3>1, Zenon DEF PeersInv
    <3>3. G[q] = peer_connected[q]
      BY <2>1, <3>1, Zenon
    <3>4. PEER_CONNECTION_LIMIT \in Nat /\ CONNECTION_WINDOW \in Nat /\ Reading' \in Nat
      BY PeerConstants, ReadingNext, Zenon
    <3>5. Guards(peer_connected[q], peers[j].connections,
                 PEER_CONNECTION_LIMIT, CONNECTION_WINDOW, Reading')
      BY <3>2, <3>4, GuardsLater, Zenon
    <3>. QED
      BY <2>2, <3>1, <3>3, <3>5, Zenon
  <2>. QED
    BY <2>3, <2>4, Zenon
<1>7. \A j \in PeerSlot : peers'[j].auth_blocked_until <= clock + PEER_DELAY_MAX
  BY <1>1, Zenon DEF PeersInv
<1>. QED
  BY <1>1, <1>4, <1>5, <1>6, <1>7, Zenon DEF PeersInv

LEMMA PeersSame ==
    ASSUME CallerInv, PeersInv, CallerInv', Reading <= Reading', clock <= clock',
           UNCHANGED <<peers, peer_connected>>
    PROVE  PeersInv'
<1>1. /\ PEER_CONNECTION_LIMIT \in Nat /\ CONNECTION_WINDOW \in Nat /\ Reading' \in Nat
      /\ PEER_DELAY_MAX \in Nat /\ clock \in Nat /\ clock' \in Nat
  BY PeerConstants, ReadingNext, ReadingNat, Zenon DEF CallerInv
<1>2. ASSUME NEW i \in PeerSlot, peers[i].key # None
      PROVE  Guards(peer_connected[peers[i].key], peers[i].connections,
                    PEER_CONNECTION_LIMIT, CONNECTION_WINDOW, Reading')
  <2>1. Guards(peer_connected[peers[i].key], peers[i].connections,
               PEER_CONNECTION_LIMIT, CONNECTION_WINDOW, Reading)
    BY <1>2, Zenon DEF PeersInv
  <2>. QED
    BY <1>1, <2>1, GuardsLater, Zenon
<1>3. ASSUME NEW i \in PeerSlot
      PROVE  peers[i].auth_blocked_until <= clock' + PEER_DELAY_MAX
  <2>1. peers[i].auth_blocked_until <= clock + PEER_DELAY_MAX
        /\ peers[i].auth_blocked_until \in Nat
    BY DEF PeersInv, PeerTable, PeerRecord
  <2>. QED
    BY <1>1, <2>1
<1>. QED
  BY <1>2, <1>3, Zenon DEF PeersInv

\* A caller that asks for its peer.
LEMMA AsksPeer ==
    ASSUME CallerInv, NEW w \in DOMAIN caller, caller[w].pc # "idle"
    PROVE  /\ caller[w].peer \in Peer /\ caller[w].now \in Nat
           /\ caller[w].now <= clock /\ clock \in Nat
<1>1. caller[w] \in Asking /\ caller[w].now \in Nat /\ caller[w].now <= clock
  BY Asks
<1>. QED
  BY <1>1 DEF Asking, CallerInv

\* The steps of a login, and a question about a creation, grant no connection.
LEMMA LoginPeers ==
    ASSUME CallerInv, PeersInv, CallerInv', Reading <= Reading', NEW w \in DOMAIN caller,
           \/ allow_auth_attempt(w) \/ note_auth_failure(w) \/ note_auth_success(w)
           \/ allow_account_creation(w)
    PROVE  PeersInv'
<1>. DEFINE p == caller[w].peer
            t == caller[w].now
<1>1. caller[w].pc # "idle"
  BY Zenon DEF allow_auth_attempt, note_auth_failure, note_auth_success,
     allow_account_creation, At
<1>2. p \in Peer /\ t \in Nat /\ t <= clock /\ clock \in Nat /\ PeerTable(peers)
  BY <1>1, AsksPeer, Zenon DEF PeersInv
<1>3. clock' = clock /\ peer_connected' = ForgetEvicted(peer_connected)
  BY ZenonT(40) DEF allow_auth_attempt, note_auth_failure, note_auth_success,
     allow_account_creation
<1>4. PICK s \in Seq(Nat), b \in Nat, r \in PeerRecord :
         /\ PeerChanged(p, s, b, r) /\ r.connections = s
         /\ \/ r.auth_blocked_until <= b
            \/ r.auth_blocked_until <= t + PEER_DELAY_MAX
            \/ r.auth_blocked_until = b
  <2>1. CASE allow_auth_attempt(w) \/ note_auth_failure(w) \/ note_auth_success(w)
    BY <1>2, <2>1, LoginChanges, ZenonT(30)
  <2>2. CASE allow_account_creation(w)
    BY <1>2, <2>2, CreationChanges, ZenonT(30)
  <2>. QED
    BY <2>1, <2>2, Zenon
<1>5. /\ Guards(peer_connected[p], s, PEER_CONNECTION_LIMIT, CONNECTION_WINDOW, Reading)
      /\ b <= clock + PEER_DELAY_MAX
  BY <1>2, <1>4, OldPeer, Zenon
<1>6. Guards(peer_connected[p], r.connections,
             PEER_CONNECTION_LIMIT, CONNECTION_WINDOW, Reading')
  <2>1. PEER_CONNECTION_LIMIT \in Nat /\ CONNECTION_WINDOW \in Nat /\ Reading' \in Nat
    BY PeerConstants, ReadingNext, Zenon
  <2>. QED
    BY <1>4, <1>5, <2>1, GuardsLater, Zenon
<1>7. r.auth_blocked_until <= clock + PEER_DELAY_MAX
  <2>1. r.auth_blocked_until \in Nat /\ PEER_DELAY_MAX \in Nat
    BY PeerConstants DEF PeerRecord
  <2>. QED
    BY <1>2, <1>4, <1>5, <2>1
<1>8. peer_connected \in [Peer -> Seq(Nat)]
  BY Zenon DEF PeersInv
<1>. QED
  BY <1>2, <1>3, <1>4, <1>6, <1>7, <1>8, PeersKept, ZenonT(30)

\* A question about a connection: the windows are asked with the reading the
\* invariant is about, the global one after the peer's.
ConnectionInv ==
    Guards(connected, global_connections, GLOBAL_CONNECTION_LIMIT, CONNECTION_WINDOW, Reading)

LEMMA ConnectionPeers ==
    ASSUME CallerInv, PeersInv, ConnectionInv, CallerInv', Reading <= Reading',
           NEW w \in DOMAIN caller, allow_connection(w)
    PROVE  PeersInv' /\ ConnectionInv'
<1>. DEFINE p == caller[w].peer
            t == caller[w].now
            global == window_allow(global_connections, GLOBAL_CONNECTION_LIMIT,
                                   CONNECTION_WINDOW, t)
<1>1. caller[w].pc = "connect" /\ clock' = clock
  BY Zenon DEF allow_connection, At
<1>2. p \in Peer /\ t \in Nat /\ t <= clock /\ clock \in Nat
  BY <1>1, AsksPeer
<1>3. t = Reading
  <2>1. w = Main
    BY <1>1 DEF CallerInv
  <2>. QED
    BY <1>1, <2>1, Zenon DEF Reading
<1>4. PeerTable(peers) /\ peer_connected \in [Peer -> Seq(Nat)]
  BY Zenon DEF PeersInv
<1>5. PICK s \in Seq(Nat), b \in Nat, r \in PeerRecord :
         LET peer == window_allow(s, PEER_CONNECTION_LIMIT, CONNECTION_WINDOW, t)
             allowed == peer.allowed /\ global.allowed
         IN  /\ PeerChanged(p, s, b, r) /\ r.connections = peer.window
             /\ r.auth_blocked_until = b
             /\ global_connections' =
                   IF peer.allowed THEN global.window ELSE global_connections
             /\ connected' = IF allowed THEN Append(connected, t) ELSE connected
             /\ peer_connected' = ForgetEvicted(
                   IF allowed THEN [peer_connected EXCEPT ![p] = Append(@, t)]
                   ELSE peer_connected)
  BY <1>2, <1>4, ConnectionChanges, ZenonT(30)
<1>. DEFINE peer == window_allow(s, PEER_CONNECTION_LIMIT, CONNECTION_WINDOW, t)
            allowed == peer.allowed /\ global.allowed
            G == IF allowed THEN [peer_connected EXCEPT ![p] = Append(@, t)]
                 ELSE peer_connected
<1>6. /\ PEER_CONNECTION_LIMIT \in Nat /\ GLOBAL_CONNECTION_LIMIT \in Nat
      /\ CONNECTION_WINDOW \in Nat /\ Reading' \in Nat
  BY PeerConstants, ReadingNext, Zenon
<1>7. /\ Guards(peer_connected[p], s, PEER_CONNECTION_LIMIT, CONNECTION_WINDOW, t)
      /\ b <= clock + PEER_DELAY_MAX
  BY <1>2, <1>3, <1>5, OldPeer, Zenon
<1>8. /\ peer.allowed \in BOOLEAN
      /\ Guards(peer_connected[p], peer.window, PEER_CONNECTION_LIMIT, CONNECTION_WINDOW, t)
      /\ peer.allowed => Guards(Append(peer_connected[p], t), peer.window,
                                PEER_CONNECTION_LIMIT, CONNECTION_WINDOW, t)
  BY <1>6, <1>7, GuardsAsked, Zenon
<1>9. /\ global.allowed \in BOOLEAN
      /\ Guards(connected, global.window, GLOBAL_CONNECTION_LIMIT, CONNECTION_WINDOW, t)
      /\ global.allowed => Guards(Append(connected, t), global.window,
                                  GLOBAL_CONNECTION_LIMIT, CONNECTION_WINDOW, t)
      /\ Guards(connected, global_connections, GLOBAL_CONNECTION_LIMIT, CONNECTION_WINDOW, t)
  BY <1>3, <1>6, GuardsAsked, Zenon DEF ConnectionInv
<1>. HIDE DEF peer, global, t
<1>10. ConnectionInv'
  <2>1. Guards(connected', global_connections', GLOBAL_CONNECTION_LIMIT, CONNECTION_WINDOW, t)
    BY <1>5, <1>9, Zenon DEF peer
  <2>2. Guards(connected', global_connections', GLOBAL_CONNECTION_LIMIT, CONNECTION_WINDOW,
               Reading')
    BY <1>3, <1>6, <2>1, GuardsLater, Zenon
  <2>. QED
    BY <2>2, Zenon DEF ConnectionInv
<1>11. /\ G \in [Peer -> Seq(Nat)] /\ \A q \in Peer \ {p} : G[q] = peer_connected[q]
       /\ G[p] = IF allowed THEN Append(peer_connected[p], t) ELSE peer_connected[p]
  <2>1. Append(peer_connected[p], t) \in Seq(Nat)
    BY <1>2, <1>4
  <2>. QED
    BY <1>2, <1>4, <2>1, ZenonT(30)
<1>. HIDE DEF G
<1>12. Guards(G[p], r.connections, PEER_CONNECTION_LIMIT, CONNECTION_WINDOW, Reading')
  <2>1. Guards(G[p], peer.window, PEER_CONNECTION_LIMIT, CONNECTION_WINDOW, t)
    BY <1>8, <1>11, Zenon
  <2>2. Guards(G[p], peer.window, PEER_CONNECTION_LIMIT, CONNECTION_WINDOW, Reading')
    BY <1>3, <1>6, <2>1, GuardsLater, Zenon
  <2>. QED
    BY <1>5, <2>2, Zenon DEF peer
<1>13. peer_connected' = ForgetEvicted(G)
  BY <1>5, Zenon DEF G, peer
<1>14. r.auth_blocked_until <= clock + PEER_DELAY_MAX /\ PeerChanged(p, s, b, r)
  BY <1>5, <1>7, Zenon
<1>15. PeersInv'
  BY <1>1, <1>2, <1>11, <1>12, <1>13, <1>14, PeersKept, ZenonT(30)
<1>. QED
  BY <1>10, <1>15, Zenon

-----------------------------------------------------------------------------
(* The creations.  Their callers come with readings of any order, so the   *)
(* window guards what it has granted only while that is in order.          *)

CreationInv ==
    /\ created \in Seq(Nat) /\ global_creations \in Seq(Nat)
    /\ Len(global_creations) <= GLOBAL_CREATION_LIMIT
    /\ Sorted(created) => Guards(created, global_creations, GLOBAL_CREATION_LIMIT,
                                 CREATION_WINDOW, Newest(created))

LEMMA CreationAsked ==
    ASSUME CallerInv, CreationInv, NEW w \in DOMAIN caller, allow_account_creation(w)
    PROVE  CreationInv'
<1>. DEFINE t == caller[w].now
            global == window_allow(global_creations, GLOBAL_CREATION_LIMIT, CREATION_WINDOW, t)
            next == Append(created, t)
<1>1. caller[w].pc # "idle"
  BY Zenon DEF allow_account_creation, At
<1>2. t \in Nat
  BY <1>1, AsksPeer, Zenon
<1>3. \E granted :
         /\ global_creations' = IF granted THEN global.window ELSE global_creations
         /\ created' = IF granted /\ global.allowed THEN next ELSE created
  BY Zenon DEF allow_account_creation
<1>4. GLOBAL_CREATION_LIMIT \in Nat /\ CREATION_WINDOW \in Nat
  BY PeerConstants, Zenon
<1>5. /\ created \in Seq(Nat) /\ global_creations \in Seq(Nat)
      /\ Len(global_creations) <= GLOBAL_CREATION_LIMIT
      /\ Sorted(created) => Guards(created, global_creations, GLOBAL_CREATION_LIMIT,
                                   CREATION_WINDOW, Newest(created))
  BY Zenon DEF CreationInv
<1>6. /\ global.allowed \in BOOLEAN /\ next \in Seq(Nat)
      /\ ~global.allowed => global.window = global_creations
      /\ global.allowed =>
            /\ global.window \in Seq(Nat) /\ Len(global.window) <= GLOBAL_CREATION_LIMIT
            /\ Sorted(next) => Guards(next, global.window, GLOBAL_CREATION_LIMIT,
                                      CREATION_WINDOW, Newest(next))
  BY <1>2, <1>4, <1>5, GuardsCreation, ZenonT(30)
<1>. HIDE DEF global, next
<1>7. \/ global_creations' = global_creations /\ created' = created
      \/ global.allowed /\ global_creations' = global.window /\ created' = next
  BY <1>3, <1>6, Zenon
<1>8. CASE global_creations' = global_creations /\ created' = created
  BY <1>5, <1>8, Zenon DEF CreationInv
<1>9. CASE global.allowed /\ global_creations' = global.window /\ created' = next
  BY <1>6, <1>9, Zenon DEF CreationInv
<1>. QED
  BY <1>7, <1>8, <1>9, Zenon

-----------------------------------------------------------------------------
WindowInv == CallerInv /\ PeersInv /\ ConnectionInv /\ CreationInv

LEMMA InitWindows == Init => WindowInv
<1>. SUFFICES ASSUME Init PROVE WindowInv
  OBVIOUS
<1>1. CallerInv /\ clock = 1
  BY InitPolicy DEF PolicyInv, Init
<1>2. /\ peers = [i \in PeerSlot |-> NewPeer] /\ peer_connected = [p \in Peer |-> <<>>]
      /\ global_connections = <<>> /\ connected = <<>>
      /\ global_creations = <<>> /\ created = <<>>
  BY Zenon DEF Init, PeerSlot
<1>3. /\ PEER_CONNECTION_LIMIT \in Nat /\ GLOBAL_CONNECTION_LIMIT \in Nat
      /\ CONNECTION_WINDOW \in Nat /\ GLOBAL_CREATION_LIMIT \in Nat /\ CREATION_WINDOW \in Nat
      /\ PEER_DELAY_MAX \in Nat /\ Reading \in Nat
  BY <1>1, PeerConstants, ReadingNat, Zenon
<1>4. NewPeer \in PeerRecord /\ NewPeer.key = None /\ NewPeer.auth_blocked_until = 0
  BY DEF NewPeer, PeerRecord
<1>5. PeersInv
  <2>1. PeerTable(peers) /\ peer_connected \in [Peer -> Seq(Nat)]
    BY <1>2, <1>4 DEF PeerTable
  <2>2. \A i \in PeerSlot : peers[i].key = None /\ peers[i].auth_blocked_until = 0
    BY <1>2, <1>4
  <2>3. 0 <= clock + PEER_DELAY_MAX
    BY <1>1, <1>3
  <2>4. \A p \in Peer : peer_connected[p] = <<>>
    BY <1>2
  <2>. QED
    BY <2>1, <2>2, <2>3, <2>4, Zenon DEF PeersInv
<1>6. ConnectionInv
  BY <1>2, <1>3, GuardsNothing, Zenon DEF ConnectionInv
<1>7. CreationInv
  <2>1. Newest(<<>>) = 0 /\ 0 \in Nat /\ <<>> \in Seq(Nat) /\ Len(<<>>) <= GLOBAL_CREATION_LIMIT
    BY <1>3 DEF Newest
  <2>2. Guards(<<>>, <<>>, GLOBAL_CREATION_LIMIT, CREATION_WINDOW, 0)
    BY <1>3, <2>1, GuardsNothing, Zenon
  <2>. QED
    BY <1>2, <2>1, <2>2, Zenon DEF CreationInv
<1>. QED
  BY <1>1, <1>5, <1>6, <1>7, Zenon DEF WindowInv

LEMMA NextWindows ==
    ASSUME WindowInv, [Next]_vars
    PROVE  WindowInv'
<1>1. CallerInv /\ PeersInv /\ ConnectionInv /\ CreationInv
  BY Zenon DEF WindowInv
<1>2. CallerInv' /\ Reading <= Reading'
  BY <1>1, NextCallers, ReadingGrows, Zenon
<1>3. /\ GLOBAL_CONNECTION_LIMIT \in Nat /\ CONNECTION_WINDOW \in Nat /\ Reading' \in Nat
      /\ clock \in Nat /\ clock <= clock
  BY <1>1, <1>2, PeerConstants, ReadingNext DEF CallerInv
<1>4. ASSUME UNCHANGED <<connected, global_connections>>
      PROVE  ConnectionInv'
  <2>1. Guards(connected, global_connections, GLOBAL_CONNECTION_LIMIT, CONNECTION_WINDOW,
               Reading')
    BY <1>1, <1>2, <1>3, GuardsLater, Zenon DEF ConnectionInv
  <2>. QED
    BY <1>4, <2>1, Zenon DEF ConnectionInv
<1>5. ASSUME UNCHANGED <<created, global_creations>>
      PROVE  CreationInv'
  BY <1>1, <1>5, Zenon DEF CreationInv
<1>6. CASE /\ UNCHANGED <<policy_vars, history>> /\ clock <= clock'
  <2>1. /\ UNCHANGED <<peers, peer_connected>> /\ UNCHANGED <<connected, global_connections>>
        /\ UNCHANGED <<created, global_creations>> /\ clock <= clock'
    BY <1>6, Zenon DEF policy_vars, history
  <2>2. PeersInv'
    BY <1>1, <1>2, <2>1, PeersSame, Zenon
  <2>. QED
    BY <1>2, <1>4, <1>5, <2>1, <2>2, Zenon DEF WindowInv
<1>7. CASE UNCHANGED vars \/ tick
  <2>1. UNCHANGED <<policy_vars, history>> /\ clock' \in {clock, clock + 1}
    BY <1>7, Zenon DEF vars, tick
  <2>2. clock <= clock'
    BY <1>3, <2>1
  <2>. QED
    BY <1>6, <2>1, <2>2, Zenon
<1>8. ASSUME NEW w \in DOMAIN caller,
             \/ creation_failed(w)
             \/ \E pc \in mix, p \in Peer, a \in Account : read_clock(w, pc, p, a)
      PROVE  WindowInv'
  <2>1. UNCHANGED <<policy_vars, history>> /\ clock' = clock
    BY <1>8, Zenon DEF creation_failed, read_clock
  <2>. QED
    BY <1>3, <1>6, <2>1, Zenon
<1>9. ASSUME NEW w \in DOMAIN caller,
             allow_auth_attempt(w) \/ note_auth_failure(w) \/ note_auth_success(w)
      PROVE  WindowInv'
  <2>1. UNCHANGED <<connected, global_connections>> /\ UNCHANGED <<created, global_creations>>
    BY <1>9, ZenonT(30) DEF allow_auth_attempt, note_auth_failure, note_auth_success
  <2>2. PeersInv'
    BY <1>1, <1>2, <1>9, LoginPeers, Zenon
  <2>. QED
    BY <1>2, <1>4, <1>5, <2>1, <2>2, Zenon DEF WindowInv
<1>10. ASSUME NEW w \in DOMAIN caller, allow_account_creation(w)
       PROVE  WindowInv'
  <2>1. UNCHANGED <<connected, global_connections>>
    BY <1>10, Zenon DEF allow_account_creation
  <2>2. PeersInv' /\ CreationInv'
    BY <1>1, <1>2, <1>10, LoginPeers, CreationAsked, Zenon
  <2>. QED
    BY <1>2, <1>4, <2>1, <2>2, Zenon DEF WindowInv
<1>11. ASSUME NEW w \in DOMAIN caller, allow_connection(w)
       PROVE  WindowInv'
  <2>1. UNCHANGED <<created, global_creations>>
    BY <1>11, Zenon DEF allow_connection
  <2>2. PeersInv' /\ ConnectionInv'
    BY <1>1, <1>2, <1>11, ConnectionPeers, Zenon
  <2>. QED
    BY <1>2, <1>5, <2>1, <2>2, Zenon DEF WindowInv
<1>. QED
  BY <1>7, <1>8, <1>9, <1>10, <1>11, ZenonT(30) DEF Next

LEMMA WindowsAlways == Spec => []WindowInv
<1>1. WindowInv /\ [Next]_vars => WindowInv'
  BY NextWindows
<1>. QED
  BY <1>1, InitWindows, PTL DEF Spec

\* WindowsHold: for any limits, widths and table sizes, any number of workers
\* and any number of events, the rolling windows of the connections keep their
\* limits, and so does that of the creations while its grants are in order.
THEOREM WindowsHoldAlways == Spec => []WindowsHold
<1>1. ASSUME WindowInv PROVE WindowsHold
  <2>1. /\ PEER_CONNECTION_LIMIT \in Nat /\ GLOBAL_CONNECTION_LIMIT \in Nat
        /\ CONNECTION_WINDOW \in Nat /\ GLOBAL_CREATION_LIMIT \in Nat /\ CREATION_WINDOW \in Nat
    BY PeerConstants, Zenon
  <2>2. Within(connected, GLOBAL_CONNECTION_LIMIT, CONNECTION_WINDOW)
    BY <1>1, <2>1, GuardsWithin, Zenon DEF WindowInv, ConnectionInv
  <2>3. ASSUME NEW p \in Peer
        PROVE  Within(peer_connected[p], PEER_CONNECTION_LIMIT, CONNECTION_WINDOW)
    <3>1. CASE \E i \in PeerSlot : peers[i].key = p
      <4>1. PICK i \in PeerSlot : peers[i].key = p
        BY <3>1, Zenon
      <4>2. p # None
        BY PeerConstants, Zenon
      <4>3. Guards(peer_connected[p], peers[i].connections,
                   PEER_CONNECTION_LIMIT, CONNECTION_WINDOW, Reading)
        BY <1>1, <4>1, <4>2, Zenon DEF WindowInv, PeersInv
      <4>. QED
        BY <2>1, <4>3, GuardsWithin, Zenon
    <3>2. CASE ~ \E i \in PeerSlot : peers[i].key = p
      <4>1. peer_connected[p] = <<>> /\ 0 \in Nat
        BY <1>1, <3>2 DEF WindowInv, PeersInv
      <4>2. Guards(<<>>, <<>>, PEER_CONNECTION_LIMIT, CONNECTION_WINDOW, 0)
        BY <2>1, <4>1, GuardsNothing, Zenon
      <4>3. Within(<<>>, PEER_CONNECTION_LIMIT, CONNECTION_WINDOW)
        BY <2>1, <4>2, GuardsWithin, Zenon
      <4>. QED
        BY <4>1, <4>3, Zenon
    <3>. QED
      BY <3>1, <3>2, Zenon
  <2>4. ASSUME \A i, j \in DOMAIN created : i <= j => created[i] <= created[j]
        PROVE  CreationWindow
    <3>1. created \in Seq(Nat)
      BY <1>1, Zenon DEF WindowInv, CreationInv
    <3>2. DOMAIN created = 1 .. Len(created)
      BY <3>1
    <3>3. Sorted(created)
      BY <2>4, <3>2, Zenon DEF Sorted
    <3>4. Guards(created, global_creations, GLOBAL_CREATION_LIMIT, CREATION_WINDOW,
                 Newest(created))
      BY <1>1, <3>3, Zenon DEF WindowInv, CreationInv
    <3>. QED
      BY <2>1, <3>4, GuardsWithin, Zenon DEF CreationWindow
  <2>. QED
    BY <2>2, <2>3, <2>4, Zenon DEF WindowsHold
<1>2. WindowInv => WindowsHold
  BY <1>1
<1>. QED
  BY <1>2, WindowsAlways, PTL

-----------------------------------------------------------------------------
(* The pauses of the accounts.                                             *)

AccountPauses ==
    \A i \in Slot : accounts[i].auth_blocked_until <= clock + ACCOUNT_AUTH_LOCK

LEMMA PausesKept ==
    ASSUME Keyed(accounts), AccountPauses, clock \in Nat, clock' = clock,
           NEW a \in Account, NEW f, NEW b \in Nat, NEW g, NEW c \in Nat, Changed(a, f, b, g, c),
           NEW t \in Nat, t <= clock, c = b \/ c = 0 \/ c = t + ACCOUNT_AUTH_LOCK
    PROVE  AccountPauses'
<1>1. PICK i \in Slot :
        /\ accounts'[i].auth_blocked_until = c
        /\ \A j \in Slot \ {i} : accounts'[j] = accounts[j]
        /\ b = 0 \/ accounts[i].auth_blocked_until = b
  BY Zenon DEF Changed
<1>2. b <= clock + ACCOUNT_AUTH_LOCK
  BY <1>1, PolicyConstants DEF AccountPauses
<1>3. c <= clock + ACCOUNT_AUTH_LOCK
  BY <1>2, PolicyConstants
<1>. QED
  BY <1>1, <1>3, Zenon DEF AccountPauses

LEMMA NextPauses ==
    ASSUME PolicyInv, AccountPauses, [Next]_vars
    PROVE  AccountPauses'
<1>1. CallerInv /\ LockInv /\ Keyed(accounts) /\ clock \in Nat
  BY Zenon DEF PolicyInv, LockInv, CallerInv
<1>2. CASE accounts' = accounts /\ clock' \in {clock, clock + 1}
  <2>1. ASSUME NEW i \in Slot
        PROVE  accounts[i].auth_blocked_until <= clock' + ACCOUNT_AUTH_LOCK
    <3>1. accounts[i].auth_blocked_until <= clock + ACCOUNT_AUTH_LOCK
          /\ accounts[i].auth_blocked_until \in Nat
      BY <1>1 DEF AccountPauses, Keyed, AccountRecord
    <3>. QED
      BY <1>1, <1>2, <3>1, PolicyConstants
  <2>. QED
    BY <1>2, <2>1, Zenon DEF AccountPauses
<1>3. CASE UNCHANGED vars \/ tick
  BY <1>2, <1>3, Zenon DEF vars, policy_vars, tick
<1>4. ASSUME NEW w \in DOMAIN caller,
             \/ allow_connection(w) \/ allow_account_creation(w) \/ creation_failed(w)
             \/ \E pc \in mix, p \in Peer, a \in Account : read_clock(w, pc, p, a)
      PROVE  AccountPauses'
  BY <1>2, <1>4, Zenon DEF allow_connection, allow_account_creation, creation_failed,
     read_clock, policy_vars
<1>5. ASSUME NEW w \in DOMAIN caller,
             allow_auth_attempt(w) \/ note_auth_failure(w) \/ note_auth_success(w)
      PROVE  AccountPauses'
  <2>. DEFINE a == caller[w].account
              t == caller[w].now
  <2>1. caller[w].pc # "idle" /\ clock' = clock
    BY <1>5, Zenon DEF allow_auth_attempt, note_auth_failure, note_auth_success, At
  <2>2. a \in Account /\ t \in Nat /\ t <= clock
    BY <1>1, <2>1, Asks
  <2>3. \E f, b, g, c \in Nat : /\ Changed(a, f, b, g, c)
                                /\ c = b \/ c = 0 \/ c = t + ACCOUNT_AUTH_LOCK
    <3>1. CASE allow_auth_attempt(w)
      BY <1>1, <2>2, <3>1, AttemptChanges, ZenonT(30)
    <3>2. CASE note_auth_failure(w)
      BY <1>1, <2>2, <3>2, FailureChanges, ZenonT(30)
    <3>3. CASE note_auth_success(w)
      <4>1. 0 \in Nat
        OBVIOUS
      <4>. QED
        BY <1>1, <2>2, <3>3, <4>1, SuccessChanges, ZenonT(30)
    <3>. QED
      BY <1>5, <3>1, <3>2, <3>3, Zenon
  <2>. QED
    BY <1>1, <2>1, <2>2, <2>3, PausesKept, ZenonT(30)
<1>. QED
  BY <1>3, <1>4, <1>5, ZenonT(30) DEF Next

\* PauseIsTemporary: for any delays, table sizes and number of workers, no
\* pause of an account or of a peer ever lies further ahead of the clock than
\* the longest one, whatever is tried in the meantime.
THEOREM PauseIsTemporaryHolds == Spec => []PauseIsTemporary
<1>1. Init => AccountPauses
  <2>. SUFFICES ASSUME Init PROVE AccountPauses
    OBVIOUS
  <2>1. accounts = [i \in Slot |-> NewAccount] /\ clock = 1
    BY Zenon DEF Init, Slot
  <2>2. \A i \in Slot : accounts[i].auth_blocked_until = 0
    BY <2>1 DEF NewAccount
  <2>3. 0 <= clock + ACCOUNT_AUTH_LOCK
    BY <2>1, PolicyConstants
  <2>. QED
    BY <2>2, <2>3, Zenon DEF AccountPauses
<1>2. PolicyInv /\ AccountPauses /\ [Next]_vars => AccountPauses'
  BY NextPauses
<1>3. ASSUME PolicyInv, AccountPauses, WindowInv PROVE PauseIsTemporary
  <2>1. DOMAIN accounts = Slot
    BY <1>3 DEF PolicyInv, LockInv, Keyed
  <2>2. DOMAIN peers = PeerSlot
    BY <1>3 DEF WindowInv, PeersInv, PeerTable
  <2>. QED
    BY <1>3, <2>1, <2>2, Zenon DEF AccountPauses, WindowInv, PeersInv,
       PauseIsTemporary
<1>4. PolicyInv /\ AccountPauses /\ WindowInv => PauseIsTemporary
  BY <1>3
<1>. QED
  BY <1>1, <1>2, <1>4, PolicyAlways, WindowsAlways, PTL DEF Spec
=============================================================================
