-------------------------- MODULE EventWindowProofs --------------------------
(***************************************************************************)
(* Proofs about the rolling windows of security_policy.c, for any callers, *)
(* sizes of the tables, limits, widths and numbers of events.              *)
(*                                                                         *)
(* The difficulty is that a window forgets what has expired, holds events  *)
(* that were never granted and is emptied when its record is evicted, so   *)
(* the window itself does not tell what has been granted.  The invariant   *)
(* (Guards) relates the two from their ends: the i-th last granted event   *)
(* either has expired or is no later than the i-th last event of the       *)
(* window.  A grant needs room in the window, so the granted event that    *)
(* lies as many places back as the limit has expired by then.              *)
(*                                                                         *)
(* The last part says what each call does to the records of the peers.     *)
(***************************************************************************)
EXTENDS SecurityPolicy, FiniteSetTheorems, WellFoundedInduction, TLAPS

LEMMA PolicyConstants ==
    /\ MAX_ACCOUNT_RECORDS \in Nat \ {0} /\ ACCOUNT_AUTH_FAILURE_LIMIT \in Nat \ {0}
    /\ ACCOUNT_AUTH_LOCK \in Nat \ {0} /\ MaxDelay \in Nat /\ None \notin Account
    /\ None \notin Int /\ IsFiniteSet(Worker) /\ Main \notin Worker
    /\ Mixes \subseteq SUBSET {"connect", "auth", "create"}
BY PolicyAssumption

\* An earlier event expires no later, and what has expired stays so.
LEMMA Sums ==
    ASSUME NEW x \in Nat, NEW y \in Nat, NEW w \in Nat, NEW t \in Nat, x <= y, y + w <= t
    PROVE  x + w <= t
BY SMTT(20)

LEMMA LaterSum ==
    ASSUME NEW x \in Nat, NEW w \in Nat, NEW t \in Nat, NEW u \in Nat, x + w <= t, t <= u
    PROVE  x + w <= u
BY SMTT(20)

-----------------------------------------------------------------------------
(* The slot of a key.                                                      *)

LEMMA Least ==
    ASSUME NEW S \in SUBSET Nat, S # {}
    PROVE  \E x \in S : \A y \in S : x <= y
<1>1. PICK x \in S : \A y \in S : ~(<<y, x>> \in OpToRel(<, Nat))
  BY NatLessThanWellFounded, WFMin, Zenon
<1>2. ASSUME NEW y \in S PROVE x <= y
  <2>1. ASSUME y < x PROVE FALSE
    <3>1. <<y, x>> \in Nat \X Nat /\ <<y, x>>[1] < <<y, x>>[2]
      BY <2>1
    <3>2. <<y, x>> \in OpToRel(<, Nat)
      BY <3>1 DEF OpToRel
    <3>. QED
      BY <1>1, <3>2, Zenon
  <2>. QED
    BY <2>1
<1>. QED
  BY <1>2

LEMMA FirstIn ==
    ASSUME NEW S \in SUBSET Nat, S # {}
    PROVE  First(S) \in S
BY Least, Zenon DEF First

\* The slot of a key in a table where a key has at most one record.
LEMMA SlotOf ==
    ASSUME NEW Slots \in SUBSET Nat, Slots # {}, NEW table, DOMAIN table = Slots,
           NEW a, a # None, \A j \in Slots : table[j].last_seen \in Nat,
           \A i, j \in Slots : table[i].key = table[j].key /\ table[i].key # None => i = j
    PROVE  /\ slot_for(table, a) \in Slots
           /\ \A j \in Slots : table[j].key = a => j = slot_for(table, a)
<1>1. DOMAIN table = Slots /\ Slots \subseteq Nat /\ Slots # {} /\ a # None
  BY Zenon
<1>2. CASE Find(table, a) # {}
  <2>1. Find(table, a) \in SUBSET Nat /\ Find(table, a) \subseteq Slots
    BY <1>1, Zenon DEF Find
  <2>2. slot_for(table, a) \in Find(table, a)
    BY <1>2, <2>1, FirstIn DEF slot_for
  <2>. QED
    BY <1>1, <2>1, <2>2 DEF Find
<1>3. CASE Find(table, a) = {}
  <2>1. \A j \in Slots : table[j].key # a
    BY <1>1, <1>3 DEF Find
  <2>2. CASE Find(table, None) # {}
    <3>1. Find(table, None) \in SUBSET Nat /\ Find(table, None) \subseteq Slots
      BY <1>1, Zenon DEF Find
    <3>. QED
      BY <1>3, <2>1, <2>2, <3>1, FirstIn DEF slot_for
  <2>3. CASE Find(table, None) = {}
    <3>. DEFINE seen == {table[j].last_seen : j \in Slots}
                oldest == {i \in DOMAIN table : \A j \in DOMAIN table :
                             table[i].last_seen <= table[j].last_seen}
    <3>1. \A j \in Slots : table[j].last_seen \in Nat
      BY Zenon
    <3>2. seen \in SUBSET Nat /\ seen # {}
      BY <1>1, <3>1, Zenon
    <3>3. PICK t \in seen : \A y \in seen : t <= y
      <4>. HIDE DEF seen
      <4>. QED
        BY <3>2, Least, SMTT(20)
    <3>4. PICK i \in Slots : t = table[i].last_seen
      OBVIOUS
    <3>5. i \in oldest
      BY <1>1, <3>3, <3>4, Zenon
    <3>6. oldest \in SUBSET Nat /\ oldest # {} /\ oldest \subseteq Slots
      BY <1>1, <3>5, Zenon
    <3>7. slot_for(table, a) = First(oldest)
      BY <1>3, <2>3 DEF slot_for
    <3>. HIDE DEF oldest
    <3>. QED
      BY <2>1, <3>6, <3>7, FirstIn, Zenon
  <2>. QED
    BY <2>2, <2>3, Zenon
<1>. QED
  BY <1>2, <1>3, Zenon

-----------------------------------------------------------------------------
(* The callers and their clock readings.                                   *)

Asking == [pc : {"connect", "auth", "create", "verify", "recheck", "created"},
           peer : Peer, account : Account, now : Nat]

CallerInv ==
    /\ clock \in Nat /\ mix \subseteq {"connect", "auth", "create"}
    /\ caller \in [Worker \cup {Main} -> Asking \cup {Idle}]
    /\ \A w \in Worker \cup {Main} : caller[w] # Idle =>
          caller[w].now <= clock /\ clock <= caller[w].now + MaxDelay
    /\ caller[Main].pc \in {"idle", "connect"}
    /\ \A w \in Worker : caller[w].pc # "connect"

LEMMA AskingPc ==
    /\ Idle.pc = "idle"
    /\ \A c \in Asking : c # Idle /\ c.pc # "idle"
<1>1. Idle.pc = "idle"
  BY DEF Idle
<1>2. \A c \in Asking : c.pc # "idle"
  BY DEF Asking
<1>. QED
  BY <1>1, <1>2

\* A caller that is not idle.
LEMMA Asks ==
    ASSUME CallerInv, NEW w \in DOMAIN caller, caller[w].pc # "idle"
    PROVE  /\ w \in Worker \cup {Main} /\ caller[w] \in Asking
           /\ caller[w].account \in Account /\ caller[w].now \in Nat
           /\ caller[w].now <= clock /\ clock <= caller[w].now + MaxDelay
           /\ caller[w].pc # "connect" => w \in Worker
<1>1. w \in Worker \cup {Main} /\ caller[w] \in Asking
  BY AskingPc DEF CallerInv
<1>2. caller[w].account \in Account /\ caller[w].now \in Nat
  BY <1>1 DEF Asking
<1>. QED
  BY <1>1, <1>2, AskingPc DEF CallerInv

LEMMA CallerMoves ==
    ASSUME CallerInv, NEW w \in DOMAIN caller, caller[w].pc # "idle",
           clock' = clock, mix' = mix,
           \/ Done(w)
           \/ /\ caller[w].pc # "connect"
              /\ Goto(w, "verify") \/ Goto(w, "recheck") \/ Goto(w, "created")
    PROVE  CallerInv' /\ \A v \in DOMAIN caller \ {w} : caller'[v] = caller[v]
<1>1. /\ w \in Worker \cup {Main} /\ caller[w] \in Asking
      /\ caller \in [Worker \cup {Main} -> Asking \cup {Idle}]
      /\ caller[w].pc # "connect" => w \in Worker
  BY Asks DEF CallerInv
<1>2. CASE Done(w)
  <2>1. /\ caller' \in [Worker \cup {Main} -> Asking \cup {Idle}] /\ caller'[w] = Idle
        /\ \A v \in (Worker \cup {Main}) \ {w} : caller'[v] = caller[v]
    BY <1>1, <1>2 DEF Done
  <2>. QED
    BY <1>1, <2>1, AskingPc DEF CallerInv
<1>3. ASSUME NEW p \in {"verify", "recheck", "created"}, caller[w].pc # "connect", Goto(w, p)
      PROVE  CallerInv' /\ \A v \in DOMAIN caller \ {w} : caller'[v] = caller[v]
  <2>1. /\ [caller[w] EXCEPT !.pc = p] \in Asking
        /\ [caller[w] EXCEPT !.pc = p].now = caller[w].now
    BY <1>1 DEF Asking
  <2>2. /\ caller'[w] = [caller[w] EXCEPT !.pc = p]
        /\ caller' \in [Worker \cup {Main} -> Asking \cup {Idle}]
        /\ \A v \in (Worker \cup {Main}) \ {w} : caller'[v] = caller[v]
    BY <1>1, <1>3, <2>1 DEF Goto
  <2>3. w # Main /\ caller[w] # Idle
    BY <1>1, <1>3, PolicyConstants, AskingPc
  <2>4. caller'[w].pc # "connect"
    <3>1. [caller[w] EXCEPT !.pc = p].pc = p
      BY <1>1 DEF Asking
    <3>. QED
      BY <2>2, <3>1
  <2>. QED
    BY <1>1, <2>1, <2>2, <2>3, <2>4, Zenon DEF CallerInv
<1>. QED
  BY <1>2, <1>3

LEMMA ReadsClock ==
    ASSUME CallerInv, NEW w \in DOMAIN caller, NEW pc \in mix, NEW p \in Peer, NEW a \in Account,
           read_clock(w, pc, p, a), mix' = mix
    PROVE  /\ CallerInv' /\ \A v \in DOMAIN caller \ {w} : caller'[v] = caller[v]
           /\ caller[w].pc = "idle" /\ caller'[w].pc \in {"connect", "auth", "create"}
<1>1. /\ w \in Worker \cup {Main} /\ pc \in {"connect", "auth", "create"}
      /\ caller \in [Worker \cup {Main} -> Asking \cup {Idle}] /\ clock \in Nat
      /\ clock' = clock /\ (pc = "connect" <=> w = Main) /\ caller[w].pc = "idle"
      /\ caller' = [caller EXCEPT ![w] =
                      [pc |-> pc, peer |-> p, account |-> a, now |-> clock]]
  BY DEF CallerInv, read_clock, At
<1>2. [pc |-> pc, peer |-> p, account |-> a, now |-> clock] \in Asking
  BY <1>1 DEF Asking
<1>3. /\ caller' \in [Worker \cup {Main} -> Asking \cup {Idle}]
      /\ caller'[w] = [pc |-> pc, peer |-> p, account |-> a, now |-> clock]
      /\ \A v \in (Worker \cup {Main}) \ {w} : caller'[v] = caller[v]
  BY <1>1, <1>2
<1>4. caller'[w].now = clock /\ caller'[w].pc = pc
  BY <1>3
<1>5. \A v \in Worker \cup {Main} : caller'[v] # Idle =>
         caller'[v].now <= clock' /\ clock' <= caller'[v].now + MaxDelay
  BY <1>1, <1>3, <1>4, PolicyConstants DEF CallerInv
<1>6. caller'[Main].pc \in {"idle", "connect"}
  BY <1>1, <1>3, <1>4 DEF CallerInv
<1>7. \A v \in Worker : caller'[v].pc # "connect"
  BY <1>1, <1>3, <1>4, PolicyConstants DEF CallerInv
<1>. QED
  BY <1>1, <1>3, <1>4, <1>5, <1>6, <1>7 DEF CallerInv

LEMMA Ticks ==
    ASSUME CallerInv, tick, mix' = mix
    PROVE  CallerInv'
<1>1. /\ clock' = clock + 1 /\ caller' = caller
      /\ \A w \in DOMAIN caller : caller[w].pc # "idle" => clock - caller[w].now < MaxDelay
  BY DEF tick, At
<1>2. ASSUME NEW w \in Worker \cup {Main}, caller[w] # Idle
      PROVE  caller[w].now <= clock' /\ clock' <= caller[w].now + MaxDelay
  <2>1. w \in DOMAIN caller /\ caller[w].pc # "idle" /\ caller[w].now \in Nat
    BY <1>2, AskingPc, SMTT(20) DEF CallerInv, Asking
  <2>. QED
    BY <1>1, <1>2, <2>1, PolicyConstants DEF CallerInv
<1>. QED
  BY <1>1, <1>2 DEF CallerInv

\* What one step does to the callers.
LEMMA NextCallers ==
    ASSUME CallerInv, [Next]_vars
    PROVE  CallerInv'
<1>1. CASE UNCHANGED vars
  BY <1>1 DEF vars, CallerInv
<1>2. CASE tick /\ UNCHANGED mix
  BY <1>2, Ticks
<1>3. ASSUME NEW w \in DOMAIN caller, mix' = mix,
             \/ allow_connection(w) \/ allow_auth_attempt(w) \/ note_auth_failure(w)
             \/ note_auth_success(w) \/ allow_account_creation(w) \/ creation_failed(w)
      PROVE  CallerInv'
  <2>1. caller[w].pc # "idle" /\ clock' = clock
    BY <1>3, ZenonT(40) DEF allow_connection, allow_auth_attempt, note_auth_failure,
       note_auth_success, allow_account_creation, creation_failed, At
  <2>2. \/ Done(w)
        \/ /\ caller[w].pc # "connect"
           /\ Goto(w, "verify") \/ Goto(w, "recheck") \/ Goto(w, "created")
    BY <1>3, Zenon DEF allow_connection, allow_auth_attempt, note_auth_failure,
       note_auth_success,
       allow_account_creation, creation_failed, At
  <2>. QED
    BY <1>3, <2>1, <2>2, CallerMoves, SMTT(30)
<1>4. ASSUME NEW w \in DOMAIN caller, mix' = mix, NEW pc \in mix, NEW p \in Peer, NEW a \in Account,
             read_clock(w, pc, p, a)
      PROVE  CallerInv'
  BY <1>4, ReadsClock, SMTT(20)
<1>. QED
  BY <1>1, <1>2, <1>3, <1>4 DEF Next

-----------------------------------------------------------------------------
\* What the loop of prune_window has kept after n of the events.
Pruned(f, W, now, width, n) ==
    IF n = 0 THEN <<>>
    ELSE IF current(W[n], now, width) THEN Append(f[n - 1], W[n]) ELSE f[n - 1]

\* The first n passes of the loop.
Runs(f, W, now, width, n) ==
    /\ f \in [0 .. n -> Seq(Nat)]
    /\ \A k \in 0 .. n : f[k] = Pruned(f, W, now, width, k)

LEMMA PrunedExists ==
    ASSUME NEW W \in Seq(Nat), NEW now, NEW width, NEW n \in 0 .. Len(W)
    PROVE  \E f : Runs(f, W, now, width, n)
<1>. DEFINE Bad == {m \in 0 .. Len(W) : ~ \E f : Runs(f, W, now, width, m)}
<1>. SUFFICES ASSUME Bad # {} PROVE FALSE
  OBVIOUS
<1>0. Len(W) \in Nat /\ \A k \in 1 .. Len(W) : W[k] \in Nat
  OBVIOUS
<1>1. PICK m \in Bad : \A k \in Bad : m <= k
  <2>1. Bad \in SUBSET Nat
    BY <1>0
  <2>. HIDE DEF Bad
  <2>. QED
    BY <2>1, Least
<1>2. CASE m = 0
  <2>. DEFINE f == [k \in 0 .. 0 |-> <<>>]
  <2>1. Runs(f, W, now, width, m)
    BY <1>2 DEF Pruned, Runs
  <2>. QED
    BY <1>1, <2>1
<1>3. CASE m # 0
  <2>0. m \in 0 .. Len(W)
    OBVIOUS
  <2>1. m - 1 \in 0 .. Len(W) /\ m \in 1 .. Len(W) /\ ~(m <= m - 1)
    BY <1>0, <1>3, <2>0
  <2>2. PICK f : Runs(f, W, now, width, m - 1)
    <3>1. m - 1 \notin Bad
      <4>. HIDE DEF Bad
      <4>. QED
        BY <1>1, <2>1, Zenon
    <3>. QED
      BY <2>1, <3>1, Zenon
  <2>. DEFINE last == Pruned(f, W, now, width, m)
              g == [k \in 0 .. m |-> IF k = m THEN last ELSE f[k]]
  <2>3. last \in Seq(Nat)
    <3>1. f[m - 1] \in Seq(Nat) /\ W[m] \in Nat
      BY <1>0, <2>1, <2>2 DEF Runs
    <3>. QED
      BY <1>3, <3>1 DEF Pruned
  <2>4. g \in [0 .. m -> Seq(Nat)]
    <3>. HIDE DEF last
    <3>. QED
      BY <2>1, <2>2, <2>3 DEF Runs
  <2>5. ASSUME NEW k \in 0 .. m PROVE g[k] = Pruned(g, W, now, width, k)
    <3>1. k # 0 => g[k - 1] = f[k - 1]
      BY <2>1
    <3>2. Pruned(g, W, now, width, k) = Pruned(f, W, now, width, k)
      BY <3>1 DEF Pruned
    <3>3. CASE k = m
      BY <3>2, <3>3
    <3>4. CASE k # m
      <4>1. k \in 0 .. m - 1 /\ g[k] = f[k]
        BY <2>1, <3>4
      <4>. QED
        BY <2>2, <3>2, <4>1 DEF Runs
    <3>. QED
      BY <3>3, <3>4
  <2>. HIDE DEF g
  <2>6. Runs(g, W, now, width, m)
    BY <2>4, <2>5 DEF Runs
  <2>. QED
    BY <2>6, Zenon
<1>. QED
  BY <1>2, <1>3

LEMMA PruneLoop ==
    ASSUME NEW W \in Seq(Nat), NEW now, NEW width
    PROVE  \E f : /\ \A k \in 0 .. Len(W) : f[k] = Pruned(f, W, now, width, k)
                  /\ prune_window(W, now, width) = f[Len(W)]
<1>1. Len(W) \in 0 .. Len(W)
  OBVIOUS
<1>2. PICK f : Runs(f, W, now, width, Len(W))
  BY <1>1, PrunedExists, Zenon
<1>. DEFINE F(g) == [k \in 0 .. Len(W) |->
                       IF k = 0 THEN <<>>
                       ELSE IF current(W[k], now, width)
                            THEN Append(g[k - 1], W[k]) ELSE g[k - 1]]
            f0 == CHOOSE g : g = F(g)
<1>3. f = F(f)
  BY <1>2 DEF Pruned, Runs
<1>4. f0 = F(f0)
  <2>. HIDE DEF F
  <2>. QED
    BY <1>3
<1>5. \A k \in 0 .. Len(W) : f0[k] = Pruned(f0, W, now, width, k)
  <2>. HIDE DEF f0
  <2>. QED
    BY <1>4, Zenon DEF Pruned
<1>6. prune_window(W, now, width) = f0[Len(W)]
  BY DEF prune_window
<1>. QED
  BY <1>5, <1>6, Zenon

\* prune_window keeps a sequence of events, all of them if as many.
LEMMA PruneAll ==
    ASSUME NEW W \in Seq(Nat), NEW now, NEW width, NEW kept,
           kept = prune_window(W, now, width)
    PROVE  /\ kept \in Seq(Nat) /\ Len(kept) <= Len(W)
           /\ Len(kept) = Len(W) => kept = W
<1>. DEFINE Whole(s, n) ==
               /\ s \in Seq(Nat) /\ Len(s) <= n
               /\ Len(s) = n => \A i \in 1 .. n : s[i] = W[i]
<1>1. PICK f : /\ \A k \in 0 .. Len(W) : f[k] = Pruned(f, W, now, width, k)
               /\ kept = f[Len(W)]
  BY PruneLoop, ZenonT(30)
<1>. DEFINE Bad == {n \in 0 .. Len(W) : ~Whole(f[n], n)}
<1>2. Len(W) \in Nat /\ \A k \in 1 .. Len(W) : W[k] \in Nat
  OBVIOUS
<1>3. ASSUME Bad # {} PROVE FALSE
  <2>1. PICK m \in Bad : \A k \in Bad : m <= k
    <3>1. Bad \in SUBSET Nat
      BY <1>2
    <3>. HIDE DEF Bad
    <3>. QED
      BY <1>3, <3>1, Least, ZenonT(30)
  <2>2. m \in 0 .. Len(W) /\ ~Whole(f[m], m)
    OBVIOUS
  <2>3. f[m] = Pruned(f, W, now, width, m)
    BY <1>1, <2>2, Zenon
  <2>4. m # 0
    BY <2>2, <2>3 DEF Pruned
  <2>5. m - 1 \in 0 .. Len(W) /\ m \in 1 .. Len(W) /\ ~(m <= m - 1)
    BY <1>2, <2>2, <2>4
  <2>6. Whole(f[m - 1], m - 1)
    <3>1. m - 1 \notin Bad
      <4>. HIDE DEF Bad
      <4>. QED
        BY <2>1, <2>5, Zenon
    <3>. HIDE DEF Whole
    <3>. QED
      BY <2>5, <3>1, Zenon
  <2>7. f[m] = Append(f[m - 1], W[m]) \/ f[m] = f[m - 1]
    BY <2>3, <2>4 DEF Pruned
  <2>. DEFINE g == f[m - 1]
  <2>8. g \in Seq(Nat) /\ Len(g) <= m - 1 /\ W[m] \in Nat /\ m \in Nat
    BY <1>2, <2>5, <2>6
  <2>9. Len(g) = m - 1 => \A i \in 1 .. m - 1 : g[i] = W[i]
    BY <2>6, Zenon
  <2>. HIDE DEF g
  <2>10. Whole(g, m)
    BY <2>8
  <2>11. Whole(Append(g, W[m]), m)
    BY <2>8, <2>9
  <2>. QED
    BY <2>2, <2>7, <2>10, <2>11, Zenon DEF g
<1>4. Whole(kept, Len(W))
  BY <1>1, <1>2, <1>3
<1>. QED
  BY <1>2, <1>4, SMTT(20)

Sorted(s) == \A i, j \in 1 .. Len(s) : i <= j => s[i] <= s[j]

\* What the loop has kept of the first n events: the last ones, which are
\* current, after ones that have expired.
Kept(s, W, n, now, width) ==
    /\ s \in Seq(Nat) /\ Len(s) <= n
    /\ \A i \in 1 .. Len(s) : s[i] = W[n - Len(s) + i]
    /\ \A i \in 1 .. n - Len(s) : W[i] + width <= now
    /\ \A i \in n - Len(s) + 1 .. n : W[i] + width > now

\* One pass of the loop keeps it so, when the events are in order.
LEMMA TailPass ==
    ASSUME NEW W \in Seq(Nat), NEW now \in Nat, NEW width \in Nat, Sorted(W),
           NEW m \in 1 .. Len(W), NEW g, Kept(g, W, m - 1, now, width)
    PROVE  /\ W[m] + width > now => Kept(Append(g, W[m]), W, m, now, width)
           /\ ~(W[m] + width > now) => Kept(g, W, m, now, width)
<1>1. /\ g \in Seq(Nat) /\ Len(g) <= m - 1 /\ W[m] \in Nat /\ m \in Nat
      /\ Len(g) \in Nat
      /\ \A i \in 1 .. Len(W) : W[i] \in Nat
      /\ \A i \in 1 .. Len(g) : g[i] = W[m - 1 - Len(g) + i]
      /\ \A i \in 1 .. m - 1 - Len(g) : W[i] + width <= now
      /\ \A i \in m - 1 - Len(g) + 1 .. m - 1 : W[i] + width > now
  BY DEF Kept
<1>2. CASE W[m] + width > now
  <2>. DEFINE a == Append(g, W[m])
  <2>1. Len(a) = Len(g) + 1 /\ a \in Seq(Nat)
    BY <1>1
  <2>2. \A i \in 1 .. Len(g) : a[i] = g[i]
    BY <1>1
  <2>3. a[Len(g) + 1] = W[m]
    BY <1>1
  <2>. HIDE DEF a
  <2>4. m - Len(a) = m - 1 - Len(g)
    BY <1>1, <2>1
  <2>5. \A i \in 1 .. Len(a) : a[i] = W[m - Len(a) + i]
    <3>. SUFFICES ASSUME NEW i \in 1 .. Len(a) PROVE a[i] = W[m - Len(a) + i]
      BY Zenon
    <3>1. CASE i \in 1 .. Len(g)
      BY <1>1, <2>2, <2>4, <3>1, Zenon
    <3>2. CASE i = Len(g) + 1
      <4>1. m - Len(a) + i = m
        BY <1>1, <2>1, <3>2
      <4>. QED
        BY <2>3, <3>2, <4>1, SMTT(20)
    <3>. QED
      BY <1>1, <2>1, <3>1, <3>2
  <2>6. \A i \in m - Len(a) + 1 .. m : W[i] + width > now
    <3>. SUFFICES ASSUME NEW i \in m - Len(a) + 1 .. m PROVE W[i] + width > now
      OBVIOUS
    <3>1. i = m \/ i \in m - 1 - Len(g) + 1 .. m - 1
      BY <1>1, <2>4
    <3>. QED
      BY <1>1, <1>2, <3>1, SMTT(20)
  <2>7. \A i \in 1 .. m - Len(a) : W[i] + width <= now
    BY <1>1, <2>4
  <2>8. Kept(a, W, m, now, width)
    BY <1>1, <2>1, <2>5, <2>6, <2>7, SMTT(20) DEF Kept
  <2>. QED
    BY <1>2, <2>8 DEF a
<1>3. CASE ~(W[m] + width > now)
  <2>1. \A i \in 1 .. m : W[i] <= W[m] /\ W[i] \in Nat
    BY <1>1, SMTT(20) DEF Sorted
  <2>2. \A i \in 1 .. m : W[i] + width <= now
    <3>. SUFFICES ASSUME NEW i \in 1 .. m PROVE W[i] + width <= now
      OBVIOUS
    <3>1. /\ W[i] \in Nat /\ W[m] \in Nat /\ W[i] <= W[m] /\ W[m] + width <= now
      BY <1>1, <1>3, <2>1, SMTT(20)
    <3>. QED
      BY <1>1, <3>1, Sums, Zenon
  <2>3. Len(g) = 0
    <3>1. SUFFICES ASSUME Len(g) # 0 PROVE FALSE
      OBVIOUS
    <3>2. m - 1 \in m - 1 - Len(g) + 1 .. m - 1 /\ m - 1 \in 1 .. m
      BY <1>1, <3>1
    <3>3. W[m - 1] + width > now /\ W[m - 1] + width <= now /\ W[m - 1] \in Nat
      BY <1>1, <2>1, <2>2, <3>2, Zenon
    <3>. QED
      BY <3>3
  <2>4. Kept(g, W, m, now, width)
    BY <1>1, <2>2, <2>3 DEF Kept
  <2>. QED
    BY <1>3, <2>4
<1>. QED
  BY <1>2, <1>3

\* Of events in order it keeps the last ones, and what it drops has expired.
LEMMA PruneTail ==
    ASSUME NEW W \in Seq(Nat), NEW now \in Nat, NEW width \in Nat, Sorted(W),
           \A i \in 1 .. Len(W) : W[i] <= now
    PROVE  Kept(prune_window(W, now, width), W, Len(W), now, width)
<1>. DEFINE kept == prune_window(W, now, width)
<1>1. PICK f : /\ \A k \in 0 .. Len(W) : f[k] = Pruned(f, W, now, width, k)
               /\ kept = f[Len(W)]
  <2>. HIDE DEF kept
  <2>1. kept = prune_window(W, now, width)
    BY DEF kept
  <2>. QED
    BY <2>1, PruneLoop, ZenonT(30)
<1>. HIDE DEF kept
<1>. DEFINE Bad == {n \in 0 .. Len(W) : ~Kept(f[n], W, n, now, width)}
<1>2. Len(W) \in Nat /\ \A k \in 1 .. Len(W) : W[k] \in Nat
  OBVIOUS
<1>3. ASSUME Bad # {} PROVE FALSE
  <2>1. PICK m \in Bad : \A k \in Bad : m <= k
    <3>1. Bad \in SUBSET Nat
      BY <1>2
    <3>. HIDE DEF Bad
    <3>. QED
      BY <1>3, <3>1, Least, Zenon
  <2>2. m \in 0 .. Len(W) /\ ~Kept(f[m], W, m, now, width)
    OBVIOUS
  <2>3. \A k \in 0 .. Len(W) : k \in Bad \/ Kept(f[k], W, k, now, width)
    OBVIOUS
  <2>. HIDE DEF Bad
  <2>4. f[m] = Pruned(f, W, now, width, m)
    BY <1>1, <2>2, Zenon
  <2>5. m # 0
    <3>1. Kept(<<>>, W, 0, now, width)
      BY DEF Kept
    <3>2. m = 0 => f[m] = <<>>
      BY <2>4 DEF Pruned
    <3>. QED
      BY <2>2, <3>1, <3>2, Zenon
  <2>6. m - 1 \in 0 .. Len(W) /\ m \in 1 .. Len(W) /\ ~(m <= m - 1)
    BY <1>2, <2>2, <2>5
  <2>7. Kept(f[m - 1], W, m - 1, now, width)
    BY <2>1, <2>3, <2>6, Zenon
  <2>8. IF W[m] + width > now THEN f[m] = Append(f[m - 1], W[m]) ELSE f[m] = f[m - 1]
    <3>1. W[m] \in Nat /\ W[m] <= now
      BY <1>2, <2>6
    <3>2. current(W[m], now, width) <=> W[m] + width > now
      BY <3>1 DEF current
    <3>. QED
      BY <2>4, <2>5, <3>2 DEF Pruned
  <2>. QED
    BY <2>2, <2>6, <2>7, <2>8, TailPass, ZenonT(30)
<1>4. Len(W) \in 0 .. Len(W)
  BY <1>2
<1>5. Kept(f[Len(W)], W, Len(W), now, width)
  BY <1>3, <1>4
<1>. QED
  BY <1>1, <1>5 DEF kept

-----------------------------------------------------------------------------
(* A window and the grants it has seen.  The times are in order, none is    *)
(* ahead of t, each grant is in the window, or an event no older stands in  *)
(* its place, or it has expired; and limit grants apart lies a width.       *)

Guards(T, W, limit, width, t) ==
    /\ T \in Seq(Nat) /\ W \in Seq(Nat) /\ t \in Nat
    /\ Sorted(T) /\ Sorted(W)
    /\ \A i \in 1 .. Len(T) : T[i] <= t
    /\ \A i \in 1 .. Len(W) : W[i] <= t
    /\ \A i \in 0 .. Len(T) - 1 :
          \/ i < Len(W) /\ T[Len(T) - i] <= W[Len(W) - i]
          \/ T[Len(T) - i] + width <= t
    /\ \A k \in limit + 1 .. Len(T) : T[k - limit] + width <= T[k]

LEMMA GuardsNothing ==
    ASSUME NEW limit \in Nat, NEW width \in Nat, NEW t \in Nat
    PROVE  Guards(<<>>, <<>>, limit, width, t)
BY DEF Guards, Sorted

LEMMA GuardsLater ==
    ASSUME NEW T, NEW W, NEW limit \in Nat, NEW width \in Nat, NEW t, NEW u \in Nat, t <= u,
           Guards(T, W, limit, width, t)
    PROVE  Guards(T, W, limit, width, u)
<1>1. /\ T \in Seq(Nat) /\ W \in Seq(Nat) /\ t \in Nat /\ Len(T) \in Nat /\ Len(W) \in Nat
      /\ \A i \in 1 .. Len(T) : T[i] \in Nat
      /\ \A i \in 1 .. Len(W) : W[i] \in Nat
  BY DEF Guards
<1>2. \A i \in 1 .. Len(T) : T[i] <= u
  BY <1>1 DEF Guards
<1>3. \A i \in 1 .. Len(W) : W[i] <= u
  BY <1>1 DEF Guards
<1>4. ASSUME NEW i \in 0 .. Len(T) - 1
      PROVE  \/ i < Len(W) /\ T[Len(T) - i] <= W[Len(W) - i]
             \/ T[Len(T) - i] + width <= u
  <2>1. \/ i < Len(W) /\ T[Len(T) - i] <= W[Len(W) - i]
        \/ T[Len(T) - i] + width <= t
    BY Zenon DEF Guards
  <2>2. Len(T) - i \in 1 .. Len(T)
    BY <1>1
  <2>3. T[Len(T) - i] \in Nat
    BY <1>1, <2>2
  <2>. QED
    BY <1>1, <2>1, <2>3, LaterSum, Zenon
<1>. QED
  BY <1>1, <1>2, <1>3, <1>4 DEF Guards

\* Pruning drops what has expired.
LEMMA GuardsPruned ==
    ASSUME NEW T, NEW W, NEW limit \in Nat, NEW width \in Nat, NEW t,
           Guards(T, W, limit, width, t)
    PROVE  Guards(T, prune_window(W, t, width), limit, width, t)
<1>. DEFINE K == prune_window(W, t, width)
<1>1. /\ T \in Seq(Nat) /\ W \in Seq(Nat) /\ t \in Nat /\ Len(T) \in Nat /\ Len(W) \in Nat
      /\ Sorted(W) /\ \A i \in 1 .. Len(W) : W[i] <= t
      /\ \A i \in 1 .. Len(W) : W[i] \in Nat
  BY DEF Guards
<1>2. Kept(K, W, Len(W), t, width)
  BY <1>1, PruneTail
<1>. HIDE DEF K
<1>3. /\ K \in Seq(Nat) /\ Len(K) \in Nat /\ Len(K) <= Len(W)
      /\ \A i \in 1 .. Len(K) : K[i] = W[Len(W) - Len(K) + i]
      /\ \A i \in 1 .. Len(W) - Len(K) : W[i] + width <= t
  BY <1>2 DEF Kept
<1>4. \A i \in 1 .. Len(K) : Len(W) - Len(K) + i \in 1 .. Len(W)
  BY <1>1, <1>3
<1>5. \A i \in 1 .. Len(K) : K[i] <= t
  BY <1>1, <1>3, <1>4, Zenon
<1>6. Sorted(K)
  <2>1. ASSUME NEW i \in 1 .. Len(K), NEW j \in 1 .. Len(K), i <= j
        PROVE  K[i] <= K[j]
    <3>1. Len(W) - Len(K) + i <= Len(W) - Len(K) + j
      BY <1>1, <1>3, <2>1
    <3>. QED
      BY <1>1, <1>3, <1>4, <3>1, Zenon DEF Sorted
  <2>. QED
    BY <2>1 DEF Sorted
<1>7. ASSUME NEW i \in 0 .. Len(T) - 1
      PROVE  \/ i < Len(K) /\ T[Len(T) - i] <= K[Len(K) - i]
             \/ T[Len(T) - i] + width <= t
  <2>1. \/ i < Len(W) /\ T[Len(T) - i] <= W[Len(W) - i]
        \/ T[Len(T) - i] + width <= t
    BY Zenon DEF Guards
  <2>2. Len(T) - i \in 1 .. Len(T)
    BY <1>1
  <2>3. T[Len(T) - i] \in Nat
    BY <1>1, <2>2, SMTT(20)
  <2>4. CASE i < Len(K)
    <3>1. Len(K) - i \in 1 .. Len(K) /\ Len(W) - Len(K) + (Len(K) - i) = Len(W) - i
      <4>1. i \in Nat /\ Len(K) \in Nat /\ Len(W) \in Nat
        BY <1>1, <1>3
      <4>. QED
        BY <2>4, <4>1
    <3>2. K[Len(K) - i] = W[Len(W) - i]
      BY <1>3, <3>1, Zenon
    <3>. QED
      BY <2>1, <2>4, <3>2
  <2>5. CASE ~(i < Len(K)) /\ i < Len(W)
    <3>1. Len(W) - i \in 1 .. Len(W) - Len(K) /\ Len(W) - i \in 1 .. Len(W)
      BY <1>1, <1>3, <2>5, SMTT(20)
    <3>2. W[Len(W) - i] + width <= t /\ W[Len(W) - i] \in Nat
      BY <1>1, <1>3, <3>1, ZenonT(30)
    <3>3. ASSUME T[Len(T) - i] <= W[Len(W) - i] PROVE T[Len(T) - i] + width <= t
      <4>1. t \in Nat
        BY <1>1
      <4>. QED
        BY <2>3, <3>2, <3>3, <4>1, SMTT(20)
    <3>. QED
      BY <2>1, <3>3
  <2>. QED
    BY <2>1, <2>4, <2>5
<1>8. Guards(T, K, limit, width, t)
  BY <1>1, <1>3, <1>5, <1>6, <1>7 DEF Guards
<1>. QED
  BY <1>8 DEF K

\* A sequence in order stays so when the latest time is appended.
LEMMA SortedAppend ==
    ASSUME NEW s \in Seq(Nat), NEW t \in Nat, Sorted(s), \A i \in 1 .. Len(s) : s[i] <= t
    PROVE  /\ Append(s, t) \in Seq(Nat) /\ Len(Append(s, t)) = Len(s) + 1 /\ Len(s) \in Nat
           /\ Sorted(Append(s, t)) /\ \A i \in 1 .. Len(s) + 1 : Append(s, t)[i] <= t
           /\ \A i \in 1 .. Len(s) : Append(s, t)[i] = s[i] /\ s[i] \in Nat
           /\ Append(s, t)[Len(s) + 1] = t
<1>. DEFINE a == Append(s, t)
<1>1. /\ a \in Seq(Nat) /\ Len(a) = Len(s) + 1 /\ Len(s) \in Nat
      /\ \A i \in 1 .. Len(s) : a[i] = s[i] /\ s[i] \in Nat
      /\ a[Len(s) + 1] = t
  OBVIOUS
<1>. HIDE DEF a
<1>2. ASSUME NEW i \in 1 .. Len(s) + 1 PROVE a[i] <= t
  <2>1. i = Len(s) + 1 \/ i \in 1 .. Len(s)
    BY <1>1
  <2>. QED
    BY <1>1, <2>1, SMTT(20)
<1>3. ASSUME NEW i \in 1 .. Len(a), NEW j \in 1 .. Len(a), i <= j PROVE a[i] <= a[j]
  <2>1. CASE j = Len(s) + 1
    BY <1>1, <1>2, <2>1
  <2>2. CASE j # Len(s) + 1
    <3>1. i \in 1 .. Len(s) /\ j \in 1 .. Len(s)
      BY <1>1, <1>3, <2>2, SMTT(20)
    <3>. QED
      BY <1>1, <1>3, <3>1 DEF Sorted
  <2>. QED
    BY <2>1, <2>2
<1>4. Sorted(a)
  BY <1>3 DEF Sorted
<1>. QED
  BY <1>1, <1>2, <1>4 DEF a

\* An event that is recorded but not granted.
LEMMA GuardsRecorded ==
    ASSUME NEW T, NEW W, NEW limit \in Nat, NEW width \in Nat, NEW t,
           Guards(T, W, limit, width, t)
    PROVE  Guards(T, Append(W, t), limit, width, t)
<1>. DEFINE A == Append(W, t)
<1>1. /\ T \in Seq(Nat) /\ W \in Seq(Nat) /\ t \in Nat /\ Len(T) \in Nat
      /\ Sorted(W) /\ \A i \in 1 .. Len(W) : W[i] <= t
      /\ \A i \in 1 .. Len(T) : T[i] <= t
      /\ \A i \in 1 .. Len(T) : T[i] \in Nat
  BY DEF Guards
<1>2. /\ A \in Seq(Nat) /\ Len(A) = Len(W) + 1 /\ Len(W) \in Nat
      /\ Sorted(A) /\ \A i \in 1 .. Len(W) + 1 : A[i] <= t
      /\ \A i \in 1 .. Len(W) : A[i] = W[i] /\ W[i] \in Nat
      /\ A[Len(W) + 1] = t
  BY <1>1, SortedAppend
<1>. HIDE DEF A
<1>3. ASSUME NEW i \in 0 .. Len(T) - 1
      PROVE  \/ i < Len(A) /\ T[Len(T) - i] <= A[Len(A) - i]
             \/ T[Len(T) - i] + width <= t
  <2>1. \/ i < Len(W) /\ T[Len(T) - i] <= W[Len(W) - i]
        \/ T[Len(T) - i] + width <= t
    BY Zenon DEF Guards
  <2>2. Len(T) - i \in 1 .. Len(T)
    BY <1>1
  <2>3. T[Len(T) - i] \in Nat /\ T[Len(T) - i] <= t
    BY <1>1, <2>2, ZenonT(30)
  <2>4. CASE i = 0
    <3>1. A[Len(A) - i] = t /\ i < Len(A)
      BY <1>2, <2>4
    <3>. QED
      BY <2>3, <3>1
  <2>5. CASE i # 0 /\ i < Len(W)
    <3>1. /\ Len(W) - i \in 1 .. Len(W) /\ Len(A) - i \in 1 .. Len(W)
          /\ Len(W) - i <= Len(A) - i /\ i < Len(A)
      BY <1>2, <2>5, SMTT(20)
    <3>2. /\ W[Len(W) - i] <= A[Len(A) - i] /\ W[Len(W) - i] \in Nat /\ A[Len(A) - i] \in Nat
      BY <1>1, <1>2, <3>1, Zenon DEF Sorted
    <3>3. ASSUME T[Len(T) - i] <= W[Len(W) - i] PROVE T[Len(T) - i] <= A[Len(A) - i]
      BY <2>3, <3>2, <3>3
    <3>. QED
      BY <2>1, <3>1, <3>3
  <2>. QED
    BY <2>1, <2>4, <2>5
<1>4. Guards(T, A, limit, width, t)
  BY <1>1, <1>2, <1>3 DEF Guards
<1>. QED
  BY <1>4 DEF A

\* An event that is granted, because the window is not full.
LEMMA GuardsGranted ==
    ASSUME NEW T, NEW W, NEW limit \in Nat, NEW width \in Nat, NEW t,
           Guards(T, W, limit, width, t), Len(W) < limit
    PROVE  Guards(Append(T, t), Append(W, t), limit, width, t)
<1>. DEFINE A == Append(W, t)
            S == Append(T, t)
<1>1. /\ T \in Seq(Nat) /\ W \in Seq(Nat) /\ t \in Nat
      /\ Sorted(W) /\ \A i \in 1 .. Len(W) : W[i] <= t
      /\ Sorted(T) /\ \A i \in 1 .. Len(T) : T[i] <= t
  BY DEF Guards
<1>2. /\ A \in Seq(Nat) /\ Len(A) = Len(W) + 1 /\ Len(W) \in Nat
      /\ Sorted(A) /\ \A i \in 1 .. Len(W) + 1 : A[i] <= t
      /\ \A i \in 1 .. Len(W) : A[i] = W[i] /\ W[i] \in Nat
      /\ A[Len(W) + 1] = t
  BY <1>1, SortedAppend
<1>3. /\ S \in Seq(Nat) /\ Len(S) = Len(T) + 1 /\ Len(T) \in Nat
      /\ Sorted(S) /\ \A i \in 1 .. Len(T) + 1 : S[i] <= t
      /\ \A i \in 1 .. Len(T) : S[i] = T[i] /\ T[i] \in Nat
      /\ S[Len(T) + 1] = t
  BY <1>1, SortedAppend
<1>. HIDE DEF A, S
<1>4. ASSUME NEW i \in 0 .. Len(S) - 1
      PROVE  \/ i < Len(A) /\ S[Len(S) - i] <= A[Len(A) - i]
             \/ S[Len(S) - i] + width <= t
  <2>1. CASE i = 0
    <3>1. S[Len(S) - i] = t /\ A[Len(A) - i] = t /\ i < Len(A)
      BY <1>2, <1>3, <2>1
    <3>. QED
      BY <1>1, <3>1
  <2>2. CASE i # 0
    <3>0. Len(S) = Len(T) + 1 /\ Len(A) = Len(W) + 1 /\ Len(T) \in Nat /\ Len(W) \in Nat
      BY <1>2, <1>3, Zenon
    <3>1. /\ i - 1 \in 0 .. Len(T) - 1 /\ Len(S) - i = Len(T) - (i - 1)
          /\ Len(A) - i = Len(W) - (i - 1) /\ Len(T) - (i - 1) \in 1 .. Len(T)
          /\ (i - 1 < Len(W) <=> i < Len(A))
          /\ i - 1 < Len(W) => Len(W) - (i - 1) \in 1 .. Len(W)
      BY <2>2, <3>0, SMTT(20)
    <3>2. \/ i - 1 < Len(W) /\ T[Len(T) - (i - 1)] <= W[Len(W) - (i - 1)]
          \/ T[Len(T) - (i - 1)] + width <= t
      BY <3>1 DEF Guards
    <3>. QED
      BY <1>2, <1>3, <3>1, <3>2, Zenon
  <2>. QED
    BY <2>1, <2>2
<1>5. ASSUME NEW k \in limit + 1 .. Len(S) PROVE S[k - limit] + width <= S[k]
  <2>1. CASE k = Len(S)
    <3>1. /\ limit - 1 \in 0 .. Len(T) - 1 /\ ~(limit - 1 < Len(W))
          /\ k - limit = Len(T) - (limit - 1) /\ k - limit \in 1 .. Len(T)
      BY <1>2, <1>3, <2>1
    <3>2. T[Len(T) - (limit - 1)] + width <= t
      BY <3>1 DEF Guards
    <3>. QED
      BY <1>3, <2>1, <3>1, <3>2, Zenon
  <2>2. CASE k # Len(S)
    <3>1. k \in limit + 1 .. Len(T) /\ k \in 1 .. Len(T) /\ k - limit \in 1 .. Len(T)
      BY <1>3, <2>2, SMTT(30)
    <3>2. T[k - limit] + width <= T[k]
      BY <3>1 DEF Guards
    <3>. QED
      BY <1>3, <3>1, <3>2, Zenon
  <2>. QED
    BY <2>1, <2>2
<1>6. Guards(S, A, limit, width, t)
  BY <1>1, <1>2, <1>3, <1>4, <1>5, ZenonT(30) DEF Guards
<1>. QED
  BY <1>6 DEF A, S

\* What window_allow answers, and the window it leaves.
LEMMA GuardsAsked ==
    ASSUME NEW T, NEW W, NEW limit \in Nat, NEW width \in Nat, NEW t,
           Guards(T, W, limit, width, t)
    PROVE  LET asked == window_allow(W, limit, width, t) IN
           /\ asked.allowed \in BOOLEAN /\ Guards(T, asked.window, limit, width, t)
           /\ asked.allowed => Guards(Append(T, t), asked.window, limit, width, t)
<1>. DEFINE K == prune_window(W, t, width)
<1>1. Guards(T, K, limit, width, t)
  BY GuardsPruned
<1>2. window_allow(W, limit, width, t) =
         IF Len(K) >= limit THEN [allowed |-> FALSE, window |-> K]
         ELSE [allowed |-> TRUE, window |-> Append(K, t)]
  BY DEF window_allow, window_full
<1>. HIDE DEF K
<1>3. Len(K) \in Nat
  BY <1>1 DEF Guards
<1>4. Guards(T, Append(K, t), limit, width, t)
  BY <1>1, GuardsRecorded
<1>5. CASE Len(K) >= limit
  BY <1>1, <1>2, <1>5
<1>6. CASE ~(Len(K) >= limit)
  <2>1. Len(K) < limit
    BY <1>3, <1>6
  <2>2. Guards(Append(T, t), Append(K, t), limit, width, t)
    BY <1>1, <2>1, GuardsGranted
  <2>. QED
    BY <1>2, <1>4, <1>6, <2>2
<1>. QED
  BY <1>5, <1>6

\* A guarded window keeps its limit.
LEMMA GuardsWithin ==
    ASSUME NEW T, NEW W, NEW limit \in Nat, NEW width \in Nat, NEW t,
           Guards(T, W, limit, width, t)
    PROVE  Within(T, limit, width)
<1>1. /\ T \in Seq(Nat) /\ Len(T) \in Nat /\ Sorted(T) /\ DOMAIN T = 1 .. Len(T)
      /\ \A i \in 1 .. Len(T) : T[i] \in Nat
      /\ \A k \in limit + 1 .. Len(T) : T[k - limit] + width <= T[k]
  BY DEF Guards
<1>2. ASSUME NEW u \in Nat
      PROVE  Cardinality({i \in DOMAIN T : T[i] >= u /\ T[i] < u + width}) <= limit
  <2>. DEFINE S == {i \in DOMAIN T : T[i] >= u /\ T[i] < u + width}
  <2>1. CASE S = {}
    BY <2>1, FS_EmptySet
  <2>2. CASE S # {}
    <3>1. S \in SUBSET Nat
      BY <1>1
    <3>2. PICK m \in S : \A k \in S : m <= k
      <4>. HIDE DEF S
      <4>. QED
        BY <2>2, <3>1, Least
    <3>3. m \in 1 .. Len(T) /\ T[m] >= u
      BY <1>1
    <3>4. ASSUME NEW k \in S PROVE k \in m .. m + limit - 1
      <4>1. k \in 1 .. Len(T) /\ T[k] < u + width
        BY <1>1
      <4>2. m <= k
        BY <3>2, <3>4
      <4>. HIDE DEF S
      <4>3. SUFFICES ASSUME ~(k < m + limit) PROVE FALSE
        BY <3>3, <4>1, <4>2
      <4>4. k \in limit + 1 .. Len(T) /\ k - limit \in 1 .. Len(T) /\ m <= k - limit
        BY <3>3, <4>1, <4>3
      <4>5. T[k - limit] + width <= T[k] /\ T[m] <= T[k - limit]
        BY <1>1, <3>3, <4>4 DEF Sorted
      <4>6. T[m] \in Nat /\ T[k] \in Nat /\ T[k - limit] \in Nat
        BY <1>1, <3>3, <4>1, <4>4, ZenonT(30)
      <4>7. T[m] + width <= T[k]
        BY <4>5, <4>6, Sums, Zenon
      <4>. QED
        BY <3>3, <4>1, <4>6, <4>7
    <3>5. S \subseteq m .. m + limit - 1
      BY <3>4
    <3>6. /\ IsFiniteSet(m .. m + limit - 1) /\ Cardinality(m .. m + limit - 1) = limit
      <4>1. m \in Int /\ m + limit - 1 \in Int
        BY <3>3
      <4>2. /\ IsFiniteSet(m .. m + limit - 1)
            /\ Cardinality(m .. m + limit - 1) =
                  IF m > m + limit - 1 THEN 0 ELSE (m + limit - 1) - m + 1
        BY <4>1, FS_Interval, Zenon
      <4>. QED
        BY <3>3, <4>2
    <3>. HIDE DEF S
    <3>7. Cardinality(S) <= Cardinality(m .. m + limit - 1)
      BY <3>5, <3>6, FS_Subset, Zenon
    <3>. QED
      BY <3>6, <3>7 DEF S
  <2>. QED
    BY <2>1, <2>2
<1>3. Time \subseteq Nat
  BY PolicyAssumption DEF Time
<1>. QED
  BY <1>2, <1>3 DEF Within

\* The time of the latest event.
Newest(s) == IF s = <<>> THEN 0 ELSE s[Len(s)]

\* A window whose callers come with older clock readings too.  As long as it
\* holds no more than the limit, a refusal leaves it as it is, and a grant
\* that keeps the times in order guards it again.
LEMMA GuardsCreation ==
    ASSUME NEW T \in Seq(Nat), NEW W \in Seq(Nat), NEW limit \in Nat, NEW width \in Nat,
           NEW t \in Nat, Len(W) <= limit,
           Sorted(T) => Guards(T, W, limit, width, Newest(T))
    PROVE  LET asked == window_allow(W, limit, width, t)
               next == Append(T, t)
           IN  /\ asked.allowed \in BOOLEAN /\ next \in Seq(Nat)
               /\ ~asked.allowed => asked.window = W
               /\ asked.allowed =>
                     /\ asked.window \in Seq(Nat) /\ Len(asked.window) <= limit
                     /\ Sorted(next) => Guards(next, asked.window, limit, width, Newest(next))
<1>. DEFINE K == prune_window(W, t, width)
            next == Append(T, t)
<1>1. K \in Seq(Nat) /\ Len(K) <= Len(W) /\ (Len(K) = Len(W) => K = W)
  BY PruneAll, Zenon
<1>2. window_allow(W, limit, width, t) =
         IF Len(K) >= limit THEN [allowed |-> FALSE, window |-> K]
         ELSE [allowed |-> TRUE, window |-> Append(K, t)]
  BY DEF window_allow, window_full
<1>. HIDE DEF K
<1>3. next \in Seq(Nat)
  OBVIOUS
<1>4. CASE Len(K) >= limit
  <2>1. Len(K) = Len(W)
    BY <1>1, <1>4
  <2>. QED
    BY <1>1, <1>2, <1>3, <1>4, <2>1
<1>5. CASE ~(Len(K) >= limit)
  <2>1. Append(K, t) \in Seq(Nat) /\ Len(Append(K, t)) <= limit
    BY <1>1, <1>5
  <2>2. ASSUME Sorted(next)
        PROVE  Guards(next, Append(K, t), limit, width, Newest(next))
    <3>1. /\ Len(T) \in Nat /\ Len(next) = Len(T) + 1 /\ next[Len(T) + 1] = t /\ next # <<>>
          /\ \A i \in 1 .. Len(T) : next[i] = T[i]
      OBVIOUS
    <3>2. Newest(next) = t
      BY <3>1, Zenon DEF Newest
    <3>. HIDE DEF next
    <3>3. Sorted(T)
      BY <2>2, <3>1 DEF Sorted
    <3>4. Newest(T) <= t
      <4>1. CASE T = <<>>
        BY <4>1 DEF Newest
      <4>2. CASE T # <<>>
        <5>1. Len(T) \in 1 .. Len(T) /\ Len(T) \in 1 .. Len(T) + 1 /\ Len(T) <= Len(T) + 1
              /\ Len(T) + 1 \in 1 .. Len(T) + 1
          BY <3>1, <4>2
        <5>2. next[Len(T)] <= next[Len(T) + 1]
          BY <2>2, <3>1, <5>1, Zenon DEF Sorted
        <5>. QED
          BY <3>1, <4>2, <5>1, <5>2, Zenon DEF Newest
      <4>. QED
        BY <4>1, <4>2
    <3>5. Guards(T, W, limit, width, Newest(T))
      BY <3>3
    <3>6. Guards(T, W, limit, width, t)
      BY <3>4, <3>5, GuardsLater, Zenon
    <3>7. Guards(Append(T, t), Append(K, t), limit, width, t)
      <4>1. window_allow(W, limit, width, t) = [allowed |-> TRUE, window |-> Append(K, t)]
        BY <1>2, <1>5, Zenon
      <4>2. /\ window_allow(W, limit, width, t).allowed
            /\ window_allow(W, limit, width, t).window = Append(K, t)
        BY <4>1
      <4>. QED
        BY <3>6, <4>2, GuardsAsked, Zenon
    <3>. QED
      BY <3>2, <3>7 DEF next
  <2>. QED
    BY <1>2, <1>3, <1>5, <2>1, <2>2
<1>. QED
  BY <1>4, <1>5, Zenon

-----------------------------------------------------------------------------
(* The records of the peers.                                               *)

PeerSlot == 1 .. MAX_PEER_RECORDS

PeerRecord == [key : Peer \cup {None}, last_seen : Nat, connections : Seq(Nat),
               creations : Seq(Nat), auth_failures : Nat, auth_blocked_until : Nat]

\* A peer has at most one record.
PeerTable(table) ==
    /\ table \in [PeerSlot -> PeerRecord]
    /\ \A i, j \in PeerSlot : table[i].key = table[j].key /\ table[i].key # None => i = j

LEMMA PeerConstants ==
    /\ PeerSlot \in SUBSET Nat /\ PeerSlot # {} /\ None \notin Peer
    /\ PEER_CONNECTION_LIMIT \in Nat /\ GLOBAL_CONNECTION_LIMIT \in Nat
    /\ CONNECTION_WINDOW \in Nat /\ PEER_CREATION_LIMIT \in Nat
    /\ GLOBAL_CREATION_LIMIT \in Nat /\ CREATION_WINDOW \in Nat
    /\ PEER_DELAY \in Nat /\ PEER_DELAY_MAX \in Nat
BY PolicyAssumption DEF PeerSlot

LEMMA PeerSlotFor ==
    ASSUME NEW table, PeerTable(table), NEW p \in Peer
    PROVE  /\ slot_for(table, p) \in PeerSlot
           /\ \A j \in PeerSlot : table[j].key = p => j = slot_for(table, p)
<1>1. PeerSlot \in SUBSET Nat /\ PeerSlot # {} /\ p # None
  BY PeerConstants, Zenon
<1>2. /\ DOMAIN table = PeerSlot
      /\ \A j \in PeerSlot : table[j].last_seen \in Nat
  BY DEF PeerTable, PeerRecord
<1>3. \A i, j \in PeerSlot : table[i].key = table[j].key /\ table[i].key # None => i = j
  BY Zenon DEF PeerTable
<1>. QED
  BY <1>1, <1>2, <1>3, SlotOf, Zenon

LEMMA PeerRecordFor ==
    ASSUME PeerTable(peers), NEW p \in Peer, NEW t \in Nat,
           NEW T, T = peer_record_for(p, t), NEW i, i = slot_for(peers, p)
    PROVE  /\ i \in PeerSlot /\ T \in [PeerSlot -> PeerRecord] /\ T[i].key = p
           /\ slot_for(T, p) = i
           /\ \A j \in PeerSlot \ {i} : T[j] = peers[j] /\ peers[j].key # p
           /\ peers[i].key = p =>
                 /\ T[i].connections = peers[i].connections
                 /\ T[i].auth_blocked_until = peers[i].auth_blocked_until
           /\ peers[i].key # p => T[i].connections = <<>> /\ T[i].auth_blocked_until = 0
<1>1. i \in PeerSlot /\ \A j \in PeerSlot : peers[j].key = p => j = i
  BY PeerSlotFor
<1>. DEFINE kept == IF peers[i].key = p THEN peers[i] ELSE [NewPeer EXCEPT !.key = p]
            r == [kept EXCEPT !.last_seen = t]
<1>2. /\ kept \in PeerRecord /\ kept.key = p
      /\ peers[i].key = p => kept = peers[i]
      /\ peers[i].key # p => kept.connections = <<>> /\ kept.auth_blocked_until = 0
  <2>1. [NewPeer EXCEPT !.key = p] =
           [key |-> p, last_seen |-> 0, connections |-> <<>>, creations |-> <<>>,
            auth_failures |-> 0, auth_blocked_until |-> 0]
    BY DEF NewPeer
  <2>2. [key |-> p, last_seen |-> 0, connections |-> <<>>, creations |-> <<>>,
         auth_failures |-> 0, auth_blocked_until |-> 0] \in PeerRecord
    BY DEF PeerRecord
  <2>. QED
    BY <1>1, <2>1, <2>2 DEF PeerTable
<1>3. T = [peers EXCEPT ![i] = r]
  BY DEF peer_record_for, record_for
<1>. HIDE DEF kept
<1>4. /\ r \in PeerRecord /\ r.key = p /\ r.connections = kept.connections
      /\ r.auth_blocked_until = kept.auth_blocked_until
  BY <1>2, Zenon DEF PeerRecord
<1>. HIDE DEF r
<1>5. /\ T \in [PeerSlot -> PeerRecord] /\ T[i] = r
      /\ \A j \in PeerSlot \ {i} : T[j] = peers[j]
  BY <1>1, <1>3, <1>4 DEF PeerTable
<1>6. T[i].key = p /\ \A j \in PeerSlot \ {i} : T[j].key = peers[j].key /\ T[j].key # p
  BY <1>1, <1>4, <1>5
<1>7. PeerTable(T)
  <2>1. ASSUME NEW j \in PeerSlot, NEW k \in PeerSlot, T[j].key = T[k].key, T[j].key # None
        PROVE  j = k
    BY <1>1, <1>6, <2>1 DEF PeerTable
  <2>. QED
    BY <1>5, <2>1 DEF PeerTable
<1>8. slot_for(T, p) = i
  BY <1>1, <1>6, <1>7, PeerSlotFor, ZenonT(60)
<1>. QED
  BY <1>1, <1>2, <1>4, <1>5, <1>8

\* One step of the policy: the record of peer p, which may be new, goes from
\* the window s of connections and the pause b to the record r.
PeerChanged(p, s, b, r) ==
    \E i \in PeerSlot :
        /\ PeerTable(peers') /\ peers'[i] = r /\ r.key = p
        /\ \A j \in PeerSlot \ {i} : peers'[j] = peers[j] /\ peers[j].key # p
        /\ peers[i].key = p =>
              peers[i].connections = s /\ peers[i].auth_blocked_until = b
        /\ peers[i].key # p => s = <<>> /\ b = 0

LEMMA PeerChangedBy ==
    ASSUME PeerTable(peers), NEW p \in Peer, NEW t \in Nat,
           NEW T, T = peer_record_for(p, t), NEW r \in PeerRecord, r.key = p,
           peers' = [T EXCEPT ![slot_for(T, p)] = r]
    PROVE  LET old == T[slot_for(T, p)] IN
           /\ old \in PeerRecord /\ old.key = p
           /\ PeerChanged(p, old.connections, old.auth_blocked_until, r)
<1>. DEFINE i == slot_for(peers, p)
<1>1. /\ i \in PeerSlot /\ T \in [PeerSlot -> PeerRecord] /\ T[i].key = p
      /\ slot_for(T, p) = i
      /\ \A j \in PeerSlot \ {i} : T[j] = peers[j] /\ peers[j].key # p
      /\ peers[i].key = p =>
            /\ T[i].connections = peers[i].connections
            /\ T[i].auth_blocked_until = peers[i].auth_blocked_until
      /\ peers[i].key # p => T[i].connections = <<>> /\ T[i].auth_blocked_until = 0
  BY PeerRecordFor
<1>. HIDE DEF i
<1>2. /\ peers' \in [PeerSlot -> PeerRecord] /\ peers'[i] = r
      /\ \A j \in PeerSlot \ {i} : peers'[j] = peers[j]
  BY <1>1
<1>3. PeerTable(peers')
  BY <1>1, <1>2 DEF PeerTable
<1>. QED
  BY <1>1, <1>2, <1>3, ZenonT(30) DEF PeerChanged

LEMMA Counts ==
    ASSUME NEW r, r.auth_failures \in Nat
    PROVE  counted(r) \in Nat /\ counted(r) <= r.auth_failures + 1
BY SMTT(20) DEF counted, Smaller

LEMMA BackoffBound ==
    ASSUME NEW n \in Nat
    PROVE  peer_backoff(n) \in 0 .. PEER_DELAY_MAX
<1>1. CASE n < 3
  BY <1>1, PeerConstants DEF peer_backoff
<1>2. CASE ~(n < 3)
  <2>. DEFINE k == Smaller(n - 3, 6)
  <2>1. k \in 0 .. 6
    BY <1>2 DEF Smaller
  <2>. HIDE DEF k
  <2>2. shifted[k] \in Nat
    BY <2>1 DEF shifted
  <2>. DEFINE d == PEER_DELAY * shifted[k]
  <2>3. d \in Nat
    BY <2>2, PeerConstants
  <2>4. peer_backoff(n) = Smaller(d, PEER_DELAY_MAX)
    BY <1>2, ZenonT(30) DEF peer_backoff, k
  <2>. HIDE DEF d
  <2>. QED
    BY <2>3, <2>4, PeerConstants DEF Smaller
<1>. QED
  BY <1>1, <1>2

\* Whatever window_allow is asked, it leaves a window.
LEMMA AllowedWindow ==
    ASSUME NEW W \in Seq(Nat), NEW limit, NEW width, NEW t \in Nat
    PROVE  window_allow(W, limit, width, t).window \in Seq(Nat)
<1>. DEFINE K == prune_window(W, t, width)
<1>1. K \in Seq(Nat)
  BY PruneAll, Zenon
<1>2. window_allow(W, limit, width, t) =
         IF window_full(K, limit) THEN [allowed |-> FALSE, window |-> K]
         ELSE [allowed |-> TRUE, window |-> Append(K, t)]
  BY Zenon DEF window_allow
<1>. HIDE DEF K
<1>3. Append(K, t) \in Seq(Nat)
  BY <1>1
<1>4. CASE window_full(K, limit)
  <2>1. window_allow(W, limit, width, t) = [allowed |-> FALSE, window |-> K]
    BY <1>2, <1>4, Zenon
  <2>. QED
    BY <1>1, <2>1
<1>5. CASE ~window_full(K, limit)
  <2>1. window_allow(W, limit, width, t) = [allowed |-> TRUE, window |-> Append(K, t)]
    BY <1>2, <1>5, Zenon
  <2>. QED
    BY <1>3, <2>1
<1>. QED
  BY <1>4, <1>5, Zenon

\* What a step of a login makes of a peer's record: it keeps the window and
\* sets a pause no longer than the longest delay.
LEMMA LoginRecord ==
    ASSUME NEW old \in PeerRecord, NEW t \in Nat, NEW delay \in 0 .. PEER_DELAY_MAX,
           NEW r \in {cooled(old, t), failed(old, delay, t), cleared(old)}
    PROVE  /\ r \in PeerRecord /\ r.key = old.key /\ r.connections = old.connections
           /\ \/ r.auth_blocked_until <= old.auth_blocked_until
              \/ r.auth_blocked_until <= t + PEER_DELAY_MAX
<1>. DEFINE b == old.auth_blocked_until
            until == IF delay > 0 THEN t + delay ELSE b
<1>1. b \in Nat /\ counted(old) \in Nat /\ old.auth_failures \in Nat
  BY Counts, Zenon DEF PeerRecord
<1>2. \E n \in Nat, u \in {0, b, until} :
         r = [old EXCEPT !.auth_failures = n, !.auth_blocked_until = u]
  <2>1. CASE r = old
    <3>1. old = [old EXCEPT !.auth_failures = old.auth_failures, !.auth_blocked_until = b]
      BY Zenon DEF PeerRecord
    <3>. QED
      BY <1>1, <2>1, <3>1, Zenon
  <2>2. CASE r = cleared(old)
    <3>1. r = [old EXCEPT !.auth_failures = 0, !.auth_blocked_until = 0] /\ 0 \in Nat
      BY <2>2 DEF cleared
    <3>. QED
      BY <3>1, Zenon
  <2>3. CASE r = failed(old, delay, t)
    <3>1. r = [old EXCEPT !.auth_failures = counted(old), !.auth_blocked_until = until]
      BY <2>3, Zenon DEF failed, PeerRecord
    <3>. QED
      BY <1>1, <3>1, Zenon
  <2>. QED
    BY <2>1, <2>2, <2>3, Zenon DEF cooled, cleared
<1>. HIDE DEF b
<1>3. /\ until \in Nat /\ (until <= b \/ until <= t + PEER_DELAY_MAX)
      /\ 0 \in Nat /\ 0 <= b /\ b <= b
  <2>1. b \in Nat /\ t \in Nat /\ delay \in Nat /\ delay <= PEER_DELAY_MAX
        /\ PEER_DELAY_MAX \in Nat
    BY <1>1, PeerConstants
  <2>2. CASE delay > 0
    <3>1. until = t + delay
      BY <2>2, Zenon
    <3>. HIDE DEF until
    <3>. QED
      BY <2>1, <3>1
  <2>3. CASE ~(delay > 0)
    <3>1. until = b
      BY <2>3, Zenon
    <3>. HIDE DEF until
    <3>. QED
      BY <2>1, <3>1
  <2>. QED
    BY <2>2, <2>3, Zenon
<1>. HIDE DEF until
<1>4. PICK n \in Nat, u \in {0, b, until} :
         r = [old EXCEPT !.auth_failures = n, !.auth_blocked_until = u]
  BY <1>2, Zenon
<1>5. u \in Nat /\ (u <= b \/ u <= t + PEER_DELAY_MAX)
  <2>1. u = 0 \/ u = b \/ u = until
    BY Zenon
  <2>2. CASE u = 0
    BY <1>3, <2>2, Zenon
  <2>3. CASE u = b
    BY <1>1, <1>3, <2>3, Zenon
  <2>4. CASE u = until
    BY <1>3, <2>4, Zenon
  <2>. QED
    BY <2>1, <2>2, <2>3, <2>4, Zenon
<1>6. /\ r \in PeerRecord /\ r.key = old.key /\ r.connections = old.connections
      /\ r.auth_blocked_until = u
  BY <1>4, <1>5, Zenon DEF PeerRecord
<1>. QED
  BY <1>5, <1>6, Zenon DEF b

LEMMA LoginChanges ==
    ASSUME PeerTable(peers), NEW w, caller[w].peer \in Peer, caller[w].now \in Nat,
           allow_auth_attempt(w) \/ note_auth_failure(w) \/ note_auth_success(w)
    PROVE  \E s \in Seq(Nat), b \in Nat, r \in PeerRecord :
              /\ PeerChanged(caller[w].peer, s, b, r) /\ r.connections = s
              /\ \/ r.auth_blocked_until <= b
                 \/ r.auth_blocked_until <= caller[w].now + PEER_DELAY_MAX
<1>. DEFINE p == caller[w].peer
            t == caller[w].now
            T == peer_record_for(p, t)
            old == T[slot_for(T, p)]
            delay == peer_backoff(counted(old))
<1>1. old \in PeerRecord /\ old.key = p /\ T \in [PeerSlot -> PeerRecord]
      /\ slot_for(T, p) \in PeerSlot
  BY PeerRecordFor
<1>2. \E r \in {cooled(old, t), failed(old, delay, t), cleared(old)} :
         peers' = [T EXCEPT ![slot_for(T, p)] = r]
  <2>1. CASE allow_auth_attempt(w)
    <3>1. peers' = [T EXCEPT ![slot_for(T, p)] = cooled(old, t)]
      BY <2>1, Zenon DEF allow_auth_attempt
    <3>. QED
      BY <3>1, Zenon
  <2>2. CASE note_auth_failure(w)
    <3>1. peers' = [T EXCEPT ![slot_for(T, p)] = failed(old, delay, t)]
      BY <1>1, <2>2, ZenonT(30) DEF note_auth_failure
    <3>. QED
      BY <3>1, Zenon
  <2>3. CASE note_auth_success(w)
    <3>1. peers' = [T EXCEPT ![slot_for(T, p)] = cleared(old)]
      BY <1>1, <2>3, ZenonT(30) DEF note_auth_success
    <3>. QED
      BY <3>1, Zenon
  <2>. QED
    BY <2>1, <2>2, <2>3, Zenon
<1>. HIDE DEF T, old
<1>3. PICK r \in {cooled(old, t), failed(old, delay, t), cleared(old)} :
         peers' = [T EXCEPT ![slot_for(T, p)] = r]
  BY <1>2, Zenon
<1>4. /\ old.connections \in Seq(Nat) /\ old.auth_blocked_until \in Nat
      /\ counted(old) \in Nat
  <2>1. old.connections \in Seq(Nat) /\ old.auth_blocked_until \in Nat
        /\ old.auth_failures \in Nat
    BY <1>1, ZenonT(30) DEF PeerRecord
  <2>. QED
    BY <2>1, Counts, Zenon
<1>5. delay \in 0 .. PEER_DELAY_MAX
  BY <1>4, BackoffBound, Zenon
<1>. HIDE DEF delay
<1>6. /\ r \in PeerRecord /\ r.key = p /\ r.connections = old.connections
      /\ \/ r.auth_blocked_until <= old.auth_blocked_until
         \/ r.auth_blocked_until <= t + PEER_DELAY_MAX
  <2>1. /\ r \in PeerRecord /\ r.key = old.key /\ r.connections = old.connections
        /\ \/ r.auth_blocked_until <= old.auth_blocked_until
           \/ r.auth_blocked_until <= t + PEER_DELAY_MAX
    <3>. HIDE DEF t
    <3>1. t \in Nat
      BY ZenonT(30) DEF t
    <3>. QED
      BY <1>1, <1>5, <3>1, LoginRecord, ZenonT(30)
  <2>. QED
    BY <1>1, <2>1, Zenon
<1>7. PeerChanged(p, old.connections, old.auth_blocked_until, r)
  BY <1>3, <1>6, PeerChangedBy, ZenonT(30) DEF T, old
<1>. QED
  BY <1>4, <1>6, <1>7, Zenon

\* A question about a connection, and one about a creation.
LEMMA ConnectionChanges ==
    ASSUME PeerTable(peers), NEW w, caller[w].peer \in Peer, caller[w].now \in Nat,
           allow_connection(w)
    PROVE  \E s \in Seq(Nat), b \in Nat, r \in PeerRecord :
              LET peer == window_allow(s, PEER_CONNECTION_LIMIT, CONNECTION_WINDOW, caller[w].now)
                  global == window_allow(global_connections, GLOBAL_CONNECTION_LIMIT,
                                         CONNECTION_WINDOW, caller[w].now)
                  allowed == peer.allowed /\ global.allowed
              IN  /\ PeerChanged(caller[w].peer, s, b, r) /\ r.connections = peer.window
                  /\ r.auth_blocked_until = b
                  /\ global_connections' =
                        IF peer.allowed THEN global.window ELSE global_connections
                  /\ connected' =
                        IF allowed THEN Append(connected, caller[w].now) ELSE connected
                  /\ peer_connected' = ForgetEvicted(
                        IF allowed
                        THEN [peer_connected EXCEPT ![caller[w].peer] = Append(@, caller[w].now)]
                        ELSE peer_connected)
<1>. DEFINE p == caller[w].peer
            t == caller[w].now
            T == peer_record_for(p, t)
            old == T[slot_for(T, p)]
            s == old.connections
            peer == window_allow(s, PEER_CONNECTION_LIMIT, CONNECTION_WINDOW, t)
            global == window_allow(global_connections, GLOBAL_CONNECTION_LIMIT,
                                   CONNECTION_WINDOW, t)
            allowed == peer.allowed /\ global.allowed
            r == [old EXCEPT !.connections = peer.window]
<1>1. old \in PeerRecord /\ old.key = p /\ T \in [PeerSlot -> PeerRecord]
      /\ slot_for(T, p) \in PeerSlot
  BY PeerRecordFor
<1>2. /\ peers' = [T EXCEPT ![slot_for(T, p)].connections = peer.window]
      /\ global_connections' = IF peer.allowed THEN global.window ELSE global_connections
      /\ connected' = IF allowed THEN Append(connected, t) ELSE connected
      /\ peer_connected' = ForgetEvicted(
            IF allowed THEN [peer_connected EXCEPT ![p] = Append(@, t)] ELSE peer_connected)
  BY Zenon DEF allow_connection
<1>. HIDE DEF T
<1>3. peers' = [T EXCEPT ![slot_for(T, p)] = r]
  BY <1>1, <1>2, Zenon
<1>. HIDE DEF old
<1>4. s \in Seq(Nat) /\ old.auth_blocked_until \in Nat
  BY <1>1 DEF PeerRecord
<1>5. peer.window \in Seq(Nat)
  BY <1>4, AllowedWindow, Zenon
<1>. HIDE DEF peer
<1>6. /\ r \in PeerRecord /\ r.key = p /\ r.connections = peer.window
      /\ r.auth_blocked_until = old.auth_blocked_until
  BY <1>1, <1>5, Zenon DEF PeerRecord
<1>. HIDE DEF r
<1>7. PeerChanged(p, s, old.auth_blocked_until, r)
  BY <1>3, <1>6, PeerChangedBy, ZenonT(30) DEF T, old
<1>. QED
  BY <1>2, <1>4, <1>6, <1>7, Zenon DEF peer

LEMMA CreationChanges ==
    ASSUME PeerTable(peers), NEW w, caller[w].peer \in Peer, caller[w].now \in Nat,
           allow_account_creation(w)
    PROVE  \E s \in Seq(Nat), b \in Nat, r \in PeerRecord :
              /\ PeerChanged(caller[w].peer, s, b, r) /\ r.connections = s
              /\ r.auth_blocked_until = b
<1>. DEFINE p == caller[w].peer
            t == caller[w].now
            T == peer_record_for(p, t)
            old == T[slot_for(T, p)]
            peer == window_allow(old.creations, PEER_CREATION_LIMIT, CREATION_WINDOW, t)
            r == [old EXCEPT !.creations = peer.window]
<1>1. old \in PeerRecord /\ old.key = p /\ T \in [PeerSlot -> PeerRecord]
      /\ slot_for(T, p) \in PeerSlot
  BY PeerRecordFor
<1>2. peers' = [T EXCEPT ![slot_for(T, p)].creations = peer.window]
  BY Zenon DEF allow_account_creation
<1>. HIDE DEF T
<1>3. peers' = [T EXCEPT ![slot_for(T, p)] = r]
  BY <1>1, <1>2, Zenon
<1>. HIDE DEF old
<1>4. /\ old.connections \in Seq(Nat) /\ old.auth_blocked_until \in Nat
      /\ old.creations \in Seq(Nat)
  BY <1>1 DEF PeerRecord
<1>5. peer.window \in Seq(Nat)
  BY <1>4, AllowedWindow, Zenon
<1>. HIDE DEF peer
<1>6. /\ r \in PeerRecord /\ r.key = p /\ r.connections = old.connections
      /\ r.auth_blocked_until = old.auth_blocked_until
  BY <1>1, <1>5, Zenon DEF PeerRecord
<1>. HIDE DEF r
<1>7. PeerChanged(p, old.connections, old.auth_blocked_until, r)
  BY <1>3, <1>6, PeerChangedBy, ZenonT(30) DEF T, old
<1>. QED
  BY <1>4, <1>6, <1>7, Zenon
=============================================================================
