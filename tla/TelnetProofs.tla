---------------------------- MODULE TelnetProofs ----------------------------
(***************************************************************************)
(* Proofs about the Telnet side: TelnetQ, for every set of options, every  *)
(* q_accept_callback and every pattern of requests, and TelnetSession, for *)
(* any set of names, any limits and any number of messages.                *)
(*                                                                         *)
(* TelnetQ: what two ends can disagree about is what is still on the wire, *)
(* so the inductive invariant lists, for each link (a slot and its mate),  *)
(* which pairs of states go with which commands under way.                 *)
(*                                                                         *)
(* TelnetSession: only a complete line, an interrupt and the destruction   *)
(* of the session touch the dialogue.  The name is chosen at the name      *)
(* prompt and not changed until the game or the next name prompt, so the   *)
(* password that is shown on the way is the one of that name.              *)
(***************************************************************************)
EXTENDS TelnetQ, TelnetSession, TLAPS

\* A link between an end in state a, which has still to read x, and its mate
\* in state b, which has still to read y.  The first end sends on and off,
\* the mate sends mate_on and mate_off.
Holds(on, off, mate_on, mate_off, a, x, b, y) ==
    \/ /\ a = "NO"
       /\ \/ x = <<>> /\ y = <<>> /\ b = "NO"
          \/ x = <<>> /\ y = <<off>> /\ b \in {"WANTNO", "WANTYES"}
          \/ x = <<mate_on>> /\ y = <<>> /\ b = "WANTYES"
    \/ /\ a = "YES"
       /\ \/ x = <<>> /\ y = <<>> /\ b = "YES"
          \/ x = <<>> /\ y = <<on>> /\ b = "WANTYES"
          \/ x = <<mate_off>> /\ y = <<>> /\ b = "WANTNO"
    \/ /\ a = "WANTNO"
       /\ \/ x = <<>> /\ y = <<off>> /\ b = "YES"
          \/ x = <<>> /\ y = <<on, off>> /\ b = "WANTYES"
          \/ x = <<mate_off>> /\ y = <<>> /\ b = "NO"
          \/ x = <<mate_off>> /\ y = <<off>> /\ b = "WANTNO"
          \/ x = <<mate_off, mate_on>> /\ y = <<>> /\ b = "WANTYES"
    \/ /\ a = "WANTYES"
       /\ \/ x = <<>> /\ y = <<on>> /\ b = "NO"
          \/ x = <<>> /\ y = <<off, on>> /\ b \in {"WANTNO", "WANTYES"}
          \/ x = <<mate_off>> /\ y = <<>> /\ b = "NO"
          \/ x = <<mate_off, mate_on>> /\ y = <<>> /\ b = "WANTYES"
          \/ x = <<mate_on>> /\ y = <<>> /\ b = "YES"
          \/ x = <<mate_on>> /\ y = <<on>> /\ b = "WANTYES"
          \/ x = <<mate_on, mate_off>> /\ y = <<>> /\ b = "WANTNO"

\* d is the direction of the first end.
Link(d, a, x, b, y) ==
    Holds(enable_command(d), disable_command(d),
          enable_command(Opposite(d)), disable_command(Opposite(d)), a, x, b, y)

LinkOf(s) == Link(s[2], q[s].state, wire[s], q[Mate(s)].state, wire[Mate(s)])

LinkInv == TypeOK /\ \A s \in Linked : LinkOf(s)

-----------------------------------------------------------------------------
\* Mate pairs the slots up, crossing the direction.
LEMMA MateFacts ==
    ASSUME NEW s \in Slot
    PROVE  /\ Mate(s) \in Slot
           /\ Mate(s) # s
           /\ Mate(Mate(s)) = s
           /\ Mate(s)[2] = Opposite(s[2])
           /\ Opposite(Opposite(s[2])) = s[2]
           /\ s[2] \in {"local", "remote"}
BY DEF Slot, Mate, Peer, Direction, Other, Opposite

\* Mate is injective: two links never share a slot.
LEMMA MateInjective ==
    ASSUME NEW s \in Slot, NEW t \in Slot, Mate(s) = t
    PROVE  s = Mate(t)
BY MateFacts

\* Both ends of a link are linked, and they are slots.
LEMMA LinkedFacts ==
    ASSUME NEW s \in Linked
    PROVE  s \in Slot /\ Mate(s) \in Linked
BY MateFacts DEF Linked, Ours

\* A link looks the same from both of its ends.
LEMMA LinkSymmetric ==
    ASSUME NEW d \in {"local", "remote"}, NEW a, NEW b, NEW x, NEW y,
           Link(d, a, x, b, y)
    PROVE  Link(Opposite(d), b, y, a, x)
<1>1. Opposite(Opposite(d)) = d
  BY DEF Opposite
<1>. QED
  BY <1>1, Zenon DEF Link, Holds

-----------------------------------------------------------------------------
\* A reply goes to the mate, so it is about the mate's direction.
LEMMA CommandFacts ==
    ASSUME NEW d \in {"local", "remote"}
    PROVE  /\ enable_command(d) \in Command
           /\ disable_command(d) \in Command
           /\ positive(enable_command(d))
           /\ ~ positive(disable_command(d))
           /\ addressed(enable_command(d)) = Opposite(d)
           /\ addressed(disable_command(d)) = Opposite(d)
BY DEF enable_command, disable_command, Command, positive, addressed, Opposite

\* What a row of the tables does to the two fields of a side.
Rewrites(s) ==
    \/ UNCHANGED q
    \/ \E state \in {"NO", "YES"} : Becomes(s, state, FALSE)
    \/ \E state \in {"WANTNO", "WANTYES"}, queued \in BOOLEAN : Becomes(s, state, queued)

SidesOK ==
    /\ q \in [Slot -> Side]
    /\ \A s \in Slot : q[s].queued => q[s].state \in {"WANTNO", "WANTYES"}

\* A row of the tables leaves every option's state in its type.
LEMMA RewritesKeepSides ==
    ASSUME SidesOK, NEW s \in Slot, Rewrites(s)
    PROVE  SidesOK'
<1>1. CASE UNCHANGED q
  BY <1>1 DEF SidesOK
<1>2. ASSUME NEW state \in {"NO", "YES", "WANTNO", "WANTYES"}, NEW queued \in BOOLEAN,
             queued => state \in {"WANTNO", "WANTYES"}, Becomes(s, state, queued)
      PROVE  SidesOK'
  <2>1. q' = [q EXCEPT ![s] = [state |-> state, queued |-> queued]]
    BY <1>2 DEF Becomes
  <2>2. [state |-> state, queued |-> queued] \in Side
    BY <1>2 DEF Side
  <2>3. q' \in [Slot -> Side]
    BY <2>1, <2>2 DEF SidesOK
  <2>4. ASSUME NEW t \in Slot, q'[t].queued
        PROVE  q'[t].state \in {"WANTNO", "WANTYES"}
    <3>1. CASE t = s
      BY <1>2, <2>1, <2>4, <3>1 DEF SidesOK
    <3>2. CASE t # s
      BY <2>1, <2>4, <3>2 DEF SidesOK
    <3>. QED BY <3>1, <3>2
  <2>. QED
    BY <2>3, <2>4 DEF SidesOK
<1>. QED
  BY <1>1, <1>2, Zenon DEF Rewrites

\* What a row does to the wire: nothing, or one command to the mate, after
\* the command that is answered, if any, has been taken off.
Transmits(s) ==
    \/ UNCHANGED wire
    \/ wire[s] # <<>> /\ Consumes(s)
    \/ \E c \in Command : Sends(s, c)
    \/ \E c \in Command : wire[s] # <<>> /\ Answers(s, c)

\* Sending a command leaves the wire holding commands.
LEMMA TransmitsKeepWire ==
    ASSUME wire \in [Slot -> Seq(Command)], NEW s \in Slot, Transmits(s)
    PROVE  wire' \in [Slot -> Seq(Command)]
<1>1. Mate(s) \in Slot /\ Mate(s) # s
  BY MateFacts
<1>2. wire[s] # <<>> => Tail(wire[s]) \in Seq(Command)
  OBVIOUS
<1>3. \A c \in Command : Append(wire[Mate(s)], c) \in Seq(Command)
  BY <1>1
<1>4. CASE UNCHANGED wire
  BY <1>4
<1>5. CASE wire[s] # <<>> /\ Consumes(s)
  BY <1>2, <1>5 DEF Consumes
<1>6. CASE \E c \in Command : Sends(s, c)
  BY <1>1, <1>3, <1>6 DEF Sends
<1>7. CASE \E c \in Command : wire[s] # <<>> /\ Answers(s, c)
  BY <1>1, <1>2, <1>3, <1>7, Zenon DEF Answers
<1>. QED
  BY <1>4, <1>5, <1>6, <1>7 DEF Transmits

\* Every step of the negotiator, and of a foreign peer, keeps the types.
LEMMA TypeStep == TypeOK /\ [Next]_vars => TypeOK'
<1>. SUFFICES ASSUME TypeOK, [Next]_vars PROVE TypeOK'
  OBVIOUS
<1>0. SidesOK /\ wire \in [Slot -> Seq(Command)] /\ desired \in [Slot -> BOOLEAN]
  BY DEF TypeOK, SidesOK
<1>a. ASSUME NEW s \in Slot, Rewrites(s), Transmits(s), desired' \in [Slot -> BOOLEAN]
      PROVE  TypeOK'
  <2>1. SidesOK'
    BY <1>0, <1>a, RewritesKeepSides
  <2>2. wire' \in [Slot -> Seq(Command)]
    BY <1>0, <1>a, TransmitsKeepWire
  <2>. QED
    BY <1>a, <2>1, <2>2 DEF TypeOK, SidesOK
<1>1. ASSUME NEW s \in Requests, NEW enable \in BOOLEAN,
             telnet_q_request(s, enable)
      PROVE  TypeOK'
  <2>1. s \in Slot /\ s[2] \in {"local", "remote"}
    BY SlotAssumption, MateFacts
  <2>2. desired' \in [Slot -> BOOLEAN]
    BY <1>0, <1>1, <2>1 DEF telnet_q_request
  <2>3. Rewrites(s)
    BY <1>1, Zenon DEF telnet_q_request, request_enable, request_disable,
       Stays, Rewrites
  <2>4. Transmits(s)
    BY <1>1, <2>1, CommandFacts, Zenon
       DEF telnet_q_request, request_enable, request_disable, Transmits
  <2>. QED
    BY <1>a, <2>1, <2>2, <2>3, <2>4
<1>2. ASSUME NEW s \in Slot, telnet_q_receive(s)
      PROVE  TypeOK'
  <2>1. s[2] \in {"local", "remote"}
    BY MateFacts
  <2>2. desired' \in [Slot -> BOOLEAN]
    BY <1>0, <1>2 DEF telnet_q_receive
  <2>3. Rewrites(s)
    BY <1>2, Zenon DEF telnet_q_receive, receive_positive, receive_negative,
       Stays, Rewrites
  <2>4. Transmits(s)
    BY <1>2, <2>1, CommandFacts, Zenon
       DEF telnet_q_receive, receive_positive, receive_negative, Transmits
  <2>. QED
    BY <1>a, <2>2, <2>3, <2>4
<1>3. ASSUME NEW s \in Slot, foreign_peer(s)
      PROVE  TypeOK'
  BY <1>0, <1>3, <1>a DEF foreign_peer, Rewrites, Transmits
<1>4. CASE UNCHANGED vars
  BY <1>4 DEF vars, TypeOK
<1>. QED
  BY <1>1, <1>2, <1>3, <1>4 DEF Next, Ours

\* Every option starts off, with nothing on the wire.
LEMMA TypeInit == Init => TypeOK
BY DEF Init, TypeOK, telnet_q_init, Side

\* telnet_negotiation.c keeps every telnet_q_side well formed, and queues a
\* change of mind only while it waits, whatever the other end sends.
THEOREM TypeCorrect == Spec => []TypeOK
BY TypeInit, TypeStep, PTL DEF Spec

-----------------------------------------------------------------------------
\* Functions, and so sequences, that agree everywhere are equal.
LEMMA FunEqual ==
    ASSUME NEW D, NEW R, NEW f \in [D -> R], NEW g \in [D -> R], \A i \in D : f[i] = g[i]
    PROVE  f = g
OBVIOUS

LEMMA SeqEqual ==
    ASSUME NEW S, NEW s \in Seq(S), NEW t \in Seq(S), Len(s) = Len(t),
           \A i \in 1 .. Len(s) : s[i] = t[i]
    PROVE  s = t
<1>. DEFINE D == 1 .. Len(s)
<1>1. s \in [D -> S] /\ t \in [D -> S] /\ \A i \in D : s[i] = t[i]
  OBVIOUS
<1>. HIDE DEF D
<1>. QED
  BY <1>1, FunEqual

\* The short sequences a link holds.
LEMMA ShortSequences ==
    ASSUME NEW c \in Command, NEW e \in Command
    PROVE  /\ Append(<<>>, c) = <<c>>
           /\ Append(<<c>>, e) = <<c, e>>
           /\ Tail(<<c>>) = <<>>
           /\ Tail(<<c, e>>) = <<e>>
           /\ Head(<<c>>) = c
           /\ Head(<<c, e>>) = c
           /\ Len(<<>>) = 0 /\ Len(<<c>>) = 1 /\ Len(<<c, e>>) = 2
<1>1. <<c>> \in Seq(Command) /\ <<c, e>> \in Seq(Command)
  OBVIOUS
<1>2. Append(<<c>>, e) \in Seq(Command) /\ Len(Append(<<c>>, e)) = Len(<<c, e>>)
  BY <1>1
<1>3. \A i \in 1 .. 2 : Append(<<c>>, e)[i] = <<c, e>>[i]
  BY <1>1
<1>4. Append(<<c>>, e) = <<c, e>>
  BY <1>1, <1>2, <1>3, SeqEqual, Zenon
<1>. QED
  BY <1>4

\* The rows of telnet_q_request that send.
LEMMA RequestRows ==
    ASSUME NEW on \in Command, NEW off \in Command, NEW mate_on, NEW mate_off,
           NEW x, NEW b, NEW y
    PROVE  /\ Holds(on, off, mate_on, mate_off, "NO", x, b, y)
                => Holds(on, off, mate_on, mate_off, "WANTYES", x, b, Append(y, on))
           /\ Holds(on, off, mate_on, mate_off, "YES", x, b, y)
                => Holds(on, off, mate_on, mate_off, "WANTNO", x, b, Append(y, off))
<1>1. /\ Append(<<>>, on) = <<on>> /\ Append(<<>>, off) = <<off>>
      /\ Append(<<off>>, on) = <<off, on>> /\ Append(<<on>>, off) = <<on, off>>
  BY ShortSequences
<1>. QED
  BY <1>1, Zenon DEF Holds

\* The rows of receive_positive; between two of these negotiators the rows
\* for YES and WANTNO are never entered.
LEMMA PositiveRows ==
    ASSUME NEW on \in Command, NEW off \in Command,
           NEW mate_on \in Command, NEW mate_off \in Command, ~ positive(mate_off),
           NEW x, NEW b, NEW y, x # <<>>, positive(Head(x))
    PROVE  /\ ~ Holds(on, off, mate_on, mate_off, "YES", x, b, y)
           /\ ~ Holds(on, off, mate_on, mate_off, "WANTNO", x, b, y)
           /\ Holds(on, off, mate_on, mate_off, "NO", x, b, y)
                => /\ Holds(on, off, mate_on, mate_off, "YES", Tail(x), b, Append(y, on))
                   /\ Holds(on, off, mate_on, mate_off, "NO", Tail(x), b, Append(y, off))
           /\ Holds(on, off, mate_on, mate_off, "WANTYES", x, b, y)
                => /\ Holds(on, off, mate_on, mate_off, "YES", Tail(x), b, y)
                   /\ Holds(on, off, mate_on, mate_off, "WANTNO", Tail(x), b, Append(y, off))
<1>1. /\ Append(<<>>, on) = <<on>> /\ Append(<<>>, off) = <<off>>
      /\ Append(<<on>>, off) = <<on, off>>
  BY ShortSequences, Zenon
<1>2. /\ Tail(<<mate_on>>) = <<>>
      /\ Tail(<<mate_on, mate_off>>) = <<mate_off>>
      /\ Head(<<mate_off>>) = mate_off /\ Head(<<mate_off, mate_on>>) = mate_off
  BY ShortSequences
<1>. QED
  BY <1>1, <1>2, Zenon DEF Holds

\* The rows of receive_negative; the row for NO is never entered.
LEMMA NegativeRows ==
    ASSUME NEW on \in Command, NEW off \in Command,
           NEW mate_on \in Command, NEW mate_off \in Command, positive(mate_on),
           NEW x, NEW b, NEW y, x # <<>>, ~ positive(Head(x))
    PROVE  /\ ~ Holds(on, off, mate_on, mate_off, "NO", x, b, y)
           /\ Holds(on, off, mate_on, mate_off, "YES", x, b, y)
                => Holds(on, off, mate_on, mate_off, "NO", Tail(x), b, Append(y, off))
           /\ Holds(on, off, mate_on, mate_off, "WANTNO", x, b, y)
                => /\ Holds(on, off, mate_on, mate_off, "NO", Tail(x), b, y)
                   /\ Holds(on, off, mate_on, mate_off, "WANTYES", Tail(x), b, Append(y, on))
           /\ Holds(on, off, mate_on, mate_off, "WANTYES", x, b, y)
                => Holds(on, off, mate_on, mate_off, "NO", Tail(x), b, y)
<1>1. /\ Append(<<>>, on) = <<on>> /\ Append(<<>>, off) = <<off>>
      /\ Append(<<off>>, on) = <<off, on>>
  BY ShortSequences, Zenon
<1>2. /\ Tail(<<mate_off>>) = <<>>
      /\ Tail(<<mate_off, mate_on>>) = <<mate_on>>
      /\ Head(<<mate_on>>) = mate_on /\ Head(<<mate_on, mate_off>>) = mate_on
  BY ShortSequences
<1>. QED
  BY <1>1, <1>2, Zenon DEF Holds

-----------------------------------------------------------------------------
\* A step of s touches the state of s and the queues of s and its mate.
OnlyTouches(s) ==
    /\ \A t \in Slot : t # s => q'[t] = q[t]
    /\ \A t \in Slot \ {s, Mate(s)} : wire'[t] = wire[t]

\* A step of s that leaves its own link in order, if it has one, leaves every
\* link in order: the mate sees the same link, and no other link shares a slot
\* with it.
LEMMA OtherLinks ==
    ASSUME LinkInv, NEW s \in Slot, s \in Linked => LinkOf(s)', OnlyTouches(s)
    PROVE  \A t \in Linked : LinkOf(t)'
<1>. TAKE t \in Linked
<1>0. t \in Slot /\ Mate(t) \in Linked
  BY LinkedFacts
<1>1. CASE t = s
  BY <1>1
<1>2. CASE t = Mate(s)
  <2>1. s = Mate(t) /\ s[2] \in {"local", "remote"} /\ t[2] = Opposite(s[2])
    BY <1>2, MateFacts
  <2>2. Link(s[2], q'[s].state, wire'[s], q'[t].state, wire'[t])
    BY <1>0, <1>2, <2>1 DEF LinkOf
  <2>3. Link(t[2], q'[t].state, wire'[t], q'[s].state, wire'[s])
    BY <2>1, <2>2, LinkSymmetric
  <2>. QED
    BY <2>1, <2>3 DEF LinkOf
<1>3. CASE t \notin {s, Mate(s)}
  <2>1. Mate(t) \in Slot \ {s, Mate(s)}
    BY <1>0, <1>3, MateFacts, MateInjective
  <2>2. /\ q'[t] = q[t] /\ q'[Mate(t)] = q[Mate(t)]
        /\ wire'[t] = wire[t] /\ wire'[Mate(t)] = wire[Mate(t)]
    BY <1>0, <1>3, <2>1 DEF OnlyTouches
  <2>. QED
    BY <2>2 DEF LinkInv, LinkOf
<1>. QED
  BY <1>1, <1>2, <1>3

\* A step of s touches nothing that belongs to another link.
LEMMA StepsTouchOne ==
    ASSUME TypeOK, NEW s \in Slot,
           \/ \E enable \in BOOLEAN : telnet_q_request(s, enable)
           \/ telnet_q_receive(s)
           \/ foreign_peer(s)
    PROVE  OnlyTouches(s)
<1>1. Mate(s) \in Slot /\ q \in [Slot -> Side] /\ wire \in [Slot -> Seq(Command)]
  BY MateFacts DEF TypeOK
<1>2. ASSUME NEW enable \in BOOLEAN, telnet_q_request(s, enable)
      PROVE  OnlyTouches(s)
  BY <1>1, <1>2, SMTT(30) DEF telnet_q_request, request_enable, request_disable,
                    Becomes, Stays, Sends, OnlyTouches
<1>3. CASE telnet_q_receive(s)
  BY <1>1, <1>3, Zenon DEF telnet_q_receive, receive_positive, receive_negative,
                    Becomes, Stays, Consumes, Answers, OnlyTouches
<1>4. CASE foreign_peer(s)
  BY <1>1, <1>4 DEF foreign_peer, Consumes, Sends, OnlyTouches
<1>. QED
  BY <1>2, <1>3, <1>4

\* telnet_q_request leaves every link in a listed situation.
LEMMA RequestKeepsLinks ==
    ASSUME LinkInv, NEW s \in Linked, NEW enable \in BOOLEAN,
           telnet_q_request(s, enable)
    PROVE  \A t \in Linked : LinkOf(t)'
<1>. DEFINE m == Mate(s)
            on == enable_command(s[2])
            off == disable_command(s[2])
            mate_on == enable_command(Opposite(s[2]))
            mate_off == disable_command(Opposite(s[2]))
<1>0. s \in Slot
  BY LinkedFacts
<1>1. /\ m \in Slot /\ m # s /\ s[2] \in {"local", "remote"}
      /\ Opposite(s[2]) \in {"local", "remote"}
  BY <1>0, MateFacts DEF Opposite
<1>2. on \in Command /\ off \in Command
  BY <1>1, CommandFacts
<1>3. Holds(on, off, mate_on, mate_off, q[s].state, wire[s], q[m].state, wire[m])
  BY DEF LinkInv, LinkOf, Link
<1>4. q \in [Slot -> Side] /\ wire \in [Slot -> Seq(Command)]
  BY DEF LinkInv, TypeOK
<1>5. /\ \A t \in Slot : t # s => q'[t] = q[t]
      /\ wire'[s] = wire[s]
  BY <1>0, <1>1, <1>4 DEF telnet_q_request, request_enable, request_disable,
                    Becomes, Stays, Sends
<1>6. \/ q'[s].state = q[s].state /\ wire'[m] = wire[m]
      \/ /\ q[s].state = "NO" /\ q'[s].state = "WANTYES"
         /\ wire'[m] = Append(wire[m], on)
      \/ /\ q[s].state = "YES" /\ q'[s].state = "WANTNO"
         /\ wire'[m] = Append(wire[m], off)
  BY <1>0, <1>1, <1>4, SMTT(30) DEF telnet_q_request, request_enable, request_disable,
                    Becomes, Stays, Sends
<1>7. Holds(on, off, mate_on, mate_off, q'[s].state, wire'[s], q'[m].state, wire'[m])
  <2>1. q'[m].state = q[m].state /\ wire'[s] = wire[s]
    BY <1>1, <1>5
  <2>. HIDE DEF on, off, mate_on, mate_off, m
  <2>2. CASE q'[s].state = q[s].state /\ wire'[m] = wire[m]
    BY <1>3, <2>1, <2>2, ZenonT(30)
  <2>3. CASE /\ q[s].state = "NO" /\ q'[s].state = "WANTYES"
             /\ wire'[m] = Append(wire[m], on)
    BY <1>2, <1>3, <2>1, <2>3, RequestRows
  <2>4. CASE /\ q[s].state = "YES" /\ q'[s].state = "WANTNO"
             /\ wire'[m] = Append(wire[m], off)
    BY <1>2, <1>3, <2>1, <2>4, RequestRows
  <2>. QED
    BY <1>6, <2>2, <2>3, <2>4
<1>8. LinkOf(s)'
  BY <1>7 DEF LinkOf, Link
<1>9. OnlyTouches(s)
  BY <1>0, StepsTouchOne DEF LinkInv
<1>. QED
  BY <1>0, <1>8, <1>9, OtherLinks

\* telnet_q_receive leaves every link in a listed situation.
LEMMA ReceiveKeepsLinks ==
    ASSUME LinkInv, NEW s \in Linked, telnet_q_receive(s)
    PROVE  \A t \in Linked : LinkOf(t)'
<1>. DEFINE m == Mate(s)
            on == enable_command(s[2])
            off == disable_command(s[2])
            mate_on == enable_command(Opposite(s[2]))
            mate_off == disable_command(Opposite(s[2]))
<1>0. s \in Slot
  BY LinkedFacts
<1>1. /\ m \in Slot /\ m # s /\ s[2] \in {"local", "remote"}
      /\ Opposite(s[2]) \in {"local", "remote"}
  BY <1>0, MateFacts DEF Opposite
<1>2. /\ on \in Command /\ off \in Command
      /\ mate_on \in Command /\ mate_off \in Command
      /\ positive(mate_on) /\ ~ positive(mate_off)
  BY <1>1, CommandFacts
<1>3. Holds(on, off, mate_on, mate_off, q[s].state, wire[s], q[m].state, wire[m])
  BY DEF LinkInv, LinkOf, Link
<1>4. q \in [Slot -> Side] /\ wire \in [Slot -> Seq(Command)]
  BY DEF LinkInv, TypeOK
<1>5. /\ OnlyTouches(s)
      /\ \A t \in Slot : t # s => q'[t] = q[t]
  BY <1>0, StepsTouchOne DEF LinkInv, OnlyTouches
<1>5a. wire'[s] = Tail(wire[s]) /\ wire[s] # <<>>
  BY <1>0, <1>1, <1>4, ZenonT(30) DEF telnet_q_receive, receive_positive,
     receive_negative,
                    Becomes, Stays, Consumes, Answers
<1>6. CASE positive(Head(wire[s]))
  <2>1. \/ q[s].state \in {"YES", "WANTNO"}
        \/ /\ q[s].state = "NO" /\ q'[s].state = "YES"
           /\ wire'[m] = Append(wire[m], on)
        \/ /\ q[s].state = "NO" /\ q'[s].state = "NO"
           /\ wire'[m] = Append(wire[m], off)
        \/ /\ q[s].state = "WANTYES" /\ q'[s].state = "YES"
           /\ wire'[m] = wire[m]
        \/ /\ q[s].state = "WANTYES" /\ q'[s].state = "WANTNO"
           /\ wire'[m] = Append(wire[m], off)
    BY <1>0, <1>1, <1>4, <1>6, SMTT(30) DEF telnet_q_receive, receive_positive,
                            Becomes, Stays, Consumes, Answers
  <2>2. Holds(on, off, mate_on, mate_off, q'[s].state, wire'[s], q'[m].state, wire'[m])
    <3>1. q'[m].state = q[m].state
      BY <1>1, <1>5
    <3>. HIDE DEF on, off, mate_on, mate_off, m
    <3>2. CASE q[s].state \in {"YES", "WANTNO"}
      BY <1>2, <1>3, <1>5a, <1>6, <3>2, PositiveRows
    <3>3. CASE /\ q[s].state = "NO" /\ q'[s].state = "YES"
               /\ wire'[m] = Append(wire[m], on)
      BY <1>2, <1>3, <1>5a, <1>6, <3>1, <3>3, PositiveRows, SMTT(20)
    <3>4. CASE /\ q[s].state = "NO" /\ q'[s].state = "NO"
               /\ wire'[m] = Append(wire[m], off)
      BY <1>2, <1>3, <1>5a, <1>6, <3>1, <3>4, PositiveRows, SMTT(20)
    <3>5. CASE /\ q[s].state = "WANTYES" /\ q'[s].state = "YES"
               /\ wire'[m] = wire[m]
      BY <1>2, <1>3, <1>5a, <1>6, <3>1, <3>5, PositiveRows, SMTT(20)
    <3>6. CASE /\ q[s].state = "WANTYES" /\ q'[s].state = "WANTNO"
               /\ wire'[m] = Append(wire[m], off)
      BY <1>2, <1>3, <1>5a, <1>6, <3>1, <3>6, PositiveRows
    <3>. QED
      BY <2>1, <3>2, <3>3, <3>4, <3>5, <3>6
  <2>. QED
    BY <1>0, <1>5, <2>2, OtherLinks, ZenonT(30) DEF LinkOf, Link
<1>7. CASE ~ positive(Head(wire[s]))
  <2>1. \/ q[s].state = "NO"
        \/ /\ q[s].state = "YES" /\ q'[s].state = "NO"
           /\ wire'[m] = Append(wire[m], off)
        \/ /\ q[s].state = "WANTNO" /\ q'[s].state = "NO"
           /\ wire'[m] = wire[m]
        \/ /\ q[s].state = "WANTNO" /\ q'[s].state = "WANTYES"
           /\ wire'[m] = Append(wire[m], on)
        \/ /\ q[s].state = "WANTYES" /\ q'[s].state = "NO"
           /\ wire'[m] = wire[m]
    BY <1>0, <1>1, <1>4, <1>7, SMTT(20) DEF telnet_q_receive, receive_negative,
                            Becomes, Stays, Consumes, Answers
  <2>2. Holds(on, off, mate_on, mate_off, q'[s].state, wire'[s], q'[m].state, wire'[m])
    <3>1. q'[m].state = q[m].state
      BY <1>1, <1>5
    <3>. HIDE DEF on, off, mate_on, mate_off, m
    <3>2. CASE q[s].state = "NO"
      BY <1>2, <1>3, <1>5a, <1>7, <3>2, NegativeRows, SMTT(30)
    <3>3. CASE /\ q[s].state = "YES" /\ q'[s].state = "NO"
               /\ wire'[m] = Append(wire[m], off)
      BY <1>2, <1>3, <1>5a, <1>7, <3>1, <3>3, NegativeRows, SMTT(30)
    <3>4. CASE /\ q[s].state = "WANTNO" /\ q'[s].state = "NO"
               /\ wire'[m] = wire[m]
      BY <1>2, <1>3, <1>5a, <1>7, <3>1, <3>4, NegativeRows, SMTT(30)
    <3>5. CASE /\ q[s].state = "WANTNO" /\ q'[s].state = "WANTYES"
               /\ wire'[m] = Append(wire[m], on)
      BY <1>2, <1>3, <1>5a, <1>7, <3>1, <3>5, NegativeRows, SMTT(30)
    <3>6. CASE /\ q[s].state = "WANTYES" /\ q'[s].state = "NO"
               /\ wire'[m] = wire[m]
      BY <1>2, <1>3, <1>5a, <1>7, <3>1, <3>6, NegativeRows
    <3>. QED
      BY <2>1, <3>2, <3>3, <3>4, <3>5, <3>6, ZenonT(30)
  <2>. QED
    BY <1>0, <1>5, <2>2, OtherLinks, ZenonT(30) DEF LinkOf, Link
<1>. QED
  BY <1>6, <1>7

\* Every link between two ends that run telnet_negotiation.c stays in one of
\* the listed situations, whatever foreign peers send on other links.
LEMMA LinkStep == LinkInv /\ [Next]_vars => LinkInv'
<1>. SUFFICES ASSUME LinkInv, [Next]_vars PROVE LinkInv'
  OBVIOUS
<1>1. TypeOK /\ TypeOK'
  BY TypeStep DEF LinkInv
<1>2. ASSUME NEW s \in Requests, NEW enable \in BOOLEAN, telnet_q_request(s, enable)
      PROVE  \A t \in Linked : LinkOf(t)'
  <2>1. s \in Slot
    BY SlotAssumption
  <2>2. OnlyTouches(s)
    BY <1>1, <1>2, <2>1, StepsTouchOne
  <2>3. CASE s \in Linked
    BY <1>2, <2>3, RequestKeepsLinks
  <2>4. CASE s \notin Linked
    BY <2>1, <2>2, <2>4, OtherLinks
  <2>. QED BY <2>3, <2>4
<1>3. ASSUME NEW s \in Slot, telnet_q_receive(s)
      PROVE  \A t \in Linked : LinkOf(t)'
  <2>1. OnlyTouches(s)
    BY <1>1, <1>3, StepsTouchOne
  <2>2. CASE s \in Linked
    BY <1>3, <2>2, ReceiveKeepsLinks
  <2>3. CASE s \notin Linked
    BY <2>1, <2>3, OtherLinks
  <2>. QED BY <2>2, <2>3
<1>4. ASSUME NEW s \in Slot \ Ours, foreign_peer(s)
      PROVE  \A t \in Linked : LinkOf(t)'
  <2>1. OnlyTouches(s)
    BY <1>1, <1>4, StepsTouchOne
  <2>2. s \notin Linked
    BY DEF Linked
  <2>. QED BY <2>1, <2>2, OtherLinks
<1>5. CASE UNCHANGED vars
  <2>1. q' = q /\ wire' = wire
    BY <1>5 DEF vars
  <2>2. \A t \in Linked : LinkOf(t)
    BY DEF LinkInv
  <2>3. \A t \in Linked : LinkOf(t)'
    BY <2>1, <2>2, ZenonT(30) DEF LinkOf
  <2>. QED
    BY <1>1, <2>3 DEF LinkInv
<1>. QED
  BY <1>1, <1>2, <1>3, <1>4, <1>5 DEF Next, LinkInv, Ours

\* Every link starts in the first situation: off, off, nothing in flight.
LEMMA LinkInit == Init => LinkInv
<1>. SUFFICES ASSUME Init PROVE LinkInv
  OBVIOUS
<1>1. ASSUME NEW s \in Linked PROVE LinkOf(s)
  <2>1. s \in Slot /\ Mate(s) \in Slot
    BY MateFacts, LinkedFacts, Zenon
  <2>2. q[s].state = "NO" /\ q[Mate(s)].state = "NO" /\ wire[s] = <<>> /\ wire[Mate(s)] = <<>>
    BY <2>1 DEF Init, telnet_q_init
  <2>. QED
    BY <2>2, Zenon DEF LinkOf, Link, Holds
<1>. QED
  BY <1>1, TypeInit, Zenon DEF LinkInv

\* What the list of situations says of one end.
LEMMA LinkShape ==
    ASSUME NEW on \in Command, NEW off \in Command,
           NEW mate_on \in Command, NEW mate_off \in Command, ~ positive(mate_off),
           NEW a, NEW x, NEW b, NEW y,
           Holds(on, off, mate_on, mate_off, a, x, b, y)
    PROVE  /\ Len(x) <= 2
           /\ x = <<>> /\ y = <<>> => a = b /\ a \in {"NO", "YES"}
           /\ x # <<>> /\ positive(Head(x)) => a # "WANTNO"
<1>1. Len(x) <= 2
  <2>1. x \in {<<>>, <<mate_on>>, <<mate_off>>, <<mate_on, mate_off>>, <<mate_off, mate_on>>}
    BY DEF Holds
  <2>2. /\ Len(<<>>) = 0 /\ Len(<<mate_on>>) = 1 /\ Len(<<mate_off>>) = 1
        /\ Len(<<mate_on, mate_off>>) = 2 /\ Len(<<mate_off, mate_on>>) = 2
    OBVIOUS
  <2>3. Len(x) = 0 \/ Len(x) = 1 \/ Len(x) = 2
    BY <2>1, <2>2, Zenon
  <2>. DEFINE n == Len(x)
  <2>4. n \in {0, 1, 2}
    BY <2>3
  <2>. HIDE DEF n
  <2>5. n <= 2
    BY <2>4
  <2>. QED
    BY <2>5 DEF n
<1>2. x = <<>> /\ y = <<>> => a = b /\ a \in {"NO", "YES"}
  BY DEF Holds
<1>3. ASSUME x # <<>>, positive(Head(x)), a = "WANTNO"
      PROVE  FALSE
  <2>1. Holds(on, off, mate_on, mate_off, "WANTNO", x, b, y)
    BY <1>3, ZenonT(30)
  <2>. QED
    BY <1>3, <2>1, PositiveRows, Zenon
<1>. QED
  BY <1>1, <1>2, <1>3

\* The same, read off the invariant for every slot.
LEMMA LinkInvShape ==
    ASSUME LinkInv, NEW s \in Linked
    PROVE  /\ Len(wire[s]) <= 2
           /\ Settled(s) => /\ q[s].state = q[Mate(s)].state
                            /\ q[s].state \in {"NO", "YES"}
           /\ wire[s] # <<>> /\ positive(Head(wire[s])) => q[s].state # "WANTNO"
<1>. DEFINE on == enable_command(s[2])
            off == disable_command(s[2])
            mate_on == enable_command(Opposite(s[2]))
            mate_off == disable_command(Opposite(s[2]))
<1>1. s[2] \in {"local", "remote"} /\ Opposite(s[2]) \in {"local", "remote"}
  BY LinkedFacts, MateFacts DEF Opposite
<1>2. /\ on \in Command /\ off \in Command
      /\ mate_on \in Command /\ mate_off \in Command /\ ~ positive(mate_off)
  BY <1>1, CommandFacts, SMTT(20)
<1>3. Holds(on, off, mate_on, mate_off,
            q[s].state, wire[s], q[Mate(s)].state, wire[Mate(s)])
  BY DEF LinkInv, LinkOf, Link
<1>. HIDE DEF on, off, mate_on, mate_off
<1>. QED
  BY <1>2, <1>3, LinkShape DEF Settled

\* For every set of options and whatever the owners accept and request, two
\* ends of the negotiator agree on an option as soon as nothing about it is in
\* flight, whatever foreign peers do on other connections.
THEOREM AgreementHolds == Spec => []Agreement
<1>1. LinkInv => Agreement
  <2>. SUFFICES ASSUME LinkInv, NEW s \in Linked, Settled(s)
                PROVE  q[s] = q[Mate(s)] /\ q[s].state \in {"NO", "YES"}
    BY DEF Agreement
  <2>1. Mate(s) \in Slot /\ q[s] \in Side /\ q[Mate(s)] \in Side
    BY LinkedFacts, MateFacts DEF LinkInv, TypeOK
  <2>2. q[s].state = q[Mate(s)].state /\ q[s].state \in {"NO", "YES"}
    BY LinkInvShape
  <2>3. q[s].queued = FALSE /\ q[Mate(s)].queued = FALSE
    BY <2>1, <2>2, LinkedFacts DEF LinkInv, TypeOK, Side
  <2>. QED
    BY <2>1, <2>2, <2>3 DEF Side
<1>. QED
  BY <1>1, LinkInit, LinkStep, PTL DEF Spec

\* Two of these negotiators never meet RFC 1143's error row.
THEOREM NoErrorRowHolds == Spec => []NoErrorRow
<1>1. LinkInv => NoErrorRow
  BY LinkInvShape DEF NoErrorRow
<1>. QED
  BY <1>1, LinkInit, LinkStep, PTL DEF Spec

\* Replies do not pile up: two commands about an option at most are under
\* way to one end, however many requests the owners make.
THEOREM BoundedBacklogHolds == Spec => []BoundedBacklog
<1>1. LinkInv => BoundedBacklog
  BY LinkInvShape, ZenonT(30) DEF BoundedBacklog
<1>. QED
  BY <1>1, LinkInit, LinkStep, PTL DEF Spec

-----------------------------------------------------------------------------
\* The state of a side and the value its owner asked for last: a queued
\* change of mind leads back to that value.
EchoInv ==
    /\ TypeOK
    /\ \A s \in Echo \cap Ours :
          /\ q[s].state = "YES" => desired[s]
          /\ q[s].state = "WANTYES" => (desired[s] <=> ~ q[s].queued)
          /\ q[s].state = "WANTNO" => (desired[s] <=> q[s].queued)

\* One side that satisfies EchoInv's second conjunct.
Tracks(side, wanted) ==
    /\ side.state = "YES" => wanted
    /\ side.state = "WANTYES" => (wanted <=> ~ side.queued)
    /\ side.state = "WANTNO" => (wanted <=> side.queued)

\* Every step keeps the state of ECHO on our side in line with the wish of the
\* dialogue, a queued change of mind included.
LEMMA EchoStep == Echo \cap Accepts = {} /\ EchoInv /\ [Next]_vars => EchoInv'
<1>. SUFFICES ASSUME Echo \cap Accepts = {}, EchoInv, [Next]_vars,
                     NEW s \in Echo \cap Ours
              PROVE  Tracks(q'[s], desired'[s])
  BY TypeStep DEF EchoInv, Tracks
<1>1. /\ s \in Slot /\ s \notin Accepts /\ Tracks(q[s], desired[s])
      /\ q \in [Slot -> Side] /\ desired \in [Slot -> BOOLEAN]
  BY SlotAssumption DEF EchoInv, Tracks, TypeOK
<1>2. q[s] \in Side /\ desired[s] \in BOOLEAN
  BY <1>1
<1>3. ASSUME NEW t \in Slot, t # s, NEW enable \in BOOLEAN,
             telnet_q_request(t, enable)
      PROVE  Tracks(q'[s], desired'[s])
  <2>1. q'[s] = q[s] /\ desired'[s] = desired[s]
    BY <1>1, <1>3 DEF telnet_q_request, request_enable, request_disable,
       Becomes, Stays
  <2>. QED
    BY <1>1, <2>1
<1>4. ASSUME NEW enable \in BOOLEAN, telnet_q_request(s, enable)
      PROVE  Tracks(q'[s], desired'[s])
  <2>1. desired'[s] = enable
    BY <1>1, <1>4, ZenonT(30) DEF telnet_q_request
  <2>2. CASE enable
    <3>1. \/ q'[s] = q[s] /\ q[s].state = "YES"
          \/ q'[s] = [state |-> "WANTYES", queued |-> FALSE]
          \/ q'[s] = [state |-> "WANTNO", queued |-> TRUE]
      BY <1>1, <1>4, <2>2, Zenon DEF telnet_q_request, request_enable, Becomes, Stays
    <3>. QED
      BY <2>1, <2>2, <3>1 DEF Tracks
  <2>3. CASE ~ enable
    <3>1. \/ q'[s] = q[s] /\ q[s].state = "NO"
          \/ q'[s] = [state |-> "WANTNO", queued |-> FALSE]
          \/ q'[s] = [state |-> "WANTYES", queued |-> TRUE]
      BY <1>1, <1>4, <2>3, Zenon DEF telnet_q_request, request_disable, Becomes, Stays
    <3>. QED
      BY <2>1, <2>3, <3>1 DEF Tracks
  <2>. QED
    BY <2>2, <2>3
<1>5. ASSUME NEW t \in Slot, t # s, telnet_q_receive(t)
      PROVE  Tracks(q'[s], desired'[s])
  <2>1. q'[s] = q[s] /\ desired'[s] = desired[s]
    BY <1>1, <1>5, Zenon DEF telnet_q_receive, receive_positive, receive_negative,
                      Becomes, Stays
  <2>. QED
    BY <1>1, <2>1
<1>6. ASSUME telnet_q_receive(s)
      PROVE  Tracks(q'[s], desired'[s])
  <2>1. desired'[s] = desired[s]
    BY <1>6, ZenonT(30) DEF telnet_q_receive
  <2>2. CASE positive(Head(wire[s]))
    <3>1. \/ q'[s] = q[s]
          \/ desired[s] /\ q'[s] = [state |-> "YES", queued |-> FALSE]
          \/ q'[s] = [state |-> "NO", queued |-> FALSE]
          \/ ~ desired[s] /\ q'[s] = [state |-> "WANTNO", queued |-> FALSE]
      BY <1>1, <1>2, <1>6, <2>2, Zenon
         DEF telnet_q_receive, receive_positive, q_accept_callback, Becomes,
             Stays, Tracks, Side
    <3>. QED
      BY <1>1, <2>1, <3>1, SMTT(20) DEF Tracks
  <2>3. CASE ~ positive(Head(wire[s]))
    <3>1. \/ q'[s] = q[s]
          \/ q'[s] = [state |-> "NO", queued |-> FALSE]
          \/ desired[s] /\ q'[s] = [state |-> "WANTYES", queued |-> FALSE]
      BY <1>1, <1>2, <1>6, <2>3, Zenon
         DEF telnet_q_receive, receive_negative, Becomes, Stays, Tracks, Side
    <3>. QED
      BY <1>1, <2>1, <3>1, SMTT(20) DEF Tracks
  <2>. QED
    BY <2>2, <2>3
<1>7. ASSUME NEW t \in Slot, foreign_peer(t)
      PROVE  Tracks(q'[s], desired'[s])
  BY <1>1, <1>7 DEF foreign_peer
<1>8. CASE UNCHANGED vars
  BY <1>1, <1>8 DEF vars
<1>. QED
  BY <1>1, <1>3, <1>4, <1>5, <1>6, <1>7, <1>8, SlotAssumption, ZenonT(30)
     DEF Next, Ours

\* Whatever the client sends, conforming or not, the server takes itself to
\* be echoing only while the login dialogue hides a password.
THEOREM EchoOnlyWhenDesiredHolds ==
    ASSUME Echo \cap Accepts = {}
    PROVE  Spec => []EchoOnlyWhenDesired
<1>1. Init => EchoInv
  BY TypeInit, SlotAssumption, SMTT(20) DEF Init, EchoInv, telnet_q_init
<1>2. EchoInv => EchoOnlyWhenDesired
  BY DEF EchoInv, EchoOnlyWhenDesired, telnet_q_enabled
<1>. QED
  BY <1>1, <1>2, EchoStep, PTL DEF Spec

-----------------------------------------------------------------------------
\* TelnetSession.

\* The dialogue together with the application.
LoginInv ==
    /\ login \in LoginStates
    /\ EchoMatchesLogin
    /\ session # "destroyed" => (pending_password <=> login = "LOGIN_CONFIRM_PASSWORD")
    /\ login # "LOGIN_NAME" => player_name # None
    /\ login = "LOGIN_IN_GAME" => proved = player_name
    /\ application = "open" => login = "LOGIN_IN_GAME"

\* A line fits the limit of the state it is typed in.
LineInv == line_length \in Nat /\ line_length <= Limit

\* Framing keeps to its limits.
FramingInv ==
    /\ subnegotiation_length \in Nat
    /\ subnegotiation_length <= SUBNEGOTIATION_MAX_BYTES
    /\ protocol_violations \in Nat /\ protocol_violations <= PROTOCOL_VIOLATION_LIMIT
    /\ protocol_violations = PROTOCOL_VIOLATION_LIMIT => close_requested

\* How many early messages are kept.
Kept == IF early < PENDING_GMCP_CORE_MAX THEN early ELSE PENDING_GMCP_CORE_MAX

\* Until the application opens, all messages are early and the first of them
\* are in the queue.
GmcpInv ==
    /\ early \in Nat /\ received \in Nat /\ early <= received
    /\ application \in {"none", "open", "closed"}
    /\ application = "closed" => session = "destroyed"
    /\ application = "none" =>
           /\ received = early /\ delivered = <<>>
           /\ pending_gmcp_core = [i \in 1 .. Kept |-> i]
    /\ application # "none" => pending_gmcp_core = <<>>
    /\ EarlyGmcpKept

-----------------------------------------------------------------------------
\* A step that leaves the dialogue and the application alone.
LEMMA LoginKept ==
    ASSUME LoginInv, UNCHANGED <<dialogue, application>>, session # "destroyed"
    PROVE  LoginInv'
BY DEF LoginInv, dialogue, EchoMatchesLogin

\* Entering the game with the password of the name just shown.
LEMMA EnterGameStep ==
    ASSUME LoginInv, login \in PasswordStates, proved' = player_name, enter_game
    PROVE  LoginInv'
BY ZenonT(30) DEF LoginInv, enter_game, EchoMatchesLogin, password_echo_on,
   LoginStates,
       PasswordStates, seam, hook, request_close

\* A complete line, in every state of the dialogue.
LEMMA LineStep ==
    ASSUME LoginInv, session = "started", session' = session, process_complete_line
    PROVE  LoginInv'
<1>. USE DEF LoginInv, EchoMatchesLogin, LoginStates, PasswordStates
<1>1. CASE UNCHANGED <<dialogue, seam>>
  BY <1>1, LoginKept DEF seam
<1>2. CASE too_long /\ UNCHANGED seam
  BY <1>2 DEF too_long, AskNewPassword, Stay, dialogue, seam
<1>3. CASE login = "LOGIN_NAME" /\ process_player_name
  BY <1>3, SessionAssumption DEF process_player_name, Stay, dialogue, seam,
     password_echo_off
<1>4. CASE login = "LOGIN_PASSWORD" /\ process_existing_password
  <2>1. CASE proved' = player_name /\ enter_game
    BY <1>4, <2>1, EnterGameStep
  <2>. QED
    BY <1>4, <2>1, LoginKept DEF process_existing_password, Stay, seam
<1>5. CASE login = "LOGIN_NEW_PASSWORD" /\ process_new_password
  <2>1. CASE UNCHANGED <<dialogue, seam>>
    BY <2>1, LoginKept DEF seam
  <2>2. CASE StartOver /\ UNCHANGED seam
    BY <1>5, <2>2 DEF StartOver, password_echo_on, seam
  <2>3. CASE /\ login' = "LOGIN_CONFIRM_PASSWORD" /\ pending_password' = TRUE
             /\ UNCHANGED <<player_name, echo_desired, proved, seam>>
    BY <1>5, <2>3 DEF seam
  <2>. QED
    BY <1>5, <2>1, <2>2, <2>3, Zenon DEF process_new_password, Stay, seam
<1>6. CASE login = "LOGIN_CONFIRM_PASSWORD" /\ process_password_confirmation
  <2>1. CASE proved' = player_name /\ enter_game
    BY <1>6, <2>1, EnterGameStep
  <2>2. CASE (AskNewPassword \/ StartOver) /\ UNCHANGED seam
    BY <1>6, <2>2, Zenon DEF AskNewPassword, StartOver, password_echo_on, seam
  <2>. QED
    BY <1>6, <2>1, <2>2 DEF process_password_confirmation
<1>7. CASE login = "LOGIN_IN_GAME" /\ process_command
  BY <1>7, <1>1 DEF process_command
<1>. QED
  BY <1>1, <1>2, <1>3, <1>4, <1>5, <1>6, <1>7, ZenonT(30) DEF process_complete_line

\* A byte of data.
LEMMA DataStep ==
    ASSUME LoginInv, session = "started", session' = session,
           NEW byte, receive_data_byte(byte)
    PROVE  LoginInv'
<1>1. CASE process_complete_line
  BY <1>1, LineStep
<1>2. CASE UNCHANGED <<dialogue, seam>>
  BY <1>2, LoginKept DEF seam
<1>. QED
  BY <1>1, <1>2 DEF receive_data_byte

\* A command that is not about an option.
LEMMA ControlStep ==
    ASSUME LoginInv, session = "started", session' = session,
           NEW byte, handle_control_command(byte), UNCHANGED seam
    PROVE  LoginInv'
<1>1. CASE interrupt_current_input
  BY <1>1 DEF interrupt_current_input, AskNewPassword, Stay, LoginInv,
     EchoMatchesLogin,
              LoginStates, PasswordStates, dialogue, seam
<1>2. CASE UNCHANGED dialogue
  BY <1>2, LoginKept DEF seam
<1>. QED
  BY <1>1, <1>2 DEF handle_control_command

\* What follows SB changes neither the dialogue nor whether the application is
\* open.
LEMMA SubnegotiationStep ==
    ASSUME finish_subnegotiation
    PROVE  UNCHANGED application
BY DEF finish_subnegotiation, handle_gmcp, seam

\* Any byte.
LEMMA FeedStep ==
    ASSUME LoginInv, NEW byte \in Byte, feed(byte)
    PROVE  LoginInv'
<1>a. session = "started" /\ session' = session
  BY DEF feed
<1>1. CASE parser_data(byte)
  BY <1>1, <1>a, DataStep, LoginKept DEF parser_data, seam
<1>2. CASE parser_iac(byte)
  BY <1>2, <1>a, DataStep, ControlStep, LoginKept, ZenonT(30) DEF parser_iac, seam
<1>3. CASE parser_option \/ parser_sb_option \/ parser_sb_data(byte)
  BY <1>3, <1>a, LoginKept, ZenonT(30) DEF parser_option, parser_sb_option,
     parser_sb_data, seam
<1>4. CASE parser_sb_iac(byte)
  BY <1>4, <1>a, SubnegotiationStep, LoginKept DEF parser_sb_iac, seam
<1>. QED
  BY <1>1, <1>2, <1>3, <1>4 DEF feed

\* The dialogue and the application stay consistent in every step.
LEMMA LoginStep == LoginInv /\ [SessionNext]_session_vars => LoginInv'
<1>. SUFFICES ASSUME LoginInv, [SessionNext]_session_vars PROVE LoginInv'
  OBVIOUS
<1>1. CASE start
  BY <1>1, LoginKept DEF start, seam
<1>2. ASSUME NEW byte \in Byte, feed(byte) PROVE LoginInv'
  BY <1>2, FeedStep
<1>3. CASE byte_flood \/ poll
  BY <1>3, LoginKept DEF byte_flood, poll, seam
<1>4. CASE destroy
  BY <1>4 DEF destroy, LoginInv, EchoMatchesLogin
<1>5. CASE UNCHANGED session_vars
  BY <1>5 DEF session_vars, dialogue, seam, LoginInv, EchoMatchesLogin
<1>. QED
  BY <1>1, <1>2, <1>3, <1>4, <1>5 DEF SessionNext

\* telnet_session_create leaves a session at the name prompt.
LEMMA LoginInit == SessionInit => LoginInv
BY DEF SessionInit, LoginInv, LoginStates, PasswordStates, EchoMatchesLogin

\* The dialogue's invariant holds in every behaviour.
THEOREM LoginCorrect == SessionSpec => []LoginInv
BY LoginInit, LoginStep, PTL DEF SessionSpec

\* On every way into and out of the password prompts, what is typed is hidden
\* exactly while a password is asked for.
THEOREM EchoMatchesLoginHolds == SessionSpec => []EchoMatchesLogin
<1>1. LoginInv => EchoMatchesLogin
  BY DEF LoginInv
<1>. QED
  BY <1>1, LoginCorrect, PTL

\* A prepared password is held exactly while its confirmation is awaited,
\* whatever interrupts account creation.
THEOREM TokenWhileConfirmingHolds == SessionSpec => []TokenWhileConfirming
<1>1. LoginInv => TokenWhileConfirming
  BY DEF LoginInv, TokenWhileConfirming
<1>. QED
  BY <1>1, LoginCorrect, PTL

\* The application talks only to somebody who has shown the password of the
\* name they play under.
THEOREM InGameVerifiedHolds == SessionSpec => []InGameVerified
<1>1. LoginInv => InGameVerified
  BY DEF LoginInv, InGameVerified
<1>. QED
  BY <1>1, LoginCorrect, PTL

-----------------------------------------------------------------------------
\* A step that leaves the line and the state it is typed in alone.
LEMMA LineKept ==
    ASSUME LineInv, UNCHANGED <<line_length, login>>
    PROVE  LineInv'
BY DEF LineInv, Limit

\* An erased line fits any limit.
LEMMA LineErased ==
    ASSUME line_length' = 0
    PROVE  LineInv'
BY SessionAssumption DEF LineInv, Limit

\* Erasing a character.
LEMMA LineShortened ==
    ASSUME LineInv, line_length' = Shorten(line_length), login' = login
    PROVE  LineInv'
BY SessionAssumption DEF LineInv, Limit, Shorten

\* A character is taken only while there is room for it.
LEMMA AppendStep ==
    ASSUME LineInv, login' = login, NEW byte, append_line_byte(byte)
    PROVE  LineInv'
<1>1. CASE line_length' = line_length + 1 /\ ~(line_length >= Limit)
  BY <1>1, SessionAssumption DEF LineInv, Limit
<1>. QED
  BY <1>1, LineKept, LineShortened, ZenonT(30) DEF append_line_byte

\* A byte of data.
LEMMA DataLineStep ==
    ASSUME LineInv, NEW byte, receive_data_byte(byte)
    PROVE  LineInv'
BY LineKept, LineErased, AppendStep, ZenonT(30)
   DEF receive_data_byte, process_complete_line, dialogue

\* A command that is not about an option.
LEMMA ControlLineStep ==
    ASSUME LineInv, NEW byte, handle_control_command(byte)
    PROVE  LineInv'
BY LineKept, LineErased, LineShortened
   DEF handle_control_command, interrupt_current_input, clear_current_input, input, dialogue

\* The line fits in every step.
LEMMA LineStepKept == LineInv /\ [SessionNext]_session_vars => LineInv'
<1>. SUFFICES ASSUME LineInv, [SessionNext]_session_vars PROVE LineInv'
  OBVIOUS
<1>1. ASSUME NEW byte \in Byte, feed(byte) PROVE LineInv'
  <2>1. CASE parser_data(byte)
    BY <2>1, DataLineStep, LineKept DEF parser_data, input, dialogue
  <2>2. CASE parser_iac(byte)
    BY <2>2, DataLineStep, ControlLineStep, LineKept, ZenonT(30)
       DEF parser_iac, input, dialogue
  <2>3. CASE parser_option \/ parser_sb_option \/ parser_sb_data(byte) \/ parser_sb_iac(byte)
    BY <2>3, LineKept, ZenonT(30)
       DEF parser_option, parser_sb_option, parser_sb_data, parser_sb_iac, input, dialogue
  <2>. QED
    BY <1>1, <2>1, <2>2, <2>3 DEF feed
<1>2. CASE start \/ byte_flood \/ poll \/ destroy \/ UNCHANGED session_vars
  BY <1>2, LineKept DEF start, byte_flood, poll, destroy, session_vars, input,
     dialogue
<1>. QED
  BY <1>1, <1>2 DEF SessionNext

-----------------------------------------------------------------------------
\* A violation is counted only in a session that goes on.
LEMMA ViolationStep ==
    ASSUME FramingInv, ~close_requested, note_protocol_violation
    PROVE  /\ protocol_violations' \in Nat
           /\ protocol_violations' <= PROTOCOL_VIOLATION_LIMIT
           /\ protocol_violations' = PROTOCOL_VIOLATION_LIMIT => close_requested'
<1>1. protocol_violations # PROTOCOL_VIOLATION_LIMIT
  BY DEF FramingInv
<1>2. protocol_violations' \in Nat /\ protocol_violations' <= PROTOCOL_VIOLATION_LIMIT
  BY <1>1, SessionAssumption DEF FramingInv, note_protocol_violation
<1>3. ASSUME protocol_violations' = PROTOCOL_VIOLATION_LIMIT PROVE close_requested'
  <2>1. protocol_violations' >= PROTOCOL_VIOLATION_LIMIT
    BY <1>3, SessionAssumption
  <2>2. close_requested' = (protocol_violations' >= PROTOCOL_VIOLATION_LIMIT)
    BY DEF note_protocol_violation
  <2>. QED
    BY <2>1, <2>2, Zenon
<1>. QED
  BY <1>2, <1>3

\* A session that goes on is below the limit of violations.
LEMMA NoViolation ==
    ASSUME FramingInv, ~close_requested, UNCHANGED protocol_violations
    PROVE  /\ protocol_violations' \in Nat
           /\ protocol_violations' <= PROTOCOL_VIOLATION_LIMIT
           /\ protocol_violations' = PROTOCOL_VIOLATION_LIMIT => close_requested'
BY DEF FramingInv

\* Collecting a byte of a subnegotiation.
LEMMA CollectStep ==
    ASSUME FramingInv, Collect
    PROVE  /\ subnegotiation_length' \in Nat
           /\ subnegotiation_length' <= SUBNEGOTIATION_MAX_BYTES
BY SessionAssumption DEF FramingInv, Collect

\* Framing keeps to its limits in every step.
LEMMA FramingStep == FramingInv /\ [SessionNext]_session_vars => FramingInv'
<1>. SUFFICES ASSUME FramingInv, [SessionNext]_session_vars PROVE FramingInv'
  OBVIOUS
<1>. DEFINE Sub == /\ subnegotiation_length' \in Nat
                   /\ subnegotiation_length' <= SUBNEGOTIATION_MAX_BYTES
            Vio == /\ protocol_violations' \in Nat
                   /\ protocol_violations' <= PROTOCOL_VIOLATION_LIMIT
                   /\ protocol_violations' = PROTOCOL_VIOLATION_LIMIT => close_requested'
<1>a. Sub /\ Vio => FramingInv'
  BY DEF FramingInv
<1>b. UNCHANGED subnegotiation_length \/ subnegotiation_length' = 0 => Sub
  BY SessionAssumption DEF FramingInv
<1>1. ASSUME NEW byte \in Byte, feed(byte) PROVE Sub /\ Vio
  <2>. ~close_requested
    BY <1>1 DEF feed
  <2>1. CASE parser_data(byte)
    BY <2>1, <1>b, NoViolation, ZenonT(30) DEF parser_data
  <2>2. CASE parser_iac(byte)
    BY <2>2, <1>b, NoViolation, ViolationStep, ZenonT(30) DEF parser_iac,
       handle_control_command
  <2>3. CASE parser_option \/ parser_sb_option
    BY <2>3, <1>b, NoViolation DEF parser_option, parser_sb_option
  <2>4. CASE parser_sb_data(byte)
    BY <2>4, <1>b, NoViolation, CollectStep DEF parser_sb_data
  <2>5. CASE parser_sb_iac(byte)
    BY <2>5, <1>b, NoViolation, ViolationStep, CollectStep, ZenonT(30)
       DEF parser_sb_iac, finish_subnegotiation
  <2>. QED
    BY <1>1, <2>1, <2>2, <2>3, <2>4, <2>5 DEF feed
<1>2. CASE start \/ byte_flood \/ poll \/ destroy \/ UNCHANGED session_vars
  BY <1>2 DEF start, byte_flood, poll, destroy, session_vars, framing,
     request_close, hook, FramingInv
<1>. QED
  BY <1>a, <1>1, <1>2 DEF SessionNext

-----------------------------------------------------------------------------
\* The length of the queue is a number.
LEMMA QueueMaxType == PENDING_GMCP_CORE_MAX \in Nat
BY SessionAssumption

\* A step that leaves the application and the messages alone.
LEMMA GmcpKept ==
    ASSUME GmcpInv, UNCHANGED seam, session' = session \/ session = "created"
    PROVE  GmcpInv'
BY Zenon DEF GmcpInv, seam, EarlyGmcpKept, Kept

\* The application opens and is given the queue.
LEMMA OpenStep ==
    ASSUME GmcpInv, application = "none", application' = "open",
           replay_pre_auth_gmcp_core, pending_gmcp_core' = <<>>, UNCHANGED <<early, received>>
    PROVE  GmcpInv'
<1>1. Kept \in Nat
  BY SessionAssumption DEF Kept, GmcpInv
<1>2. delivered' = [i \in 1 .. Kept |-> i]
  BY <1>1 DEF GmcpInv, replay_pre_auth_gmcp_core
<1>3. delivered' = [i \in 1 .. Kept + (received - early) |->
                        IF i <= Kept THEN i ELSE early + (i - Kept)]
  BY <1>1, <1>2 DEF GmcpInv
<1>. QED
  BY <1>3 DEF GmcpInv, EarlyGmcpKept, Kept

\* Entering the game.
LEMMA EnterGmcpStep ==
    ASSUME GmcpInv, LoginInv, login \in PasswordStates, session = "started",
           session' = session, enter_game
    PROVE  GmcpInv'
<1>1. application = "none"
  BY DEF GmcpInv, LoginInv, PasswordStates
<1>. QED
  BY <1>1, OpenStep, GmcpKept DEF enter_game

\* A message for an open application.
LEMMA DeliverStep ==
    ASSUME GmcpInv, application = "open", UNCHANGED <<application, pending_gmcp_core, early>>,
           received' = received + 1, delivered' = Append(delivered, received')
    PROVE  GmcpInv'
<1>. DEFINE N == Kept + (received - early)
            D == [i \in 1 .. N |-> IF i <= Kept THEN i ELSE early + (i - Kept)]
            E == [i \in 1 .. N + 1 |-> IF i <= Kept THEN i ELSE early + (i - Kept)]
<1>a. early \in Nat /\ received \in Nat /\ early <= received
  BY DEF GmcpInv
<1>b. Kept \in Nat /\ Kept <= early
  BY <1>a, QueueMaxType DEF Kept
<1>1. Kept \in Nat /\ N \in Nat /\ Kept <= early
  BY <1>a, <1>b
<1>2. delivered = D
  BY Zenon DEF GmcpInv, EarlyGmcpKept, Kept
<1>3. D \in Seq(Nat) /\ Len(D) = N
  BY <1>1 DEF GmcpInv
<1>4. Append(D, received + 1) = E
  <2>1. E \in Seq(Nat) /\ Len(E) = N + 1
    BY <1>1 DEF GmcpInv
  <2>2. E[N + 1] = received + 1
    BY <1>1 DEF GmcpInv
  <2>3. \A i \in 1 .. N : E[i] = D[i]
    BY <1>1
  <2>. QED
    BY <1>1, <1>3, <2>1, <2>2, <2>3 DEF GmcpInv
<1>5. Kept' = Kept /\ Kept + (received' - early') = N + 1
  BY <1>1 DEF Kept, GmcpInv
<1>6. delivered' = E
  BY <1>2, <1>4, Zenon
<1>7. EarlyGmcpKept'
  BY <1>5, <1>6, Zenon DEF EarlyGmcpKept, Kept
<1>. QED
  BY <1>7 DEF GmcpInv

\* A message that comes too early.
LEMMA QueueStep ==
    ASSUME GmcpInv, application = "none", UNCHANGED <<application, delivered>>,
           received' = received + 1, early' = early + 1, queue_pre_auth_gmcp_core
    PROVE  GmcpInv'
<1>. DEFINE D == [i \in 1 .. Kept |-> i]
<1>1. Kept \in Nat /\ D \in Seq(Nat) /\ Len(D) = Kept /\ pending_gmcp_core = D
  BY SessionAssumption DEF Kept, GmcpInv
<1>2. CASE early < PENDING_GMCP_CORE_MAX
  <2>1. Kept = early /\ Kept' = early + 1 /\ early \in Nat /\ received = early
    <3>1. early \in Nat /\ received = early
      BY DEF GmcpInv
    <3>. QED
      BY <1>2, <3>1, QueueMaxType DEF Kept
  <2>2. pending_gmcp_core' = Append(D, early + 1)
    BY <1>1, <1>2, <2>1 DEF queue_pre_auth_gmcp_core
  <2>3. Append(D, early + 1) = [i \in 1 .. early + 1 |-> i]
    BY <1>1, <2>1
  <2>. QED
    BY <2>1, <2>2, <2>3 DEF GmcpInv, EarlyGmcpKept
<1>3. CASE ~(early < PENDING_GMCP_CORE_MAX)
  <2>1. Kept = PENDING_GMCP_CORE_MAX /\ Kept' = Kept
    BY <1>3, SessionAssumption DEF Kept, GmcpInv
  <2>2. pending_gmcp_core' = D
    BY <1>1, <2>1, SessionAssumption, SMTT(20) DEF queue_pre_auth_gmcp_core
  <2>. QED
    BY <2>1, <2>2 DEF GmcpInv, EarlyGmcpKept
<1>. QED
  BY <1>2, <1>3, ZenonT(30)

\* A complete line.
LEMMA LineGmcpStep ==
    ASSUME GmcpInv, LoginInv, session = "started", session' = session,
           process_complete_line
    PROVE  GmcpInv'
<1>1. CASE UNCHANGED seam
  BY <1>1, GmcpKept
<1>2. CASE login \in PasswordStates /\ enter_game
  BY <1>2, EnterGmcpStep
<1>. QED
  BY <1>1, <1>2
     DEF process_complete_line, process_player_name, process_existing_password,
         process_new_password, process_password_confirmation, process_command, PasswordStates

\* A byte of data.
LEMMA DataGmcpStep ==
    ASSUME GmcpInv, LoginInv, session = "started", session' = session,
           NEW byte, receive_data_byte(byte)
    PROVE  GmcpInv'
BY LineGmcpStep, GmcpKept DEF receive_data_byte

\* The end of a subnegotiation.
LEMMA FinishGmcpStep ==
    ASSUME GmcpInv, session = "started", session' = session, finish_subnegotiation
    PROVE  GmcpInv'
<1>1. CASE handle_gmcp
  <2>1. application \in {"none", "open"}
    BY DEF GmcpInv
  <2>. QED
    BY <1>1, <2>1, DeliverStep, QueueStep DEF handle_gmcp
<1>. QED
  BY <1>1, GmcpKept DEF finish_subnegotiation

\* Messages are kept, in order and once, in every step.
LEMMA GmcpStep == GmcpInv /\ LoginInv /\ [SessionNext]_session_vars => GmcpInv'
<1>. SUFFICES ASSUME GmcpInv, LoginInv, [SessionNext]_session_vars PROVE GmcpInv'
  OBVIOUS
<1>1. ASSUME NEW byte \in Byte, feed(byte) PROVE GmcpInv'
  <2>a. session = "started" /\ session' = session
    BY <1>1 DEF feed
  <2>1. CASE parser_data(byte)
    BY <2>1, <2>a, DataGmcpStep, GmcpKept, ZenonT(30) DEF parser_data
  <2>2. CASE parser_iac(byte)
    BY <2>2, <2>a, DataGmcpStep, GmcpKept DEF parser_iac
  <2>3. CASE parser_option \/ parser_sb_option \/ parser_sb_data(byte)
    BY <2>3, <2>a, GmcpKept DEF parser_option, parser_sb_option, parser_sb_data
  <2>4. CASE parser_sb_iac(byte)
    BY <2>4, <2>a, FinishGmcpStep, GmcpKept DEF parser_sb_iac
  <2>. QED
    BY <1>1, <2>1, <2>2, <2>3, <2>4 DEF feed
<1>2. CASE start \/ byte_flood \/ poll \/ UNCHANGED session_vars
  BY <1>2, GmcpKept DEF start, byte_flood, poll, session_vars
<1>3. CASE destroy
  BY <1>3, Zenon DEF destroy, GmcpInv, EarlyGmcpKept, Kept
<1>. QED
  BY <1>1, <1>2, <1>3 DEF SessionNext

-----------------------------------------------------------------------------
\* A new session keeps all limits and has seen no message.
LEMMA LimitsInit == SessionInit => LineInv /\ FramingInv /\ GmcpInv
<1>. SUFFICES ASSUME SessionInit PROVE LineInv /\ FramingInv /\ GmcpInv
  OBVIOUS
<1>1. LineInv /\ FramingInv
  BY SessionAssumption DEF SessionInit, LineInv, Limit, FramingInv
<1>2. Kept = 0
  BY SessionAssumption DEF SessionInit, Kept
<1>3. GmcpInv
  BY <1>2 DEF SessionInit, GmcpInv, EarlyGmcpKept
<1>. QED
  BY <1>1, <1>3

\* The queue is no longer than the number of messages it keeps.
LEMMA QueueBounded == GmcpInv => Len(pending_gmcp_core) <= PENDING_GMCP_CORE_MAX
BY SessionAssumption DEF GmcpInv, Kept

\* No line, subnegotiation, queue or count of violations passes its limit.
THEOREM StateBoundedHolds == SessionSpec => []StateBounded
<1>1. LineInv /\ FramingInv /\ GmcpInv => StateBounded
  BY QueueBounded DEF LineInv, FramingInv, StateBounded
<1>. QED
  BY <1>1, LimitsInit, LineStepKept, FramingStep, GmcpStep, LoginCorrect,
     PTL DEF SessionSpec

\* An open application has seen the first early messages and every later one,
\* in order and once each.
THEOREM EarlyGmcpKeptHolds == SessionSpec => []EarlyGmcpKept
<1>1. GmcpInv => EarlyGmcpKept
  BY DEF GmcpInv
<1>. QED
  BY <1>1, LimitsInit, GmcpStep, LoginCorrect, PTL DEF SessionSpec
=============================================================================
