------------------------- MODULE SecureClientProofs -------------------------
(***************************************************************************)
(* Proofs about SecureClient, for any number of lines, any signals and any *)
(* other options: the terminal does not echo while a password prompt is on *)
(* the screen.                                                             *)
(*                                                                         *)
(* The argument: a player who answers each prompt when it is shown keeps   *)
(* the dialogue down to one exchange.  The command about ECHO is ahead of  *)
(* the prompt on the way to the client, and the client's answer to it is   *)
(* ahead of the line on the way back, so when the server reads the line    *)
(* both ends agree about ECHO and nothing else is under way.  The          *)
(* inductive invariant lists the stages of an exchange: what each end      *)
(* holds, what is on the wire, and what the server has still to say.       *)
(***************************************************************************)
EXTENDS SecureClient, TLAPS

\* Sequences are equal when their elements are.
LEMMA FunEqual ==
    ASSUME NEW D, NEW R, NEW f \in [D -> R], NEW g \in [D -> R], \A i \in D : f[i] = g[i]
    PROVE  f = g
OBVIOUS

LEMMA SeqEqual ==
    ASSUME NEW S, NEW s \in Seq(S), NEW t \in Seq(S), Len(s) = Len(t),
           \A i \in 1 .. Len(s) : s[i] = t[i]
    PROVE  s = t
<1>. DEFINE D == 1 .. Len(s)
<1>1. s \in [D -> S] /\ t \in [D -> S] /\ \A i \in D : s[i] = t[i]
  OBVIOUS
<1>. HIDE DEF D
<1>. QED
  BY <1>1, FunEqual

-----------------------------------------------------------------------------
\* Queues of up to three items.
LEMMA QueueGrows ==
    ASSUME NEW a, NEW b
    PROVE  Append(<<a>>, b) = <<a, b>>
<1>. DEFINE S == {a, b}
<1>1. <<a>> \in Seq(S) /\ b \in S /\ <<a, b>> \in Seq(S) /\ Append(<<a>>, b) \in Seq(S)
  OBVIOUS
<1>. HIDE DEF S
<1>2. /\ Len(Append(<<a>>, b)) = Len(<<a, b>>)
      /\ \A i \in 1 .. Len(Append(<<a>>, b)) : Append(<<a>>, b)[i] = <<a, b>>[i]
  BY <1>1
<1>. QED
  BY <1>1, <1>2, SeqEqual, Zenon

\* A third item.
LEMMA QueueGrowsOn ==
    ASSUME NEW a, NEW b, NEW c
    PROVE  Append(<<a, b>>, c) = <<a, b, c>>
<1>. DEFINE S == {a, b, c}
<1>1. /\ <<a, b>> \in Seq(S) /\ c \in S /\ <<a, b, c>> \in Seq(S)
      /\ Append(<<a, b>>, c) \in Seq(S)
  OBVIOUS
<1>. HIDE DEF S
<1>2. /\ Len(Append(<<a, b>>, c)) = Len(<<a, b, c>>)
      /\ \A i \in 1 .. Len(Append(<<a, b>>, c)) : Append(<<a, b>>, c)[i] = <<a, b, c>>[i]
  BY <1>1
<1>. QED
  BY <1>1, <1>2, SeqEqual, Zenon

\* Reading a queue of one, ...
LEMMA QueueOfOne ==
    ASSUME NEW a
    PROVE  /\ Append(<<>>, a) = <<a>>
           /\ <<a>> # <<>> /\ Head(<<a>>) = a /\ Tail(<<a>>) = <<>>
<1>. DEFINE S == {a}
<1>1. /\ <<a>> \in Seq(S) /\ <<>> \in Seq(S) /\ a \in S
      /\ Append(<<>>, a) \in Seq(S) /\ Tail(<<a>>) \in Seq(S)
  OBVIOUS
<1>. HIDE DEF S
<1>2. /\ Len(Append(<<>>, a)) = Len(<<a>>)
      /\ \A i \in 1 .. Len(Append(<<>>, a)) : Append(<<>>, a)[i] = <<a>>[i]
  BY <1>1
<1>3. Append(<<>>, a) = <<a>>
  BY <1>1, <1>2, SeqEqual, Zenon
<1>4. Tail(<<a>>) = <<>> /\ <<a>> # <<>> /\ Head(<<a>>) = a
  BY <1>1
<1>. QED
  BY <1>3, <1>4, Zenon

\* ... of two ...
LEMMA QueueOfTwo ==
    ASSUME NEW a, NEW b
    PROVE  <<a, b>> # <<>> /\ Head(<<a, b>>) = a /\ Tail(<<a, b>>) = <<b>>
<1>. DEFINE S == {a, b}
<1>1. <<a, b>> \in Seq(S) /\ <<b>> \in Seq(S) /\ Tail(<<a, b>>) \in Seq(S)
  OBVIOUS
<1>. HIDE DEF S
<1>2. /\ Len(Tail(<<a, b>>)) = Len(<<b>>)
      /\ \A i \in 1 .. Len(Tail(<<a, b>>)) : Tail(<<a, b>>)[i] = <<b>>[i]
  BY <1>1
<1>3. Tail(<<a, b>>) = <<b>>
  BY <1>1, <1>2, SeqEqual, Zenon
<1>. QED
  BY <1>1, <1>3

\* ... and of three.
LEMMA QueueOfThree ==
    ASSUME NEW a, NEW b, NEW c
    PROVE  <<a, b, c>> # <<>> /\ Head(<<a, b, c>>) = a /\ Tail(<<a, b, c>>) = <<b, c>>
<1>. DEFINE S == {a, b, c}
<1>1. <<a, b, c>> \in Seq(S) /\ <<b, c>> \in Seq(S) /\ Tail(<<a, b, c>>) \in Seq(S)
  OBVIOUS
<1>. HIDE DEF S
<1>2. /\ Len(Tail(<<a, b, c>>)) = Len(<<b, c>>)
      /\ \A i \in 1 .. Len(Tail(<<a, b, c>>)) : Tail(<<a, b, c>>)[i] = <<b, c>>[i]
  BY <1>1
<1>3. Tail(<<a, b, c>>) = <<b, c>>
  BY <1>1, <1>2, SeqEqual, Zenon
<1>. QED
  BY <1>1, <1>3

-----------------------------------------------------------------------------
\* The player answers each prompt when it is shown, so at most one exchange is
\* under way: the server has decided on the echo of the client (e is the state
\* ECHO is to get: YES hides what is typed), o is how far the option has got,
\* p where the prompt, or the line that answers it, is, and x whether the
\* server has closed the connection.
Alive == at \in {"start", "signal", "connect"} \/ Running

Ends == {"NO", "YES"}
Opposed(e) == IF e = "YES" THEN "NO" ELSE "YES"
Wanted(e) == IF e = "YES" THEN "WANTYES" ELSE "WANTNO"
Asked(e) == IF e = "YES" THEN "WILL" ELSE "WONT"
Agreed(e) == IF e = "YES" THEN "DO" ELSE "DONT"
Turned(e) == IF e = "YES" THEN "off" ELSE "on"
Shown(e) == IF e = "YES" THEN "password" ELSE "text"

Rest(state) == [state |-> state, queued |-> FALSE]

Progress == {"pending", "asked", "acked", "settled"}
Places == {"change", "reply", "wire", "screen", "typed", "line", "final", "over"}

AtClient(e, o) == Rest(IF o \in {"pending", "asked"} THEN Opposed(e) ELSE e)

AtServer(e, o) ==
    Rest(IF o = "pending" THEN Opposed(e) ELSE IF o = "settled" THEN e ELSE Wanted(e))

ToClient(e, o, p, x) ==
    IF o = "asked"
    THEN IF p = "wire"
         THEN IF x THEN <<Asked(e), Shown(e), "close">> ELSE <<Asked(e), Shown(e)>>
         ELSE <<Asked(e)>>
    ELSE IF p = "wire"
         THEN IF x THEN <<Shown(e), "close">> ELSE <<Shown(e)>>
         ELSE IF x THEN <<"close">> ELSE <<>>

ToServer(e, o, p) ==
    IF o = "acked"
    THEN IF p = "line" THEN <<Agreed(e), "line">> ELSE <<Agreed(e)>>
    ELSE IF p = "line" THEN <<"line">> ELSE <<>>

StillToSay(e, p) ==
    IF p = "change" THEN <<Turned(e), Shown(e)>>
    ELSE IF p = "reply" THEN <<Shown(e)>> ELSE IF p = "final" THEN <<"close">> ELSE <<>>

\* What goes together.
Fits(o, p, x) ==
    /\ o = "pending" <=> p = "change"
    /\ o = "asked" => p \in {"reply", "wire"}
    /\ p \in {"final", "over"} => o = "settled"
    /\ x => p \notin {"change", "reply", "final"}
    /\ p = "over" => x

Exchange(e, o, p, x) ==
    /\ Fits(o, p, x)
    /\ q[client] = AtClient(e, o) /\ q[server] = AtServer(e, o)
    /\ wire[client] = ToClient(e, o, p, x) /\ wire[server] = ToServer(e, o, p)
    /\ reply = StillToSay(e, p)
    /\ prompt = IF p = "screen" THEN Shown(e) ELSE "none"
    /\ typed = IF p = "typed" THEN 1 ELSE 0
    /\ x <=> awaited = "closed"
    /\ ~x => (awaited = "password" <=> e = "YES")

OneExchange ==
    /\ DOMAIN q = Slot /\ DOMAIN wire = Slot
    /\ \E e \in Ends, o \in Progress, p \in Places, x \in BOOLEAN : Exchange(e, o, p, x)

\* The terminal follows the client's side of ECHO, from before it is saved.
EchoFollows ==
    (at = "start" \/ terminal_saved) /\ ~faulty =>
        /\ local_echo_enabled <=> q[client].state # "YES"
        /\ echo <=> q[client].state # "YES"

\* The client reads the keyboard only when there is a line.
LineToRead ==
    /\ stdin_ready => at = "socket" /\ typed > 0
    /\ at = "stdin" => typed > 0

ClientInv == Alive /\ ~ahead => OneExchange /\ EchoFollows /\ LineToRead

-----------------------------------------------------------------------------
\* The two sides of ECHO; the client accepts it.
LEMMA TwoEnds ==
    /\ client \in Slot /\ server \in Slot /\ client # server /\ client \in Accepts
    /\ Mate(client) = server /\ Mate(server) = client
    /\ client[2] = "remote" /\ server[2] = "local"
<1>1. client \in Accepts /\ client \in Slot
  BY ClientAssumption, SlotAssumption
<1>2. "ECHO" \in Option
  BY <1>1 DEF client, Slot
<1>. QED
  BY <1>1, <1>2 DEF client, server, Slot, Peer, Direction, Mate, Other, Opposite

\* The queue to the client.
LEMMA ClientReads ==
    ASSUME NEW e \in Ends, NEW o \in Progress, NEW p \in Places, NEW x \in BOOLEAN,
           Fits(o, p, x), NEW w, w = ToClient(e, o, p, x)
    PROVE  /\ o = "asked" =>
                 w # <<>> /\ Head(w) = Asked(e) /\ Tail(w) = ToClient(e, "acked", p, x)
           /\ o # "asked" /\ p = "wire" =>
                 w # <<>> /\ Head(w) = Shown(e) /\ Tail(w) = ToClient(e, o, "screen", x)
           /\ o # "asked" /\ p # "wire" =>
                 /\ x => w # <<>> /\ Head(w) = "close"
                 /\ ~x => w = <<>>
<1>1. CASE o = "asked" /\ p = "wire"
  <2>1. /\ x => w = <<Asked(e), Shown(e), "close">>
              /\ ToClient(e, "acked", p, x) = <<Shown(e), "close">>
        /\ ~x => w = <<Asked(e), Shown(e)>> /\ ToClient(e, "acked", p, x) = <<Shown(e)>>
    BY <1>1, Zenon DEF ToClient
  <2>a. LET a == <<Asked(e), Shown(e), "close">>
            b == <<Asked(e), Shown(e)>>
        IN  /\ a # <<>> /\ Head(a) = Asked(e) /\ Tail(a) = <<Shown(e), "close">>
            /\ b # <<>> /\ Head(b) = Asked(e) /\ Tail(b) = <<Shown(e)>>
    BY QueueOfOne, QueueOfTwo, QueueOfThree
  <2>2. w # <<>> /\ Head(w) = Asked(e) /\ Tail(w) = ToClient(e, "acked", p, x)
    BY <2>1, <2>a, Zenon
  <2>. QED
    BY <1>1, <2>2, Zenon
<1>2. CASE o = "asked" /\ p # "wire"
  BY <1>2, QueueOfOne, QueueOfTwo, QueueOfThree, Zenon DEF ToClient, Fits
<1>3. CASE o # "asked" /\ p = "wire"
  <2>1. /\ x => w = <<Shown(e), "close">> /\ ToClient(e, o, "screen", x) = <<"close">>
        /\ ~x => w = <<Shown(e)>> /\ ToClient(e, o, "screen", x) = <<>>
    BY <1>3, Zenon DEF ToClient
  <2>a. LET a == <<Shown(e), "close">>
            b == <<Shown(e)>>
        IN  /\ a # <<>> /\ Head(a) = Shown(e) /\ Tail(a) = <<"close">>
            /\ b # <<>> /\ Head(b) = Shown(e) /\ Tail(b) = <<>>
    BY QueueOfOne, QueueOfTwo, QueueOfThree
  <2>2. w # <<>> /\ Head(w) = Shown(e) /\ Tail(w) = ToClient(e, o, "screen", x)
    BY <2>1, <2>a, Zenon
  <2>. QED
    BY <1>3, <2>2, Zenon
<1>4. CASE o # "asked" /\ p # "wire"
  BY <1>4, QueueOfOne, QueueOfTwo, QueueOfThree, Zenon DEF ToClient
<1>. QED
  BY <1>1, <1>2, <1>3, <1>4, Zenon

\* What the server adds to it.
LEMMA ServerSays ==
    ASSUME NEW e \in Ends, NEW o \in Progress, NEW p \in Places, Fits(o, p, FALSE)
    PROVE  /\ o = "pending" =>
                 Append(ToClient(e, o, p, FALSE), Asked(e)) = ToClient(e, "asked", "reply", FALSE)
           /\ p = "reply" =>
                 Append(ToClient(e, o, p, FALSE), Shown(e)) = ToClient(e, o, "wire", FALSE)
           /\ p \notin {"change", "reply"} =>
                 Append(ToClient(e, o, p, FALSE), "close") = ToClient(e, o, p, TRUE)
<1>1. ASSUME o = "pending"
      PROVE  Append(ToClient(e, o, p, FALSE), Asked(e)) = ToClient(e, "asked", "reply", FALSE)
  BY <1>1, QueueOfOne, QueueOfTwo, QueueOfThree DEF ToClient, Fits
<1>2. ASSUME p = "reply"
      PROVE  Append(ToClient(e, o, p, FALSE), Shown(e)) = ToClient(e, o, "wire", FALSE)
  <2>a. Append(<<Asked(e)>>, Shown(e)) = <<Asked(e), Shown(e)>>
    BY QueueGrows, Zenon
  <2>1. CASE o = "asked"
    BY <1>2, <2>1, <2>a, Zenon DEF ToClient
  <2>2. CASE o # "asked"
    BY <1>2, <2>2, QueueOfOne, QueueOfTwo, QueueOfThree, Zenon DEF ToClient
  <2>. QED
    BY <2>1, <2>2, Zenon
<1>3. ASSUME p \notin {"change", "reply"}
      PROVE  Append(ToClient(e, o, p, FALSE), "close") = ToClient(e, o, p, TRUE)
  <2>1. CASE o = "asked"
    <3>1. p = "wire"
      BY <1>3, <2>1 DEF Fits
    <3>2. Append(<<Asked(e), Shown(e)>>, "close") = <<Asked(e), Shown(e), "close">>
      BY QueueGrowsOn, Zenon
    <3>. QED
      BY <2>1, <3>1, <3>2, Zenon DEF ToClient
  <2>2. CASE o # "asked" /\ p = "wire"
    <3>1. Append(<<Shown(e)>>, "close") = <<Shown(e), "close">>
      BY QueueGrows, Zenon
    <3>. QED
      BY <2>2, <3>1, Zenon DEF ToClient
  <2>3. CASE o # "asked" /\ p # "wire"
    BY <2>3, QueueOfOne, QueueOfTwo, QueueOfThree, Zenon DEF ToClient
  <2>. QED
    BY <2>1, <2>2, <2>3, Zenon
<1>. QED
  BY <1>1, <1>2, <1>3, Zenon

\* The queue to the server.
LEMMA ServerReads ==
    ASSUME NEW e \in Ends, NEW o \in Progress, NEW p \in Places, NEW x \in BOOLEAN,
           Fits(o, p, x), NEW w, w = ToServer(e, o, p)
    PROVE  /\ o = "acked" =>
                 w # <<>> /\ Head(w) = Agreed(e) /\ Tail(w) = ToServer(e, "settled", p)
           /\ o # "acked" /\ p = "line" => w # <<>> /\ Head(w) = "line" /\ Tail(w) = <<>>
           /\ o # "acked" /\ p # "line" => w = <<>>
<1>1. CASE o = "acked"
  <2>1. /\ p = "line" => w = <<Agreed(e), "line">> /\ ToServer(e, "settled", p) = <<"line">>
        /\ p # "line" => w = <<Agreed(e)>> /\ ToServer(e, "settled", p) = <<>>
    BY <1>1, Zenon DEF ToServer
  <2>a. LET a == <<Agreed(e), "line">>
            b == <<Agreed(e)>>
        IN  /\ a # <<>> /\ Head(a) = Agreed(e) /\ Tail(a) = <<"line">>
            /\ b # <<>> /\ Head(b) = Agreed(e) /\ Tail(b) = <<>>
    BY QueueOfOne, QueueOfTwo, QueueOfThree
  <2>2. w # <<>> /\ Head(w) = Agreed(e) /\ Tail(w) = ToServer(e, "settled", p)
    BY <2>1, <2>a, Zenon
  <2>. QED
    BY <1>1, <2>2, Zenon
<1>2. CASE o # "acked"
  BY <1>2, QueueOfOne, QueueOfTwo, QueueOfThree, Zenon DEF ToServer
<1>. QED
  BY <1>1, <1>2, Zenon

\* What the client adds to it.
LEMMA ClientSays ==
    ASSUME NEW e \in Ends, NEW o \in Progress, NEW p \in Places
    PROVE  /\ o = "asked" /\ p # "line" =>
                 Append(ToServer(e, o, p), Agreed(e)) = ToServer(e, "acked", p)
           /\ p # "line" => Append(ToServer(e, o, p), "line") = ToServer(e, o, "line")
<1>1. ASSUME o = "asked", p # "line"
      PROVE  Append(ToServer(e, o, p), Agreed(e)) = ToServer(e, "acked", p)
  BY <1>1, QueueOfOne, QueueOfTwo, QueueOfThree DEF ToServer
<1>2. ASSUME p # "line" PROVE Append(ToServer(e, o, p), "line") = ToServer(e, o, "line")
  <2>a. Append(<<Agreed(e)>>, "line") = <<Agreed(e), "line">>
    BY QueueGrows, Zenon
  <2>1. CASE o = "acked"
    BY <1>2, <2>1, <2>a, Zenon DEF ToServer
  <2>2. CASE o # "acked"
    BY <1>2, <2>2, QueueOfOne, QueueOfTwo, QueueOfThree, Zenon DEF ToServer
  <2>. QED
    BY <2>1, <2>2, Zenon
<1>. QED
  BY <1>1, <1>2, Zenon

\* What the server has still to say.
LEMMA SaysOn ==
    ASSUME NEW e \in Ends, NEW p \in Places, NEW r, r = StillToSay(e, p)
    PROVE  /\ p = "change" => Head(r) = Turned(e) /\ Tail(r) = StillToSay(e, "reply")
           /\ p = "reply" => Head(r) = Shown(e) /\ Tail(r) = StillToSay(e, "wire")
           /\ p = "final" => Head(r) = "close" /\ Tail(r) = StillToSay(e, "over")
           /\ r = <<>> <=> p \notin {"change", "reply", "final"}
<1>1. CASE p \in {"change", "reply", "final"}
  BY <1>1, QueueOfOne, QueueOfTwo, QueueOfThree DEF StillToSay
<1>2. CASE p \notin {"change", "reply", "final"}
  BY <1>2, QueueOfOne, QueueOfTwo, QueueOfThree DEF StillToSay
<1>. QED
  BY <1>1, <1>2, Zenon

\* What the words of the exchange are.
LEMMA Words ==
    ASSUME NEW e \in Ends
    PROVE  /\ Asked(e) \in Command /\ Agreed(e) \in Command
           /\ Shown(e) \in Prompt /\ Shown(e) \notin Command /\ "close" \notin Command
           /\ "line" \notin Command /\ "close" \notin Prompt
           /\ addressed(Asked(e)) = "remote" /\ addressed(Agreed(e)) = "local"
           /\ positive(Asked(e)) <=> e = "YES"
           /\ positive(Agreed(e)) <=> e = "YES"
           /\ Turned(e) \in {"on", "off"} /\ Turned(e) \notin Prompt \cup {"close"}
           /\ "close" \notin {"on", "off"} /\ Shown(e) \notin {"on", "off"}
           /\ Turned(e) = "off" <=> e = "YES"
BY DEF Ends, Asked, Agreed, Shown, Turned, Command, Prompt, addressed, positive

\* What a row does at an end of the connection.
LEMMA BecomesEffect ==
    ASSUME DOMAIN q = Slot, NEW s \in {client, server}, NEW state, Becomes(s, state, FALSE)
    PROVE  DOMAIN q' = Slot /\ q'[Mate(s)] = q[Mate(s)] /\ q'[s] = Rest(state)
<1>1. s \in Slot /\ Mate(s) \in Slot /\ s # Mate(s)
  BY TwoEnds
<1>. QED
  BY <1>1 DEF Becomes, Rest

\* What is sent and taken off the wire there.
LEMMA AnswersEffect ==
    ASSUME DOMAIN wire = Slot, NEW s \in {client, server}, NEW c, Answers(s, c)
    PROVE  /\ DOMAIN wire' = Slot /\ wire'[s] = Tail(wire[s])
           /\ wire'[Mate(s)] = Append(wire[Mate(s)], c)
<1>1. s \in Slot /\ Mate(s) \in Slot /\ s # Mate(s)
  BY TwoEnds
<1>. QED
  BY <1>1 DEF Answers

LEMMA ConsumesEffect ==
    ASSUME DOMAIN wire = Slot, NEW s \in {client, server}, Consumes(s)
    PROVE  /\ DOMAIN wire' = Slot /\ wire'[s] = Tail(wire[s])
           /\ wire'[Mate(s)] = wire[Mate(s)]
<1>1. s \in Slot /\ Mate(s) \in Slot /\ s # Mate(s)
  BY TwoEnds
<1>. QED
  BY <1>1 DEF Consumes

LEMMA SendsEffect ==
    ASSUME DOMAIN wire = Slot, NEW s \in {client, server}, NEW c, Sends(s, c)
    PROVE  /\ DOMAIN wire' = Slot /\ wire'[s] = wire[s]
           /\ wire'[Mate(s)] = Append(wire[Mate(s)], c)
<1>1. s \in Slot /\ Mate(s) \in Slot /\ s # Mate(s)
  BY TwoEnds
<1>. QED
  BY <1>1 DEF Sends

\* The fields of a side at rest.
LEMMA SideFields ==
    ASSUME NEW state
    PROVE  Rest(state).state = state /\ Rest(state).queued = FALSE
BY DEF Rest

\* The client carries out what the server asks for, and says so.
LEMMA ClientNegotiates ==
    ASSUME DOMAIN q = Slot, DOMAIN wire = Slot,
           NEW e \in Ends, NEW o \in Progress, NEW p \in Places, NEW x \in BOOLEAN,
           Exchange(e, o, p, x),
           wire[client] # <<>>, Head(wire[client]) \in Command, telnet_q_receive(client)
    PROVE  /\ o = "asked" /\ DOMAIN q' = Slot /\ DOMAIN wire' = Slot
           /\ q'[client] = AtClient(e, "acked") /\ q'[server] = AtServer(e, "acked")
           /\ wire'[client] = ToClient(e, "acked", p, x)
           /\ wire'[server] = ToServer(e, "acked", p)
<1>. DEFINE w == wire[client]
<1>1. /\ Fits(o, p, x) /\ w = ToClient(e, o, p, x) /\ wire[server] = ToServer(e, o, p)
      /\ q[client] = AtClient(e, o) /\ q[server] = AtServer(e, o)
  BY Zenon DEF Exchange
<1>2. o = "asked" /\ Head(w) = Asked(e) /\ Tail(w) = ToClient(e, "acked", p, x)
  <2>1. /\ o = "asked" => Head(w) = Asked(e) /\ Tail(w) = ToClient(e, "acked", p, x)
        /\ o # "asked" /\ p = "wire" => Head(w) = Shown(e)
        /\ o # "asked" /\ p # "wire" => (x => Head(w) = "close") /\ (~x => w = <<>>)
    BY <1>1, ClientReads
  <2>2. Shown(e) \notin Command /\ "close" \notin Command
    BY Words, Zenon
  <2>. QED
    BY <2>1, <2>2, Zenon
<1>3. p # "line"
  BY <1>1, <1>2 DEF Fits
<1>4. q[client] = Rest(Opposed(e)) /\ q[server] = Rest(Wanted(e))
  BY <1>1, <1>2, Zenon DEF AtClient, AtServer
<1>5. q[client].state = Opposed(e) /\ q[client].queued = FALSE
  BY <1>4, SideFields, Zenon
<1>6. Becomes(client, e, FALSE) /\ Answers(client, Agreed(e))
  <2>1. q_accept_callback(client)
    BY TwoEnds, Zenon DEF q_accept_callback
  <2>2. enable_command(client[2]) = "DO" /\ disable_command(client[2]) = "DONT"
    BY TwoEnds DEF enable_command, disable_command
  <2>3. CASE e = "YES"
    <3>1. receive_positive(client, q_accept_callback(client))
      BY <1>2, <2>3, Words DEF telnet_q_receive
    <3>2. q[client].state = "NO" /\ Agreed(e) = "DO"
      BY <1>5, <2>3 DEF Opposed, Agreed
    <3>. QED
      BY <2>1, <2>2, <2>3, <3>1, <3>2, Zenon DEF receive_positive
  <2>4. CASE e = "NO"
    <3>1. receive_negative(client)
      BY <1>2, <2>4, Words DEF telnet_q_receive
    <3>2. q[client].state = "YES" /\ Agreed(e) = "DONT"
      BY <1>5, <2>4 DEF Opposed, Agreed
    <3>. QED
      BY <2>2, <2>4, <3>1, <3>2, Zenon DEF receive_negative
  <2>. QED
    BY <2>3, <2>4, Zenon DEF Ends
<1>7. /\ DOMAIN q' = Slot /\ DOMAIN wire' = Slot
      /\ q'[client] = Rest(e) /\ q'[server] = q[server]
      /\ wire'[client] = Tail(w) /\ wire'[server] = Append(wire[server], Agreed(e))
  BY <1>6, BecomesEffect, AnswersEffect, TwoEnds, Zenon
<1>8. wire'[server] = ToServer(e, "acked", p)
  BY <1>1, <1>2, <1>3, <1>7, ClientSays, Zenon
<1>9. AtClient(e, "acked") = Rest(e) /\ AtServer(e, "acked") = Rest(Wanted(e))
  BY DEF AtClient, AtServer
<1>. QED
  BY <1>2, <1>4, <1>7, <1>8, <1>9, Zenon

\* The server takes note of it.
LEMMA ServerNegotiates ==
    ASSUME DOMAIN q = Slot, DOMAIN wire = Slot,
           NEW e \in Ends, NEW o \in Progress, NEW p \in Places, NEW x \in BOOLEAN,
           Exchange(e, o, p, x),
           wire[server] # <<>>, Head(wire[server]) \in Command, telnet_q_receive(server)
    PROVE  /\ o = "acked" /\ DOMAIN q' = Slot /\ DOMAIN wire' = Slot
           /\ q'[client] = AtClient(e, "settled") /\ q'[server] = AtServer(e, "settled")
           /\ wire'[client] = ToClient(e, "settled", p, x)
           /\ wire'[server] = ToServer(e, "settled", p)
<1>. DEFINE w == wire[server]
<1>1. /\ Fits(o, p, x) /\ w = ToServer(e, o, p) /\ wire[client] = ToClient(e, o, p, x)
      /\ q[client] = AtClient(e, o) /\ q[server] = AtServer(e, o)
  BY Zenon DEF Exchange
<1>2. o = "acked" /\ Head(w) = Agreed(e) /\ Tail(w) = ToServer(e, "settled", p)
  <2>1. /\ o = "acked" => Head(w) = Agreed(e) /\ Tail(w) = ToServer(e, "settled", p)
        /\ o # "acked" /\ p = "line" => Head(w) = "line"
        /\ o # "acked" /\ p # "line" => w = <<>>
    BY <1>1, ServerReads
  <2>2. "line" \notin Command
    BY Words, Zenon
  <2>. QED
    BY <2>1, <2>2, Zenon
<1>4. q[client] = Rest(e) /\ q[server] = Rest(Wanted(e))
  BY <1>1, <1>2 DEF AtClient, AtServer
<1>5. q[server].state = Wanted(e) /\ q[server].queued = FALSE
  BY <1>4, SideFields, Zenon
<1>6. Becomes(server, e, FALSE) /\ Consumes(server)
  <2>3. CASE e = "YES"
    <3>1. receive_positive(server, q_accept_callback(server))
      BY <1>2, <2>3, Words DEF telnet_q_receive
    <3>2. q[server].state = "WANTYES"
      BY <1>5, <2>3 DEF Wanted
    <3>. QED
      BY <1>5, <2>3, <3>1, <3>2, Zenon DEF receive_positive
  <2>4. CASE e = "NO"
    <3>1. receive_negative(server)
      BY <1>2, <2>4, Words DEF telnet_q_receive
    <3>2. q[server].state = "WANTNO"
      BY <1>5, <2>4 DEF Wanted
    <3>. QED
      BY <1>5, <2>4, <3>1, <3>2, Zenon DEF receive_negative
  <2>. QED
    BY <2>3, <2>4, Zenon DEF Ends
<1>7. /\ DOMAIN q' = Slot /\ DOMAIN wire' = Slot
      /\ q'[server] = Rest(e) /\ q'[client] = q[client]
      /\ wire'[server] = Tail(w) /\ wire'[client] = wire[client]
  BY <1>6, BecomesEffect, ConsumesEffect, TwoEnds, Zenon
<1>8. wire'[client] = ToClient(e, "settled", p, x)
  BY <1>1, <1>2, <1>7 DEF ToClient
<1>9. AtClient(e, "settled") = Rest(e) /\ AtServer(e, "settled") = Rest(e)
  BY DEF AtClient, AtServer
<1>. QED
  BY <1>2, <1>4, <1>7, <1>8, <1>9, Zenon

\* The server asks for the echo it has decided on.
LEMMA ServerAsks ==
    ASSUME DOMAIN q = Slot, DOMAIN wire = Slot, NEW e \in Ends,
           Exchange(e, "pending", "change", FALSE), telnet_q_request(server, e = "YES")
    PROVE  /\ DOMAIN q' = Slot /\ DOMAIN wire' = Slot
           /\ q'[client] = AtClient(e, "asked") /\ q'[server] = AtServer(e, "asked")
           /\ wire'[client] = ToClient(e, "asked", "reply", FALSE)
           /\ wire'[server] = ToServer(e, "asked", "reply")
<1>1. /\ Fits("pending", "change", FALSE) /\ wire[client] = ToClient(e, "pending", "change", FALSE)
      /\ wire[server] = ToServer(e, "pending", "change")
      /\ q[client] = AtClient(e, "pending") /\ q[server] = AtServer(e, "pending")
  BY Zenon DEF Exchange
<1>2. q[client] = Rest(Opposed(e)) /\ q[server] = Rest(Opposed(e))
  BY <1>1 DEF AtClient, AtServer
<1>3. q[server].state = Opposed(e)
  BY <1>2, SideFields, Zenon
<1>4. Becomes(server, Wanted(e), FALSE) /\ Sends(server, Asked(e))
  <2>1. enable_command(server[2]) = "WILL" /\ disable_command(server[2]) = "WONT"
    BY TwoEnds DEF enable_command, disable_command
  <2>2. CASE e = "YES"
    <3>1. request_enable(server) /\ q[server].state = "NO"
      BY <1>3, <2>2 DEF telnet_q_request, Opposed
    <3>2. Wanted(e) = "WANTYES" /\ Asked(e) = "WILL"
      BY <2>2 DEF Wanted, Asked
    <3>. QED
      BY <2>1, <3>1, <3>2, Zenon DEF request_enable
  <2>3. CASE e = "NO"
    <3>1. request_disable(server) /\ q[server].state = "YES"
      BY <1>3, <2>3 DEF telnet_q_request, Opposed
    <3>2. Wanted(e) = "WANTNO" /\ Asked(e) = "WONT"
      BY <2>3 DEF Wanted, Asked
    <3>. QED
      BY <2>1, <3>1, <3>2, Zenon DEF request_disable
  <2>. QED
    BY <2>2, <2>3, Zenon DEF Ends
<1>5. /\ DOMAIN q' = Slot /\ DOMAIN wire' = Slot
      /\ q'[server] = Rest(Wanted(e)) /\ q'[client] = q[client]
      /\ wire'[server] = wire[server] /\ wire'[client] = Append(wire[client], Asked(e))
  BY <1>4, BecomesEffect, SendsEffect, TwoEnds, Zenon
<1>6. wire'[client] = ToClient(e, "asked", "reply", FALSE)
  <2>1. "pending" \in Progress /\ "change" \in Places
    BY DEF Progress, Places
  <2>. QED
    BY <1>1, <1>5, <2>1, ServerSays, Zenon
<1>7. wire'[server] = ToServer(e, "asked", "reply")
  BY <1>1, <1>5 DEF ToServer
<1>8. AtClient(e, "asked") = Rest(Opposed(e)) /\ AtServer(e, "asked") = Rest(Wanted(e))
  BY DEF AtClient, AtServer
<1>. QED
  BY <1>2, <1>5, <1>6, <1>7, <1>8, Zenon

-----------------------------------------------------------------------------
\* The steps of the exchange.

\* The client reads a command.
LEMMA CommandRead ==
    ASSUME OneExchange, wire[client] # <<>>, Head(wire[client]) \in Command,
           telnet_q_receive(client), UNCHANGED <<prompt, typed, conversation>>
    PROVE  OneExchange'
<1>0. DOMAIN q = Slot /\ DOMAIN wire = Slot
  BY DEF OneExchange
<1>1. PICK e \in Ends, o \in Progress, p \in Places, x \in BOOLEAN : Exchange(e, o, p, x)
  BY Zenon DEF OneExchange
<1>2. /\ o = "asked" /\ DOMAIN q' = Slot /\ DOMAIN wire' = Slot
      /\ q'[client] = AtClient(e, "acked") /\ q'[server] = AtServer(e, "acked")
      /\ wire'[client] = ToClient(e, "acked", p, x)
      /\ wire'[server] = ToServer(e, "acked", p)
  BY <1>0, <1>1, ClientNegotiates, Zenon
<1>3. Fits("acked", p, x) /\ "acked" \in Progress
  BY <1>1, <1>2 DEF Exchange, Fits, Progress
<1>4. Exchange(e, "acked", p, x)'
  BY <1>1, <1>2, <1>3, Zenon DEF Exchange, conversation
<1>. QED
  BY <1>2, <1>3, <1>4, Zenon DEF OneExchange

\* The client shows a prompt.
LEMMA PromptRead ==
    ASSUME OneExchange, wire[client] # <<>>, Head(wire[client]) \in Prompt,
           prompt' = Head(wire[client]), Consumes(client),
           UNCHANGED <<q, typed, conversation>>
    PROVE  OneExchange'
<1>0. DOMAIN q = Slot /\ DOMAIN wire = Slot
  BY DEF OneExchange
<1>1. PICK e \in Ends, o \in Progress, p \in Places, x \in BOOLEAN : Exchange(e, o, p, x)
  BY Zenon DEF OneExchange
<1>2. /\ Fits(o, p, x) /\ wire[client] = ToClient(e, o, p, x)
  BY <1>1, Zenon DEF Exchange
<1>3. /\ o # "asked" /\ p = "wire"
      /\ Head(wire[client]) = Shown(e) /\ Tail(wire[client]) = ToClient(e, o, "screen", x)
  <2>1. /\ o = "asked" => Head(wire[client]) = Asked(e)
        /\ o # "asked" /\ p = "wire" => /\ Head(wire[client]) = Shown(e)
                                        /\ Tail(wire[client]) = ToClient(e, o, "screen", x)
        /\ o # "asked" /\ p # "wire" =>
              (x => Head(wire[client]) = "close") /\ (~x => wire[client] = <<>>)
    BY <1>2, ClientReads
  <2>2. Asked(e) \notin Prompt /\ "close" \notin Prompt
    BY DEF Asked, Prompt
  <2>. QED
    BY <2>1, <2>2, Zenon
<1>4. /\ DOMAIN wire' = Slot /\ wire'[client] = Tail(wire[client])
      /\ wire'[server] = wire[server]
  BY <1>0, ConsumesEffect, TwoEnds, Zenon
<1>5. Fits(o, "screen", x) /\ "screen" \in Places
  BY <1>2, <1>3 DEF Fits, Places
<1>6. /\ ToServer(e, o, "screen") = ToServer(e, o, p)
      /\ StillToSay(e, "screen") = StillToSay(e, p)
  BY <1>3 DEF ToServer, StillToSay
<1>7. Exchange(e, o, "screen", x)'
  <2>1. typed = 0
    BY <1>1, <1>3, Zenon DEF Exchange
  <2>2. /\ q'[client] = AtClient(e, o) /\ q'[server] = AtServer(e, o)
        /\ wire'[server] = ToServer(e, o, "screen") /\ reply' = StillToSay(e, "screen")
        /\ x <=> awaited' = "closed"
        /\ ~x => (awaited' = "password" <=> e = "YES")
    BY <1>1, <1>4, <1>6, Zenon DEF Exchange, conversation
  <2>. QED
    BY <1>3, <1>4, <1>5, <2>1, <2>2, Zenon DEF Exchange
<1>. QED
  BY <1>0, <1>4, <1>5, <1>7, Zenon DEF OneExchange

\* The player answers the prompt on the screen.
LEMMA LineTyped ==
    ASSUME OneExchange, prompt # "none", prompt' = "none", typed' = typed + 1,
           UNCHANGED <<q, wire, conversation>>
    PROVE  OneExchange'
<1>1. PICK e \in Ends, o \in Progress, p \in Places, x \in BOOLEAN : Exchange(e, o, p, x)
  BY Zenon DEF OneExchange
<1>2. p = "screen" /\ Fits(o, p, x)
  BY <1>1, Zenon DEF Exchange
<1>3. o # "asked"
  BY <1>2 DEF Fits
<1>4. Fits(o, "typed", x) /\ "typed" \in Places
  BY <1>2 DEF Fits, Places
<1>5. /\ ToServer(e, o, "typed") = ToServer(e, o, p)
      /\ ToClient(e, o, "typed", x) = ToClient(e, o, p, x)
      /\ StillToSay(e, "typed") = StillToSay(e, p)
  BY <1>2, <1>3 DEF ToServer, ToClient, StillToSay
<1>6. Exchange(e, o, "typed", x)'
  <2>1. typed = 0
    BY <1>1, <1>2, Zenon DEF Exchange
  <2>2. typed' = 1
    BY <2>1
  <2>. QED
    BY <1>1, <1>4, <1>5, <2>2, Zenon DEF Exchange, conversation
<1>. QED
  BY <1>4, <1>6, Zenon DEF OneExchange

\* The client sends the line.
LEMMA LineSent ==
    ASSUME OneExchange, typed > 0, typed' = typed - 1,
           wire' = [wire EXCEPT ![server] = Append(@, "line")],
           UNCHANGED <<q, prompt, conversation>>
    PROVE  OneExchange'
<1>0. DOMAIN q = Slot /\ DOMAIN wire = Slot
  BY DEF OneExchange
<1>1. PICK e \in Ends, o \in Progress, p \in Places, x \in BOOLEAN : Exchange(e, o, p, x)
  BY Zenon DEF OneExchange
<1>2. p = "typed" /\ Fits(o, p, x)
  <2>1. Fits(o, p, x) /\ typed = IF p = "typed" THEN 1 ELSE 0
    BY <1>1, Zenon DEF Exchange
  <2>. QED
    BY <2>1
<1>3. o # "asked"
  BY <1>2 DEF Fits
<1>4. Fits(o, "line", x) /\ "line" \in Places
  BY <1>2 DEF Fits, Places
<1>5. /\ DOMAIN wire' = Slot /\ wire'[client] = wire[client]
      /\ wire'[server] = Append(wire[server], "line")
  BY <1>0, TwoEnds
<1>6. wire'[server] = ToServer(e, o, "line")
  <2>1. wire[server] = ToServer(e, o, p) /\ p # "line"
    BY <1>1, <1>2, Zenon DEF Exchange
  <2>. QED
    BY <1>5, <2>1, ClientSays, Zenon
<1>7. /\ ToClient(e, o, "line", x) = ToClient(e, o, p, x)
      /\ StillToSay(e, "line") = StillToSay(e, p)
  BY <1>2, <1>3 DEF ToClient, StillToSay
<1>8. Exchange(e, o, "line", x)'
  <2>1. typed = 1 /\ prompt = "none"
    BY <1>1, <1>2, Zenon DEF Exchange
  <2>2. typed' = 0
    BY <2>1
  <2>. QED
    BY <1>1, <1>4, <1>5, <1>6, <1>7, <2>1, <2>2, Zenon DEF Exchange, conversation
<1>. QED
  BY <1>0, <1>4, <1>5, <1>8, Zenon DEF OneExchange

\* The server reads the client's answer to a command.
LEMMA AnswerRead ==
    ASSUME OneExchange, wire[server] # <<>>, Head(wire[server]) \in Command,
           telnet_q_receive(server), UNCHANGED <<prompt, typed, conversation>>
    PROVE  OneExchange'
<1>0. DOMAIN q = Slot /\ DOMAIN wire = Slot
  BY DEF OneExchange
<1>1. PICK e \in Ends, o \in Progress, p \in Places, x \in BOOLEAN : Exchange(e, o, p, x)
  BY Zenon DEF OneExchange
<1>2. /\ o = "acked" /\ DOMAIN q' = Slot /\ DOMAIN wire' = Slot
      /\ q'[client] = AtClient(e, "settled") /\ q'[server] = AtServer(e, "settled")
      /\ wire'[client] = ToClient(e, "settled", p, x)
      /\ wire'[server] = ToServer(e, "settled", p)
  BY <1>0, <1>1, ServerNegotiates, Zenon
<1>3. Fits("settled", p, x) /\ "settled" \in Progress
  BY <1>1, <1>2 DEF Exchange, Fits, Progress
<1>4. Exchange(e, "settled", p, x)'
  BY <1>1, <1>2, <1>3, Zenon DEF Exchange, conversation
<1>. QED
  BY <1>2, <1>3, <1>4, Zenon DEF OneExchange

\* The server reads a line, with nothing else under way, and decides.
LEMMA LineRead ==
    ASSUME OneExchange, awaited # "closed", wire[server] # <<>>,
           Head(wire[server]) = "line", Consumes(server), Answer,
           UNCHANGED <<q, prompt, typed>>
    PROVE  OneExchange'
<1>0. DOMAIN q = Slot /\ DOMAIN wire = Slot
  BY DEF OneExchange
<1>1. PICK e \in Ends, o \in Progress, p \in Places, x \in BOOLEAN : Exchange(e, o, p, x)
  BY Zenon DEF OneExchange
<1>2. /\ Fits(o, p, x) /\ wire[server] = ToServer(e, o, p) /\ ~x
      /\ awaited = "password" <=> e = "YES"
  BY <1>1, Zenon DEF Exchange
<1>3. o # "acked" /\ p = "line" /\ Tail(wire[server]) = <<>>
  <2>1. /\ o = "acked" => Head(wire[server]) = Agreed(e)
        /\ o # "acked" /\ p = "line" => Tail(wire[server]) = <<>>
        /\ o # "acked" /\ p # "line" => wire[server] = <<>>
    BY <1>2, ServerReads
  <2>2. Agreed(e) # "line"
    BY DEF Agreed
  <2>. QED
    BY <2>1, <2>2, Zenon
<1>4. o = "settled"
  BY <1>2, <1>3 DEF Fits, Progress
<1>5. DOMAIN wire' = Slot /\ wire'[server] = <<>> /\ wire'[client] = wire[client]
  BY <1>0, <1>3, ConsumesEffect, TwoEnds, Zenon
<1>6. wire'[client] = <<>>
  <2>1. wire[client] = ToClient(e, o, p, x)
    BY <1>1, Zenon DEF Exchange
  <2>. QED
    BY <1>2, <1>3, <1>4, <1>5, <2>1 DEF ToClient
<1>7. /\ q'[client] = Rest(e) /\ q'[server] = Rest(e) /\ prompt' = "none" /\ typed' = 0
  <2>1. q[client] = AtClient(e, o) /\ q[server] = AtServer(e, o) /\ prompt = "none" /\ typed = 0
    BY <1>1, <1>3, Zenon DEF Exchange
  <2>. QED
    BY <1>4, <2>1 DEF AtClient, AtServer
<1>8. ASSUME NEW f \in Ends, NEW r \in Progress, NEW k \in Places, Fits(r, k, FALSE),
             k \in {"change", "reply", "final"}, r \in {"pending", "settled"},
             r = "pending" => e = Opposed(f), r = "settled" => e = f,
             reply' = StillToSay(f, k), awaited' # "closed",
             awaited' = "password" <=> f = "YES"
      PROVE  OneExchange'
  <2>1. AtClient(f, r) = Rest(e) /\ AtServer(f, r) = Rest(e)
    BY <1>8 DEF AtClient, AtServer
  <2>2. ToClient(f, r, k, FALSE) = <<>> /\ ToServer(f, r, k) = <<>>
    BY <1>8 DEF ToClient, ToServer
  <2>3. k # "screen" /\ k # "typed"
    BY <1>8
  <2>4. Exchange(f, r, k, FALSE)'
    BY <1>5, <1>6, <1>7, <1>8, <2>1, <2>2, <2>3, Zenon DEF Exchange
  <2>. QED
    BY <1>0, <1>5, <1>8, <2>4, Zenon DEF OneExchange
<1>9. /\ Fits("settled", "reply", FALSE) /\ Fits("settled", "final", FALSE)
      /\ Fits("pending", "change", FALSE)
      /\ "settled" \in Progress /\ "pending" \in Progress
      /\ "reply" \in Places /\ "final" \in Places /\ "change" \in Places
      /\ Opposed(e) \in Ends /\ Opposed(Opposed(e)) = e
  BY DEF Fits, Progress, Places, Opposed, Ends
<1>a. CASE reply' = StillToSay(e, "reply") /\ awaited' = awaited
  BY <1>2, <1>8, <1>9, <1>a, Zenon
<1>b. CASE reply' = StillToSay(e, "final") /\ awaited' = awaited
  BY <1>2, <1>8, <1>9, <1>b, Zenon
<1>c. CASE /\ reply' = StillToSay(Opposed(e), "change") /\ awaited' # "closed"
           /\ awaited' = "password" <=> Opposed(e) = "YES"
  BY <1>8, <1>9, <1>c, Zenon
<1>d. CASE e = "YES"
  <2>1. /\ StillToSay(e, "reply") = <<"password">> /\ StillToSay(e, "final") = <<"close">>
        /\ StillToSay(Opposed(e), "change") = <<"on", "text">> /\ Opposed(e) = "NO"
    BY <1>d DEF StillToSay, Opposed, Shown, Turned
  <2>. QED
    BY <1>2, <1>a, <1>b, <1>c, <1>d, <2>1, Zenon DEF Answer
<1>e. CASE e = "NO"
  <2>1. /\ StillToSay(e, "reply") = <<"text">> /\ StillToSay(e, "final") = <<"close">>
        /\ StillToSay(Opposed(e), "change") = <<"off", "password">> /\ Opposed(e) = "YES"
    BY <1>e DEF StillToSay, Opposed, Shown, Turned
  <2>. QED
    BY <1>2, <1>a, <1>b, <1>c, <1>e, <2>1, Zenon DEF Answer
<1>. QED
  BY <1>d, <1>e, Zenon DEF Ends

\* The server says what comes next.
LEMMA NextSaid ==
    ASSUME OneExchange, server_write, UNCHANGED <<prompt, typed>>
    PROVE  OneExchange'
<1>0. DOMAIN q = Slot /\ DOMAIN wire = Slot
  BY DEF OneExchange
<1>1. PICK e \in Ends, o \in Progress, p \in Places, x \in BOOLEAN : Exchange(e, o, p, x)
  BY Zenon DEF OneExchange
<1>2. /\ Fits(o, p, x) /\ reply = StillToSay(e, p) /\ (x <=> awaited = "closed")
      /\ ~x => (awaited = "password" <=> e = "YES")
  BY <1>1, Zenon DEF Exchange
<1>3. /\ p = "change" => Head(reply) = Turned(e) /\ Tail(reply) = StillToSay(e, "reply")
      /\ p = "reply" => Head(reply) = Shown(e) /\ Tail(reply) = StillToSay(e, "wire")
      /\ p = "final" => Head(reply) = "close" /\ Tail(reply) = StillToSay(e, "over")
      /\ reply = <<>> <=> p \notin {"change", "reply", "final"}
  BY <1>2, SaysOn
<1>4. p \in {"change", "reply", "final"} /\ reply' = Tail(reply)
  BY <1>3, Zenon DEF server_write
<1>5. ~x /\ awaited # "closed"
  BY <1>2, <1>4 DEF Fits
<1>6. prompt' = "none" /\ typed' = 0
  <2>1. p # "screen" /\ p # "typed"
    BY <1>4
  <2>. QED
    BY <1>1, <2>1, Zenon DEF Exchange
<1>7. CASE p = "change"
  <2>1. o = "pending" /\ x = FALSE
    BY <1>2, <1>5, <1>7 DEF Fits
  <2>2. telnet_q_request(server, Head(reply) = "off") /\ awaited' = awaited
    <3>a. Turned(e) \notin Prompt \cup {"close"}
      BY DEF Turned, Prompt
    <3>1. Head(reply) \notin Prompt \cup {"close"}
      BY <1>3, <1>7, <3>a, Zenon
    <3>. QED
      BY <3>1, Zenon DEF server_write
  <2>3. telnet_q_request(server, e = "YES")
    <3>1. (Head(reply) = "off") = (e = "YES")
      BY <1>3, <1>7 DEF Turned
    <3>. QED
      BY <2>2, <3>1, Zenon
  <2>4. /\ DOMAIN q' = Slot /\ DOMAIN wire' = Slot
        /\ q'[client] = AtClient(e, "asked") /\ q'[server] = AtServer(e, "asked")
        /\ wire'[client] = ToClient(e, "asked", "reply", FALSE)
        /\ wire'[server] = ToServer(e, "asked", "reply")
    BY <1>0, <1>1, <1>7, <2>1, <2>3, ServerAsks, Zenon
  <2>5. Fits("asked", "reply", FALSE) /\ "asked" \in Progress /\ "reply" \in Places
    BY DEF Fits, Progress, Places
  <2>6. Exchange(e, "asked", "reply", FALSE)'
    <3>1. reply' = StillToSay(e, "reply")
      BY <1>3, <1>4, <1>7, Zenon
    <3>2. awaited' # "closed" /\ (awaited' = "password" <=> e = "YES")
      BY <1>2, <1>5, <2>2, Zenon
    <3>. QED
      BY <1>6, <2>4, <2>5, <3>1, <3>2, Zenon DEF Exchange
  <2>. QED
    BY <2>4, <2>5, <2>6, Zenon DEF OneExchange
<1>8. ASSUME p # "change"
      PROVE  /\ wire' = [wire EXCEPT ![client] = Append(@, Head(reply))]
             /\ awaited' = IF Head(reply) = "close" THEN "closed" ELSE awaited
             /\ UNCHANGED q
  <2>1. Head(reply) = Shown(e) \/ Head(reply) = "close"
    BY <1>3, <1>4, <1>8
  <2>2. Head(reply) \notin {"off", "on"}
    BY <2>1, Words
  <2>. QED
    BY <2>2, Zenon DEF server_write
<1>9. ASSUME p # "change"
      PROVE  /\ DOMAIN q' = Slot /\ DOMAIN wire' = Slot
             /\ q'[client] = AtClient(e, o) /\ q'[server] = AtServer(e, o)
             /\ wire'[server] = ToServer(e, o, p)
             /\ wire'[client] = Append(ToClient(e, o, p, FALSE), Head(reply))
  <2>1. /\ DOMAIN wire' = Slot /\ wire'[server] = wire[server]
        /\ wire'[client] = Append(wire[client], Head(reply))
    BY <1>0, <1>8, <1>9, TwoEnds
  <2>2. x = FALSE
    BY <1>5
  <2>. QED
    BY <1>0, <1>1, <1>8, <1>9, <2>1, <2>2, Zenon DEF Exchange
<1>10. CASE p = "reply"
  <2>1. Fits(o, "wire", FALSE) /\ Fits(o, p, FALSE) /\ "wire" \in Places
    BY <1>2, <1>5, <1>10 DEF Fits, Places
  <2>2. Head(reply) = Shown(e) /\ reply' = StillToSay(e, "wire") /\ p # "change"
    BY <1>3, <1>4, <1>10
  <2>3. wire'[client] = ToClient(e, o, "wire", FALSE)
    BY <1>9, <1>10, <2>1, <2>2, ServerSays, Zenon
  <2>4. ToServer(e, o, "wire") = ToServer(e, o, p)
    BY <1>10 DEF ToServer
  <2>5. awaited' = awaited
    <3>1. Shown(e) # "close"
      BY DEF Shown
    <3>. QED
      BY <1>8, <2>2, <3>1, Zenon
  <2>6. Exchange(e, o, "wire", FALSE)'
    BY <1>2, <1>5, <1>6, <1>9, <2>1, <2>2, <2>3, <2>4, <2>5, Zenon DEF Exchange
  <2>. QED
    BY <1>9, <2>1, <2>2, <2>6, Zenon DEF OneExchange
<1>11. CASE p = "final"
  <2>1. /\ Fits(o, "over", TRUE) /\ Fits(o, p, FALSE) /\ "over" \in Places
        /\ o = "settled"
    BY <1>2, <1>5, <1>11 DEF Fits, Places
  <2>2. Head(reply) = "close" /\ reply' = StillToSay(e, "over") /\ p # "change"
    BY <1>3, <1>4, <1>11
  <2>3. wire'[client] = ToClient(e, o, p, TRUE)
    <3>1. p \notin {"change", "reply"}
      BY <1>11
    <3>. QED
      BY <1>9, <2>1, <2>2, <3>1, ServerSays, Zenon
  <2>4. /\ ToServer(e, o, "over") = ToServer(e, o, p)
        /\ ToClient(e, o, "over", TRUE) = ToClient(e, o, p, TRUE)
    BY <1>11 DEF ToServer, ToClient
  <2>5. awaited' = "closed"
    BY <1>8, <2>2, Zenon
  <2>6. Exchange(e, o, "over", TRUE)'
    BY <1>6, <1>9, <2>1, <2>2, <2>3, <2>4, <2>5, Zenon DEF Exchange
  <2>. QED
    BY <1>9, <2>1, <2>2, <2>6, Zenon DEF OneExchange
<1>. QED
  BY <1>4, <1>7, <1>10, <1>11

\* A deadline closes the connection wherever the exchange is.
LEMMA ConnectionClosed ==
    ASSUME OneExchange, server_deadline, UNCHANGED <<prompt, typed>>
    PROVE  OneExchange'
<1>0. DOMAIN q = Slot /\ DOMAIN wire = Slot
  BY DEF OneExchange
<1>1. PICK e \in Ends, o \in Progress, p \in Places, x \in BOOLEAN : Exchange(e, o, p, x)
  BY Zenon DEF OneExchange
<1>2. /\ Fits(o, p, x) /\ reply = StillToSay(e, p) /\ ~x /\ reply = <<>>
  BY <1>1, Zenon DEF Exchange, server_deadline
<1>3. p \notin {"change", "reply", "final"}
  <2>1. reply = <<>> <=> p \notin {"change", "reply", "final"}
    BY <1>2, SaysOn, Zenon
  <2>. QED
    BY <1>2, <2>1, Zenon
<1>4. Fits(o, p, TRUE) /\ Fits(o, p, FALSE) /\ p \notin {"change", "reply"}
  BY <1>2, <1>3 DEF Fits
<1>5. /\ DOMAIN wire' = Slot /\ wire'[server] = wire[server]
      /\ wire'[client] = Append(wire[client], "close")
  BY <1>0, TwoEnds DEF server_deadline
<1>6. wire'[client] = ToClient(e, o, p, TRUE)
  <2>1. wire[client] = ToClient(e, o, p, FALSE)
    <3>1. x = FALSE
      BY <1>2
    <3>. QED
      BY <1>1, <3>1, Zenon DEF Exchange
  <2>. QED
    BY <1>4, <1>5, <2>1, ServerSays, Zenon
<1>7. Exchange(e, o, p, TRUE)'
  BY <1>1, <1>4, <1>5, <1>6, Zenon DEF Exchange, server_deadline
<1>. QED
  BY <1>0, <1>5, <1>7, Zenon DEF OneExchange, server_deadline

-----------------------------------------------------------------------------
\* Nothing brings a client back, and nothing the prompts a player was ahead of.
LEMMA StillAlive ==
    ASSUME [CNext]_allvars, Alive', ~ahead'
    PROVE  Alive /\ ~ahead
<1>1. CASE Client
  <2>1. ahead' = ahead
    BY <1>1, Zenon DEF Client, prepare_terminal, install_handlers, connect_tls,
       loop_top, wait,
       select, process_server_bytes, read_fails, send_terminal_input, cleanup, return, player
  <2>2. /\ at \in {"start", "signal", "connect", "loop", "wait", "select", "socket", "stdin",
                   "cleanup", "return"}
        /\ at \in {"cleanup", "return"} => at' \in {"return", "exited"}
    BY <1>1, ZenonT(30) DEF Client, prepare_terminal, install_handlers,
       connect_tls, loop_top, wait,
       select, process_server_bytes, read_fails, send_terminal_input, cleanup, return
  <2>. QED
    BY <2>1, <2>2 DEF Alive, Running
<1>2. CASE Signal
  <2>1. ahead' = ahead /\ at # "absent" /\ ~Gone
    BY <1>2, Zenon DEF Signal, player
  <2>2. at' = "killed" \/ at' = IF at = "select" THEN "loop" ELSE at
    BY <1>2, Zenon DEF Signal, request_stop, note_window_change, handler,
       default_action
  <2>. QED
    BY <2>1, <2>2 DEF Alive, Running
<1>3. CASE type
  BY <1>3, ZenonT(30) DEF type, Alive
<1>4. CASE Server \/ Deadline
  BY <1>4 DEF Server, Deadline, Alive, player
<1>5. CASE Others
  <2>1. at = "absent" /\ at' = at
    BY <1>5, Zenon DEF Others, cvars
  <2>. QED
    BY <2>1 DEF Alive, Running
<1>6. CASE Done \/ UNCHANGED allvars
  <2>1. at' = at /\ ahead' = ahead
    BY <1>6, Zenon DEF Done, allvars, cvars, player
  <2>. QED
    BY <2>1 DEF Alive, Running
<1>. QED
  BY <1>1, <1>2, <1>3, <1>4, <1>5, <1>6, Zenon DEF CNext

\* What leaves the exchange alone.
LEMMA SameExchange ==
    ASSUME OneExchange, UNCHANGED <<q, wire, prompt, typed, conversation>>
    PROVE  OneExchange'
<1>1. PICK e \in Ends, o \in Progress, p \in Places, x \in BOOLEAN : Exchange(e, o, p, x)
  BY Zenon DEF OneExchange
<1>2. Exchange(e, o, p, x)'
  BY <1>1, Zenon DEF Exchange, conversation
<1>. QED
  BY <1>2, Zenon DEF OneExchange

\* Steps that leave connection and terminal alone.
LEMMA ElsewhereStep ==
    ASSUME OneExchange, EchoFollows, UNCHANGED <<vars, player, conversation, terminal>>,
           at # "start" => at' # "start"
    PROVE  OneExchange' /\ EchoFollows'
<1>1. OneExchange'
  BY SameExchange, Zenon DEF vars, player
<1>2. EchoFollows'
  BY Zenon DEF EchoFollows, vars, terminal
<1>. QED
  BY <1>1, <1>2

\* At most one line waits in the terminal's input queue.
LEMMA TypedFact ==
    ASSUME OneExchange
    PROVE  typed \in {0, 1}
<1>1. PICK e \in Ends, o \in Progress, p \in Places, x \in BOOLEAN : Exchange(e, o, p, x)
  BY Zenon DEF OneExchange
<1>2. typed = IF p = "typed" THEN 1 ELSE 0
  BY <1>1, Zenon DEF Exchange
<1>. QED
  BY <1>2

\* The client reads the connection.
LEMMA SocketStep ==
    ASSUME OneExchange, EchoFollows, LineToRead, ~ahead, process_server_bytes, Alive'
    PROVE  OneExchange' /\ EchoFollows' /\ LineToRead'
<1>1. /\ at = "socket" /\ wire[client] # <<>> /\ UNCHANGED <<terminal_saved, typed>>
  BY DEF process_server_bytes
<1>2. CASE /\ Head(wire[client]) \in Command /\ telnet_q_receive(client)
           /\ IF telnet_q_enabled(client) # (q'[client].state = "YES")
              THEN set_local_echo(EchoChange)
              ELSE UNCHANGED <<local_echo_enabled, echo, faulty>>
           /\ AfterItem /\ UNCHANGED <<prompt, conversation>>
  <2>1. OneExchange'
    BY <1>1, <1>2, CommandRead, Zenon
  <2>2. at' # "start"
    BY <1>2 DEF AfterItem
  <2>3. EchoFollows'
    <3>. SUFFICES ASSUME terminal_saved', ~faulty'
                  PROVE  /\ local_echo_enabled' <=> q'[client].state # "YES"
                         /\ echo' <=> q'[client].state # "YES"
      BY <2>2 DEF EchoFollows
    <3>1. terminal_saved
      BY <1>1
    <3>2. CASE ~(telnet_q_enabled(client) # (q'[client].state = "YES"))
      <4>1. UNCHANGED <<local_echo_enabled, echo, faulty>>
        BY <1>2, <3>2, Zenon
      <4>2. q[client].state = "YES" <=> q'[client].state = "YES"
        BY <3>2, Zenon DEF telnet_q_enabled
      <4>. QED
        BY <3>1, <4>1, <4>2, Zenon DEF EchoFollows
    <3>3. CASE telnet_q_enabled(client) # (q'[client].state = "YES")
      <4>1. set_local_echo(EchoChange)
        BY <1>2, <3>3, Zenon
      <4>2. ~faulty
        BY <4>1, Zenon DEF set_local_echo
      <4>3. ~(q[client].state = "YES" <=> q'[client].state = "YES")
        BY <3>3, Zenon DEF telnet_q_enabled
      <4>4. local_echo_enabled <=> q[client].state # "YES"
        BY <3>1, <4>2, Zenon DEF EchoFollows
      <4>5. local_echo_enabled # EchoChange
        BY <4>3, <4>4, Zenon DEF EchoChange
      <4>6. echo' = EchoChange /\ local_echo_enabled' = EchoChange
        BY <3>1, <4>1, <4>5, Zenon DEF set_local_echo
      <4>. QED
        BY <4>6, Zenon DEF EchoChange
    <3>. QED
      BY <3>2, <3>3
  <2>4. LineToRead'
    BY <1>1, <1>2 DEF LineToRead, AfterItem
  <2>. QED
    BY <2>1, <2>3, <2>4
<1>3. CASE /\ Head(wire[client]) \in Prompt
           /\ prompt' = IF ahead THEN "none" ELSE Head(wire[client])
           /\ Consumes(client) /\ AfterItem
           /\ UNCHANGED <<q, desired, local_echo_enabled, echo, faulty, conversation>>
  <2>1. OneExchange'
    BY <1>1, <1>3, PromptRead, Zenon
  <2>2. at' # "start"
    BY <1>3 DEF AfterItem
  <2>3. EchoFollows'
    BY <1>1, <1>3, <2>2, Zenon DEF EchoFollows
  <2>4. LineToRead'
    BY <1>1, <1>3 DEF LineToRead, AfterItem
  <2>. QED
    BY <2>1, <2>3, <2>4
<1>4. CASE Leave
  BY <1>4 DEF Leave, Alive, Running
<1>. QED
  BY <1>2, <1>3, <1>4, Zenon DEF process_server_bytes

\* The server's steps leave the client's side alone.
LEMMA ServerElsewhere ==
    ASSUME DOMAIN q = Slot, server_read \/ server_write \/ server_deadline
    PROVE  q'[client] = q[client]
<1>1. q' = q \/ \E state, queued : Becomes(server, state, queued)
  BY Zenon DEF server_read, server_write, server_deadline, telnet_q_receive,
     telnet_q_request,
     receive_positive, receive_negative, request_enable, request_disable, Stays
<1>2. ASSUME NEW state, NEW queued, Becomes(server, state, queued)
      PROVE  q'[client] = q[client]
  BY <1>2, TwoEnds DEF Becomes
<1>. QED
  BY <1>1, <1>2, Zenon

\* Every step keeps the invariant.
LEMMA ClientStep == ClientInv /\ [CNext]_allvars => ClientInv'
<1>. SUFFICES ASSUME ClientInv, [CNext]_allvars, Alive', ~ahead'
              PROVE  OneExchange' /\ EchoFollows' /\ LineToRead'
  BY Zenon DEF ClientInv
<1>1. Alive /\ ~ahead
  BY StillAlive, Zenon
<1>2. OneExchange /\ EchoFollows /\ LineToRead
  BY <1>1, Zenon DEF ClientInv
<1>3. typed \in {0, 1}
  BY <1>2, TypedFact, Zenon
<1>4. ~Leave
  BY DEF Leave, Alive, Running
<1>5. CASE prepare_terminal
  <2>1. OneExchange'
    BY <1>2, <1>5, SameExchange, Zenon DEF prepare_terminal, vars, player
  <2>2. EchoFollows'
    BY <1>2, <1>5, Zenon DEF prepare_terminal, EchoFollows, vars
  <2>3. at = "start" /\ at' \in {"signal", "return"} /\ stdin_ready' = stdin_ready
    BY <1>5, Zenon DEF prepare_terminal
  <2>4. LineToRead'
    BY <1>2, <2>3 DEF LineToRead
  <2>. QED
    BY <2>1, <2>2, <2>4
<1>6. CASE install_handlers
  <2>1. OneExchange' /\ EchoFollows'
    BY <1>2, <1>6, ElsewhereStep DEF install_handlers
  <2>2. LineToRead'
    BY <1>2, <1>6 DEF LineToRead, install_handlers
  <2>. QED
    BY <2>1, <2>2
<1>7. CASE connect_tls
  <2>1. /\ at = "connect" /\ at' = "loop"
        /\ UNCHANGED <<vars, player, conversation, terminal, stdin_ready>>
    BY <1>4, <1>7, Zenon DEF connect_tls
  <2>2. OneExchange' /\ EchoFollows'
    BY <1>2, <2>1, ElsewhereStep
  <2>3. LineToRead'
    BY <1>2, <2>1 DEF LineToRead
  <2>. QED
    BY <2>2, <2>3
<1>8. CASE loop_top
  <2>1. /\ at = "loop" /\ at' = "wait"
        /\ UNCHANGED <<vars, player, conversation, terminal, stdin_ready>>
    BY <1>4, <1>8, Zenon DEF loop_top
  <2>2. OneExchange' /\ EchoFollows'
    BY <1>2, <2>1, ElsewhereStep
  <2>3. LineToRead'
    BY <1>2, <2>1 DEF LineToRead
  <2>. QED
    BY <2>2, <2>3
<1>9. CASE wait
  <2>1. /\ at = "wait" /\ at' \in {"select", "socket"}
        /\ UNCHANGED <<vars, player, conversation, terminal, stdin_ready>>
    BY <1>9, Zenon DEF wait
  <2>2. OneExchange' /\ EchoFollows'
    BY <1>2, <2>1, ElsewhereStep
  <2>3. LineToRead'
    BY <1>2, <2>1 DEF LineToRead
  <2>. QED
    BY <2>2, <2>3
<1>10. CASE select
  <2>1. /\ at = "select" /\ UNCHANGED <<vars, player, conversation, terminal>>
        /\ \/ at' = "socket" /\ (stdin_ready' <=> typed > 0)
           \/ at' = "stdin" /\ stdin_ready' = stdin_ready /\ typed > 0
    BY <1>10, Zenon DEF select
  <2>2. OneExchange' /\ EchoFollows'
    BY <1>2, <2>1, ElsewhereStep
  <2>3. typed' = typed
    BY <2>1 DEF player
  <2>4. LineToRead'
    BY <1>2, <2>1, <2>3 DEF LineToRead
  <2>. QED
    BY <2>2, <2>4
<1>11. CASE process_server_bytes
  BY <1>1, <1>2, <1>11, SocketStep, Zenon
<1>12. CASE read_fails
  <2>1. /\ at = "socket" /\ at' = "loop" /\ stdin_ready' = FALSE
        /\ UNCHANGED <<vars, player, conversation, terminal>>
    BY <1>4, <1>12, Zenon DEF read_fails
  <2>2. OneExchange' /\ EchoFollows'
    BY <1>2, <2>1, ElsewhereStep
  <2>3. LineToRead'
    BY <2>1 DEF LineToRead
  <2>. QED
    BY <2>2, <2>3
<1>13. CASE send_terminal_input
  <2>1. /\ at = "stdin" /\ at' = "loop" /\ typed' = typed - 1
        /\ wire' = [wire EXCEPT ![server] = Append(@, "line")]
        /\ UNCHANGED <<q, conversation, terminal, prompt, stdin_ready>>
    BY <1>4, <1>13, Zenon DEF send_terminal_input
  <2>2. typed > 0
    BY <1>2, <2>1, Zenon DEF LineToRead
  <2>3. OneExchange'
    BY <1>2, <2>1, <2>2, LineSent, Zenon
  <2>4. EchoFollows'
    <3>1. at' # "start"
      BY <2>1
    <3>. QED
      BY <1>2, <2>1, <3>1, Zenon DEF EchoFollows, terminal
  <2>5. LineToRead'
    BY <1>2, <2>1 DEF LineToRead
  <2>. QED
    BY <2>3, <2>4, <2>5
<1>14. CASE cleanup \/ return
  BY <1>14, ZenonT(30) DEF cleanup, return, Alive, Running
<1>15. CASE Signal
  <2>1. /\ UNCHANGED <<vars, terminal, conversation, player, stdin_ready>>
        /\ at' = IF at = "select" THEN "loop" ELSE at
    <3>1. at' # "killed"
      BY DEF Alive, Running
    <3>. QED
      BY <1>15, <3>1, Zenon DEF Signal, request_stop, note_window_change,
         handler, default_action
  <2>2. at # "start" => at' # "start"
    BY <2>1
  <2>3. OneExchange' /\ EchoFollows'
    BY <1>2, <2>1, <2>2, ElsewhereStep, Zenon
  <2>4. typed' = typed
    BY <2>1 DEF player
  <2>5. LineToRead'
    BY <1>2, <2>1, <2>4 DEF LineToRead
  <2>. QED
    BY <2>3, <2>5
<1>16. CASE type
  <2>1. /\ UNCHANGED <<vars, at, terminal, conversation, stdin_ready>>
        /\ prompt # "none" /\ prompt' = "none" /\ typed' = typed + 1
    BY <1>16, Zenon DEF type
  <2>2. OneExchange'
    BY <1>2, <2>1, LineTyped, Zenon DEF vars
  <2>3. EchoFollows'
    BY <1>2, <2>1, Zenon DEF EchoFollows, terminal, vars
  <2>4. LineToRead'
    BY <1>2, <1>3, <2>1 DEF LineToRead
  <2>. QED
    BY <2>2, <2>3, <2>4
<1>17. CASE Server \/ Deadline
  <2>1. UNCHANGED <<at, terminal, prompt, typed, stdin_ready>>
    BY <1>17, Zenon DEF Server, Deadline, player
  <2>2. server_read \/ server_write \/ server_deadline
    BY <1>17, Zenon DEF Server, Deadline
  <2>3. OneExchange'
    <3>1. CASE /\ server_read /\ Head(wire[server]) \in Command /\ telnet_q_receive(server)
               /\ UNCHANGED conversation
      BY <1>2, <2>1, <3>1, AnswerRead, Zenon DEF server_read
    <3>2. CASE /\ server_read /\ Head(wire[server]) = "line" /\ Consumes(server) /\ Answer
               /\ UNCHANGED <<q, desired>>
      BY <1>2, <2>1, <3>2, LineRead, Zenon DEF server_read
    <3>3. CASE server_write \/ server_deadline
      BY <1>2, <2>1, <3>3, NextSaid, ConnectionClosed, Zenon
    <3>. QED
      BY <2>2, <3>1, <3>2, <3>3, Zenon DEF server_read
  <2>4. q'[client] = q[client]
    BY <1>2, <2>2, ServerElsewhere, Zenon DEF OneExchange
  <2>5. EchoFollows'
    BY <1>2, <2>1, <2>4, Zenon DEF EchoFollows, terminal
  <2>6. LineToRead'
    BY <1>2, <2>1, Zenon DEF LineToRead
  <2>. QED
    BY <2>3, <2>5, <2>6
<1>18. CASE Others
  <2>1. at' = "absent"
    BY <1>18, Zenon DEF Others, cvars
  <2>. QED
    BY <2>1 DEF Alive, Running
<1>19. CASE Done \/ UNCHANGED allvars
  <2>1. UNCHANGED <<vars, player, conversation, terminal, at, stdin_ready>>
    BY <1>19, Zenon DEF Done, allvars, cvars
  <2>2. OneExchange' /\ EchoFollows'
    BY <1>2, <2>1, ElsewhereStep, Zenon
  <2>3. typed' = typed
    BY <2>1, Zenon DEF player
  <2>4. LineToRead'
    BY <1>2, <2>1, <2>3, Zenon DEF LineToRead
  <2>. QED
    BY <2>2, <2>4
<1>. QED
  BY <1>5, <1>6, <1>7, <1>8, <1>9, <1>10, <1>11, <1>12, <1>13, <1>14, <1>15,
     <1>16, <1>17,
     <1>18, <1>19, Zenon DEF CNext, Client

\* The server starts with the name prompt, and the terminal echoes.
LEMMA ClientStart == CInit => ClientInv
<1>. SUFFICES ASSUME CInit PROVE OneExchange /\ EchoFollows /\ LineToRead
  BY DEF ClientInv
<1>1. /\ DOMAIN q = Slot /\ DOMAIN wire = Slot
      /\ q[client] = Rest("NO") /\ q[server] = Rest("NO")
      /\ wire[client] = <<>> /\ wire[server] = <<>>
  BY TwoEnds DEF CInit, Init, telnet_q_init, Rest
<1>2. Exchange("NO", "settled", "reply", FALSE)
  <2>1. Fits("settled", "reply", FALSE)
    BY DEF Fits
  <2>2. /\ AtClient("NO", "settled") = Rest("NO") /\ AtServer("NO", "settled") = Rest("NO")
        /\ ToClient("NO", "settled", "reply", FALSE) = <<>>
        /\ ToServer("NO", "settled", "reply") = <<>> /\ StillToSay("NO", "reply") = <<"text">>
    BY DEF AtClient, AtServer, ToClient, ToServer, StillToSay, Shown
  <2>. QED
    BY <1>1, <2>1, <2>2, ZenonT(30) DEF Exchange, CInit
<1>3. OneExchange
  BY <1>1, <1>2, Zenon DEF OneExchange, Ends, Progress, Places
<1>4. EchoFollows
  <2>1. q[client].state = "NO"
    BY <1>1, SideFields, Zenon
  <2>. QED
    BY <2>1 DEF EchoFollows, CInit
<1>5. LineToRead
  BY DEF LineToRead, CInit
<1>. QED
  BY <1>3, <1>4, <1>5

\* While a player answers each prompt when it is shown, the connection and the
\* dialogue of secure_client.c and telnet_protocol.c are at one of the stages
\* of a single exchange, and the terminal echoes as the client's side of ECHO
\* says.
THEOREM ClientInvariant == CSpec => []ClientInv
<1>. QED
  BY ClientStart, ClientStep, PTL DEF CSpec

\* A password prompt of the server is on the screen of secure_client.c only
\* when the terminal no longer echoes, for a player who answers each prompt
\* when it is shown, whatever signals arrive and whenever the server closes
\* the connection.
THEOREM PasswordHiddenHolds == CSpec => []PasswordHidden
<1>1. ClientInv => PasswordHidden
  <2>. SUFFICES ASSUME ClientInv, Running, terminal_saved, ~faulty, ~ahead,
                       prompt = "password"
                PROVE  ~echo
    BY Zenon DEF PasswordHidden
  <2>1. OneExchange /\ EchoFollows
    BY Zenon DEF ClientInv, Alive
  <2>2. PICK e \in Ends, o \in Progress, p \in Places, x \in BOOLEAN : Exchange(e, o, p, x)
    BY <2>1, Zenon DEF OneExchange
  <2>3. /\ Fits(o, p, x) /\ prompt = (IF p = "screen" THEN Shown(e) ELSE "none")
        /\ q[client] = AtClient(e, o)
    BY <2>2, Zenon DEF Exchange
  <2>4. p = "screen" /\ e = "YES"
    BY <2>3 DEF Shown
  <2>5. o \notin {"pending", "asked"}
    BY <2>3, <2>4 DEF Fits
  <2>6. q[client].state = "YES"
    BY <2>3, <2>4, <2>5, SideFields, Zenon DEF AtClient
  <2>. QED
    BY <2>1, <2>6, Zenon DEF EchoFollows
<1>. QED
  BY <1>1, ClientInvariant, PTL
=============================================================================
