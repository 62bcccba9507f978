------------------------------- MODULE TelnetQ -------------------------------
(***************************************************************************)
(* The RFC 1143 option negotiator of src/src/telnet_negotiation.c, run by  *)
(* both ends of one connection: the server (src/src/telnet_protocol.c) and *)
(* the development client (src/tools/secure_client.c) share that file.     *)
(*                                                                         *)
(* A slot <<peer, direction, option>> is one telnet_q_side.  Its mate is   *)
(* the side that negotiates the same option at the other end: what is      *)
(* local to one peer is remote to the other.  wire[s] holds the commands   *)
(* that are on their way to slot s, oldest first.  The byte stream orders  *)
(* commands of different options too, but telnet_q_receive never looks at  *)
(* two options at once, so one queue per slot loses no behaviour.          *)
(***************************************************************************)
EXTENDS Naturals, Sequences

CONSTANTS
    Option,     \* the option codes under negotiation
    Accepts,    \* the slots whose q_accept_callback always answers 1
    Echo,       \* the slots whose q_accept_callback answers echo_desired
    Requests,   \* the slots whose owner calls telnet_q_request
    Foreign,    \* the slots of a peer that does not run telnet_negotiation.c
    MaxStray    \* bound on the commands in flight when a foreign peer sends

Peer == {"server", "client"}
Direction == {"local", "remote"}
Slot == Peer \X Direction \X Option

ASSUME SlotAssumption ==
    /\ Accepts \subseteq Slot
    /\ Echo \subseteq Slot
    /\ Requests \subseteq Slot
    /\ Foreign \subseteq Slot
    /\ Requests \cap Foreign = {}

\* The sides this negotiator keeps.
Ours == Slot \ Foreign

VARIABLES
    q,          \* the telnet_q_side of every slot
    wire,       \* commands sent to a slot and not yet received by it
    desired     \* the last value the owner asked for (echo_desired for ECHO)

vars == <<q, wire, desired>>

Other(p) == IF p = "server" THEN "client" ELSE "server"

Opposite(d) == IF d = "local" THEN "remote" ELSE "local"

Mate(s) == <<Other(s[1]), Opposite(s[2]), s[3]>>

\* The sides whose other end runs this negotiator too.
Linked == {s \in Ours : Mate(s) \in Ours}

Command == {"WILL", "WONT", "DO", "DONT"}

enable_command(d) == IF d = "local" THEN "WILL" ELSE "DO"

disable_command(d) == IF d = "local" THEN "WONT" ELSE "DONT"

\* The direction a received command is about, and whether it is positive.
addressed(c) == IF c \in {"WILL", "WONT"} THEN "remote" ELSE "local"

positive(c) == c \in {"WILL", "DO"}

Side == [state : {"NO", "YES", "WANTNO", "WANTYES"}, queued : BOOLEAN]

telnet_q_init == [state |-> "NO", queued |-> FALSE]

telnet_q_enabled(s) == q[s].state = "YES"

q_accept_callback(s) == s \in Accepts \/ (s \in Echo /\ desired[s])

-----------------------------------------------------------------------------
\* side->state and side->queued_opposite after a step of slot s.
Becomes(s, state, queued) ==
    q' = [q EXCEPT ![s] = [state |-> state, queued |-> queued]]

Stays(s) == UNCHANGED q

\* send_fn: a command reaches the mate's queue; a receiver first consumes
\* the command it answers.
Sends(s, c) == wire' = [wire EXCEPT ![Mate(s)] = Append(@, c)]

Answers(s, c) ==
    wire' = [wire EXCEPT ![s] = Tail(@), ![Mate(s)] = Append(@, c)]

Consumes(s) == wire' = [wire EXCEPT ![s] = Tail(@)]

request_enable(s) ==
    \/ q[s].state = "NO" /\ Becomes(s, "WANTYES", FALSE) /\ Sends(s, enable_command(s[2]))
    \/ q[s].state = "YES" /\ Stays(s) /\ UNCHANGED wire
    \/ q[s].state = "WANTNO" /\ Becomes(s, "WANTNO", TRUE) /\ UNCHANGED wire
    \/ q[s].state = "WANTYES" /\ Becomes(s, "WANTYES", FALSE) /\ UNCHANGED wire

request_disable(s) ==
    \/ q[s].state = "NO" /\ Stays(s) /\ UNCHANGED wire
    \/ q[s].state = "YES" /\ Becomes(s, "WANTNO", FALSE) /\ Sends(s, disable_command(s[2]))
    \/ q[s].state = "WANTNO" /\ Becomes(s, "WANTNO", FALSE) /\ UNCHANGED wire
    \/ q[s].state = "WANTYES" /\ Becomes(s, "WANTYES", TRUE) /\ UNCHANGED wire

\* password_echo_off/on store echo_desired before they call the negotiator.
telnet_q_request(s, enable) ==
    /\ desired' = [desired EXCEPT ![s] = enable]
    /\ IF enable THEN request_enable(s) ELSE request_disable(s)

\* (mutant) a change of mind queued behind an enable is forgotten
receive_positive_drops_queue(s, allow_enable) ==
    \/ /\ q[s].state = "NO" /\ allow_enable
       /\ Becomes(s, "YES", FALSE) /\ Answers(s, enable_command(s[2]))
    \/ /\ q[s].state = "NO" /\ ~allow_enable
       /\ Stays(s) /\ Answers(s, disable_command(s[2]))
    \/ q[s].state = "YES" /\ Stays(s) /\ Consumes(s)
    \/ /\ q[s].state = "WANTNO"
       /\ Becomes(s, IF q[s].queued THEN "YES" ELSE "NO", FALSE) /\ Consumes(s)
    \/ q[s].state = "WANTYES" /\ Becomes(s, "YES", FALSE) /\ Consumes(s)

receive_positive(s, allow_enable) ==
    \/ /\ q[s].state = "NO" /\ allow_enable
       /\ Becomes(s, "YES", FALSE) /\ Answers(s, enable_command(s[2]))
    \/ /\ q[s].state = "NO" /\ ~allow_enable
       /\ Stays(s) /\ Answers(s, disable_command(s[2]))
    \/ q[s].state = "YES" /\ Stays(s) /\ Consumes(s)
    \/ /\ q[s].state = "WANTNO"
       /\ Becomes(s, IF q[s].queued THEN "YES" ELSE "NO", FALSE) /\ Consumes(s)
    \/ /\ q[s].state = "WANTYES" /\ ~q[s].queued
       /\ Becomes(s, "YES", FALSE) /\ Consumes(s)
    \/ /\ q[s].state = "WANTYES" /\ q[s].queued
       /\ Becomes(s, "WANTNO", FALSE) /\ Answers(s, disable_command(s[2]))

\* (mutant) a disable is obeyed but not acknowledged
receive_negative_silent(s) ==
    \/ /\ \/ q[s].state \in {"NO", "YES", "WANTYES"}
          \/ q[s].state = "WANTNO" /\ ~q[s].queued
       /\ Becomes(s, "NO", FALSE) /\ Consumes(s)
    \/ /\ q[s].state = "WANTNO" /\ q[s].queued
       /\ Becomes(s, "WANTYES", FALSE) /\ Answers(s, enable_command(s[2]))

\* (mutant) every disable is acknowledged, also one that changes nothing
receive_negative_always_answers(s) ==
    \/ /\ q[s].state \in {"NO", "YES"}
       /\ Becomes(s, "NO", FALSE) /\ Answers(s, disable_command(s[2]))
    \/ /\ q[s].state = "WANTNO" /\ ~q[s].queued
       /\ Becomes(s, "NO", FALSE) /\ Consumes(s)
    \/ /\ q[s].state = "WANTNO" /\ q[s].queued
       /\ Becomes(s, "WANTYES", FALSE) /\ Answers(s, enable_command(s[2]))
    \/ /\ q[s].state = "WANTYES"
       /\ Becomes(s, "NO", FALSE) /\ Answers(s, disable_command(s[2]))

receive_negative(s) ==
    \/ q[s].state = "NO" /\ Stays(s) /\ Consumes(s)
    \/ /\ q[s].state = "YES"
       /\ Becomes(s, "NO", FALSE) /\ Answers(s, disable_command(s[2]))
    \/ /\ q[s].state = "WANTNO" /\ ~q[s].queued
       /\ Becomes(s, "NO", FALSE) /\ Consumes(s)
    \/ /\ q[s].state = "WANTNO" /\ q[s].queued
       /\ Becomes(s, "WANTYES", FALSE) /\ Answers(s, enable_command(s[2]))
    \/ q[s].state = "WANTYES" /\ Becomes(s, "NO", FALSE) /\ Consumes(s)

telnet_q_receive(s) ==
    /\ wire[s] # <<>>
    /\ addressed(Head(wire[s])) = s[2]
    /\ IF positive(Head(wire[s]))
       THEN receive_positive(s, q_accept_callback(s))
       ELSE receive_negative(s)
    /\ UNCHANGED desired

\* A peer that is not ours may ignore what it is told and send any command.
foreign_peer(s) ==
    /\ \/ wire[s] # <<>> /\ Consumes(s)
       \/ /\ Len(wire[s]) + Len(wire[Mate(s)]) < MaxStray
          /\ \E c \in Command : addressed(c) = Mate(s)[2] /\ Sends(s, c)
    /\ UNCHANGED <<q, desired>>

-----------------------------------------------------------------------------
Init ==
    /\ q = [s \in Slot |-> telnet_q_init]
    /\ wire = [s \in Slot |-> <<>>]
    /\ desired = [s \in Slot |-> FALSE]

Next ==
    \/ \E s \in Requests, enable \in BOOLEAN : telnet_q_request(s, enable)
    \/ \E s \in Ours : telnet_q_receive(s)
    \/ \E s \in Slot \ Ours : foreign_peer(s)

\* Both ends read their socket until it is closed, so a command that has
\* been sent is eventually received.  Nobody is obliged to request anything.
Fairness == \A s \in Ours : WF_vars(telnet_q_receive(s))

Spec == Init /\ [][Next]_vars /\ Fairness

-----------------------------------------------------------------------------
\* The types, and the RFC 1143 shape of a telnet_q_side: a change of mind is
\* queued only while an answer is outstanding, whatever the other end sends.
TypeOK ==
    /\ q \in [Slot -> Side]
    /\ \A s \in Slot : q[s].queued => q[s].state \in {"WANTNO", "WANTYES"}
    /\ wire \in [Slot -> Seq(Command)]
    /\ desired \in [Slot -> BOOLEAN]

Settled(s) == wire[s] = <<>> /\ wire[Mate(s)] = <<>>

\* The server takes itself to be echoing only while the login dialogue hides
\* a password: a late or a stray DO ECHO never turns it on.
EchoOnlyWhenDesired ==
    \A s \in Echo \cap Ours : telnet_q_enabled(s) => desired[s]

\* When no command about an option is in flight, the two ends of
\* telnet_negotiation.c hold the same answer and neither is still waiting
\* for the other: no interleaving of requests and replies leaves one side
\* using an option the other has off, or waiting for a lost reply.
Agreement ==
    \A s \in Linked : Settled(s) =>
        /\ q[s] = q[Mate(s)]
        /\ q[s].state \in {"NO", "YES"}

\* The row of receive_positive that RFC 1143 calls an error, a disable
\* request answered by an enable, is never entered between two ends that
\* both run this negotiator.
NoErrorRow ==
    \A s \in Linked :
        wire[s] # <<>> /\ positive(Head(wire[s])) => q[s].state # "WANTNO"

\* At most two commands about an option are ever under way between two ends
\* of this negotiator, whatever the owners request and however often: replies
\* do not pile up.
BoundedBacklog == \A s \in Linked : Len(wire[s]) <= 2

Quiescent == \A s \in Linked : wire[s] = <<>>

\* Negotiation does not loop: if the owners stop requesting, the replies
\* die out and the channel stays silent (RFC 1143's reason for the queue).
ChatterStops ==
    <>[][\E s \in Slot : telnet_q_receive(s)]_vars => <>[]Quiescent
=============================================================================
