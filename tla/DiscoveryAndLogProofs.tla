----------------------- MODULE DiscoveryAndLogProofs ------------------------
(***************************************************************************)
(* Proofs about ClientDiscovery, for any widths, limits and number of      *)
(* resizes, and about AuditLog, for any size and number of files.          *)
(*                                                                         *)
(* ClientDiscovery, Utf8Agreed: the client requests UTF-8 only after it    *)
(* has agreed to BINARY both ways, and the stream keeps that order, so the *)
(* server never rejects the request; and without a rejection the client    *)
(* never leaves UTF-8.  What switches the server to UTF-8 is then an       *)
(* acceptance it sends, or a message the client sent while on UTF-8.       *)
(*                                                                         *)
(* AuditLog: the records are numbered as they are written, and marks,      *)
(* falling from the active file to the last archive, cut them into runs,   *)
(* one in each file.  A rename moves a mark, and only what the last        *)
(* archive held is dropped.  As a rotation starts from a full file, an     *)
(* archive is a full file unless a fault has cut a rotation short, and     *)
(* each fault costs one archive at most.                                   *)
(***************************************************************************)
EXTENDS ClientDiscovery, AuditLog, WellFoundedInduction, TLAPS

-----------------------------------------------------------------------------
\* Sequences are equal when their elements are.
LEMMA FunEqual ==
    ASSUME NEW D, NEW R, NEW f \in [D -> R], NEW g \in [D -> R], \A i \in D : f[i] = g[i]
    PROVE  f = g
OBVIOUS

LEMMA SeqEqual ==
    ASSUME NEW S, NEW s \in Seq(S), NEW t \in Seq(S), Len(s) = Len(t),
           \A i \in 1 .. Len(s) : s[i] = t[i]
    PROVE  s = t
<1>. DEFINE D == 1 .. Len(s)
<1>1. s \in [D -> S] /\ t \in [D -> S] /\ \A i \in D : s[i] = t[i]
  OBVIOUS
<1>. HIDE DEF D
<1>. QED
  BY <1>1, FunEqual

\* A function on 1 .. n is a sequence.
LEMMA FunctionIsSeq ==
    ASSUME NEW S, NEW n \in Nat, NEW f \in [1 .. n -> S]
    PROVE  f \in Seq(S)
OBVIOUS

\* Appending is concatenating.
LEMMA AppendIsConcat ==
    ASSUME NEW S, NEW s \in Seq(S), NEW e \in S
    PROVE  Append(s, e) = s \o <<e>>
<1>1. Append(s, e) \in Seq(S) /\ s \o <<e>> \in Seq(S)
  OBVIOUS
<1>2. /\ Len(Append(s, e)) = Len(s \o <<e>>)
      /\ \A i \in 1 .. Len(Append(s, e)) : Append(s, e)[i] = (s \o <<e>>)[i]
  OBVIOUS
<1>. QED
  BY <1>1, <1>2, SeqEqual, Zenon

-----------------------------------------------------------------------------
(* ClientDiscovery *)

StaleInv == application \in BOOLEAN /\ StaleOnlySilently

-----------------------------------------------------------------------------
\* Every handler keeps the application's copy up to date, or is one of those
\* that take a report in silently.
LEMMA HandlerStale ==
    ASSUME StaleInv,
           \/ \E options : receive_telnet_option(options)
           \/ \E w : handle_naws(w)
           \/ \E r : handle_terminal_type(r)
           \/ malformed_terminal_type
           \/ \E kind : handle_charset(kind)
           \/ \E c, m, t, o, whole : handle_new_environ(c, m, t, o, whole)
           \/ enter_game
    PROVE  StaleInv'
<1>. USE DEF StaleInv, StaleOnlySilently, copy_terminal_capabilities, Capabilities, IfAgreed,
             Silently, charset_vars, ttype_vars
<1>0. CASE UNCHANGED vars
  BY <1>0 DEF vars
<1>1. ASSUME NEW options, receive_telnet_option(options) PROVE StaleInv'
  BY <1>1 DEF receive_telnet_option, update_option_metadata,
     notify_application_capabilities
<1>2. ASSUME NEW w, handle_naws(w) PROVE StaleInv'
  BY <1>0, <1>2 DEF handle_naws
<1>3. ASSUME NEW r, handle_terminal_type(r) PROVE StaleInv'
  BY <1>0, <1>3, Zenon DEF handle_terminal_type
<1>4. CASE malformed_terminal_type
  BY <1>0, <1>4 DEF malformed_terminal_type
<1>5. ASSUME NEW kind, handle_charset(kind) PROVE StaleInv'
  BY <1>0, <1>5 DEF handle_charset
<1>6. ASSUME NEW c, NEW m, NEW t, NEW o, NEW whole, handle_new_environ(c, m, t, o, whole)
      PROVE  StaleInv'
  BY <1>0, <1>6 DEF handle_new_environ, update_option_metadata,
     notify_application_capabilities
<1>7. CASE enter_game
  BY <1>7 DEF enter_game
<1>. QED
  BY <1>1, <1>2, <1>3, <1>4, <1>5, <1>6, <1>7

\* The application's copy is out of date only silently, in every step.
LEMMA StaleStep == StaleInv /\ [DNext]_allvars => StaleInv'
<1>. SUFFICES ASSUME StaleInv, [DNext]_allvars PROVE StaleInv'
  OBVIOUS
<1>1. CASE UNCHANGED vars
  BY <1>1 DEF vars, StaleInv, StaleOnlySilently, copy_terminal_capabilities,
     charset_vars
<1>2. CASE Next
  BY <1>2, HandlerStale, Zenon DEF Next
<1>3. CASE telnet_session_receive
  BY <1>3, HandlerStale, Zenon DEF telnet_session_receive
<1>4. CASE login
  BY <1>4, HandlerStale DEF login
<1>. QED
  BY <1>1, <1>2, <1>3, <1>4
     DEF DNext, Exchange, process_server_bytes, report_window, resize, allvars

\* Whatever the client and the order of its reports, what the application was
\* told is out of date only after a report that does not notify it.
THEOREM StaleOnlySilentlyHolds == DSpec => []StaleOnlySilently
<1>1. DInit => StaleInv
  BY Zenon DEF DInit, Init, StaleInv, StaleOnlySilently
<1>2. StaleInv => StaleOnlySilently
  BY DEF StaleInv
<1>. QED
  BY <1>1, <1>2, StaleStep, PTL DEF DSpec

-----------------------------------------------------------------------------
Requested == <<"CHARSET", "REQUEST">>
Accepted == <<"CHARSET", "ACCEPTED">>
OptionMessage(o) == <<"OPTION", o>>
Negotiation == {OptionMessage(o) : o \in Option}

\* What each end may have sent; a rejection is not among it.
ServerMessage ==
    Negotiation \cup {Requested, Accepted, <<"SEND TYPE">>, <<"SEND ENVIRON">>}
ClientMessage ==
    Negotiation \cup {Requested, Accepted}
    \cup {<<"NAWS", w>> : w \in Nat}
    \cup {<<"TYPE", t>> : t \in Type \cup Mtts \cup {"UNKNOWN"}}
    \cup {<<"ENVIRON", c, m, t>> :
              c \in {"UTF-8", "ASCII"}, m \in Mtts, t \in Type \cup {"UNKNOWN"}}

\* An option that is known to be on, or will be when s has been read.
Given(s, known, o) == o \in known \/ \E j \in 1 .. Len(s) : s[j] = OptionMessage(o)

\* Every request in s comes after BINARY.
Ordered(s, known) ==
    \A i \in 1 .. Len(s) : s[i] = Requested =>
        \A b \in Binary : b \in known \/ \E j \in 1 .. i - 1 : s[j] = OptionMessage(b)

\* The client sends these only when it is on UTF-8.
SaysUtf8(m) == m = Accepted \/ (m[1] = "ENVIRON" /\ m[2] = "UTF-8")

\* What the client has sent, s, given what the server knows, what the client
\* has agreed upon and whether it is on UTF-8.
Sound(s, known, options, utf8) ==
    /\ s \in Seq(ClientMessage) /\ Ordered(s, known)
    /\ \A b \in Binary \cap options : Given(s, known, b)
    /\ \A i \in 1 .. Len(s) : SaysUtf8(s[i]) => utf8

\* The acceptance is under way.
Accepting(s) == \E i \in 1 .. Len(s) : s[i] = Accepted

Utf8Inv ==
    peer = "client" =>
        /\ window \in Nat /\ term \in Type \cup {"UNKNOWN"}
        /\ client_utf8 \in BOOLEAN /\ charset_utf8 \in BOOLEAN
        /\ to_client \in Seq(ServerMessage)
        /\ Sound(to_server, on, agreed, client_utf8)
        /\ charset_utf8 => client_utf8 \/ Accepting(to_client)

\* Reading the first message keeps the order, if an option it carries becomes
\* known.
LEMMA TailOrdered ==
    ASSUME NEW S, NEW s \in Seq(S), s # <<>>, NEW known, NEW after,
           Ordered(s, known), known \subseteq after,
           \A b \in Binary : Head(s) = OptionMessage(b) => b \in after
    PROVE  /\ Ordered(Tail(s), after)
           /\ \A b \in Binary : Given(s, known, b) => Given(Tail(s), after, b)
<1>. DEFINE t == Tail(s)
<1>1. /\ Len(s) \in Nat /\ Len(s) > 0 /\ Len(t) = Len(s) - 1 /\ Head(s) = s[1]
      /\ \A i \in 1 .. Len(t) : t[i] = s[i + 1]
  OBVIOUS
<1>. HIDE DEF t
<1>2. ASSUME NEW b \in Binary, NEW j \in 1 .. Len(s), s[j] = OptionMessage(b)
      PROVE  b \in after \/ (j - 1 \in 1 .. Len(t) /\ t[j - 1] = OptionMessage(b))
  <2>1. CASE j = 1
    BY <1>1, <1>2, <2>1
  <2>2. CASE j # 1
    BY <1>1, <1>2, <2>2
  <2>. QED
    BY <2>1, <2>2
<1>3. ASSUME NEW i \in 1 .. Len(t), t[i] = Requested, NEW b \in Binary
      PROVE  b \in after \/ \E j \in 1 .. i - 1 : t[j] = OptionMessage(b)
  <2>1. i + 1 \in 1 .. Len(s) /\ s[i + 1] = Requested
    BY <1>1, <1>3
  <2>2. b \in known \/ \E j \in 1 .. (i + 1) - 1 : s[j] = OptionMessage(b)
    BY <2>1 DEF Ordered
  <2>3. ASSUME NEW j \in 1 .. (i + 1) - 1, s[j] = OptionMessage(b)
        PROVE  b \in after \/ (j - 1 \in 1 .. i - 1 /\ t[j - 1] = OptionMessage(b))
    <3>1. j \in 1 .. Len(s)
      BY <1>1
    <3>. QED
      BY <1>1, <1>2, <2>3, <3>1
  <2>. QED
    BY <2>2, <2>3
<1>. QED
  BY <1>2, <1>3, Zenon DEF Ordered, Given, t

\* Adding messages keeps the order, if BINARY comes before a request in them.
LEMMA ConcatOrdered ==
    ASSUME NEW S, NEW s \in Seq(S), NEW t \in Seq(S), NEW known, Ordered(s, known),
           \A i \in 1 .. Len(t) : t[i] = Requested =>
               \A b \in Binary : \/ Given(s, known, b)
                                 \/ \E j \in 1 .. i - 1 : t[j] = OptionMessage(b)
    PROVE  /\ Ordered(s \o t, known)
           /\ \A b \in Binary :
                 Given(s, known, b) \/ Given(t, known, b) => Given(s \o t, known, b)
<1>. DEFINE st == s \o t
<1>1. /\ Len(s) \in Nat /\ Len(t) \in Nat /\ Len(st) = Len(s) + Len(t)
      /\ \A i \in 1 .. Len(s) : st[i] = s[i]
      /\ \A i \in Len(s) + 1 .. Len(s) + Len(t) : st[i] = t[i - Len(s)]
  OBVIOUS
<1>. HIDE DEF st
<1>2. \A i \in 1 .. Len(t) : Len(s) + i \in 1 .. Len(st) /\ st[Len(s) + i] = t[i]
  BY <1>1
<1>3. ASSUME NEW i \in 1 .. Len(st), st[i] = Requested, NEW b \in Binary
      PROVE  b \in known \/ \E j \in 1 .. i - 1 : st[j] = OptionMessage(b)
  <2>1. CASE i \in 1 .. Len(s)
    <3>1. b \in known \/ \E j \in 1 .. i - 1 : s[j] = OptionMessage(b)
      BY <1>1, <1>3, <2>1 DEF Ordered
    <3>. QED
      BY <1>1, <2>1, <3>1
  <2>2. CASE i \in Len(s) + 1 .. Len(s) + Len(t)
    <3>1. i - Len(s) \in 1 .. Len(t) /\ t[i - Len(s)] = Requested
      BY <1>1, <1>3, <2>2
    <3>2. \/ Given(s, known, b)
          \/ \E j \in 1 .. (i - Len(s)) - 1 : t[j] = OptionMessage(b)
      BY <3>1
    <3>3. ASSUME NEW j \in 1 .. (i - Len(s)) - 1, t[j] = OptionMessage(b)
          PROVE  \E k \in 1 .. i - 1 : st[k] = OptionMessage(b)
      <4>1. Len(s) + j \in 1 .. i - 1 /\ j \in 1 .. Len(t)
        BY <1>1, <2>2, <3>3
      <4>. QED
        BY <1>2, <3>3, <4>1
    <3>4. ASSUME NEW j \in 1 .. Len(s), s[j] = OptionMessage(b)
          PROVE  j \in 1 .. i - 1 /\ st[j] = OptionMessage(b)
      BY <1>1, <2>2, <3>4
    <3>. QED
      BY <3>2, <3>3, <3>4 DEF Given
  <2>. QED
    BY <1>1, <2>1, <2>2
<1>4. \A i \in 1 .. Len(s) : i \in 1 .. Len(st) /\ st[i] = s[i]
  BY <1>1
<1>5. Ordered(st, known)
  BY <1>3 DEF Ordered
<1>6. \A b \in Binary : Given(s, known, b) \/ Given(t, known, b) => Given(st, known, b)
  BY <1>2, <1>4, Zenon DEF Given
<1>. QED
  BY <1>5, <1>6 DEF st

\* Sending a message keeps the stream sound, if it is sent when the client
\* sends it.
LEMMA SendSound ==
    ASSUME NEW s, NEW known, NEW options, NEW utf8, Sound(s, known, options, utf8),
           NEW m \in ClientMessage, NEW more,
           m = Requested => Binary \subseteq options,
           SaysUtf8(m) => utf8,
           \A b \in more : b \in options \/ m = OptionMessage(b)
    PROVE  Sound(s \o <<m>>, known, more, utf8)
<1>. DEFINE t == <<m>>
<1>0. s \in Seq(ClientMessage) /\ Ordered(s, known)
  BY DEF Sound
<1>1. t \in Seq(ClientMessage) /\ Len(t) = 1 /\ t[1] = m /\ \A i \in 1 .. Len(t) : t[i] = m
  OBVIOUS
<1>2. /\ s \o t \in Seq(ClientMessage) /\ Len(s \o t) = Len(s) + 1 /\ Len(s) \in Nat
      /\ \A i \in 1 .. Len(s) + 1 : (s \o t)[i] = IF i <= Len(s) THEN s[i] ELSE t[i - Len(s)]
  BY <1>0, <1>1
<1>. HIDE DEF t
<1>3. \A i \in 1 .. Len(t) : t[i] = Requested =>
          \A b \in Binary : \/ Given(s, known, b)
                            \/ \E j \in 1 .. i - 1 : t[j] = OptionMessage(b)
  BY <1>1 DEF Sound
<1>4. /\ Ordered(s \o t, known)
      /\ \A b \in Binary :
            Given(s, known, b) \/ Given(t, known, b) => Given(s \o t, known, b)
  BY <1>0, <1>1, <1>3, ConcatOrdered
<1>5. \A b \in Binary \cap more : Given(s \o t, known, b)
  BY <1>1, <1>4 DEF Sound, Given
<1>6. ASSUME NEW i \in 1 .. Len(s \o t), SaysUtf8((s \o t)[i]) PROVE utf8
  <2>1. CASE i <= Len(s)
    BY <1>2, <1>6, <2>1 DEF Sound
  <2>2. CASE i = Len(s) + 1
    <3>1. (s \o t)[i] = m
      BY <1>1, <1>2, <2>2
    <3>. QED
      BY <1>6, <3>1
  <2>. QED
    BY <1>2, <2>1, <2>2
<1>7. Sound(s \o t, known, more, utf8)
  BY <1>2, <1>4, <1>5, <1>6 DEF Sound
<1>. QED
  BY <1>7 DEF t

\* Reading the first message keeps the stream sound.
LEMMA ReadSound ==
    ASSUME NEW s, NEW known, NEW options, NEW utf8, Sound(s, known, options, utf8), s # <<>>,
           NEW after, known \subseteq after,
           \A b \in Binary : Head(s) = OptionMessage(b) => b \in after
    PROVE  Sound(Tail(s), after, options, utf8)
<1>0. s \in Seq(ClientMessage) /\ Ordered(s, known)
  BY DEF Sound
<1>1. /\ Len(s) \in Nat /\ Tail(s) \in Seq(ClientMessage) /\ Len(Tail(s)) = Len(s) - 1
      /\ \A i \in 1 .. Len(Tail(s)) : Tail(s)[i] = s[i + 1]
  BY <1>0
<1>2. /\ Ordered(Tail(s), after)
      /\ \A b \in Binary : Given(s, known, b) => Given(Tail(s), after, b)
  BY <1>0, TailOrdered, Zenon
<1>3. \A i \in 1 .. Len(Tail(s)) : i + 1 \in 1 .. Len(s)
  BY <1>1
<1>. QED
  BY <1>1, <1>2, <1>3 DEF Sound

\* What the first message of a stream may be.
LEMMA HeadIs ==
    ASSUME NEW S, NEW s \in Seq(S), s # <<>>
    PROVE  Head(s) \in S /\ Head(s) = s[1] /\ 1 \in 1 .. Len(s)
OBVIOUS

\* An acceptance is read only when it is the first message.
LEMMA TailAccepting ==
    ASSUME NEW S, NEW s \in Seq(S), s # <<>>, Accepting(s)
    PROVE  Head(s) = Accepted \/ Accepting(Tail(s))
<1>1. /\ Len(s) \in Nat /\ Len(Tail(s)) = Len(s) - 1 /\ Head(s) = s[1]
      /\ \A i \in 1 .. Len(Tail(s)) : Tail(s)[i] = s[i + 1]
  OBVIOUS
<1>2. PICK i \in 1 .. Len(s) : s[i] = Accepted
  BY DEF Accepting
<1>3. CASE i = 1
  BY <1>1, <1>2, <1>3
<1>4. CASE i # 1
  <2>1. i - 1 \in 1 .. Len(Tail(s)) /\ Tail(s)[i - 1] = Accepted
    BY <1>1, <1>2, <1>4
  <2>. QED
    BY <2>1 DEF Accepting
<1>. QED
  BY <1>3, <1>4

\* An acceptance stays under way behind or before other messages.
LEMMA ConcatAccepting ==
    ASSUME NEW S, NEW s \in Seq(S), NEW t \in Seq(S), Accepting(s) \/ Accepting(t)
    PROVE  Accepting(s \o t)
<1>1. /\ Len(s) \in Nat /\ Len(t) \in Nat /\ Len(s \o t) = Len(s) + Len(t)
      /\ \A i \in 1 .. Len(s) + Len(t) : (s \o t)[i] =
              IF i <= Len(s) THEN s[i] ELSE t[i - Len(s)]
  OBVIOUS
<1>2. ASSUME NEW i \in 1 .. Len(s), s[i] = Accepted PROVE Accepting(s \o t)
  <2>1. i \in 1 .. Len(s \o t) /\ (s \o t)[i] = Accepted
    BY <1>1, <1>2
  <2>. QED
    BY <2>1 DEF Accepting
<1>3. ASSUME NEW i \in 1 .. Len(t), t[i] = Accepted PROVE Accepting(s \o t)
  <2>1. Len(s) + i \in 1 .. Len(s \o t) /\ (s \o t)[Len(s) + i] = Accepted
    BY <1>1, <1>3
  <2>. QED
    BY <2>1 DEF Accepting
<1>. QED
  BY <1>2, <1>3 DEF Accepting

\* The parts of a message.
LEMMA MessageParts ==
    /\ Requested[1] = "CHARSET" /\ Requested[2] = "REQUEST"
    /\ Accepted[1] = "CHARSET" /\ Accepted[2] = "ACCEPTED"
    /\ \A o : OptionMessage(o)[1] = "OPTION" /\ OptionMessage(o)[2] = o
    /\ <<"SEND TYPE">>[1] = "SEND TYPE" /\ <<"SEND ENVIRON">>[1] = "SEND ENVIRON"
BY DEF Requested, Accepted, OptionMessage

\* The server's messages can be told apart.
LEMMA ServerMessages ==
    ASSUME NEW m \in ServerMessage
    PROVE  /\ m[1] = "OPTION" => m[2] \in Option /\ m = OptionMessage(m[2]) /\ m # Accepted
           /\ m[1] = "CHARSET" => m[2] \in {"REQUEST", "ACCEPTED"}
           /\ m = Accepted => m[1] = "CHARSET" /\ m[2] = "ACCEPTED"
           /\ m[1] \in {"OPTION", "CHARSET", "SEND TYPE", "SEND ENVIRON"}
<1>1. CASE m \in Negotiation
  BY <1>1, MessageParts, ZenonT(40) DEF Negotiation
<1>2. CASE m \in {Requested, Accepted}
  BY <1>2, MessageParts, Zenon
<1>3. CASE m = <<"SEND TYPE">>
  BY <1>3, MessageParts, Zenon
<1>4. CASE m = <<"SEND ENVIRON">>
  BY <1>4, MessageParts, Zenon
<1>. QED
  BY <1>1, <1>2, <1>3, <1>4, Zenon DEF ServerMessage

\* So can the client's.
LEMMA ClientMessages ==
    /\ \A o \in Option : /\ OptionMessage(o) \in ClientMessage /\ OptionMessage(o) # Requested
                         /\ ~SaysUtf8(OptionMessage(o))
    /\ \A w \in Nat : /\ <<"NAWS", w>> \in ClientMessage /\ <<"NAWS", w>> # Requested
                      /\ ~SaysUtf8(<<"NAWS", w>>)
    /\ \A t \in Type \cup Mtts \cup {"UNKNOWN"} :
          /\ <<"TYPE", t>> \in ClientMessage /\ <<"TYPE", t>> # Requested
          /\ ~SaysUtf8(<<"TYPE", t>>)
    /\ Requested \in ClientMessage /\ ~SaysUtf8(Requested)
    /\ Accepted \in ClientMessage /\ Accepted # Requested
<1>. USE DEF ClientMessage, OptionMessage, Requested, Accepted, SaysUtf8
<1>1. ASSUME NEW o \in Option
      PROVE  /\ OptionMessage(o) \in ClientMessage /\ OptionMessage(o) # Requested
             /\ ~SaysUtf8(OptionMessage(o))
  <2>1. OptionMessage(o) \in Negotiation
    BY <1>1 DEF Negotiation
  <2>. QED
    BY <2>1
<1>2. ASSUME NEW w \in Nat
      PROVE  /\ <<"NAWS", w>> \in ClientMessage /\ <<"NAWS", w>> # Requested
             /\ ~SaysUtf8(<<"NAWS", w>>)
  OBVIOUS
<1>3. ASSUME NEW t \in Type \cup Mtts \cup {"UNKNOWN"}
      PROVE  /\ <<"TYPE", t>> \in ClientMessage /\ <<"TYPE", t>> # Requested
             /\ ~SaysUtf8(<<"TYPE", t>>)
  OBVIOUS
<1>4. /\ Requested \in ClientMessage /\ ~SaysUtf8(Requested)
      /\ Accepted \in ClientMessage /\ Accepted # Requested
  OBVIOUS
<1>. HIDE DEF ClientMessage, OptionMessage, Requested, Accepted, SaysUtf8
<1>. QED
  BY <1>1, <1>2, <1>3, <1>4

\* A NEW-ENVIRON report says UTF-8 when the client is on it.
LEMMA EnvironMessage ==
    ASSUME client_utf8 \in BOOLEAN, term \in Type \cup {"UNKNOWN"}
    PROVE  /\ send_new_environ \in ClientMessage /\ send_new_environ # Requested
           /\ SaysUtf8(send_new_environ) => client_utf8
<1>1. CASE client_utf8
  BY <1>1 DEF send_new_environ, ClientMessage, Mtts, Requested
<1>2. CASE ~client_utf8
  BY <1>2 DEF send_new_environ, ClientMessage, Mtts, Requested, SaysUtf8, Accepted
<1>. QED
  BY <1>1, <1>2

\* Reporting the window keeps the stream sound.
LEMMA WindowSound ==
    ASSUME NEW s, NEW options, Sound(s, on, options, client_utf8), window \in Nat,
           NEW more, \A b \in more : b \in options
    PROVE  /\ Sound(s \o send_window_size, on, more, client_utf8)
           /\ Sound(s \o <<>>, on, more, client_utf8)
<1>1. DEFAULT_TERMINAL_WIDTH \in Nat
  BY CapabilitiesAssumption
<1>2. s \o <<>> = s
  BY DEF Sound
<1>3. Sound(s, on, more, client_utf8)
  BY DEF Sound
<1>. DEFINE w == IF window = 0 THEN DEFAULT_TERMINAL_WIDTH ELSE window
<1>4. w \in Nat
  BY <1>1
<1>. HIDE DEF w
<1>5. Sound(s \o <<<<"NAWS", w>>>>, on, more, client_utf8)
  BY <1>4, ClientMessages, SendSound
<1>6. send_window_size = <<>> \/ send_window_size = <<<<"NAWS", w>>>>
  BY DEF send_window_size, w
<1>. QED
  BY <1>2, <1>3, <1>5, <1>6, Zenon

\* Agreeing to an option keeps the stream sound: what UTF-8 needs is sent
\* before the request for it.
LEMMA OptionSound ==
    ASSUME Sound(to_server, on, agreed, client_utf8), window \in Nat,
           NEW o \in Option, client_option(o)
    PROVE  Sound(to_server', on, agreed', client_utf8) /\ client_utf8' = client_utf8
<1>. DEFINE first == to_server \o <<OptionMessage(o)>>
            size == IF o = "naws" /\ o \notin agreed THEN send_window_size ELSE <<>>
<1>1. Sound(first, on, agreed', client_utf8)
  BY ClientMessages, SendSound DEF client_option
<1>2. Sound(first \o size, on, agreed', client_utf8)
  BY <1>1, WindowSound, Zenon
<1>3. to_server' = (first \o size) \o (IF maybe_request_utf8 THEN <<Requested>> ELSE <<>>)
  BY DEF client_option, OptionMessage, Requested
<1>. HIDE DEF first, size
<1>4. CASE maybe_request_utf8
  <2>1. Binary \subseteq agreed'
    BY <1>4 DEF maybe_request_utf8
  <2>2. Sound((first \o size) \o <<Requested>>, on, agreed', client_utf8)
    BY <1>2, <2>1, ClientMessages, SendSound
  <2>. QED
    BY <1>3, <1>4, <2>2, Zenon DEF client_option
<1>5. CASE ~maybe_request_utf8
  BY <1>2, <1>3, <1>5, WindowSound, Zenon DEF client_option
<1>. QED
  BY <1>4, <1>5

\* Answering a probe keeps the stream sound, and the client stays on UTF-8.
LEMMA AnswerSound ==
    ASSUME Sound(to_server, on, agreed, client_utf8), client_utf8 \in BOOLEAN,
           term \in Type \cup {"UNKNOWN"},
           NEW m \in ServerMessage, handle_subnegotiation(m), m[1] # "OPTION"
    PROVE  /\ Sound(to_server', on, agreed', client_utf8') /\ client_utf8' \in BOOLEAN
           /\ client_utf8 => client_utf8'
           /\ m = Accepted => client_utf8'
<1>0. to_server \in Seq(ClientMessage)
  BY DEF Sound
<1>1. CASE ~Expected(m)
  <2>1. m # Accepted
    BY <1>1, MessageParts, Zenon DEF Expected
  <2>. QED
    BY <1>1, <2>1 DEF handle_subnegotiation
<1>2. CASE m[1] = "SEND TYPE" /\ Expected(m)
  <2>1. send_terminal_type \in Type \cup Mtts \cup {"UNKNOWN"}
    BY DEF send_terminal_type, Type, Mtts
  <2>2. /\ to_server' = Append(to_server, <<"TYPE", send_terminal_type>>)
        /\ agreed' = agreed /\ client_utf8' = client_utf8 /\ m # Accepted
    BY <1>2, ServerMessages, Zenon DEF handle_subnegotiation, Answers
  <2>3. to_server' = to_server \o <<<<"TYPE", send_terminal_type>>>>
    BY <1>0, <2>1, <2>2, ClientMessages, AppendIsConcat, Zenon
  <2>. HIDE DEF send_terminal_type
  <2>. QED
    BY <2>1, <2>2, <2>3, ClientMessages, SendSound, Zenon
<1>3. CASE m[1] = "SEND ENVIRON" /\ Expected(m)
  <2>1. /\ to_server' = Append(to_server, send_new_environ)
        /\ agreed' = agreed /\ client_utf8' = client_utf8 /\ m # Accepted
    BY <1>3, ServerMessages, Zenon DEF handle_subnegotiation, Answers
  <2>2. to_server' = to_server \o <<send_new_environ>>
    BY <1>0, <2>1, EnvironMessage, AppendIsConcat
  <2>. QED
    BY <2>1, <2>2, EnvironMessage, SendSound
<1>4. CASE m[1] = "CHARSET" /\ Expected(m)
  <2>1. client_charset(m[2]) /\ m[2] \in {"REQUEST", "ACCEPTED"}
    BY <1>4, ServerMessages, Zenon DEF handle_subnegotiation
  <2>2. client_utf8' = TRUE /\ agreed' = agreed
    BY <2>1, Zenon DEF client_charset
  <2>3. Sound(to_server, on, agreed, TRUE)
    BY DEF Sound
  <2>4. CASE m[2] = "REQUEST"
    <3>1. to_server' = to_server \o <<Accepted>>
      BY <1>0, <2>1, <2>4, ClientMessages, AppendIsConcat, ZenonT(30)
         DEF client_charset,
         Answers, Accepted
    <3>2. Sound(to_server \o <<Accepted>>, on, agreed, TRUE)
      BY <2>3, ClientMessages, SendSound, Zenon
    <3>. QED
      BY <2>2, <3>1, <3>2, Zenon
  <2>5. CASE m[2] = "ACCEPTED"
    BY <2>1, <2>2, <2>3, <2>5, Zenon DEF client_charset
  <2>. QED
    BY <2>1, <2>4, <2>5
<1>. QED
  BY <1>1, <1>2, <1>3, <1>4, ServerMessages, Zenon

\* The client reads a message.
LEMMA ClientReads ==
    ASSUME Utf8Inv, peer = "client", process_server_bytes
    PROVE  Utf8Inv'
<1>. DEFINE m == Head(to_client)
<1>0. /\ to_client # <<>> /\ to_client' = Tail(to_client) /\ on' = on
      /\ window' = window /\ term' = term /\ charset_utf8' = charset_utf8
      /\ (m[1] = "OPTION" /\ client_option(m[2])) \/ (m[1] # "OPTION" /\ handle_subnegotiation(m))
  BY DEF process_server_bytes, vars, charset_vars
<1>1. /\ to_client \in Seq(ServerMessage) /\ Sound(to_server, on, agreed, client_utf8)
      /\ window \in Nat /\ term \in Type \cup {"UNKNOWN"}
      /\ client_utf8 \in BOOLEAN /\ charset_utf8 \in BOOLEAN
      /\ charset_utf8 => client_utf8 \/ Accepting(to_client)
  BY DEF Utf8Inv
<1>2. m \in ServerMessage /\ Tail(to_client) \in Seq(ServerMessage)
  BY <1>0, <1>1
<1>3. Accepting(to_client) => m = Accepted \/ Accepting(Tail(to_client))
  BY <1>0, <1>1, TailAccepting
<1>. HIDE DEF m
<1>4. /\ Sound(to_server', on, agreed', client_utf8') /\ client_utf8' \in BOOLEAN
      /\ client_utf8 => client_utf8'
      /\ m = Accepted => client_utf8'
  <2>1. CASE m[1] = "OPTION" /\ client_option(m[2])
    BY <1>1, <1>2, <2>1, ServerMessages, OptionSound, Zenon
  <2>2. CASE m[1] # "OPTION" /\ handle_subnegotiation(m)
    BY <1>1, <1>2, <2>2, AnswerSound
  <2>. QED
    BY <1>0, <2>1, <2>2
<1>. QED
  BY <1>0, <1>1, <1>2, <1>3, <1>4 DEF Utf8Inv

\* Sequences of at most one message.
LEMMA ShortSequences ==
    ASSUME NEW S
    PROVE  /\ <<>> \in Seq(S)
           /\ \A m \in S : <<m>> \in Seq(S) /\ Len(<<m>>) = 1 /\ <<m>>[1] = m
OBVIOUS

\* The probes of a handler are messages of the server.
LEMMA ProbesTyped == Probes \in Seq(ServerMessage)
<1>. DEFINE Part(c, m) == IF c THEN <<m>> ELSE <<>>
            S == ServerMessage
<1>1. ASSUME NEW c, NEW m, m \in S PROVE Part(c, m) \in Seq(S)
  <2>. HIDE DEF S
  <2>. QED
    BY <1>1, ShortSequences
<1>2. Requested \in S /\ <<"SEND TYPE">> \in S /\ <<"SEND ENVIRON">> \in S
  BY DEF ServerMessage
<1>3. Probes = (Part(terminal_type_requests_sent' > terminal_type_requests_sent, <<"SEND TYPE">>)
                \o Part(charset_request_sent' /\ ~charset_request_sent, Requested))
               \o Part(new_environ_requested' /\ ~new_environ_requested, <<"SEND ENVIRON">>)
  BY DEF Probes, Requested
<1>. HIDE DEF Part, S
<1>4. \A s, t \in Seq(S) : s \o t \in Seq(S)
  OBVIOUS
<1>5. Probes \in Seq(S)
  BY <1>1, <1>2, <1>3, <1>4, ZenonT(40)
<1>. QED
  BY <1>5 DEF S

\* What a message of the client does to CHARSET and to the options: UTF-8 is
\* switched on by a message that says so, or with an acceptance sent.
LEMMA ServerHandles ==
    ASSUME Sound(to_server, on, agreed, client_utf8), charset_utf8 \in BOOLEAN,
           to_client \in Seq(ServerMessage), telnet_session_receive,
           NEW m, m = Head(to_server)
    PROVE  /\ on \subseteq on' /\ \A b \in Binary : m = OptionMessage(b) => b \in on'
           /\ charset_utf8' \in BOOLEAN
           /\ \E sent \in Seq(ServerMessage) :
                 /\ to_client' = to_client \o sent
                 /\ charset_utf8' => charset_utf8 \/ SaysUtf8(m) \/ Accepting(sent)
<1>0. /\ to_server \in Seq(ClientMessage) /\ to_server # <<>>
      /\ m \in ClientMessage /\ m = to_server[1] /\ 1 \in 1 .. Len(to_server)
  BY HeadIs DEF Sound, telnet_session_receive
<1>1. CASE m[1] = "OPTION" /\ receive_telnet_option(on \cup {m[2]}) /\ to_client' = to_client \o Probes
  <2>1. on' = on \cup {m[2]} /\ charset_utf8' \in BOOLEAN /\ (charset_utf8' => charset_utf8)
    BY <1>1 DEF receive_telnet_option
  <2>. QED
    BY <1>1, <2>1, MessageParts, ProbesTyped, ZenonT(30)
<1>2. CASE m[1] = "NAWS" /\ handle_naws(m[2]) /\ to_client' = to_client \o Probes
  <2>1. on' = on /\ charset_utf8' = charset_utf8
    BY <1>2 DEF handle_naws, IfAgreed, vars, charset_vars
  <2>. QED
    BY <1>2, <2>1, MessageParts, ProbesTyped, ZenonT(30)
<1>3. CASE m[1] = "TYPE" /\ handle_terminal_type(m[2]) /\ to_client' = to_client \o Probes
  <2>1. on' = on /\ charset_utf8' = charset_utf8
    BY <1>3, Zenon DEF handle_terminal_type, IfAgreed, vars, charset_vars
  <2>. QED
    BY <1>3, <2>1, MessageParts, ProbesTyped, SMTT(30)
<1>4. CASE /\ m[1] = "ENVIRON" /\ handle_new_environ(m[2], m[3], m[4], "none", TRUE)
           /\ to_client' = to_client \o Probes
  <2>1. /\ on' = on /\ charset_utf8' \in BOOLEAN
        /\ charset_utf8' => charset_utf8 \/ m[2] = "UTF-8"
    BY <1>4, Zenon DEF handle_new_environ, apply_new_environ_value, IfAgreed,
       vars, charset_vars
  <2>. QED
    BY <1>4, <2>1, MessageParts, ProbesTyped, Zenon DEF SaysUtf8
<1>5. CASE m[1] = "CHARSET" /\ handle_charset(m[2]) /\ to_client' = to_client \o CharsetAnswer(m[2])
  <2>1. m \in {Requested, Accepted}
    <3>1. \/ m \in Negotiation \cup {Requested, Accepted}
          \/ \E w : m = <<"NAWS", w>>
          \/ \E t : m = <<"TYPE", t>>
          \/ \E c, e, t : m = <<"ENVIRON", c, e, t>>
      BY <1>0 DEF ClientMessage
    <3>2. \A w, c, e, t : /\ <<"NAWS", w>>[1] = "NAWS" /\ <<"TYPE", t>>[1] = "TYPE"
                          /\ <<"ENVIRON", c, e, t>>[1] = "ENVIRON"
      OBVIOUS
    <3>. QED
      BY <1>5, <3>1, <3>2, MessageParts DEF Negotiation
  <2>2. on' = on /\ charset_utf8' \in BOOLEAN
    BY <1>5, Zenon DEF handle_charset, IfAgreed, vars, charset_vars
  <2>3. CASE m = Requested
    <3>1. Binary \subseteq on
      BY <1>0, <2>3 DEF Sound, Ordered
    <3>2. CASE "remote_charset" \in on
      <4>1. CharsetAnswer(m[2]) = <<Accepted>>
        BY <2>3, <3>1, <3>2, MessageParts DEF CharsetAnswer, accepts_charset, Accepted
      <4>2. <<Accepted>> \in Seq(ServerMessage) /\ Accepting(<<Accepted>>)
        <5>1. Accepted \in ServerMessage
          BY Zenon DEF ServerMessage
        <5>2. /\ <<Accepted>> \in Seq(ServerMessage) /\ Len(<<Accepted>>) = 1
              /\ <<Accepted>>[1] = Accepted
          BY <5>1, ShortSequences
        <5>. QED
          BY <5>2 DEF Accepting
      <4>. QED
        BY <1>5, <2>2, <2>3, <4>1, <4>2, MessageParts
    <3>3. CASE "remote_charset" \notin on
      <4>1. CharsetAnswer(m[2]) = <<>> /\ charset_utf8' = charset_utf8
        BY <1>5, <2>3, <3>3, MessageParts
           DEF CharsetAnswer, handle_charset, IfAgreed, vars, charset_vars
      <4>. QED
        BY <1>5, <2>2, <2>3, <4>1, MessageParts, ShortSequences, Zenon
    <3>. QED
      BY <3>2, <3>3, ZenonT(30)
  <2>4. CASE m = Accepted
    <3>1. CharsetAnswer(m[2]) = <<>>
      BY <2>4, MessageParts DEF CharsetAnswer
    <3>. QED
      BY <1>5, <2>2, <2>4, <3>1, MessageParts, ShortSequences, Zenon DEF SaysUtf8
  <2>. QED
    BY <2>1, <2>3, <2>4
<1>. QED
  BY <1>1, <1>2, <1>3, <1>4, <1>5, Zenon DEF telnet_session_receive

\* The server reads a message.
LEMMA ServerReads ==
    ASSUME Utf8Inv, peer = "client", telnet_session_receive
    PROVE  Utf8Inv'
<1>0. /\ to_server # <<>> /\ to_server' = Tail(to_server) /\ agreed' = agreed
      /\ client_utf8' = client_utf8 /\ window' = window /\ term' = term
  BY DEF telnet_session_receive
<1>1. /\ to_client \in Seq(ServerMessage) /\ Sound(to_server, on, agreed, client_utf8)
      /\ window \in Nat /\ term \in Type \cup {"UNKNOWN"}
      /\ client_utf8 \in BOOLEAN /\ charset_utf8 \in BOOLEAN
      /\ charset_utf8 => client_utf8 \/ Accepting(to_client)
  BY DEF Utf8Inv
<1>2. PICK m : m = Head(to_server)
  OBVIOUS
<1>3. /\ on \subseteq on' /\ \A b \in Binary : m = OptionMessage(b) => b \in on'
      /\ charset_utf8' \in BOOLEAN
  BY <1>1, <1>2, ServerHandles
<1>4. PICK sent \in Seq(ServerMessage) :
          /\ to_client' = to_client \o sent
          /\ charset_utf8' => charset_utf8 \/ SaysUtf8(m) \/ Accepting(sent)
  BY <1>1, <1>2, ServerHandles
<1>5. SaysUtf8(m) => client_utf8
  BY <1>0, <1>1, <1>2, HeadIs DEF Sound
<1>6. Sound(to_server', on', agreed', client_utf8')
  BY <1>0, <1>1, <1>2, <1>3, ReadSound
<1>7. to_client' \in Seq(ServerMessage)
  BY <1>1, <1>4
<1>8. Accepting(to_client) \/ Accepting(sent) => Accepting(to_client')
  BY <1>1, <1>4, ConcatAccepting
<1>9. charset_utf8' => client_utf8' \/ Accepting(to_client')
  BY <1>0, <1>1, <1>4, <1>5, <1>8
<1>. QED
  BY <1>0, <1>1, <1>3, <1>6, <1>7, <1>9 DEF Utf8Inv

\* What the server and the client have sent stays in order, and neither leaves
\* UTF-8 alone.
LEMMA Utf8Step == Utf8Inv /\ [DNext]_allvars => Utf8Inv'
<1>. SUFFICES ASSUME Utf8Inv, [DNext]_allvars PROVE Utf8Inv'
  OBVIOUS
<1>1. CASE UNCHANGED allvars
  BY <1>1 DEF Utf8Inv, allvars, vars, dvars, charset_vars
<1>2. CASE peer' # "client"
  BY <1>2 DEF Utf8Inv
<1>3. CASE peer = "client" /\ process_server_bytes /\ UNCHANGED peer
  BY <1>3, ClientReads
<1>4. CASE peer = "client" /\ telnet_session_receive /\ UNCHANGED peer
  BY <1>4, ServerReads
<1>5. CASE peer = "client" /\ report_window /\ UNCHANGED peer
  <2>1. Sound(to_server, on, agreed, client_utf8) /\ window \in Nat
    BY <1>5 DEF Utf8Inv
  <2>2. /\ to_server' = to_server \o send_window_size
        /\ UNCHANGED <<on, agreed, client_utf8, charset_utf8, to_client, window, term>>
    BY <1>5 DEF report_window, vars, charset_vars
  <2>3. Sound(to_server', on', agreed', client_utf8')
    BY <2>1, <2>2, WindowSound
  <2>. QED
    BY <1>5, <2>2, <2>3 DEF Utf8Inv
<1>6. CASE peer = "client" /\ resize /\ UNCHANGED peer
  BY <1>6, DiscoveryAssumption DEF Utf8Inv, resize, vars, charset_vars
<1>7. CASE peer = "client" /\ login /\ UNCHANGED peer
  BY <1>7 DEF Utf8Inv, login, enter_game, dvars, charset_vars
<1>. QED
  BY <1>1, <1>2, <1>3, <1>4, <1>5, <1>6, <1>7 DEF DNext, Exchange

\* In whatever order the two ends' requests and answers cross, for any windows
\* and resizes, text the server sends as UTF-8 finds the client decoding UTF-8
\* when it gets there.
THEOREM Utf8AgreedHolds == DSpec => []Utf8Agreed
<1>1. DInit => Utf8Inv
  <2>. SUFFICES ASSUME DInit, peer = "client" PROVE Utf8Inv
    BY DEF Utf8Inv
  <2>1. Offers \in Seq(ServerMessage)
    <3>1. \A o \in Option : <<"OPTION", o>> \in ServerMessage
      BY DEF ServerMessage, Negotiation, OptionMessage
    <3>2. /\ DOMAIN negotiate_operational_options = 1 .. 7
          /\ \A i \in 1 .. 7 : negotiate_operational_options[i] \in Option
      BY DEF negotiate_operational_options, Option, Binary
    <3>3. Offers \in [1 .. 7 -> ServerMessage]
      BY <3>1, <3>2 DEF Offers
    <3>. QED
      <4>1. 7 \in Nat
        OBVIOUS
      <4>. QED
        BY <3>3, <4>1, FunctionIsSeq, Zenon
  <2>2. Sound(<<>>, on, {}, FALSE)
    BY DEF Sound, Ordered
  <2>. QED
    BY <2>1, <2>2, DiscoveryAssumption, Zenon DEF DInit, Init, Utf8Inv
<1>2. Utf8Inv => Utf8Agreed
  <2>1. ASSUME to_client \in Seq(ServerMessage) PROVE DOMAIN to_client = 1 .. Len(to_client)
    BY <2>1
  <2>. QED
    BY <2>1, Zenon DEF Utf8Inv, Utf8Agreed, Accepting, Accepted
<1>. QED
  BY <1>1, <1>2, Utf8Step, PTL DEF DSpec

-----------------------------------------------------------------------------
(* AuditLog *)

\* The records after the m-th up to the n-th.
Run(m, n) == [k \in 1 .. n - m |-> m + k]

LEMMA RunFacts ==
    ASSUME NEW m \in Nat, NEW n \in Nat, m <= n
    PROVE  /\ Run(m, n) \in Seq(Nat) /\ Len(Run(m, n)) = n - m
           /\ \A k \in 1 .. n - m : Run(m, n)[k] = m + k
<1>1. n - m \in Nat /\ \A k \in 1 .. n - m : m + k \in Nat
  OBVIOUS
<1>2. Run(m, n) \in [1 .. n - m -> Nat]
  BY <1>1 DEF Run
<1>3. Run(m, n) \in Seq(Nat)
  BY <1>1, <1>2
<1>. QED
  BY <1>1, <1>3 DEF Run

LEMMA ConcatFacts ==
    ASSUME NEW s \in Seq(Nat), NEW t \in Seq(Nat)
    PROVE  /\ s \o t \in Seq(Nat) /\ Len(s \o t) = Len(s) + Len(t)
           /\ \A k \in 1 .. Len(s) + Len(t) :
                 (s \o t)[k] = IF k <= Len(s) THEN s[k] ELSE t[k - Len(s)]
OBVIOUS

LEMMA RunConcat ==
    ASSUME NEW l \in Nat, NEW m \in Nat, NEW n \in Nat, l <= m, m <= n
    PROVE  Run(l, m) \o Run(m, n) = Run(l, n)
<1>. DEFINE s == Run(l, m)
            t == Run(m, n)
            u == Run(l, n)
<1>1. /\ s \in Seq(Nat) /\ Len(s) = m - l /\ \A k \in 1 .. m - l : s[k] = l + k
      /\ t \in Seq(Nat) /\ Len(t) = n - m /\ \A k \in 1 .. n - m : t[k] = m + k
      /\ u \in Seq(Nat) /\ Len(u) = n - l /\ \A k \in 1 .. n - l : u[k] = l + k
  <2>1. l <= n
    OBVIOUS
  <2>. QED
    BY <2>1, RunFacts, Zenon
<1>. HIDE DEF s, t, u
<1>2. /\ s \o t \in Seq(Nat) /\ Len(s \o t) = Len(s) + Len(t)
      /\ \A k \in 1 .. Len(s) + Len(t) :
            (s \o t)[k] = IF k <= Len(s) THEN s[k] ELSE t[k - Len(s)]
  BY <1>1, ConcatFacts, Zenon
<1>3. ASSUME NEW k \in 1 .. n - l PROVE (s \o t)[k] = u[k]
  <2>1. CASE k <= m - l
    BY <1>1, <1>2, <2>1
  <2>2. CASE ~(k <= m - l)
    <3>1. k - (m - l) \in 1 .. n - m /\ k \in 1 .. Len(s) + Len(t) /\ ~(k <= Len(s))
      BY <1>1, <2>2
    <3>2. (s \o t)[k] = t[k - (m - l)]
      BY <1>1, <1>2, <3>1, SMTT(30)
    <3>3. t[k - (m - l)] = m + (k - (m - l))
      BY <1>1, <3>1
    <3>. QED
      BY <1>1, <3>2, <3>3
  <2>. QED
    BY <2>1, <2>2, Zenon
<1>4. Len(s \o t) = Len(u) /\ Len(s \o t) = n - l
  BY <1>1, <1>2
<1>. QED
  BY <1>1, <1>2, <1>3, <1>4, SeqEqual, Zenon DEF s, t, u

LEMMA RunAppend ==
    ASSUME NEW m \in Nat, NEW n \in Nat, m <= n
    PROVE  Append(Run(m, n), n + 1) = Run(m, n + 1)
<1>. DEFINE p == n + 1
            s == Run(m, n)
            u == Run(m, p)
<1>1. p \in Nat /\ p = n + 1 /\ m <= p
  OBVIOUS
<1>. HIDE DEF p
<1>2. s \in Seq(Nat) /\ Len(s) = n - m /\ \A k \in 1 .. n - m : s[k] = m + k
  BY RunFacts, Zenon
<1>3. u \in Seq(Nat) /\ Len(u) = p - m /\ \A k \in 1 .. p - m : u[k] = m + k
  BY <1>1, RunFacts, Zenon
<1>. HIDE DEF s, u
<1>4. Append(s, p) \in Seq(Nat) /\ Len(Append(s, p)) = Len(u)
  BY <1>1, <1>2, <1>3
<1>5. ASSUME NEW k \in 1 .. Len(u) PROVE Append(s, p)[k] = u[k]
  BY <1>1, <1>2, <1>3
<1>6. Append(s, p) = u
  BY <1>3, <1>4, <1>5, SeqEqual
<1>. QED
  BY <1>1, <1>6 DEF s, u

LEMMA RunEmpty ==
    ASSUME NEW m \in Nat, NEW n \in Nat, m <= n
    PROVE  (Run(m, n) = <<>>) <=> (m = n)
<1>1. Run(m, n) \in Seq(Nat) /\ Len(Run(m, n)) = n - m
  BY RunFacts
<1>. QED
  BY <1>1

LEMMA WellOrdered ==
    ASSUME NEW S \in SUBSET Nat, S # {}
    PROVE  \E x \in S : \A y \in S : x <= y
<1>1. PICK x \in S : \A y \in S : ~(<<y, x>> \in OpToRel(<, Nat))
  BY NatLessThanWellFounded, WFMin, Zenon
<1>2. ASSUME NEW y \in S PROVE x <= y
  <2>1. ASSUME y < x PROVE FALSE
    <3>1. <<y, x>> \in Nat \X Nat /\ <<y, x>>[1] < <<y, x>>[2]
      BY <2>1
    <3>2. <<y, x>> \in OpToRel(<, Nat)
      BY <3>1 DEF OpToRel
    <3>. QED
      BY <1>1, <3>2, Zenon
  <2>. QED
    BY <2>1
<1>. QED
  BY <1>2

-----------------------------------------------------------------------------
\* last[i] is the newest record older than files 0 to i - 1, and every file
\* is the run between two of them.
Marks == [0 .. AUDIT_ARCHIVES + 1 -> Nat]

Chain(last, f, w) ==
    /\ last \in Marks /\ last[0] = w
    /\ \A i, j \in 0 .. AUDIT_ARCHIVES + 1 : i <= j => last[j] <= last[i]
    /\ \A i \in 0 .. AUDIT_ARCHIVES : f[i] = Run(last[i + 1], last[i])

Files(k) == k * AUDIT_MAX

\* As long as there are older records, archives 1 to k hold k files less n,
\* and less one from archive j on.
Spread(last, n, j) ==
    \A k \in 0 .. AUDIT_ARCHIVES : last[k + 1] > 0 =>
        last[k + 1] + Files(k) <= last[1] + Files(n) + IF k >= j THEN AUDIT_MAX ELSE 0

LEMMA AuditConstants ==
    /\ AUDIT_MAX \in Nat \ {0} /\ AUDIT_ARCHIVES \in Nat \ {0}
    /\ MaxRecords \in Nat /\ MaxFaults \in Nat
BY AuditAssumption

LEMMA FilesFacts ==
    /\ Files(0) = 0
    /\ \A k \in Nat : Files(k) \in Nat /\ Files(k + 1) = Files(k) + AUDIT_MAX
    /\ \A k, l \in Nat : k <= l => Files(k) <= Files(l)
<1>1. AUDIT_MAX \in Nat
  BY AuditConstants
<1>2. Files(0) = 0
  BY <1>1 DEF Files
<1>3. ASSUME NEW k \in Nat PROVE Files(k) \in Nat /\ Files(k + 1) = Files(k) + AUDIT_MAX
  BY <1>1 DEF Files
<1>4. ASSUME NEW k \in Nat, NEW l \in Nat, k <= l PROVE Files(k) <= Files(l)
  <2>1. l - k \in Nat /\ (l - k) * AUDIT_MAX \in Nat /\ l * AUDIT_MAX = k * AUDIT_MAX + (l - k) * AUDIT_MAX
    BY <1>1, <1>4
  <2>. QED
    BY <1>1, <2>1 DEF Files
<1>. QED
  BY <1>2, <1>3, <1>4

\* What the files hold, when the marks are known.
LEMMA ChainRetained ==
    ASSUME NEW last, Chain(last, file, written)
    PROVE  Retained = Run(last[AUDIT_ARCHIVES + 1], written)
<1>. DEFINE n == AUDIT_ARCHIVES
            F(g) == [i \in 0 .. n |-> IF i = 0 THEN file[n] ELSE g[i - 1] \o file[n - i]]
            joined == CHOOSE g : g = F(g)
            w == [i \in 0 .. n |-> Run(last[n + 1], last[n - i])]
<1>1. n \in Nat
  BY AuditConstants
<1>2. /\ last \in [0 .. n + 1 -> Nat] /\ last[0] = written
      /\ \A i, j \in 0 .. n + 1 : i <= j => last[j] <= last[i]
      /\ \A i \in 0 .. n : file[i] = Run(last[i + 1], last[i])
  BY Zenon DEF Chain, Marks
<1>3. Retained = joined[n]
  BY Zenon DEF Retained
<1>. HIDE DEF n
<1>4. ASSUME NEW i \in 0 .. n, i # 0
      PROVE  /\ i - 1 \in 0 .. n
             /\ Run(last[n + 1], last[n - (i - 1)]) \o file[n - i] = Run(last[n + 1], last[n - i])
  <2>1. /\ i - 1 \in 0 .. n /\ n - i \in 0 .. n /\ (n - i) + 1 = n - (i - 1)
        /\ n + 1 \in 0 .. n + 1 /\ n - (i - 1) \in 0 .. n + 1 /\ n - i \in 0 .. n + 1
        /\ n - i <= n - (i - 1) /\ n - (i - 1) <= n + 1
    BY <1>1, <1>4
  <2>2. file[n - i] = Run(last[n - (i - 1)], last[n - i])
    BY <1>2, <2>1
  <2>3. last[n + 1] <= last[n - (i - 1)] /\ last[n - (i - 1)] <= last[n - i]
    BY <1>2, <2>1, Zenon
  <2>4. last[n + 1] \in Nat /\ last[n - (i - 1)] \in Nat /\ last[n - i] \in Nat
    BY <1>2, <2>1
  <2>5. Run(last[n + 1], last[n - (i - 1)]) \o Run(last[n - (i - 1)], last[n - i])
           = Run(last[n + 1], last[n - i])
    BY <2>3, <2>4, RunConcat, Zenon
  <2>. QED
    BY <2>1, <2>2, <2>5, Zenon
<1>5. file[n] = Run(last[n + 1], last[n - 0])
  <2>1. n \in 0 .. n /\ n - 0 = n
    BY <1>1
  <2>. QED
    BY <1>2, <2>1
<1>6. w = F(w)
  <2>1. ASSUME NEW i \in 0 .. n PROVE w[i] = F(w)[i]
    BY <1>4, <1>5, Zenon
  <2>. QED
    BY <2>1, Zenon
<1>7. joined = F(joined)
  BY <1>6, Zenon
<1>. HIDE DEF joined
<1>8. ASSUME NEW i \in 0 .. n PROVE joined[i] = Run(last[n + 1], last[n - i])
  <2>. DEFINE S == {k \in 0 .. n : joined[k] # Run(last[n + 1], last[n - k])}
  <2>1. ASSUME S # {} PROVE FALSE
    <3>1. S \in SUBSET Nat
      BY <1>1
    <3>2. PICK x \in S : \A y \in S : x <= y
      BY <2>1, <3>1, WellOrdered, Zenon
    <3>3. x \in 0 .. n /\ joined[x] # Run(last[n + 1], last[n - x])
      BY Zenon
    <3>4. x # 0
      BY <1>5, <1>7, <3>3, Zenon
    <3>5. x - 1 \in 0 .. n /\ ~(x <= x - 1)
      BY <1>1, <3>3, <3>4
    <3>6. joined[x - 1] = Run(last[n + 1], last[n - (x - 1)])
      BY <3>2, <3>5, Zenon
    <3>7. joined[x] = joined[x - 1] \o file[n - x]
      BY <1>7, <3>3, <3>4, Zenon
    <3>. QED
      BY <1>4, <3>3, <3>4, <3>6, <3>7, Zenon
  <2>. QED
    BY <2>1, Zenon
<1>9. n \in 0 .. n /\ n - n = 0
  BY <1>1
<1>10. joined[n] = Run(last[n + 1], last[0])
  BY <1>8, <1>9
<1>. QED
  BY <1>2, <1>3, <1>10, Zenon DEF n

LEMMA ChainWritten ==
    ASSUME NEW last, NEW f, NEW w \in Nat, Chain(last, f, w), DOMAIN f = 0 .. AUDIT_ARCHIVES
    PROVE  Chain([last EXCEPT ![0] = w + 1], [f EXCEPT ![0] = Append(@, w + 1)], w + 1)
<1>. DEFINE A == AUDIT_ARCHIVES
            next == [last EXCEPT ![0] = w + 1]
            g == [f EXCEPT ![0] = Append(@, w + 1)]
<1>1. A \in Nat \ {0}
  BY AuditConstants
<1>2. /\ last \in [0 .. A + 1 -> Nat] /\ last[0] = w
      /\ \A i, j \in 0 .. A + 1 : i <= j => last[j] <= last[i]
      /\ \A i \in 0 .. A : f[i] = Run(last[i + 1], last[i])
  BY Zenon DEF Chain, Marks
<1>. HIDE DEF A
<1>3. next \in [0 .. A + 1 -> Nat] /\ next[0] = w + 1
  BY <1>1, <1>2
<1>4. \A i \in 1 .. A + 1 : next[i] = last[i]
  BY <1>1, <1>2
<1>5. ASSUME NEW i \in 0 .. A + 1, NEW j \in 0 .. A + 1, i <= j PROVE next[j] <= next[i]
  <2>1. CASE i = 0
    <3>1. last[j] <= w
      BY <1>1, <1>2
    <3>. QED
      BY <1>1, <1>2, <2>1, <3>1
  <2>2. CASE i # 0
    BY <1>1, <1>2, <1>4, <1>5, <2>2
  <2>. QED
    BY <2>1, <2>2
<1>6. ASSUME NEW i \in 0 .. A PROVE g[i] = Run(next[i + 1], next[i])
  <2>1. i + 1 \in 1 .. A + 1 /\ next[i + 1] = last[i + 1]
    BY <1>1, <1>4
  <2>2. CASE i = 0
    <3>1. last[1] \in Nat /\ last[1] <= w
      BY <1>1, <1>2
    <3>2. f[0] = Run(last[1], w)
      BY <1>1, <1>2
    <3>3. Append(f[0], w + 1) = Run(last[1], w + 1)
      BY <3>1, <3>2, RunAppend, Zenon
    <3>4. g[0] = Append(f[0], w + 1)
      BY <1>1 DEF A
    <3>. HIDE DEF next, g
    <3>. QED
      BY <1>3, <2>1, <2>2, <3>3, <3>4
  <2>3. CASE i # 0
    BY <1>1, <1>2, <1>4, <2>1, <2>3
  <2>. QED
    BY <2>2, <2>3
<1>. QED
  BY <1>3, <1>5, <1>6 DEF Chain, Marks, A

LEMMA ChainDropped ==
    ASSUME NEW last, NEW f, NEW w \in Nat, Chain(last, f, w), DOMAIN f = 0 .. AUDIT_ARCHIVES
    PROVE  Chain([last EXCEPT ![AUDIT_ARCHIVES + 1] = last[AUDIT_ARCHIVES]],
                 [f EXCEPT ![AUDIT_ARCHIVES] = <<>>], w)
<1>. DEFINE A == AUDIT_ARCHIVES
            next == [last EXCEPT ![A + 1] = last[A]]
            g == [f EXCEPT ![A] = <<>>]
<1>1. A \in Nat \ {0}
  BY AuditConstants
<1>2. /\ last \in [0 .. A + 1 -> Nat] /\ last[0] = w
      /\ \A i, j \in 0 .. A + 1 : i <= j => last[j] <= last[i]
      /\ \A i \in 0 .. A : f[i] = Run(last[i + 1], last[i])
      /\ DOMAIN f = 0 .. A
  BY Zenon DEF Chain, Marks
<1>. HIDE DEF A
<1>3. /\ next \in [0 .. A + 1 -> Nat] /\ next[0] = w /\ next[A + 1] = last[A]
      /\ \A i \in 0 .. A : next[i] = last[i]
  BY <1>1, <1>2
<1>4. ASSUME NEW i \in 0 .. A + 1, NEW j \in 0 .. A + 1, i <= j PROVE next[j] <= next[i]
  BY <1>1, <1>2, <1>3, <1>4
<1>5. ASSUME NEW i \in 0 .. A PROVE g[i] = Run(next[i + 1], next[i])
  <2>1. CASE i = A
    <3>1. last[A] \in Nat
      BY <1>1, <1>2
    <3>2. Run(last[A], last[A]) = <<>>
      <4>1. last[A] <= last[A]
        BY <3>1
      <4>. QED
        BY <3>1, <4>1, RunEmpty, Zenon
    <3>. QED
      BY <1>1, <1>2, <1>3, <2>1, <3>2, ZenonT(30)
  <2>2. CASE i # A
    <3>1. i + 1 \in 0 .. A
      BY <1>1, <2>2
    <3>. QED
      BY <1>2, <1>3, <2>2, <3>1
  <2>. QED
    BY <2>1, <2>2
<1>. QED
  BY <1>3, <1>4, <1>5, Zenon DEF Chain, Marks, A

LEMMA TwoChanged ==
    ASSUME NEW f, NEW a \in DOMAIN f, NEW b \in DOMAIN f, a # b, NEW x, NEW y
    PROVE  LET g == [f EXCEPT ![a] = x, ![b] = y]
           IN  /\ DOMAIN g = DOMAIN f /\ g[a] = x /\ g[b] = y
               /\ \A i \in DOMAIN f : i # a /\ i # b => g[i] = f[i]
OBVIOUS

LEMMA ChainMoved ==
    ASSUME NEW last, NEW f, NEW w \in Nat, Chain(last, f, w), DOMAIN f = 0 .. AUDIT_ARCHIVES,
           NEW j \in 1 .. AUDIT_ARCHIVES, j = AUDIT_ARCHIVES \/ f[j] = <<>>
    PROVE  Chain([last EXCEPT ![j + 1] = last[j], ![j] = last[j - 1]],
                 [f EXCEPT ![j] = f[j - 1], ![j - 1] = <<>>], w)
<1>. DEFINE A == AUDIT_ARCHIVES
            next == [last EXCEPT ![j + 1] = last[j], ![j] = last[j - 1]]
            g == [f EXCEPT ![j] = f[j - 1], ![j - 1] = <<>>]
<1>1. A \in Nat \ {0} /\ j \in 1 .. A /\ (j = A \/ f[j] = <<>>)
  BY AuditConstants
<1>2. /\ last \in [0 .. A + 1 -> Nat] /\ last[0] = w
      /\ \A i, k \in 0 .. A + 1 : i <= k => last[k] <= last[i]
      /\ \A i \in 0 .. A : f[i] = Run(last[i + 1], last[i])
      /\ DOMAIN f = 0 .. A
  BY Zenon DEF Chain, Marks
<1>. HIDE DEF A
<1>3. /\ next \in [0 .. A + 1 -> Nat] /\ next[0] = w /\ next[j + 1] = last[j] /\ next[j] = last[j - 1]
      /\ \A i \in 0 .. A + 1 : i # j /\ i # j + 1 => next[i] = last[i]
  <2>1. /\ j \in 0 .. A + 1 /\ j + 1 \in 0 .. A + 1 /\ j # j + 1 /\ j - 1 \in 0 .. A + 1
        /\ 0 \in 0 .. A + 1 /\ 0 # j + 1 /\ 0 # j
        /\ DOMAIN last = 0 .. A + 1
    BY <1>1, <1>2
  <2>2. last[j] \in Nat /\ last[j - 1] \in Nat
    BY <1>2, <2>1
  <2>3. next \in [0 .. A + 1 -> Nat]
    BY <1>2, <2>2, Zenon
  <2>. QED
    BY <1>2, <2>1, <2>3, TwoChanged, Zenon
<1>4. /\ g[j] = f[j - 1] /\ g[j - 1] = <<>>
      /\ \A i \in 0 .. A : i # j /\ i # j - 1 => g[i] = f[i]
  <2>1. j \in 0 .. A /\ j - 1 \in 0 .. A /\ j # j - 1
    BY <1>1
  <2>. QED
    BY <1>2, <2>1, TwoChanged, Zenon
<1>. HIDE DEF next, g
<1>5. ASSUME NEW i \in 0 .. A + 1, NEW k \in 0 .. A + 1, i <= k PROVE next[k] <= next[i]
  <2>. DEFINE o(e) == IF e = j \/ e = j + 1 THEN e - 1 ELSE e
  <2>1. o(i) \in 0 .. A + 1 /\ o(k) \in 0 .. A + 1 /\ o(i) <= o(k)
    BY <1>1, <1>5, SMTT(20)
  <2>2. ASSUME NEW e \in 0 .. A + 1 PROVE next[e] = last[o(e)]
    <3>1. CASE e = j
      BY <1>3, <3>1
    <3>2. CASE e = j + 1
      <4>1. e - 1 = j
        BY <3>2
      <4>. QED
        BY <1>3, <3>2, <4>1
    <3>3. CASE e # j /\ e # j + 1
      BY <1>3, <3>3, Zenon
    <3>. QED
      BY <3>1, <3>2, <3>3, Zenon
  <2>. HIDE DEF o
  <2>. QED
    BY <1>2, <2>1, <2>2
<1>6. j = A \/ last[j + 1] = last[j]
  <2>1. ASSUME f[j] = <<>> PROVE last[j + 1] = last[j]
    <3>1. j \in 0 .. A /\ j \in 0 .. A + 1 /\ j + 1 \in 0 .. A + 1 /\ j <= j + 1
      BY <1>1
    <3>2. last[j] \in Nat /\ last[j + 1] \in Nat /\ last[j + 1] <= last[j]
      BY <1>2, <3>1
    <3>3. Run(last[j + 1], last[j]) = <<>>
      BY <1>2, <2>1, <3>1
    <3>. QED
      BY <3>2, <3>3, RunEmpty, Zenon
  <2>. QED
    BY <1>1, <2>1
<1>7. ASSUME NEW i \in 0 .. A PROVE g[i] = Run(next[i + 1], next[i])
  <2>1. CASE i = j
    <3>1. j - 1 \in 0 .. A /\ (j - 1) + 1 = j
      BY <1>1
    <3>2. f[j - 1] = Run(last[j], last[j - 1])
      BY <1>2, <3>1
    <3>. QED
      BY <1>3, <1>4, <2>1, <3>2
  <2>2. CASE i = j - 1
    <3>1. last[j - 1] \in Nat /\ (j - 1) + 1 = j
      BY <1>1, <1>2, SMTT(30)
    <3>2. last[j - 1] <= last[j - 1]
      BY <3>1
    <3>3. Run(last[j - 1], last[j - 1]) = <<>>
      BY <3>1, <3>2, RunEmpty, Zenon
    <3>4. next[j - 1] = last[j - 1]
      BY <1>1, <1>3
    <3>. QED
      BY <1>3, <1>4, <2>2, <3>1, <3>3, <3>4
  <2>3. CASE i # j /\ i # j - 1
    <3>1. next[i + 1] = last[i + 1]
      <4>1. i + 1 \in 0 .. A + 1 /\ i + 1 # j /\ i + 1 # j + 1
        BY <1>1, <2>3
      <4>. QED
        BY <1>3, <4>1, Zenon
    <3>2. next[i] = last[i]
      BY <1>1, <1>3, <1>6, <2>3
    <3>. QED
      BY <1>2, <1>4, <2>3, <3>1, <3>2
  <2>. QED
    BY <2>1, <2>2, <2>3
<1>. QED
  BY <1>3, <1>5, <1>7, Zenon DEF Chain, Marks, A, next, g

-----------------------------------------------------------------------------
\* A fault makes up for the archive that the rotation leaves free.
LEMMA SpreadKept ==
    ASSUME NEW last \in Marks, NEW n \in Nat, NEW m \in Nat,
           NEW j \in Nat, NEW l \in Nat, Spread(last, n, j),
           \/ m = n /\ (j > AUDIT_ARCHIVES \/ l <= j)
           \/ m = n + 1
    PROVE  Spread(last, m, l)
<1>. DEFINE A == AUDIT_ARCHIVES
<1>1. A \in Nat \ {0} /\ AUDIT_MAX \in Nat
  BY AuditConstants
<1>2. Files(n) \in Nat /\ (Files(m) = Files(n) \/ Files(m) = Files(n) + AUDIT_MAX)
  BY FilesFacts, Zenon
<1>3. ASSUME NEW k \in 0 .. A, last[k + 1] > 0
      PROVE  last[k + 1] + Files(k) <= last[1] + Files(m) + IF k >= l THEN AUDIT_MAX ELSE 0
  <2>1. /\ last[k + 1] + Files(k) <= last[1] + Files(n) + IF k >= j THEN AUDIT_MAX ELSE 0
        /\ last[k + 1] \in Nat /\ last[1] \in Nat /\ Files(k) \in Nat
    <3>1. k \in Nat /\ k + 1 \in 0 .. A + 1 /\ 1 \in 0 .. A + 1
      BY <1>1
    <3>2. last[k + 1] \in Nat /\ last[1] \in Nat
      BY <3>1 DEF Marks
    <3>. QED
      BY <1>3, <3>1, <3>2, FilesFacts, Zenon DEF Spread
  <2>2. CASE m = n
    <3>1. k >= j => k >= l
      BY <1>1, <2>2
    <3>. QED
      BY <1>1, <1>2, <2>1, <2>2, <3>1
  <2>3. CASE m = n + 1
    <3>1. Files(m) = Files(n) + AUDIT_MAX
      BY <2>3, FilesFacts
    <3>. QED
      BY <1>1, <1>2, <2>1, <3>1
  <2>. QED
    BY <2>2, <2>3
<1>. QED
  BY <1>3 DEF Spread

LEMMA SpreadDropped ==
    ASSUME NEW last \in Marks, NEW n \in Nat, NEW j \in Nat,
           j > AUDIT_ARCHIVES, Spread(last, n, j)
    PROVE  Spread([last EXCEPT ![AUDIT_ARCHIVES + 1] = last[AUDIT_ARCHIVES]], n, AUDIT_ARCHIVES)
<1>. DEFINE A == AUDIT_ARCHIVES
            next == [last EXCEPT ![A + 1] = last[A]]
<1>1. A \in Nat \ {0} /\ AUDIT_MAX \in Nat /\ Files(n) \in Nat
  BY AuditConstants, FilesFacts
<1>2. next[A + 1] = last[A] /\ \A i \in 0 .. A : next[i] = last[i]
  BY <1>1 DEF Marks
<1>. HIDE DEF next
<1>3. ASSUME NEW k \in 0 .. A, next[k + 1] > 0
      PROVE  next[k + 1] + Files(k) <= next[1] + Files(n) + IF k >= A THEN AUDIT_MAX ELSE 0
  <2>1. next[1] = last[1] /\ last[1] \in Nat
    BY <1>1, <1>2 DEF Marks
  <2>2. CASE k = A
    <3>1. k - 1 \in 0 .. A /\ (k - 1) + 1 = k /\ ~(k - 1 >= j)
      BY <1>1, <2>2
    <3>2. last[k] > 0 /\ last[k] \in Nat
      BY <1>1, <1>2, <1>3, <2>2 DEF Marks
    <3>3. last[k] + Files(k - 1) <= last[1] + Files(n) + 0
      BY <3>1, <3>2 DEF Spread
    <3>4. Files(k) = Files(k - 1) + AUDIT_MAX /\ Files(k - 1) \in Nat
      <4>1. k - 1 \in Nat
        BY <3>1
      <4>. QED
        BY <3>1, <4>1, FilesFacts
    <3>. QED
      BY <1>1, <1>2, <2>1, <2>2, <3>2, <3>3, <3>4
  <2>3. CASE k # A
    <3>1. k + 1 \in 0 .. A /\ ~(k >= j)
      BY <1>1, <2>3
    <3>2. last[k + 1] > 0 /\ next[k + 1] = last[k + 1] /\ last[k + 1] \in Nat
      <4>1. next[k + 1] = last[k + 1]
        BY <1>2, <3>1, Zenon
      <4>2. last[k + 1] \in Nat
        BY <1>1 DEF Marks
      <4>. QED
        BY <1>3, <4>1, <4>2
    <3>3. last[k + 1] + Files(k) <= last[1] + Files(n) + 0
      BY <3>1, <3>2 DEF Spread
    <3>4. Files(k) \in Nat
      <4>1. k \in Nat
        BY <1>1
      <4>. QED
        BY <4>1, FilesFacts, Zenon
    <3>. QED
      BY <1>1, <2>1, <2>3, <3>2, <3>3, <3>4
  <2>. QED
    BY <2>2, <2>3
<1>. QED
  BY <1>3 DEF Spread, next

\* An archive moved up leaves its own place free, and the active file fills
\* the last one.
LEMMA SpreadMoved ==
    ASSUME NEW last \in Marks, NEW n \in Nat,
           NEW j \in 1 .. AUDIT_ARCHIVES, NEW l \in Nat, Spread(last, n, j),
           \/ j > 1 /\ l = j - 1
           \/ j = 1 /\ last[1] + AUDIT_MAX <= last[0]
    PROVE  Spread([last EXCEPT ![j + 1] = last[j], ![j] = last[j - 1]], n, l)
<1>. DEFINE A == AUDIT_ARCHIVES
            next == [last EXCEPT ![j + 1] = last[j], ![j] = last[j - 1]]
<1>1. A \in Nat \ {0} /\ AUDIT_MAX \in Nat /\ Files(n) \in Nat /\ j \in 1 .. A
  BY AuditConstants, FilesFacts
<1>2. /\ next[j + 1] = last[j] /\ next[j] = last[j - 1]
      /\ \A i \in 0 .. A + 1 : i # j /\ i # j + 1 => next[i] = last[i]
  <2>1. /\ j \in 0 .. A + 1 /\ j + 1 \in 0 .. A + 1 /\ j # j + 1 /\ DOMAIN last = 0 .. A + 1
    BY <1>1 DEF Marks
  <2>. QED
    BY <2>1, TwoChanged, Zenon
<1>. HIDE DEF next
<1>3. ASSUME NEW k \in 0 .. A, last[k + 1] > 0
      PROVE  last[k + 1] + Files(k) <= last[1] + Files(n) + IF k >= j THEN AUDIT_MAX ELSE 0
  BY <1>3 DEF Spread
<1>4. ASSUME NEW k \in 0 .. A
      PROVE  Files(k) \in Nat /\ Files(k + 1) = Files(k) + AUDIT_MAX
  <2>1. k \in Nat
    BY <1>1
  <2>. QED
    BY <2>1, FilesFacts, Zenon
<1>5. ASSUME NEW k \in 0 .. A, next[k + 1] > 0
      PROVE  next[k + 1] + Files(k) <= next[1] + Files(n) + IF k >= l THEN AUDIT_MAX ELSE 0
  <2>0. last[k + 1] \in Nat /\ last[j] \in Nat /\ last[j - 1] \in Nat /\ last[0] \in Nat
        /\ last[1] \in Nat
    BY <1>1 DEF Marks
  <2>1. CASE j = 1
    <3>1. next[1] = last[0] /\ next[2] = last[1] /\ last[1] + AUDIT_MAX <= last[0]
      BY <1>2, <2>1
    <3>2. CASE k = 0
      <4>1. Files(k) = 0 /\ k + 1 = 1
        BY <3>2, FilesFacts
      <4>. QED
        BY <1>1, <1>4, <2>0, <3>1, <4>1
    <3>3. CASE k = 1
      <4>1. Files(k) = AUDIT_MAX /\ k + 1 = 2
        BY <1>1, <3>3 DEF Files
      <4>. QED
        BY <1>1, <1>4, <2>0, <3>1, <4>1
    <3>4. CASE k > 1
      <4>1. next[k + 1] = last[k + 1]
        BY <1>1, <1>2, <2>1, <3>4
      <4>2. last[k + 1] + Files(k) <= last[1] + Files(n) + AUDIT_MAX
        BY <1>1, <1>3, <1>5, <2>1, <3>4, <4>1
      <4>. QED
        BY <1>1, <1>4, <2>0, <3>1, <4>1, <4>2
    <3>. QED
      BY <3>2, <3>3, <3>4
  <2>2. CASE j > 1
    <3>1. next[1] = last[1] /\ l = j - 1
      BY <1>1, <1>2, <2>2
    <3>2. CASE k = j
      <4>1. k - 1 \in 0 .. A /\ (k - 1) + 1 = j /\ ~(k - 1 >= j)
        BY <1>1, <2>2, <3>2
      <4>2. last[j] + Files(k - 1) <= last[1] + Files(n) + 0
        BY <1>2, <1>3, <1>5, <3>2, <4>1
      <4>3. Files(k) = Files(k - 1) + AUDIT_MAX /\ Files(k - 1) \in Nat
        BY <1>4, <3>2, <4>1
      <4>. QED
        BY <1>1, <1>2, <1>4, <2>0, <3>1, <3>2, <4>2, <4>3
    <3>3. CASE k = j - 1
      <4>1. k - 1 \in 0 .. A /\ (k - 1) + 1 = k /\ ~(k - 1 >= j) /\ k + 1 = j
        BY <1>1, <2>2, <3>3
      <4>2. last[k] + Files(k - 1) <= last[1] + Files(n) + 0
        <5>1. last[(k - 1) + 1] > 0
          BY <1>2, <1>5, <3>3, <4>1
        <5>. QED
          BY <1>3, <4>1, <5>1
      <4>3. Files(k) = Files(k - 1) + AUDIT_MAX /\ Files(k - 1) \in Nat
        BY <1>4, <4>1
      <4>. QED
        BY <1>1, <1>2, <1>4, <2>0, <3>1, <3>3, <4>1, <4>2, <4>3
    <3>4. CASE k # j /\ k # j - 1
      <4>1. next[k + 1] = last[k + 1]
        <5>1. k + 1 \in 0 .. A + 1 /\ k + 1 # j /\ k + 1 # j + 1
          BY <1>1, <3>4
        <5>. QED
          BY <1>2, <5>1, Zenon
      <4>2. last[k + 1] + Files(k) <= last[1] + Files(n) + IF k >= j THEN AUDIT_MAX ELSE 0
        BY <1>3, <1>5, <4>1
      <4>3. k >= j => k >= l
        BY <1>1, <3>1
      <4>. QED
        BY <1>1, <1>4, <2>0, <3>1, <4>1, <4>2, <4>3
    <3>. QED
      BY <3>2, <3>3, <3>4
  <2>. QED
    BY <1>1, <2>1, <2>2
<1>. QED
  BY <1>5, Zenon DEF Spread, next

-----------------------------------------------------------------------------
Moving == IF at = "rename" THEN index ELSE AUDIT_ARCHIVES + 1

\* The rotation starts at the last archive, and each rename but the first
\* finds its target free.
Place ==
    /\ at = "unlink" => index = AUDIT_ARCHIVES
    /\ at = "rename" =>
          index \in 1 .. AUDIT_ARCHIVES /\ (index = AUDIT_ARCHIVES \/ file[index] = <<>>)

Active == Len(file[0])

Room ==
    /\ at \in {"unlink", "rename"} => Active >= AUDIT_MAX
    /\ at \in {"reopen", "write"} => Active < AUDIT_MAX + faults

Lengths(f, n) == \A i \in 0 .. AUDIT_ARCHIVES : Len(f[i]) <= AUDIT_MAX + n

RotationInv == AuditTypeOK /\ Place /\ Room /\ Lengths(file, faults)

LogInv ==
    /\ RotationInv
    /\ \E last : Chain(last, file, written) /\ Spread(last, faults, Moving)

LEMMA RenamedFiles ==
    ASSUME RotationInv, at = "rename"
    PROVE  /\ Shifted \in [0 .. AUDIT_ARCHIVES -> Seq(Nat)]
           /\ file[index - 1] = <<>> => Shifted = file
           /\ file[index - 1] # <<>> =>
                 Shifted = [file EXCEPT ![index] = file[index - 1], ![index - 1] = <<>>]
           /\ Shifted[index - 1] = <<>>
           /\ Lengths(Shifted, faults)
           /\ index # 1 => Shifted[0] = file[0]
<1>. DEFINE j == index
            A == AUDIT_ARCHIVES
<1>1. j \in 1 .. A /\ A \in Nat /\ AUDIT_MAX \in Nat /\ faults \in Nat
  BY AuditConstants DEF RotationInv, AuditTypeOK, Place
<1>2. /\ file \in [0 .. A -> Seq(Nat)]
      /\ \A i \in 0 .. A : Len(file[i]) <= AUDIT_MAX + faults
  BY DEF RotationInv, AuditTypeOK, Lengths
<1>3. j \in 0 .. A /\ j - 1 \in 0 .. A /\ j # j - 1 /\ 0 \in 0 .. A /\ 0 # j
  BY <1>1
<1>4. CASE file[j - 1] = <<>>
  <2>1. Shifted = file
    BY <1>4 DEF Shifted, Renamed
  <2>. QED
    BY <1>2, <1>3, <1>4, <2>1, Zenon DEF Lengths
<1>5. CASE file[j - 1] # <<>>
  <2>. DEFINE g == [file EXCEPT ![j] = file[j - 1], ![j - 1] = <<>>]
  <2>1. Shifted = g
    BY <1>5 DEF Shifted, Renamed
  <2>2. file[j - 1] \in Seq(Nat) /\ <<>> \in Seq(Nat) /\ DOMAIN file = 0 .. A
    BY <1>2, <1>3
  <2>3. g \in [0 .. A -> Seq(Nat)]
    BY <1>2, <2>2, Zenon
  <2>4. /\ g[j] = file[j - 1] /\ g[j - 1] = <<>>
        /\ \A i \in 0 .. A : i # j /\ i # j - 1 => g[i] = file[i]
    BY <1>3, <2>2, TwoChanged, Zenon
  <2>. HIDE DEF g
  <2>5. ASSUME NEW i \in 0 .. A PROVE Len(g[i]) <= AUDIT_MAX + faults
    <3>1. CASE i = j
      BY <1>2, <1>3, <2>4, <3>1
    <3>2. CASE i = j - 1
      <4>1. Len(g[i]) = 0
        BY <2>4, <3>2
      <4>. QED
        BY <1>1, <4>1
    <3>3. CASE i # j /\ i # j - 1
      BY <1>2, <2>4, <3>3
    <3>. QED
      BY <3>1, <3>2, <3>3
  <2>6. j # 1 => g[0] = file[0]
    BY <1>1, <1>3, <2>4
  <2>7. g = [file EXCEPT ![j] = file[j - 1], ![j - 1] = <<>>]
    BY DEF g
  <2>. QED
    BY <1>5, <2>1, <2>3, <2>4, <2>5, <2>6, <2>7, Zenon DEF Lengths
<1>. QED
  BY <1>4, <1>5

LEMMA Below ==
    ASSUME NEW m \in Nat, NEW n \in Nat, NEW k \in Nat, n <= k
    PROVE  /\ 0 <= m + k
           /\ \A x \in Nat : x < m + n => x + 1 <= m + k
OBVIOUS

LEMMA LengthsMore ==
    ASSUME NEW f \in [0 .. AUDIT_ARCHIVES -> Seq(Nat)], NEW n \in Nat, NEW m \in Nat,
           n <= m, Lengths(f, n)
    PROVE  Lengths(f, m)
<1>1. AUDIT_MAX \in Nat
  BY AuditConstants
<1>2. ASSUME NEW i \in 0 .. AUDIT_ARCHIVES PROVE Len(f[i]) <= AUDIT_MAX + m
  <2>1. Len(f[i]) \in Nat
    OBVIOUS
  <2>2. Len(f[i]) <= AUDIT_MAX + n
    BY SMTT(30) DEF Lengths
  <2>. QED
    BY <1>1, <2>1, <2>2
<1>. QED
  BY <1>2 DEF Lengths

LEMMA FaultsGrow ==
    ASSUME faults \in Nat, AuditNext
    PROVE  faults' \in Nat /\ faults' \in {faults, faults + 1}
BY DEF AuditNext, audit_log_open, audit_log_event, unlink_oldest, rename,
   reopen, write,
   audit_log_close, killed, Fault

\* The steps that leave the files alone.
LEMMA FilesAlone ==
    ASSUME RotationInv, AuditNext, file' = file
    PROVE  Active' = Active /\ Lengths(file, faults)'
<1>1. /\ faults \in Nat /\ faults' \in Nat /\ faults <= faults'
      /\ file \in [0 .. AUDIT_ARCHIVES -> Seq(Nat)]
  BY FaultsGrow DEF RotationInv, AuditTypeOK
<1>2. Lengths(file, faults')
  BY <1>1, LengthsMore, Zenon DEF RotationInv
<1>. QED
  BY <1>2 DEF Active, Lengths

LEMMA RotationStep == RotationInv /\ [AuditNext]_audit_vars => RotationInv'
<1>. SUFFICES ASSUME RotationInv, [AuditNext]_audit_vars PROVE RotationInv'
  OBVIOUS
<1>0. /\ AUDIT_MAX \in Nat \ {0} /\ AUDIT_ARCHIVES \in Nat \ {0}
  BY AuditConstants
<1>1. /\ file \in [0 .. AUDIT_ARCHIVES -> Seq(Nat)] /\ fd \in BOOLEAN
      /\ index \in 0 .. AUDIT_ARCHIVES /\ written \in Nat /\ faults \in Nat
      /\ at \in {"down", "idle", "unlink", "rename", "reopen", "write"}
      /\ Place /\ Room /\ Lengths(file, faults)
  BY DEF RotationInv, AuditTypeOK
<1>2. Active \in Nat /\ Active <= AUDIT_MAX + faults
  BY <1>0, <1>1 DEF Active, Lengths
<1>3. full <=> Active >= AUDIT_MAX
  BY DEF full, Active
<1>4. ASSUME AuditNext, file' = file, AuditTypeOK', Place', Room' PROVE RotationInv'
  BY <1>4, FilesAlone DEF RotationInv
<1>5. CASE audit_log_open
  <2>1. AuditNext /\ file' = file
    BY <1>5 DEF AuditNext, audit_log_open
  <2>2. AuditTypeOK'
    BY <1>1, <1>5, FaultsGrow, <2>1, ZenonT(30) DEF AuditTypeOK, audit_log_open
  <2>3. Place' /\ Room'
    BY <1>5 DEF Place, Room, audit_log_open
  <2>. QED
    BY <1>4, <2>1, <2>2, <2>3
<1>6. CASE audit_log_event
  <2>1. AuditNext /\ file' = file
    BY <1>6, ZenonT(30) DEF AuditNext, audit_log_event
  <2>2. AuditTypeOK'
    <3>1. faults' \in Nat
      BY <1>1, <2>1, FaultsGrow
    <3>2. index' \in 0 .. AUDIT_ARCHIVES /\ fd' \in BOOLEAN /\ at' \in {"write", "unlink"}
      <4>1. AUDIT_ARCHIVES \in 0 .. AUDIT_ARCHIVES
        BY <1>0
      <4>. QED
        BY <1>1, <1>6, <4>1, Zenon DEF audit_log_event, first_archive
    <3>. QED
      BY <1>1, <1>6, <2>1, <3>1, <3>2, Zenon DEF AuditTypeOK, audit_log_event
  <2>3. Active' = Active
    BY <2>1, FilesAlone
  <2>4. Place'
    BY <1>6, ZenonT(30) DEF Place, audit_log_event, first_archive
  <2>5. Room'
    <3>1. \/ at' = "write" /\ ((~full /\ faults' = faults) \/ faults' = faults + 1)
          \/ at' = "unlink" /\ full
      BY <1>6, ZenonT(30) DEF audit_log_event, Fault
    <3>2. CASE at' = "write" /\ ~full /\ faults' = faults
      BY <1>0, <1>1, <1>2, <1>3, <2>3, <3>2 DEF Room
    <3>3. CASE at' = "write" /\ faults' = faults + 1
      BY <1>0, <1>1, <1>2, <2>3, <3>3 DEF Room
    <3>4. CASE at' = "unlink" /\ full
      BY <1>3, <2>3, <3>4 DEF Room
    <3>. QED
      BY <3>1, <3>2, <3>3, <3>4, Zenon
  <2>. QED
    BY <1>4, <2>1, <2>2, <2>4, <2>5
<1>7. CASE unlink_oldest
  <2>1. /\ at = "unlink" /\ at' = "rename" /\ index' = index /\ index = AUDIT_ARCHIVES
        /\ fd' = fd /\ written' = written
    BY <1>1, <1>7 DEF unlink_oldest, Place
  <2>2. /\ file' \in [0 .. AUDIT_ARCHIVES -> Seq(Nat)] /\ file'[0] = file[0]
        /\ \A i \in 0 .. AUDIT_ARCHIVES : file'[i] = file[i] \/ file'[i] = <<>>
    <3>1. CASE file' = file
      BY <1>1, <3>1, Zenon
    <3>2. CASE file' = [file EXCEPT ![AUDIT_ARCHIVES] = <<>>]
      <4>1. 0 \in 0 .. AUDIT_ARCHIVES /\ 0 # AUDIT_ARCHIVES /\ <<>> \in Seq(Nat)
        BY <1>0
      <4>. QED
        BY <1>1, <3>2, <4>1, Zenon
    <3>. QED
      BY <1>7, <2>1, <3>1, <3>2 DEF unlink_oldest
  <2>3. faults' \in Nat /\ faults <= faults'
    BY <1>1, <1>7, FaultsGrow DEF AuditNext
  <2>4. AuditTypeOK'
    BY <1>0, <1>1, <2>1, <2>2, <2>3 DEF AuditTypeOK
  <2>5. Place' /\ Room'
    <3>1. Active' = Active
      BY <2>2 DEF Active
    <3>. QED
      BY <1>0, <1>1, <2>1, <3>1 DEF Place, Room
  <2>6. Lengths(file, faults)'
    <3>1. Lengths(file, faults')
      BY <1>1, <2>3, LengthsMore, Zenon
    <3>2. ASSUME NEW i \in 0 .. AUDIT_ARCHIVES PROVE Len(file'[i]) <= AUDIT_MAX + faults'
      <4>1. CASE file'[i] = file[i]
        BY <3>1, <4>1 DEF Lengths
      <4>2. CASE file'[i] = <<>>
        <5>1. Len(file'[i]) = 0
          BY <4>2
        <5>2. AUDIT_MAX \in Nat
          BY <1>0
        <5>. QED
          BY <1>1, <2>3, <5>1, <5>2, Below, Zenon
      <4>. QED
        BY <2>2, <4>1, <4>2
    <3>. QED
      BY <3>2 DEF Lengths
  <2>. QED
    BY <2>4, <2>5, <2>6 DEF RotationInv
<1>8. CASE rename
  <2>1. CASE /\ file' = Shifted /\ index' = index - 1
             /\ at' = (IF index' = 0 THEN "reopen" ELSE "rename")
             /\ UNCHANGED faults
    <3>1. at = "rename" /\ index \in 1 .. AUDIT_ARCHIVES /\ fd' = fd /\ written' = written
      BY <1>1, <1>8 DEF rename, Place
    <3>2. /\ file' \in [0 .. AUDIT_ARCHIVES -> Seq(Nat)] /\ file'[index'] = <<>>
          /\ Lengths(file', faults')
          /\ index # 1 => file'[0] = file[0]
      BY <2>1, <3>1, RenamedFiles
    <3>3. AuditTypeOK'
      BY <1>0, <1>1, <2>1, <3>1, <3>2, SMTT(30) DEF AuditTypeOK
    <3>4. Place'
      BY <1>0, <2>1, <3>1, <3>2 DEF Place
    <3>5. Room'
      <4>1. CASE index = 1
        <5>1. index' = 0 /\ Active' = 0
          BY <2>1, <3>2, <4>1 DEF Active
        <5>. QED
          BY <1>0, <1>1, <2>1, <5>1 DEF Room
      <4>2. CASE index # 1
        <5>1. Active' = Active
          BY <3>2, <4>2 DEF Active
        <5>2. at' = "rename"
          BY <1>0, <2>1, <3>1, <4>2
        <5>. QED
          BY <1>1, <3>1, <5>1, <5>2 DEF Room
      <4>. QED
        BY <4>1, <4>2
    <3>. QED
      BY <3>2, <3>3, <3>4, <3>5 DEF RotationInv, Lengths
  <2>2. CASE Fault /\ at' = "reopen" /\ index' = 0 /\ UNCHANGED file
    <3>1. AuditNext /\ file' = file
      BY <1>8, <2>2 DEF AuditNext
    <3>2. AuditTypeOK'
      BY <1>0, <1>1, <1>8, <2>2, FaultsGrow, <3>1 DEF AuditTypeOK, rename
    <3>3. Active' = Active
      BY <3>1, FilesAlone
    <3>4. Place' /\ Room'
      BY <1>0, <1>1, <1>2, <2>2, <3>3 DEF Place, Room, Fault
    <3>. QED
      BY <1>4, <3>1, <3>2, <3>4
  <2>. QED
    BY <1>8, <2>1, <2>2 DEF rename
<1>9. CASE reopen
  <2>1. AuditNext /\ file' = file
    BY <1>9 DEF AuditNext, reopen
  <2>2. AuditTypeOK'
    BY <1>1, <1>9, FaultsGrow, <2>1, ZenonT(30) DEF AuditTypeOK, reopen
  <2>3. Active' = Active
    BY <2>1, FilesAlone
  <2>4. Place' /\ Room'
    BY <1>1, <1>9, <2>3 DEF Place, Room, reopen
  <2>. QED
    BY <1>4, <2>1, <2>2, <2>4
<1>10. CASE write
  <2>1. at = "write" /\ at' = "idle" /\ fd' = fd /\ index' = index
    BY <1>10 DEF write
  <2>2. faults' \in Nat /\ faults <= faults'
    BY <1>1, <1>10, FaultsGrow DEF AuditNext
  <2>3. Place' /\ Room'
    BY <2>1 DEF Place, Room
  <2>4. CASE file' = [file EXCEPT ![0] = Append(@, written')] /\ written' = written + 1
    <3>1. written' \in Nat /\ Append(file[0], written') \in Seq(Nat) /\ 0 \in 0 .. AUDIT_ARCHIVES
          /\ Len(Append(file[0], written')) = Active + 1
      BY <1>0, <1>1, <2>4 DEF Active
    <3>2. /\ file' \in [0 .. AUDIT_ARCHIVES -> Seq(Nat)] /\ file'[0] = Append(file[0], written')
          /\ \A i \in 0 .. AUDIT_ARCHIVES : i # 0 => file'[i] = file[i]
      BY <1>1, <2>4, <3>1
    <3>3. Lengths(file, faults')
      BY <1>1, <2>2, LengthsMore, Zenon
    <3>4. ASSUME NEW i \in 0 .. AUDIT_ARCHIVES PROVE Len(file'[i]) <= AUDIT_MAX + faults'
      <4>1. CASE i = 0
        <5>1. Active < AUDIT_MAX + faults
          BY <1>1, <2>1 DEF Room
        <5>2. Len(file'[i]) = Active + 1
          BY <3>1, <3>2, <4>1
        <5>. QED
          <6>1. AUDIT_MAX \in Nat
            BY <1>0
          <6>. QED
            BY <1>1, <1>2, <2>2, <5>1, <5>2, <6>1, Below, Zenon
      <4>2. CASE i # 0
        BY <3>2, <3>3, <4>2 DEF Lengths
      <4>. QED
        BY <4>1, <4>2
    <3>5. AuditTypeOK'
      BY <1>1, <2>1, <2>2, <3>1, <3>2 DEF AuditTypeOK
    <3>. QED
      BY <2>3, <3>4, <3>5 DEF RotationInv, Lengths
  <2>5. CASE file' = file /\ written' = written
    <3>1. AuditTypeOK'
      BY <1>1, <2>1, <2>2, <2>5 DEF AuditTypeOK
    <3>. QED
      BY <1>4, <1>10, <2>3, <2>5, <3>1 DEF AuditNext
  <2>. QED
    BY <1>10, <2>4, <2>5 DEF write
<1>11. CASE audit_log_close
  <2>1. AuditNext /\ file' = file
    BY <1>11 DEF AuditNext, audit_log_close
  <2>2. AuditTypeOK' /\ Place' /\ Room'
    BY <1>1, <1>11, ZenonT(30) DEF AuditTypeOK, Place, Room, audit_log_close
  <2>. QED
    BY <1>4, <2>1, <2>2
<1>12. CASE killed
  <2>1. AuditNext /\ file' = file
    BY <1>12 DEF AuditNext, killed
  <2>2. AuditTypeOK'
    <3>1. faults' \in Nat /\ 0 \in 0 .. AUDIT_ARCHIVES
      BY <1>0, <1>1, <2>1, FaultsGrow
    <3>. QED
      BY <1>1, <1>12, <2>1, <3>1, Zenon DEF AuditTypeOK, killed
  <2>3. Place' /\ Room'
    BY <1>12 DEF Place, Room, killed
  <2>. QED
    BY <1>4, <2>1, <2>2, <2>3
<1>13. CASE UNCHANGED audit_vars
  BY <1>13, Zenon DEF audit_vars, RotationInv, AuditTypeOK, Place, Room,
     Active, Lengths
<1>. QED
  BY <1>5, <1>6, <1>7, <1>8, <1>9, <1>10, <1>11, <1>12, <1>13 DEF AuditNext

-----------------------------------------------------------------------------
LEMMA LogInit == AuditInit => LogInv
<1>. SUFFICES ASSUME AuditInit PROVE LogInv
  OBVIOUS
<1>. DEFINE A == AUDIT_ARCHIVES
            last == [i \in 0 .. A + 1 |-> 0]
<1>0. AUDIT_MAX \in Nat \ {0} /\ A \in Nat \ {0} /\ 0 \in 0 .. A
  BY AuditConstants
<1>1. /\ file = [i \in 0 .. A |-> <<>>]
      /\ fd = FALSE /\ at = "down" /\ index = 0 /\ written = 0 /\ faults = 0
  BY DEF AuditInit
<1>2. <<>> \in Seq(Nat) /\ Len(<<>>) = 0
  OBVIOUS
<1>3. AuditTypeOK
  BY <1>0, <1>1, <1>2, Zenon DEF AuditTypeOK
<1>4. Place /\ Room
  BY <1>1 DEF Place, Room
<1>5. ASSUME NEW i \in 0 .. A PROVE Len(file[i]) <= AUDIT_MAX + faults
  <2>1. Len(file[i]) = 0
    BY <1>1, <1>2
  <2>. QED
    BY <1>0, <1>1, <2>1
<1>6. RotationInv
  BY <1>3, <1>4, <1>5, Zenon DEF RotationInv, Lengths
<1>7. Run(0, 0) = <<>>
  BY RunEmpty
<1>8. Chain(last, file, written)
  <2>1. \A i \in 0 .. A + 1 : last[i] = 0
    OBVIOUS
  <2>2. last \in Marks
    BY DEF Marks
  <2>3. 0 \in 0 .. A + 1 /\ 0 <= 0
    BY <1>0
  <2>4. ASSUME NEW i \in 0 .. A PROVE i + 1 \in 0 .. A + 1 /\ i \in 0 .. A + 1
    BY <1>0
  <2>. HIDE DEF last
  <2>5. ASSUME NEW i \in 0 .. A PROVE file[i] = Run(last[i + 1], last[i])
    <3>1. last[i + 1] = 0 /\ last[i] = 0
      BY <2>1, <2>4
    <3>2. file[i] = <<>>
      BY <1>1
    <3>. QED
      BY <1>7, <3>1, <3>2
  <2>. QED
    BY <1>1, <2>1, <2>2, <2>3, <2>5, Zenon DEF Chain
<1>9. Spread(last, faults, Moving)
  <2>1. ASSUME NEW k \in 0 .. A PROVE last[k + 1] = 0
    BY <1>0
  <2>. HIDE DEF last
  <2>. QED
    BY <2>1 DEF Spread
<1>. QED
  BY <1>6, <1>8, <1>9, Zenon DEF LogInv

\* The files and the number of faults after a step that keeps the files, or
\* counts a fault.
LEMMA ChainKept ==
    ASSUME RotationInv, AuditNext, RotationInv',
           NEW last, Chain(last, file, written), Spread(last, faults, Moving),
           file' = file, written' = written, at # "rename" \/ faults' = faults + 1
    PROVE  (\E l : Chain(l, file, written) /\ Spread(l, faults, Moving))'
<1>1. /\ AUDIT_ARCHIVES \in Nat \ {0} /\ faults \in Nat /\ faults' \in {faults, faults + 1}
      /\ index \in 0 .. AUDIT_ARCHIVES /\ index' \in 0 .. AUDIT_ARCHIVES /\ faults' \in Nat
  BY AuditConstants, FaultsGrow DEF RotationInv, AuditTypeOK
<1>2. Moving \in Nat /\ Moving' \in Nat /\ (at # "rename" => Moving > AUDIT_ARCHIVES)
  BY <1>1 DEF Moving
<1>3. last \in Marks
  BY DEF Chain
<1>4. \/ faults' = faults /\ (Moving > AUDIT_ARCHIVES \/ Moving' <= Moving)
      \/ faults' = faults + 1
  BY <1>1, <1>2
<1>5. Spread(last, faults', Moving')
  BY <1>1, <1>2, <1>3, <1>4, SpreadKept, Zenon
<1>6. Chain(last, file', written')
  BY Zenon
<1>. QED
  BY <1>5, <1>6, Zenon

LEMMA ChainStep == LogInv /\ [AuditNext]_audit_vars => LogInv'
<1>. SUFFICES ASSUME LogInv, [AuditNext]_audit_vars PROVE LogInv'
  OBVIOUS
<1>. DEFINE Kept == \E l : Chain(l, file, written) /\ Spread(l, faults, Moving)
<1>0. AUDIT_MAX \in Nat \ {0} /\ AUDIT_ARCHIVES \in Nat \ {0}
  BY AuditConstants
<1>1. RotationInv /\ RotationInv'
  BY RotationStep DEF LogInv
<1>2. /\ file \in [0 .. AUDIT_ARCHIVES -> Seq(Nat)] /\ DOMAIN file = 0 .. AUDIT_ARCHIVES
      /\ index \in 0 .. AUDIT_ARCHIVES /\ written \in Nat /\ faults \in Nat
  BY <1>1 DEF RotationInv, AuditTypeOK
<1>3. PICK last : Chain(last, file, written) /\ Spread(last, faults, Moving)
  BY DEF LogInv
<1>4. last \in Marks /\ last[0] = written
  BY <1>3 DEF Chain
<1>5. ASSUME AuditNext, file' = file, written' = written, at # "rename" \/ faults' = faults + 1
      PROVE  Kept'
  BY <1>1, <1>3, <1>5, ChainKept, Zenon
<1>. SUFFICES Kept'
  BY <1>1, Zenon DEF LogInv
<1>. HIDE DEF Kept
<1>6. CASE audit_log_open
  BY <1>5, <1>6, ZenonT(30) DEF AuditNext, audit_log_open
<1>7. CASE audit_log_event
  BY <1>5, <1>7, ZenonT(30) DEF AuditNext, audit_log_event
<1>8. CASE unlink_oldest
  <2>1. CASE file' = file
    BY <1>5, <1>8, <2>1 DEF AuditNext, unlink_oldest
  <2>2. CASE file' = [file EXCEPT ![index] = <<>>] /\ faults' = faults
    <3>1. /\ index = AUDIT_ARCHIVES /\ written' = written
          /\ Moving = AUDIT_ARCHIVES + 1 /\ Moving' = AUDIT_ARCHIVES
      BY <1>1, <1>8 DEF unlink_oldest, RotationInv, Place, Moving
    <3>2. PICK l : l = [last EXCEPT ![AUDIT_ARCHIVES + 1] = last[AUDIT_ARCHIVES]]
      BY Zenon
    <3>3. Chain(l, file', written')
      BY <1>2, <1>3, <2>2, <3>1, <3>2, ChainDropped, Zenon
    <3>4. Spread(l, faults', Moving')
      <4>1. Moving \in Nat /\ Moving > AUDIT_ARCHIVES
        BY <1>0, <3>1
      <4>. QED
        BY <1>2, <1>3, <1>4, <2>2, <3>1, <3>2, <4>1, SpreadDropped, Zenon
    <3>. QED
      BY <3>3, <3>4, Zenon DEF Kept
  <2>. QED
    BY <1>8, <2>1, <2>2 DEF unlink_oldest
<1>9. CASE rename
  <2>1. CASE Fault /\ at' = "reopen" /\ index' = 0 /\ UNCHANGED file
    BY <1>5, <1>9, <2>1 DEF AuditNext, rename, Fault
  <2>2. CASE /\ file' = Shifted /\ index' = index - 1
             /\ at' = (IF index' = 0 THEN "reopen" ELSE "rename")
             /\ UNCHANGED faults
    <3>1. /\ at = "rename" /\ index \in 1 .. AUDIT_ARCHIVES /\ written' = written
          /\ index = AUDIT_ARCHIVES \/ file[index] = <<>>
          /\ Moving = index /\ Active >= AUDIT_MAX
          /\ Moving' = IF index = 1 THEN AUDIT_ARCHIVES + 1 ELSE index - 1
      <4>1. /\ at = "rename" /\ index \in 1 .. AUDIT_ARCHIVES /\ written' = written
            /\ index = AUDIT_ARCHIVES \/ file[index] = <<>>
            /\ Active >= AUDIT_MAX
        BY <1>1, <1>9 DEF rename, RotationInv, Place, Room
      <4>2. index' = 0 <=> index = 1
        BY <1>0, <2>2, <4>1
      <4>. QED
        BY <2>2, <4>1, <4>2 DEF Moving
    <3>2. Moving' \in Nat /\ (index # 1 => index > 1 /\ Moving' = index - 1 /\ Moving' <= Moving)
      BY <1>0, <3>1
    <3>3. CASE file[index - 1] = <<>>
      <4>1. index # 1
        <5>1. Active # 0
          BY <1>0, <1>2, <3>1 DEF Active
        <5>. QED
          BY <3>1, <3>3, <5>1 DEF Active
      <4>2. file' = file
        BY <1>1, <2>2, <3>1, <3>3, RenamedFiles, Zenon
      <4>3. Spread(last, faults', Moving')
        <5>1. Moving \in Nat
          BY <1>0, <3>1
        <5>. QED
          BY <1>2, <1>3, <1>4, <2>2, <3>2, <4>1, <5>1, SpreadKept, Zenon
      <4>. QED
        BY <1>3, <3>1, <4>2, <4>3, Zenon DEF Kept
    <3>4. CASE file[index - 1] # <<>>
      <4>1. file' = [file EXCEPT ![index] = file[index - 1], ![index - 1] = <<>>]
        BY <1>1, <2>2, <3>1, <3>4, RenamedFiles, Zenon
      <4>2. PICK l : l = [last EXCEPT ![index + 1] = last[index], ![index] = last[index - 1]]
        BY Zenon
      <4>3. Chain(l, file', written')
        BY <1>2, <1>3, <3>1, <4>1, <4>2, ChainMoved, Zenon
      <4>4. index = 1 => last[1] + AUDIT_MAX <= last[0]
        <5>1. file[0] = Run(last[1], last[0]) /\ last[1] <= last[0]
          BY <1>0, <1>3 DEF Chain
        <5>2. last[1] \in Nat /\ last[0] \in Nat
          BY <1>0, <1>4 DEF Marks
        <5>3. Active = last[0] - last[1]
          BY <5>1, <5>2, RunFacts, ZenonT(30) DEF Active
        <5>. QED
          BY <1>0, <3>1, <5>2, <5>3
      <4>5. Spread(l, faults', Moving')
        BY <1>2, <1>3, <1>4, <2>2, <3>1, <3>2, <4>2, <4>4, SpreadMoved, Zenon
      <4>. QED
        BY <4>3, <4>5, Zenon DEF Kept
    <3>. QED
      BY <3>3, <3>4
  <2>. QED
    BY <1>9, <2>1, <2>2 DEF rename
<1>10. CASE reopen
  BY <1>5, <1>10, ZenonT(30) DEF AuditNext, reopen
<1>11. CASE write
  <2>1. CASE file' = file /\ written' = written
    BY <1>5, <1>11, <2>1 DEF AuditNext, write
  <2>2. CASE written' = written + 1 /\ file' = [file EXCEPT ![0] = Append(@, written')]
    <3>1. PICK l : l = [last EXCEPT ![0] = written + 1]
      BY Zenon
    <3>2. Chain(l, file', written')
      BY <1>2, <1>3, <2>2, <3>1, ChainWritten, Zenon
    <3>3. ASSUME NEW k \in 0 .. AUDIT_ARCHIVES PROVE l[k + 1] = last[k + 1]
      BY <1>0, <1>4, <3>1 DEF Marks
    <3>4. Spread(l, faults, Moving)
      <4>1. l[1] = last[1]
        BY <1>0, <3>3
      <4>. QED
        BY <1>3, <3>3, <4>1 DEF Spread
    <3>5. Spread(l, faults', Moving')
      <4>1. Moving = AUDIT_ARCHIVES + 1 /\ Moving' = AUDIT_ARCHIVES + 1
        BY <1>11 DEF write, Moving
      <4>2. faults' \in Nat /\ (faults' = faults \/ faults' = faults + 1)
        BY <1>2, <1>11, FaultsGrow DEF AuditNext
      <4>3. l \in Marks
        BY <3>2 DEF Chain
      <4>4. Moving \in Nat /\ Moving' \in Nat /\ Moving > AUDIT_ARCHIVES
        BY <1>0, <4>1
      <4>. QED
        BY <1>2, <3>4, <4>2, <4>3, <4>4, SpreadKept, Zenon
    <3>. QED
      BY <3>2, <3>5, Zenon DEF Kept
  <2>. QED
    BY <1>11, <2>1, <2>2 DEF write
<1>12. CASE audit_log_close
  BY <1>5, <1>12, ZenonT(30) DEF AuditNext, audit_log_close
<1>13. CASE killed
  BY <1>5, <1>13, Zenon DEF AuditNext, killed, Fault
<1>14. CASE UNCHANGED audit_vars
  BY <1>3, <1>14, Zenon DEF audit_vars, Moving, Kept
<1>. QED
  BY <1>6, <1>7, <1>8, <1>9, <1>10, <1>11, <1>12, <1>13, <1>14, Zenon DEF AuditNext

\* Whatever fails and wherever the server is killed, the files of audit_log.c
\* hold successive runs of the records, the newest in the active file, none
\* is longer than AUDIT_MAX_BYTES by more than a record per fault, and all
\* archives but one per fault are full once a record has been dropped.
THEOREM LogInvariant == AuditSpec => []LogInv
<1>. QED
  BY LogInit, ChainStep, PTL DEF AuditSpec

\* What the marks say of the records kept.
LEMMA RetainedSince ==
    ASSUME LogInv
    PROVE  \E d \in Nat :
              /\ d <= written /\ Retained = Run(d, written) /\ Len(Retained) = written - d
              /\ d > 0 => d + Files(AUDIT_ARCHIVES) <= written + Files(faults)
<1>. DEFINE A == AUDIT_ARCHIVES
<1>0. A \in Nat \ {0} /\ AUDIT_MAX \in Nat /\ A \in 0 .. A
  BY AuditConstants
<1>1. PICK last : Chain(last, file, written) /\ Spread(last, faults, Moving)
  BY DEF LogInv
<1>2. /\ written \in Nat /\ faults \in Nat /\ index \in 0 .. A /\ Room
  BY DEF LogInv, RotationInv, AuditTypeOK
<1>3. /\ last \in Marks /\ last[0] = written
      /\ \A i, j \in 0 .. A + 1 : i <= j => last[j] <= last[i]
      /\ \A i \in 0 .. A : file[i] = Run(last[i + 1], last[i])
  BY <1>1, Zenon DEF Chain
<1>4. last[A + 1] \in Nat /\ last[1] \in Nat
  BY <1>0, <1>3 DEF Marks
<1>5. last[A + 1] <= written /\ last[1] <= written
  BY <1>0, <1>3
<1>6. Retained = Run(last[A + 1], written)
  BY <1>1, ChainRetained, Zenon
<1>7. Len(Retained) = written - last[A + 1]
  BY <1>2, <1>4, <1>5, <1>6, RunFacts, Zenon
<1>8. ASSUME last[A + 1] > 0 PROVE last[A + 1] + Files(A) <= written + Files(faults)
  <2>1. last[A + 1] + Files(A) <= last[1] + Files(faults) + IF A >= Moving THEN AUDIT_MAX ELSE 0
    BY <1>0, <1>1, <1>8, Zenon DEF Spread
  <2>2. Files(A) \in Nat /\ Files(faults) \in Nat
    BY <1>0, <1>2, FilesFacts, Zenon
  <2>3. ASSUME A >= Moving PROVE last[1] + AUDIT_MAX <= written
    <3>1. at = "rename"
      BY <1>0, <2>3 DEF Moving
    <3>2. Active >= AUDIT_MAX
      BY <1>2, <3>1 DEF Room
    <3>3. file[0] = Run(last[1], written)
      BY <1>0, <1>3
    <3>4. Active = written - last[1]
      BY <1>2, <1>4, <1>5, <3>3, RunFacts, Zenon DEF Active
    <3>. QED
      BY <1>0, <1>2, <1>4, <3>2, <3>4
  <2>. QED
    BY <1>0, <1>2, <1>4, <1>5, <2>1, <2>2, <2>3
<1>. QED
  BY <1>4, <1>5, <1>6, <1>7, <1>8, Zenon

\* Whatever calls fail and wherever the server is killed, the archives and
\* the active file of audit_log.c hold the newest records in order, without
\* a gap or a repetition, for every size and number of files.
THEOREM SuffixKeptHolds == AuditSpec => []SuffixKept
<1>1. LogInv => SuffixKept
  <2>. SUFFICES ASSUME LogInv PROVE SuffixKept
    OBVIOUS
  <2>1. PICK d \in Nat : /\ d <= written /\ Retained = Run(d, written)
                         /\ Len(Retained) = written - d
    BY RetainedSince, Zenon
  <2>2. written \in Nat
    BY DEF LogInv, RotationInv, AuditTypeOK
  <2>. DEFINE r == Len(Retained)
  <2>3. r \in Nat /\ r = written - d
    BY <2>1, <2>2
  <2>. HIDE DEF r
  <2>4. [i \in 1 .. r |-> written - r + i] = [k \in 1 .. written - d |-> d + k]
    BY <2>2, <2>3
  <2>. QED
    BY <2>1, <2>4, Zenon DEF SuffixKept, Run, r
<1>. QED
  BY <1>1, LogInvariant, PTL

\* A fault costs at most one archive and one record beyond the limit of a
\* file, for every AUDIT_MAX_BYTES and AUDIT_ARCHIVES and any sequence of
\* failed calls and kills in audit_log.c.
THEOREM FaultsCostLittleHolds == AuditSpec => []FaultsCostLittle
<1>1. LogInv => FaultsCostLittle
  <2>. SUFFICES ASSUME LogInv PROVE FaultsCostLittle
    OBVIOUS
  <2>. DEFINE A == AUDIT_ARCHIVES
  <2>0. A \in Nat /\ AUDIT_MAX \in Nat
    BY AuditConstants
  <2>1. PICK d \in Nat : /\ d <= written /\ Len(Retained) = written - d
                         /\ d > 0 => d + Files(A) <= written + Files(faults)
    BY RetainedSince, Zenon
  <2>2. /\ written \in Nat /\ faults \in Nat /\ DOMAIN file = 0 .. A
        /\ Lengths(file, faults)
    BY DEF LogInv, RotationInv, AuditTypeOK
  <2>3. CASE d = 0
    <3>1. Len(Retained) = written
      BY <2>1, <2>2, <2>3
    <3>2. (A - Least(faults, A)) * AUDIT_MAX \in Int
      BY <2>0, <2>2 DEF Least
    <3>3. Len(Retained) >= Least(written, (A - Least(faults, A)) * AUDIT_MAX)
      BY <2>2, <3>1, <3>2 DEF Least
    <3>. QED
      BY <2>2, <3>3 DEF FaultsCostLittle, Lengths
  <2>4. CASE d > 0
    <3>1. Files(A) \in Nat /\ Files(faults) \in Nat
      BY <2>0, <2>2, FilesFacts, Zenon
    <3>2. (A - Least(faults, A)) * AUDIT_MAX <= written - d
      <4>1. CASE faults < A
        <5>1. (A - faults) * AUDIT_MAX = Files(A) - Files(faults)
          BY <2>0, <2>2 DEF Files
        <5>2. Files(A) - Files(faults) <= written - d
          BY <2>1, <2>2, <2>4, <3>1
        <5>. QED
          BY <4>1, <5>1, <5>2 DEF Least
      <4>2. CASE ~(faults < A)
        <5>1. (A - A) * AUDIT_MAX = 0
          BY <2>0
        <5>. QED
          BY <2>1, <2>2, <4>2, <5>1 DEF Least
      <4>. QED
        BY <4>1, <4>2
    <3>3. (A - Least(faults, A)) * AUDIT_MAX \in Int
      BY <2>0, <2>2 DEF Least
    <3>4. Len(Retained) >= Least(written, (A - Least(faults, A)) * AUDIT_MAX)
      <4>. DEFINE x == (A - Least(faults, A)) * AUDIT_MAX
      <4>1. x \in Int /\ x <= written - d
        BY <3>2, <3>3
      <4>. HIDE DEF x
      <4>2. Len(Retained) >= Least(written, x)
        BY <2>1, <2>2, <4>1 DEF Least
      <4>. QED
        BY <4>2 DEF x
    <3>. QED
      BY <2>2, <3>4 DEF FaultsCostLittle, Lengths
  <2>. QED
    BY <2>1, <2>3, <2>4
<1>. QED
  BY <1>1, LogInvariant, PTL
=============================================================================
