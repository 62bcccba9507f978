---------------------------- MODULE TerminalText ----------------------------
(***************************************************************************)
(* The text filters of src/src/terminal_text.c, and the display of the     *)
(* development client, src/tools/secure_client.c, which takes the same     *)
(* text a byte at a time.  A byte is a number in 0 .. 255, a text a        *)
(* sequence of bytes; `size` is the output buffer, terminating NUL         *)
(* included.  The reference is RFC 3629: a character is what Encode makes  *)
(* of a scalar value.                                                      *)
(***************************************************************************)
EXTENDS Integers, SequencesExt

CONSTANTS
    Texts,      \* the byte sequences to be filtered
    Sizes       \* the output buffers

ASSUME TextAssumption == (\A t \in Texts : t \in Seq(0 .. 255)) /\ Sizes \subseteq Nat

replacement == 63
CR == 13
LF == 10
TAB == 9

-----------------------------------------------------------------------------
(* terminal_text.c                                                         *)

Continuation(byte) == byte \in 128 .. 191

\* (mutant) overlong three-byte forms and surrogates are taken
decode_utf8_lax(s) ==
    LET Continued(n) == Len(s) >= n /\ \A i \in 2 .. n : Continuation(s[i])
        low(i) == s[i] % 64
    IN  CASE s[1] \in 0 .. 127 -> [consumed |-> 1, codepoint |-> s[1]]
          [] s[1] \in 194 .. 223 /\ Continued(2) ->
                [consumed |-> 2, codepoint |-> (s[1] % 32) * 64 + low(2)]
          [] s[1] \in 224 .. 239 /\ Continued(3) ->
                [consumed |-> 3, codepoint |-> (s[1] % 16) * 4096 + low(2) * 64 + low(3)]
          [] OTHER -> [consumed |-> 0, codepoint |-> 0]

\* The first character of s; nothing is consumed when there is none.
decode_utf8(s) ==
    LET Continued(n) == Len(s) >= n /\ \A i \in 2 .. n : Continuation(s[i])
        low(i) == s[i] % 64
    IN  CASE s[1] \in 0 .. 127 -> [consumed |-> 1, codepoint |-> s[1]]
          [] s[1] \in 194 .. 223 /\ Continued(2) ->
                [consumed |-> 2, codepoint |-> (s[1] % 32) * 64 + low(2)]
          [] /\ s[1] \in 224 .. 239 /\ Continued(3)
             /\ ~(s[1] = 224 /\ s[2] < 160) /\ ~(s[1] = 237 /\ s[2] >= 160) ->
                [consumed |-> 3, codepoint |-> (s[1] % 16) * 4096 + low(2) * 64 + low(3)]
          [] /\ s[1] \in 240 .. 244 /\ Continued(4)
             /\ ~(s[1] = 240 /\ s[2] < 144) /\ ~(s[1] = 244 /\ s[2] > 143) ->
                [consumed |-> 4,
                 codepoint |-> (s[1] % 8) * 262144 + low(2) * 4096 + low(3) * 64 + low(4)]
          [] OTHER -> [consumed |-> 0, codepoint |-> 0]

\* Layout and bidi controls are U+2028 .. U+202E and U+2066 .. U+2069.
codepoint_safe(codepoint) ==
    \/ codepoint \in {CR, LF, TAB}
    \/ /\ codepoint >= 32 /\ codepoint \notin 127 .. 159
       /\ codepoint \notin {8232, 8233}
       /\ codepoint \notin 8234 .. 8238 \cup 8294 .. 8297

PrintableAscii(byte) == byte \in 32 .. 126 \cup {CR, LF, TAB}

terminal_text_sanitize(s, size) ==
    [i \in 1 .. (IF Len(s) < size THEN Len(s) ELSE size - 1) |->
        IF PrintableAscii(s[i]) THEN s[i] ELSE replacement]

RECURSIVE terminal_text_utf8_valid(_)
terminal_text_utf8_valid(s) ==
    s = <<>> \/ LET n == decode_utf8(s).consumed
                IN  n > 0 /\ terminal_text_utf8_valid(SubSeq(s, n + 1, Len(s)))

\* The loop, with the output written so far.
RECURSIVE Sanitize(_, _, _)
Sanitize(s, output, size) ==
    IF s = <<>> \/ Len(output) + 1 >= size THEN output ELSE
    LET first == decode_utf8(s)
        n == first.consumed
        rest == SubSeq(s, n + 1, Len(s))
    IN  CASE n = 0 -> Sanitize(Tail(s), Append(output, replacement), size)
          [] n > 0 /\ ~codepoint_safe(first.codepoint) ->
                Sanitize(rest, Append(output, replacement), size)
          [] n > 0 /\ codepoint_safe(first.codepoint) /\ Len(output) + n >= size -> output
          [] OTHER -> Sanitize(rest, output \o SubSeq(s, 1, n), size)

terminal_text_sanitize_utf8(s, size) == Sanitize(s, <<>>, size)

-----------------------------------------------------------------------------
(* The client's display: the bytes of an unfinished character, how many it *)
(* takes, and what is on the screen.                                       *)

Blank == [utf8_pending |-> <<>>, utf8_expected |-> 0, screen |-> <<>>]

Shows(d, text) == [utf8_pending |-> <<>>, utf8_expected |-> 0, screen |-> d.screen \o text]

\* safe[16] has room for every character.
Collected(pending) ==
    IF terminal_text_utf8_valid(pending) THEN terminal_text_sanitize_utf8(pending, 16)
                                         ELSE <<replacement>>

write_display_ascii(d, byte) == IF PrintableAscii(byte) THEN Shows(d, <<byte>>) ELSE d

\* A byte that begins a character, or is one.
Begins(d, byte, utf8_enabled) ==
    LET Expects(n) == [d EXCEPT !.utf8_pending = <<byte>>, !.utf8_expected = n]
    IN  CASE byte < 128 -> write_display_ascii(d, byte)
          [] utf8_enabled /\ byte \in 194 .. 223 -> Expects(2)
          [] utf8_enabled /\ byte \in 224 .. 239 -> Expects(3)
          [] utf8_enabled /\ byte \in 240 .. 244 -> Expects(4)
          [] OTHER -> Shows(d, <<replacement>>)

write_display_byte(d, byte, utf8_enabled) ==
    LET pending == Append(d.utf8_pending, byte) IN
    CASE d.utf8_pending = <<>> -> Begins(d, byte, utf8_enabled)
      [] d.utf8_pending # <<>> /\ ~Continuation(byte) ->
            Begins(Shows(d, <<replacement>>), byte, utf8_enabled)
      [] d.utf8_pending # <<>> /\ Continuation(byte) /\ Len(pending) = d.utf8_expected ->
            Shows(d, Collected(pending))
      [] OTHER -> [d EXCEPT !.utf8_pending = pending]

\* What is on the screen after s, with UTF-8 agreed upon after `before` bytes.
Displayed(s, before) ==
    FoldLeftDomain(LAMBDA d, i : write_display_byte(d, s[i], i > before), Blank, s).screen

-----------------------------------------------------------------------------
(* The reference.                                                          *)

Scalar(c) == c \in 0 .. 1114111 /\ c \notin 55296 .. 57343

\* The shortest form that holds c.
Encode(c) ==
    LET low(shift) == 128 + ((c \div shift) % 64) IN
    CASE c < 128 -> <<c>>
      [] c \in 128 .. 2047 -> <<192 + (c \div 64), low(1)>>
      [] c \in 2048 .. 65535 -> <<224 + (c \div 4096), low(64), low(1)>>
      [] OTHER -> <<240 + (c \div 262144), low(4096), low(64), low(1)>>

\* The number that n bytes spell, the length marks of the bytes left out.
Spelt(s) ==
    CASE Len(s) = 1 -> s[1]
      [] Len(s) = 2 -> (s[1] % 32) * 64 + (s[2] % 64)
      [] Len(s) = 3 -> (s[1] % 16) * 4096 + (s[2] % 64) * 64 + (s[3] % 64)
      [] OTHER -> (s[1] % 8) * 262144 + (s[2] % 64) * 4096 + (s[3] % 64) * 64 + (s[4] % 64)

Character(s) == Scalar(Spelt(s)) /\ s = Encode(Spelt(s))

\* What must not reach a terminal: controls other than CR, LF and TAB, and the
\* separators and bidi controls of U+2028 .. U+202E and U+2066 .. U+2069.
Harmless(c) ==
    c \notin (0 .. 31 \ {CR, LF, TAB}) \cup 127 .. 159 \cup 8232 .. 8238 \cup 8294 .. 8297

RECURSIVE TextOf(_, _)
TextOf(s, harmless) ==
    s = <<>> \/ \E n \in 1 .. (IF Len(s) < 4 THEN Len(s) ELSE 4) :
        LET c == SubSeq(s, 1, n)
        IN  /\ Character(c) /\ (harmless => Harmless(Spelt(c)))
            /\ TextOf(SubSeq(s, n + 1, Len(s)), harmless)

\* The NUL fits too, if there is a buffer at all.
Fits(s, size) == Len(s) < size \/ (size = 0 /\ s = <<>>)

IsText(s) == TextOf(s, FALSE)
IsHarmless(s) == TextOf(s, TRUE)

-----------------------------------------------------------------------------
\* terminal_text_utf8_valid accepts exactly the RFC 3629 texts.  Whatever comes
\* in, what the sanitizers put out is harmless text that leaves room for the
\* NUL and never ends inside a character; harmless text that fits is left
\* alone, and a smaller buffer only cuts the end off.
SanitizeRight ==
    \A s \in Texts :
        /\ terminal_text_utf8_valid(s) <=> IsText(s)
        /\ \A size \in Sizes :
            LET output == terminal_text_sanitize_utf8(s, size)
                ascii == terminal_text_sanitize(s, size)
            IN  /\ IsHarmless(output) /\ Fits(output, size)
                /\ IsHarmless(ascii) /\ Fits(ascii, size)
                /\ IsHarmless(s) /\ Len(s) < size => output = s
                /\ IsPrefix(output, terminal_text_sanitize_utf8(s, Len(s) + 1))

\* However the server's text is cut into reads, and whenever UTF-8 is agreed
\* upon, only harmless text is on the client's screen; of a text with UTF-8 on
\* it shows what terminal_text_sanitize_utf8 makes of it, less the control
\* bytes, of which it shows nothing.
DisplayRight ==
    \A s \in Texts :
        /\ \A before \in 0 .. Len(s) : IsHarmless(Displayed(s, before))
        /\ IsText(s) =>
            Displayed(s, 0) =
                terminal_text_sanitize_utf8(
                    SelectSeq(s, LAMBDA byte : byte >= 128 \/ PrintableAscii(byte)), Len(s) + 1)
=============================================================================
