----------------------------- MODULE RateWindow -----------------------------
(***************************************************************************)
(* The fixed windows of src/src/telnet_protocol.c that limit bytes, lines  *)
(* and commands.  A session makes a sequence of calls, records of an       *)
(* amount and a clock reading, until one is refused, which closes it; a    *)
(* reading of 0 says that the clock could not be read.                     *)
(***************************************************************************)
EXTENDS Integers, SequencesExt, FiniteSetsExt

CONSTANTS
    limit, window_ms,
    Calls       \* the sequences of calls a session may make

ASSUME RateAssumption == limit \in Nat /\ window_ms \in Nat \ {0}

Unused == [started_ms |-> 0, used |-> 0]

\* The window that is in force at a reading.
Current(window, now_ms) ==
    IF \/ window.started_ms = 0 \/ now_ms < window.started_ms
       \/ now_ms - window.started_ms >= window_ms
    THEN [started_ms |-> now_ms, used |-> 0]
    ELSE window

Admits(window, amount) == amount <= limit /\ window.used <= limit - amount

\* (mutant) a new window keeps what was used of the old one
rate_consume_keeps(window, amount, now_ms) ==
    LET current == [Current(window, now_ms) EXCEPT !.used = window.used]
    IN  IF Admits(current, amount)
        THEN [admitted |-> TRUE, window |-> [current EXCEPT !.used = @ + amount]]
        ELSE [admitted |-> FALSE, window |-> current]

rate_consume(window, amount, now_ms) ==
    LET current == Current(window, now_ms)
    IN  IF Admits(current, amount)
        THEN [admitted |-> TRUE, window |-> [current EXCEPT !.used = @ + amount]]
        ELSE [admitted |-> FALSE, window |-> current]

\* What a sequence of calls leads to.
Consume(calls) ==
    FoldLeft(LAMBDA r, c : IF r.admitted THEN rate_consume(r.window, c.amount, c.now_ms) ELSE r,
             [admitted |-> TRUE, window |-> Unused], calls)

\* What is asked for by the calls of a set.
Total(calls, S) == MapThenSumSet(LAMBDA i : calls[i].amount, S)

\* The calls i .. j made within one window's time.
Within(calls, i, j) == calls[j].now_ms - calls[i].now_ms < window_ms

\* While the clock can be read, every stretch of window_ms lets through less
\* than twice the limit, even where one window meets the next; and a client that
\* never asks for more than the limit within window_ms is never refused, also
\* when a reading fails.
RatesBounded ==
    \A calls \in Calls :
        LET Most(n) == \A i, j \in DOMAIN calls :
                i <= j /\ Within(calls, i, j) => Total(calls, i .. j) <= n
        IN  /\ Consume(calls).admitted /\ (\A i \in DOMAIN calls : calls[i].now_ms > 0) =>
                   Most(2 * limit - 1)
            /\ Most(limit) => Consume(calls).admitted
=============================================================================
