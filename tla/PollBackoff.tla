----------------------------- MODULE PollBackoff -----------------------------
(***************************************************************************)
(* How long Run waits after a failed poll: calculatePollErrorBackoff       *)
(* (src/poll_backoff.go) and the counter of consecutive failures in Run    *)
(* (src/client.go).  The same formula paces the retries of a send          *)
(* (calculateBackoff in src/middleware/retry.go).                          *)
(*                                                                         *)
(* A time.Duration is a signed integer of Width bits, 64 in the code: the  *)
(* product and the shift wrap around.                                      *)
(***************************************************************************)
EXTENDS Integers

CONSTANTS Width,        \* bits of a time.Duration
          BackoffMin,   \* Config.PollErrorBackoffMin
          BackoffMax,   \* Config.PollErrorBackoffMax
          MaxErrors     \* bound: failures in a row

\* Config.Validate makes both limits positive and BackoffMax the greater one.

-----------------------------------------------------------------------------
(* Durations                                                               *)

\* The integer of Width bits that x becomes.
Wrap(x) == ((x + 2^(Width - 1)) % 2^Width) - 2^(Width - 1)

\* 1 << n
Shift(n) == IF n < Width THEN Wrap(2^n) ELSE 0

\* The wait before the jitter, after n failures in a row.
Base(n) ==
    LET wait == Wrap(BackoffMin * Shift(n - 1))
    IN IF wait > BackoffMax THEN BackoffMax ELSE wait

\* wait plus a random part of at most a tenth of it either way.
Jittered(wait) == (wait - wait \div 10) .. (wait + wait \div 10)

\* calculatePollErrorBackoff: the waits it may choose after n failures.
Waits(n) == IF Base(n) <= 0 THEN {0} ELSE Jittered(Base(n))

-----------------------------------------------------------------------------
VARIABLES errors,   \* consecutivePollErrors
          wait,     \* the wait that followed the last poll
          failed    \* history: the polls that failed since the last success

vars == <<errors, wait, failed>>

Init ==
    /\ errors = 0
    /\ wait = 0
    /\ failed = 0

\* A failed poll is counted and Run waits.
PollFails ==
    /\ failed < MaxErrors
    /\ failed' = failed + 1
    /\ errors' = errors + 1
    /\ wait' \in Waits(errors')

\* A poll is answered.
PollAnswered ==
    /\ failed' = 0
    /\ errors' = 0
    /\ wait' = 0

Next == PollFails \/ PollAnswered

Spec == Init /\ [][Next]_vars

-----------------------------------------------------------------------------
(* Properties                                                              *)

\* The backoff that is meant: BackoffMin doubled by every failure after the
\* first, and BackoffMax from there on.
Ideal(n) ==
    LET Doubled[i \in Nat] == IF i <= 1 THEN BackoffMin ELSE 2 * Doubled[i - 1]
        steps == {i \in 1..n : Doubled[i] >= BackoffMax}
    IN IF steps = {} THEN Doubled[n] ELSE BackoffMax

\* The wait is the ideal one after the failures since the last answer, up to
\* a tenth either way.
WaitIsIdeal ==
    failed > 0 =>
        /\ 10 * wait >= 9 * Ideal(failed)
        /\ 10 * wait <= 11 * Ideal(failed)

\* Until the limit every failure in a row waits longer than the one before,
\* whatever the jitter.
WaitsGrow ==
    [][failed' > failed /\ failed > 0 /\ Ideal(failed') < BackoffMax => wait' > wait]_vars

\* A failed poll is not repeated at once: the least wait is what the first
\* failure waits (options.go:75: "exponential backoff after long-poll failures").
NeverHot == failed > 0 => 10 * wait >= 9 * BackoffMin
=============================================================================
