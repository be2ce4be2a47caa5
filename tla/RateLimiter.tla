----------------------------- MODULE RateLimiter -----------------------------
(***************************************************************************)
(* The limiter of outgoing messages (src/middleware/ratelimit.go): callers *)
(* of Wait reserve a slot each, in turn under the mutex, and sleep until   *)
(* their slot or until their context is cancelled.                         *)
(*                                                                         *)
(* Time is counted in ticks.  The bucket is kept in units of which one     *)
(* flows in per tick, so that a message costs Period of them: the code's   *)
(* floating-point arithmetic without its rounding.  Timers fire on time.   *)
(*                                                                         *)
(* SendPipeline extends this module and runs the limiter for TLC.          *)
(***************************************************************************)
EXTENDS Integers, Sequences

CONSTANTS Senders,    \* goroutines that send messages
          Period,     \* ticks per message: the inverse of MessagesPerSecond
          Burst,      \* RateLimitConfig.Burst
          Idle,       \* not in Wait
          MaxTime,    \* bound: ticks
          MaxSlots    \* bound: slots reserved

ASSUME LimiterAssumption ==
    /\ Period \in Nat \ {0}
    /\ Burst \in Nat \ {0}
    /\ Idle \notin Nat
    /\ MaxTime \in Nat
    /\ MaxSlots \in Nat

VARIABLES
    now,     \* the clock
    tokens,  \* rateLimiter.tokens
    last,    \* rateLimiter.last: the bucket was at tokens at this time
    slot,    \* [Senders -> the slot a sender waits for, or Idle]
    slots,   \* history: the slots that were reserved, in order
    old      \* history: how many of them at limiters Client.Use has replaced

bucketVars == <<tokens, last>>
limiterVars == <<now, bucketVars, slot, slots, old>>

Capacity == Burst * Period

LimiterInit ==
    /\ now = 0
    /\ tokens = Capacity
    /\ last = 0
    /\ slot = [s \in Senders |-> Idle]
    /\ slots = <<>>
    /\ old = 0

-----------------------------------------------------------------------------
(* reserve                                                                 *)

Least(x, y) == IF x <= y THEN x ELSE y

\* The bucket at the time of the call.
Filled == IF now > last THEN Least(tokens + (now - last), Capacity) ELSE tokens

FilledAt == IF now > last THEN now ELSE last

\* The time the missing tokens take, and a queue that forgets who is in it.
ReadyForgetting == now + (Period - Filled)
Ready == FilledAt + (Period - Filled)

\* A token is left: s may send at once.
TakeToken(s) ==
    /\ Filled >= Period
    /\ tokens' = Filled - Period
    /\ last' = FilledAt
    /\ slot' = [slot EXCEPT ![s] = now]

\* None is left: s reserves the next slot and the clock of the bucket moves on.
TakeSlot(s) ==
    /\ Filled < Period
    /\ tokens' = 0
    /\ last' = Ready
    /\ slot' = [slot EXCEPT ![s] = Ready]

ReserveSlot(s) ==
    /\ slot[s] = Idle
    /\ Len(slots) < MaxSlots
    /\ TakeToken(s) \/ TakeSlot(s)
    /\ slots' = Append(slots, slot'[s])
    /\ UNCHANGED <<now, old>>

\* The slot of s has come: Wait returns nil and s sends.
UseSlot(s) ==
    /\ slot[s] # Idle
    /\ slot[s] <= now
    /\ slot' = [slot EXCEPT ![s] = Idle]
    /\ UNCHANGED <<now, bucketVars, slots, old>>

\* The context of s is cancelled; its slot stays reserved.
GiveUp(s) ==
    /\ slot[s] # Idle
    /\ slot[s] > now
    /\ slot' = [slot EXCEPT ![s] = Idle]
    /\ UNCHANGED <<now, bucketVars, slots, old>>

\* Client.Use builds the middleware again, and with it a limiter with a full
\* bucket; who waits for a slot of the old one goes on waiting.
Rebuild ==
    /\ tokens' = Capacity
    /\ last' = now
    /\ old' = Len(slots)
    /\ UNCHANGED <<now, slot, slots>>

\* Time passes, but not past a slot somebody waits for.
LimiterTick ==
    /\ now < MaxTime
    /\ \A s \in Senders : slot[s] # Idle => slot[s] > now
    /\ now' = now + 1
    /\ UNCHANGED <<bucketVars, slot, slots, old>>

LimiterNext ==
    \/ \E s \in Senders : ReserveSlot(s) \/ UseSlot(s) \/ GiveUp(s)
    \/ Rebuild
    \/ LimiterTick

LimiterSpec == LimiterInit /\ [][LimiterNext]_limiterVars

-----------------------------------------------------------------------------
(* Properties                                                              *)

LimiterTypeOK ==
    /\ now \in Nat
    /\ tokens \in 0..Capacity
    /\ last \in Nat
    /\ slot \in [Senders -> Nat \cup {Idle}]
    /\ slots \in Seq(Nat)
    /\ old \in 0..Len(slots)

\* Slots i and j, the ones beyond the burst costing a period each.
Apart(i, j) == slots[j] - slots[i] >= (j - i + 1 - Burst) * Period

\* A limiter keeps its rate: in no window do its slots exceed what
\* MessagesPerSecond and Burst allow, whoever gives up in between.
LimiterKeepsRate ==
    \A i, j \in (old + 1)..Len(slots) : i < j => Apart(i, j)

\* The rate holds for the messages of the client, and not only for those of
\* one limiter (ratelimit.go:13: "Maximum sends per second").  Rebuild breaks it:
\* Client.Use gives a program that sends meanwhile a fresh burst.
RateIsKept == \A i, j \in 1..Len(slots) : i < j => Apart(i, j)
=============================================================================
