-------------------------- MODULE SendPipelineProofs --------------------------
(***************************************************************************)
(* Proofs about RateLimiter and about SendPipeline, which extends it, for  *)
(* every rate, burst, configuration and number of senders.                 *)
(*                                                                         *)
(* That a limiter keeps its rate is not inductive: it says nothing of the  *)
(* tokens left.  The strengthening bounds them: whatever was reserved from *)
(* slot i on has been taken from a bucket that was full at best at slot i, *)
(* and has only been filled by the time since.                             *)
(*                                                                         *)
(* The pipeline is built on the limiter, so its slots keep the rate.  That *)
(* its requests do takes the shape of the chain, in which the limiter is   *)
(* the innermost middleware: every request on the wire, and every sender   *)
(* that waits for a slot or is about to post, has a slot of its own.       *)
(***************************************************************************)
EXTENDS SendPipeline, FiniteSetTheorems, FunctionTheorems, WellFoundedInduction, TLAPS

\* The tokens that may be left at time t after the n slots up to slot i's end.
Allowance(n, since) == (Burst - n) * Period + since

\* The slots of the current limiter.
Current == (old + 1)..Len(slots)

\* No more tokens are left than the slots since slot i allow.
Spent ==
    \A i \in Current :
       /\ slots[i] <= last
       /\ tokens <= Allowance(Len(slots) - i + 1, last - slots[i])

\* While the clock of the bucket is ahead the bucket is empty.
AheadIsEmpty == last > now => tokens = 0

RateInv == LimiterTypeOK /\ LimiterKeepsRate /\ Spent /\ AheadIsEmpty

-----------------------------------------------------------------------------
(* The arithmetic of one reservation                                       *)

\* The filled bucket allows no more than the old one and the time since.
LEMMA FilledFacts ==
    ASSUME RateInv
    PROVE  /\ Filled \in 0..Capacity
           /\ FilledAt \in Nat /\ FilledAt >= last /\ FilledAt >= now
           /\ FilledAt > now => Filled = 0
           /\ Filled <= tokens + (FilledAt - last)
<1> USE LimiterAssumption DEF RateInv, LimiterTypeOK
<1>1. Capacity \in Nat
  BY DEF Capacity
<1> QED
  BY <1>1 DEF Filled, FilledAt, Least, AheadIsEmpty

\* A slot costs a period of the allowance.
LEMMA OneMore ==
    ASSUME NEW n \in Int, NEW since \in Int
    PROVE  /\ Allowance(n, since) \in Int
           /\ Allowance(n + 1, since) = Allowance(n, since) - Period
  BY LimiterAssumption DEF Allowance

\* Two slots are apart when the allowance between them has not run out.
LEMMA ApartIsAllowed ==
    ASSUME NEW n \in Int, NEW since \in Int
    PROVE  since >= (n - Burst) * Period <=> Allowance(n, since) >= 0
  BY LimiterAssumption DEF Allowance

\* What every reservation does: the slot t is taken at time base at the
\* earliest, and left tokens remain.
Reserved(t, base, left) ==
    /\ t \in Nat /\ t >= base
    /\ slots' = Append(slots, t)
    /\ tokens' = left /\ last' = t
    /\ left = Filled - Period + (t - base)
    /\ left \in Nat

LEMMA ReserveIsReserved ==
    ASSUME RateInv, NEW s \in Senders, ReserveSlot(s)
    PROVE  /\ last' \in Nat
           /\ Reserved(last', FilledAt, tokens')
           /\ tokens' \in 0..Capacity
           /\ last' > now => tokens' = 0
           /\ UNCHANGED <<now, old>>
<1> USE LimiterAssumption DEF RateInv, LimiterTypeOK
<1>1. Capacity \in Nat
  BY DEF Capacity
<1>2. CASE TakeToken(s)
  <2>1. FilledAt = now
    BY <1>2, FilledFacts DEF TakeToken
  <2>2. slot'[s] = now
    BY <1>2 DEF TakeToken
  <2>3. /\ slots' = Append(slots, now) /\ UNCHANGED <<now, old>>
        /\ last' = now /\ tokens' = Filled - Period /\ Filled >= Period
    BY <1>2, <2>1, <2>2 DEF TakeToken, ReserveSlot
  <2>4. Filled \in 0..Capacity /\ now \in Nat /\ Period \in Nat \ {0}
    BY FilledFacts
  <2>5. tokens' \in 0..Capacity /\ tokens' = Filled - Period + (now - now)
    BY <1>1, <2>3, <2>4
  <2>6. Reserved(now, now, tokens')
    BY <2>3, <2>4, <2>5 DEF Reserved
  <2> QED
    BY <2>1, <2>3, <2>4, <2>5, <2>6
<1>3. CASE TakeSlot(s)
  <2>1. slot'[s] = Ready /\ last' = Ready /\ tokens' = 0 /\ Filled < Period
    BY <1>3 DEF TakeSlot
  <2>2. FilledAt \in Nat /\ Filled \in Int
    BY <1>1, FilledFacts
  <2>3. Ready \in Nat /\ Ready >= FilledAt /\ Ready - FilledAt = Period - Filled
    BY <2>1, <2>2 DEF Ready
  <2>4. Reserved(Ready, FilledAt, 0)
    BY <2>1, <2>2, <2>3 DEF ReserveSlot, Reserved
  <2> QED
    BY <1>1, <2>1, <2>3, <2>4 DEF ReserveSlot
<1> QED
  BY <1>2, <1>3 DEF ReserveSlot

\* The invariant after a reservation.
LEMMA ReserveKeeps ==
    ASSUME RateInv, NEW s \in Senders, ReserveSlot(s)
    PROVE  LimiterKeepsRate' /\ Spent' /\ AheadIsEmpty'
<1> USE LimiterAssumption
<1> DEFINE n == Len(slots)
<1>1. /\ n \in Nat /\ slots \in Seq(Nat) /\ old \in 0..n /\ now \in Nat /\ last \in Nat
      /\ tokens \in Int /\ Period \in Nat \ {0} /\ Burst \in Nat \ {0}
  BY DEF RateInv, LimiterTypeOK
<1>2. PICK t \in Nat : t = last' /\ Reserved(t, FilledAt, tokens')
  BY ReserveIsReserved
<1>3. /\ Len(slots') = n + 1 /\ slots'[n + 1] = t
      /\ \A i \in 1..n : slots'[i] = slots[i]
      /\ old' = old /\ now' = now
  BY <1>1, <1>2, ReserveIsReserved DEF Reserved
<1>4. t >= FilledAt /\ FilledAt >= last /\ FilledAt >= now /\ FilledAt \in Nat /\ Filled \in Int
  BY <1>2, FilledFacts DEF Reserved
\* An old slot against the new one.
<1>5. ASSUME NEW i \in (old + 1)..n
      PROVE  /\ slots[i] \in Nat /\ slots[i] <= t
             /\ tokens' <= Allowance(n + 1 - i + 1, t - slots[i])
             /\ t - slots[i] >= (n + 1 - i + 1 - Burst) * Period
  <2>1. slots[i] \in Nat /\ slots[i] <= last
    BY <1>1 DEF RateInv, Spent, Current
  <2>0. /\ n - i + 1 \in Int /\ n - i + 2 \in Int /\ n - i + 2 = (n - i + 1) + 1
        /\ last - slots[i] \in Int /\ FilledAt - slots[i] \in Int /\ t - slots[i] \in Int
    <3>1. n \in Int /\ i \in Int /\ last \in Int /\ FilledAt \in Int /\ t \in Int /\ slots[i] \in Int
      BY <1>1, <1>4, <2>1
    <3> QED
      BY <3>1
  <2>2. tokens <= Allowance(n - i + 1, last - slots[i])
    BY DEF RateInv, Spent, Current
  <2>3. Filled <= Allowance(n - i + 1, FilledAt - slots[i])
    <3>1. Allowance(n - i + 1, FilledAt - slots[i])
            = Allowance(n - i + 1, last - slots[i]) + (FilledAt - last)
      BY <1>1, <1>4, <2>1 DEF Allowance
    <3>2. Filled <= tokens + (FilledAt - last)
      BY FilledFacts
    <3>3. Allowance(n - i + 1, last - slots[i]) \in Int
      BY <2>0, OneMore
    <3> QED
      BY <1>1, <1>4, <2>2, <3>1, <3>2, <3>3
  <2>4. tokens' <= Allowance(n - i + 1, t - slots[i]) - Period
    <3>1. Allowance(n - i + 1, t - slots[i])
            = Allowance(n - i + 1, FilledAt - slots[i]) + (t - FilledAt)
      BY <1>1, <1>4, <2>1 DEF Allowance
    <3>2. Allowance(n - i + 1, FilledAt - slots[i]) \in Int
      BY <2>0, OneMore
    <3>3. tokens' = Filled + (t - FilledAt) - Period
      <4>1. tokens' = Filled - Period + (t - FilledAt)
        BY <1>2 DEF Reserved
      <4> QED
        BY <1>1, <1>4, <4>1
    <3> QED
      BY <1>4, <2>3, <3>1, <3>2, <3>3, SMTT(30)
  <2>5. tokens' <= Allowance(n - i + 2, t - slots[i])
    <3>1. Allowance(n - i + 2, t - slots[i]) = Allowance(n - i + 1, t - slots[i]) - Period
      BY <2>0, OneMore
    <3> QED
      BY <2>4, <3>1
  <2>6. 0 <= Allowance(n - i + 2, t - slots[i])
    <3>1. tokens' \in Nat
      BY <1>2 DEF Reserved
    <3>2. Allowance(n - i + 2, t - slots[i]) \in Int
      BY <2>0, OneMore
    <3> QED
      BY <2>5, <3>1, <3>2
  <2>7. t - slots[i] >= (n - i + 2 - Burst) * Period
    BY <2>0, <2>6, ApartIsAllowed
  <2>8. n + 1 - i + 1 = n - i + 2
    BY <1>1
  <2>9. slots[i] <= t
    BY <1>1, <1>4, <2>1
  <2> QED
    BY <2>1, <2>5, <2>7, <2>8, <2>9
\* The new slot against itself.
<1>6. tokens' <= Allowance(1, 0)
  <2>1. tokens' \in 0..Capacity /\ Filled \in 0..Capacity /\ Capacity = Burst * Period
    BY ReserveIsReserved, FilledFacts DEF Capacity
  <2>2. Allowance(1, 0) = Burst * Period - Period
    BY <1>1 DEF Allowance
  <2>3. t > now => tokens' = 0
    BY <1>2, ReserveIsReserved
  <2>4. t <= now => tokens' = Filled - Period
    <3>1. tokens' = Filled - Period + (t - FilledAt)
      BY <1>2 DEF Reserved
    <3>2. t <= now => t - FilledAt = 0
      BY <1>1, <1>4
    <3> QED
      BY <1>1, <1>4, <3>1, <3>2
  <2>5. Burst * Period \in Nat /\ Burst * Period >= Period
    BY <1>1
  <2> QED
    BY <1>1, <2>1, <2>2, <2>3, <2>4, <2>5
<1>7. Spent'
  <2> SUFFICES ASSUME NEW i \in (old + 1)..(n + 1)
               PROVE  /\ slots'[i] <= t
                      /\ tokens' <= Allowance(n + 1 - i + 1, t - slots'[i])
    BY <1>2, <1>3 DEF Spent, Current, Allowance
  <2>1. CASE i \in (old + 1)..n
    BY <1>1, <1>3, <1>5, <2>1
  <2>2. CASE i = n + 1
    <3>1. n + 1 - i + 1 = 1 /\ t - slots'[i] = 0
      BY <1>1, <1>3, <2>2
    <3> QED
      BY <1>3, <1>6, <2>2, <3>1
  <2> QED
    BY <1>1, <2>1, <2>2
<1>8. LimiterKeepsRate'
  <2> SUFFICES ASSUME NEW i \in (old + 1)..(n + 1), NEW j \in (old + 1)..(n + 1), i < j
               PROVE  slots'[j] - slots'[i] >= (j - i + 1 - Burst) * Period
    BY <1>3 DEF LimiterKeepsRate, Apart
  <2>1. i \in (old + 1)..n
    BY <1>1
  <2>2. CASE j = n + 1
    BY <1>1, <1>3, <1>5, <2>1, <2>2
  <2>3. CASE j \in (old + 1)..n
    <3>1. slots[j] - slots[i] >= (j - i + 1 - Burst) * Period
      BY <2>1, <2>3 DEF RateInv, LimiterKeepsRate, Apart
    <3> QED
      BY <1>1, <1>3, <2>1, <2>3, <3>1
  <2> QED
    BY <1>1, <2>2, <2>3
<1>9. AheadIsEmpty'
  BY <1>2, <1>3, ReserveIsReserved DEF AheadIsEmpty
<1> QED
  BY <1>7, <1>8, <1>9

-----------------------------------------------------------------------------
LEMMA InitRate == LimiterInit => RateInv
<1> SUFFICES ASSUME LimiterInit PROVE RateInv
  OBVIOUS
<1> USE LimiterAssumption DEF LimiterInit
<1>1. Capacity \in Nat
  BY DEF Capacity
<1>2. LimiterTypeOK
  BY <1>1 DEF LimiterTypeOK
<1> QED
  BY <1>2 DEF RateInv, LimiterKeepsRate, Spent, Current, AheadIsEmpty

LEMMA StepRate == RateInv /\ [LimiterNext]_limiterVars => RateInv'
<1> SUFFICES ASSUME RateInv, [LimiterNext]_limiterVars PROVE RateInv'
  OBVIOUS
<1> USE LimiterAssumption
<1>0. Capacity \in Nat
  BY DEF Capacity
<1>1. ASSUME NEW s \in Senders, ReserveSlot(s) PROVE RateInv'
  <2>1. LimiterTypeOK'
    <3>0. \E t \in Nat : slot' = [slot EXCEPT ![s] = t]
      <4>1. CASE TakeToken(s)
        BY <4>1 DEF TakeToken, RateInv, LimiterTypeOK
      <4>2. CASE TakeSlot(s)
        BY <4>2, ReserveIsReserved, <1>1 DEF TakeSlot
      <4> QED
        BY <1>1, <4>1, <4>2 DEF ReserveSlot
    <3>1. slot'[s] \in Nat /\ slot' \in [Senders -> Nat \cup {Idle}]
      BY <3>0 DEF RateInv, LimiterTypeOK
    <3>2. slots' \in Seq(Nat) /\ Len(slots') = Len(slots) + 1
      BY <1>1, <3>1 DEF ReserveSlot, RateInv, LimiterTypeOK
    <3> QED
      BY <1>1, <3>1, <3>2, ReserveIsReserved DEF RateInv, LimiterTypeOK
  <2> QED
    BY <1>1, <2>1, ReserveKeeps DEF RateInv
<1>2. ASSUME NEW s \in Senders, UseSlot(s) \/ GiveUp(s) PROVE RateInv'
  <2>1. UNCHANGED <<now, tokens, last, slots, old>>
    BY <1>2 DEF UseSlot, GiveUp, bucketVars
  <2>2. slot' \in [Senders -> Nat \cup {Idle}]
    BY <1>2 DEF UseSlot, GiveUp, RateInv, LimiterTypeOK
  <2>3. LimiterTypeOK'
    BY <2>1, <2>2 DEF RateInv, LimiterTypeOK, Capacity
  <2> QED
    BY <2>1, <2>3
    DEF RateInv, LimiterKeepsRate, Apart, Spent, Current, Allowance, AheadIsEmpty
<1>3. CASE Rebuild
  <2>1. LimiterTypeOK'
    BY <1>0, <1>3 DEF Rebuild, RateInv, LimiterTypeOK
  <2> QED
    BY <1>3, <2>1
    DEF Rebuild, RateInv, LimiterTypeOK, LimiterKeepsRate, Spent, Current, AheadIsEmpty
<1>4. CASE LimiterTick
  <2>1. UNCHANGED <<tokens, last, slot, slots, old>> /\ now' = now + 1
    BY <1>4 DEF LimiterTick, bucketVars
  <2>2. LimiterTypeOK'
    BY <2>1 DEF RateInv, LimiterTypeOK, Capacity
  <2>3. AheadIsEmpty'
    BY <2>1 DEF RateInv, LimiterTypeOK, AheadIsEmpty
  <2> QED
    BY <2>1, <2>2, <2>3 DEF RateInv, LimiterKeepsRate, Apart, Spent, Current, Allowance
<1>5. CASE UNCHANGED limiterVars
  <2>1. UNCHANGED <<now, tokens, last, slot, slots, old>>
    BY <1>5 DEF limiterVars, bucketVars
  <2> QED
    BY <2>1
    DEF RateInv, LimiterTypeOK, Capacity, LimiterKeepsRate, Apart, Spent, Current, Allowance,
        AheadIsEmpty
<1> QED
  BY <1>1, <1>2, <1>3, <1>4, <1>5 DEF LimiterNext

LEMMA RateInvariance == LimiterSpec => []RateInv
  BY InitRate, StepRate, PTL DEF LimiterSpec

-----------------------------------------------------------------------------
\* The variables keep their types; in particular the bucket never holds less
\* than nothing or more than the burst.
THEOREM LimiterTypeCorrect == LimiterSpec => []LimiterTypeOK
<1>1. RateInv => LimiterTypeOK
  BY DEF RateInv
<1> QED
  BY RateInvariance, <1>1, PTL

\* For every rate, burst and number of senders: of any row of slots of one
\* limiter those beyond the burst are a period each apart.
THEOREM KeepsRate == LimiterSpec => []LimiterKeepsRate
<1>1. RateInv => LimiterKeepsRate
  BY DEF RateInv
<1> QED
  BY RateInvariance, <1>1, PTL

-----------------------------------------------------------------------------
(* The limiter in the pipeline                                             *)

LEMMA StepOfLimiter == [Next]_vars => [LimiterNext]_limiterVars
<1> SUFFICES ASSUME [Next]_vars PROVE [LimiterNext]_limiterVars
  OBVIOUS
<1>1. ASSUME NEW s \in Senders, Reserve(s) PROVE LimiterNext
  BY <1>1 DEF Reserve, LimiterNext
<1>2. ASSUME NEW s \in Senders, Proceed(s) PROVE LimiterNext
  BY <1>2 DEF Proceed, LimiterNext
<1>3. ASSUME NEW s \in Senders, SlotCancelled(s) PROVE LimiterNext
  BY <1>3 DEF SlotCancelled, LimiterNext
<1>4. CASE Use
  BY <1>4 DEF Use, LimiterNext
<1>5. CASE Tick
  BY <1>5 DEF Tick, LimiterNext
<1>6. CASE Guard \/ UNCHANGED vars
  BY <1>6 DEF Guard, vars
<1>7. ASSUME NEW s \in Senders,
             \/ SendMessage(s) \/ OwnCalls(s) \/ OwnReturns(s) \/ OwnPanics(s)
             \/ PostPaused(s) \/ Post(s) \/ Answered(s) \/ NotAnswered(s)
             \/ BackOff(s) \/ RetryReturns(s) \/ TryAgain(s) \/ BackoffCancelled(s)
      PROVE  UNCHANGED limiterVars
  BY <1>7 DEF SendMessage, OwnCalls, OwnReturns, OwnPanics, PostPaused, Post, Answered,
     NotAnswered, BackOff, RetryReturns, TryAgain, BackoffCancelled
<1> QED
  BY <1>1, <1>2, <1>3, <1>4, <1>5, <1>6, <1>7 DEF Next

\* The limiter in the pipeline takes only steps of a limiter, which is how its
\* actions are defined.
LEMMA PipelineIsLimiter == Spec => LimiterSpec
<1>1. Init => LimiterInit
  BY DEF Init
<1> QED
  BY <1>1, StepOfLimiter, PTL DEF Spec, LimiterSpec

\* The slots of the pipeline keep the rate, by the theorem about the limiter.
THEOREM PipelineSlotsKeepRate == Spec => []LimiterKeepsRate
BY PipelineIsLimiter, KeepsRate, PTL

-----------------------------------------------------------------------------
(* The chain and the places in it                                          *)

\* A middleware of one of these kinds is at place i.
In(i, kinds) == i \in 1..Len(Chain) /\ Chain[i] \in kinds

\* Where a sender is goes with what it does, and who waits for a slot has one.
PlaceOf(does, i) ==
    /\ does = "idle" => i = 0
    /\ does = "down" => i = Final \/ In(i, {"own", "limit"})
    /\ does = "up" => In(i, {"own", "retry"})
    /\ does = "slot" => In(i, {"limit"})
    /\ does = "flying" => i = Final
    /\ does = "backoff" => In(i, {"retry"})

Placed(s) == PlaceOf(pc[s], at[s]) /\ (pc[s] = "slot" <=> slot[s] # Idle)

Doings == {"idle", "down", "up", "slot", "flying", "backoff"}

PlaceInv ==
    /\ config \in Configs /\ Valid(config)
    /\ pc \in [Senders -> Doings]
    /\ at \in [Senders -> Nat]
    /\ \A s \in Senders : Placed(s)

\* The attempts a message may take.
Attempts == IF config.autoRetry THEN config.maxRetries ELSE 1

\* How an attempt may go
Ways == {"paused", "accepted", "errcode", "refused", "broken", "lost", "timeout"}

\* s has been told how its last attempt went, and that nothing is left to try.
Told(s) == answers[s] # <<>> /\ result[s] = Outcome(answers[s][Len(answers[s])])

Exhausted(s) ==
    result[s] \in Mendable /\ config.autoRetry => Len(answers[s]) = config.maxRetries

\* Ends that have nothing to do with an attempt
Elsewhere == {"none", "cancelled", "panic", "panicked"}

\* s is inside the retries, and an attempt of its is due.
Due(s) ==
    \/ pc[s] \in {"slot", "flying", "backoff"}
    \/ pc[s] = "down" /\ ~In(at[s], {"own"})

\* What the attempts of s were, at every place of the chain.
Earned(s) ==
    /\ \A i \in 1..(Len(answers[s]) - 1) : answers[s][i] \in Mendable
    /\ Len(answers[s]) <= Attempts
    /\ pc[s] = "down" /\ In(at[s], {"own"}) => answers[s] = <<>>
    /\ Due(s) => /\ Len(answers[s]) < Attempts
                 /\ \A i \in 1..Len(answers[s]) : answers[s][i] \in Mendable
    /\ pc[s] = "up" /\ In(at[s], {"retry"}) => result[s] = "cancelled" \/ Told(s)
    /\ pc[s] = "idle" \/ (pc[s] = "up" /\ In(at[s], {"own"})) =>
          result[s] \in Elsewhere \/ (Told(s) /\ Exhausted(s))

EarnedInv ==
    /\ result \in [Senders -> Errors]
    /\ answers \in [Senders -> Seq(Ways)]
    /\ \A s \in Senders : Earned(s)

\* Who has a slot that is not on the wire, and the time of the slot
Holders == {s \in Senders : pc[s] = "slot" \/ AtRequest(s)}

SlotOf(s) == IF pc[s] = "slot" THEN slot[s] ELSE now

\* Requests on the wire (by f) and holders (by g) have slots of their own.
Own(f, g) ==
    /\ f \in [1..Len(wire) -> Current]
    /\ g \in [Holders -> Current]
    /\ \A i \in 1..Len(wire) : slots[f[i]] = wire[i]
    /\ \A s \in Holders : slots[g[s]] = SlotOf(s)
    /\ \A i, j \in 1..Len(wire) : f[i] = f[j] => i = j
    /\ \A s, r \in Holders : g[s] = g[r] => s = r
    /\ \A i \in 1..Len(wire), s \in Holders : f[i] # g[s]

Backed ==
    config.autoRateLimit =>
       \E f \in [1..Len(wire) -> Current], g \in [Holders -> Current] : Own(f, g)

\* The wire is in order of time, and nobody has missed its slot.
InTime ==
    /\ wire \in Seq(Nat)
    /\ \A i \in 1..Len(wire) : wire[i] <= now
    /\ \A i, j \in 1..Len(wire) : i < j => wire[i] <= wire[j]
    /\ \A s \in Senders : slot[s] # Idle => slot[s] >= now

WireInv == InTime /\ Backed

-----------------------------------------------------------------------------
(* Facts about the chain                                                   *)

\* A set of naturals has its minimum, ...
LEMMA HasMin ==
    ASSUME NEW S \in SUBSET Nat, S # {}
    PROVE  Min(S) \in S /\ \A y \in S : Min(S) <= y
<1>1. PICK x \in S : \A y \in S : ~(<<y, x>> \in OpToRel(<, Nat))
  BY NatLessThanWellFounded, WFMin
<1>2. \A y \in S : x <= y
  <2> TAKE y \in S
  <2>1. <<y, x>> \in Nat \X Nat
    OBVIOUS
  <2>2. ~(y < x)
    BY <1>1, <2>1 DEF OpToRel
  <2> QED
    BY <2>2
<1> QED
  BY <1>2 DEF Min

\* ... and a bounded one its maximum.
LEMMA HasMax ==
    ASSUME NEW S \in SUBSET Nat, S # {}, NEW n \in Nat, \A y \in S : y <= n
    PROVE  Max(S) \in S /\ \A y \in S : Max(S) >= y
<1> DEFINE T == {n - y : y \in S}
<1>1. T \in SUBSET Nat /\ T # {}
  <2>1. \A y \in S : n - y \in Nat
    OBVIOUS
  <2> QED
    BY <2>1
<1>2. Min(T) \in T /\ \A y \in T : Min(T) <= y
  BY <1>1, HasMin
<1>3. PICK x \in S : Min(T) = n - x
  BY <1>2
<1>4. \A y \in S : x >= y
  <2> TAKE y \in S
  <2>1. n - x <= n - y
    BY <1>2, <1>3
  <2> QED
    BY <2>1
<1> QED
  BY <1>4 DEF Max

ChainKinds == OfProgram \cup {"retry", "limit"}

\* One middleware more, at the end
LEMMA OneMiddlewareMore ==
    ASSUME NEW S, NEW c \in Seq(S), NEW x \in S
    PROVE  /\ c \o <<x>> \in Seq(S) /\ Len(c \o <<x>>) = Len(c) + 1
           /\ \A i \in 1..Len(c) : (c \o <<x>>)[i] = c[i]
           /\ (c \o <<x>>)[Len(c) + 1] = x
OBVIOUS

\* The limiter, if it is configured, is the innermost middleware; only the
\* limiter is inside the retries.
LEMMA ChainFacts ==
    ASSUME config \in Configs
    PROVE  /\ Chain \in Seq(ChainKinds)
           /\ Len(Chain) \in Nat /\ Final = Len(Chain) + 1
           /\ config.autoRateLimit => Len(Chain) > 0
           /\ \A i \in 1..Len(Chain) :
                 Chain[i] = "limit" <=> config.autoRateLimit /\ i = Len(Chain)
           /\ config.autoRetry => \E i \in 1..Len(Chain) : Chain[i] = "retry"
           /\ \A i, j \in 1..Len(Chain) :
                 Chain[i] = "retry" => config.autoRetry /\ (j > i => Chain[j] = "limit")
<1> DEFINE m == config.middleware
           r == m \o When(config.autoRetry, "retry")
<1>1. m \in Seq(OfProgram) /\ config.autoRetry \in BOOLEAN /\ config.autoRateLimit \in BOOLEAN
  BY DEF Configs
<1>2. /\ m \in Seq(ChainKinds) /\ Len(m) \in Nat
      /\ \A i \in 1..Len(m) : m[i] \in OfProgram
  BY <1>1 DEF ChainKinds
<1>3. /\ r \in Seq(ChainKinds)
      /\ Len(r) = IF config.autoRetry THEN Len(m) + 1 ELSE Len(m)
      /\ \A i \in 1..Len(m) : r[i] = m[i]
      /\ config.autoRetry => r[Len(m) + 1] = "retry"
  <2>1. CASE config.autoRetry
    <3>1. r = m \o <<"retry">>
      BY <2>1 DEF When
    <3>2. "retry" \in ChainKinds
      BY DEF ChainKinds
    <3>3. /\ m \o <<"retry">> \in Seq(ChainKinds) /\ Len(m \o <<"retry">>) = Len(m) + 1
          /\ \A i \in 1..Len(m) : (m \o <<"retry">>)[i] = m[i]
          /\ (m \o <<"retry">>)[Len(m) + 1] = "retry"
      BY <1>2, <3>2, OneMiddlewareMore
    <3> HIDE DEF m, r
    <3> QED
      BY <2>1, <3>1, <3>3
  <2>2. CASE ~config.autoRetry
    <3>1. r = m
      BY <1>2, <2>2 DEF When
    <3> QED
      BY <1>2, <2>2, <3>1
  <2> QED
    BY <2>1, <2>2
<1> HIDE DEF r
<1>4. /\ Chain \in Seq(ChainKinds)
      /\ Len(Chain) = IF config.autoRateLimit THEN Len(r) + 1 ELSE Len(r)
      /\ \A i \in 1..Len(r) : Chain[i] = r[i]
      /\ config.autoRateLimit => Chain[Len(r) + 1] = "limit"
  <2>0. Chain = r \o When(config.autoRateLimit, "limit")
    BY <1>2 DEF Chain, r, When
  <2>1. CASE config.autoRateLimit
    <3>1. Chain = r \o <<"limit">>
      BY <2>0, <2>1 DEF When
    <3>2. "limit" \in ChainKinds
      BY DEF ChainKinds
    <3> QED
      BY <1>3, <2>1, <3>1, <3>2, OneMiddlewareMore
  <2>2. CASE ~config.autoRateLimit
    <3>1. Chain = r \o <<>>
      BY <2>0, <2>2 DEF When
    <3>2. r \o <<>> = r
      BY <1>3
    <3> QED
      BY <1>3, <2>2, <3>1, <3>2
  <2> QED
    BY <2>1, <2>2
<1>5. /\ \A i \in 1..Len(m) : Chain[i] = m[i] /\ Chain[i] \notin {"retry", "limit"}
      /\ config.autoRetry => Chain[Len(m) + 1] = "retry"
  BY <1>2, <1>3, <1>4 DEF OfProgram
<1> HIDE DEF m
<1> QED
  BY <1>1, <1>2, <1>3, <1>4, <1>5, SMTT(30) DEF Final

LEMMA ChainStays == ASSUME config' = config PROVE Chain' = Chain /\ Final' = Final
BY DEF Chain, Final, When

\* A call goes further in, to a middleware that does something or to the request.
LEMMA InwardFacts ==
    ASSUME config \in Configs, NEW i \in 0..Len(Chain)
    PROVE  /\ Inward(i) \in (i + 1)..Final
           /\ Inward(i) = Final \/ In(Inward(i), {"own", "limit"})
           /\ config.autoRateLimit /\ i < Len(Chain) => Inward(i) # Final
<1> DEFINE S == {j \in (i + 1)..Len(Chain) : Chain[j] \in {"own", "limit"}} \cup {Final}
<1>1. Len(Chain) \in Nat /\ Final = Len(Chain) + 1
  BY ChainFacts
<1>2. S \in SUBSET Nat /\ S # {}
  BY <1>1
<1>3. Inward(i) \in S /\ \A y \in S : Inward(i) <= y
  BY <1>2, HasMin DEF Inward
<1>4. ASSUME config.autoRateLimit, i < Len(Chain) PROVE Inward(i) # Final
  <2>1. Len(Chain) \in S
    BY <1>1, <1>4, ChainFacts
  <2> QED
    BY <1>1, <1>3, <2>1
<1> QED
  BY <1>1, <1>3, <1>4 DEF In

\* A return goes further out, to the next middleware of these kinds or to the caller.
LEMMA OutwardFacts ==
    ASSUME config \in Configs, NEW i \in 0..Final, NEW kinds
    PROVE  /\ Outward(i, kinds) \in Nat
           /\ Outward(i, kinds) = 0 \/ (Outward(i, kinds) < i /\ In(Outward(i, kinds), kinds))
           /\ \A j \in 1..(i - 1) : Chain[j] \in kinds => j <= Outward(i, kinds)
<1> DEFINE S == {j \in 1..(i - 1) : Chain[j] \in kinds} \cup {0}
<1>1. Len(Chain) \in Nat /\ Final = Len(Chain) + 1
  BY ChainFacts
<1>2. S \in SUBSET Nat /\ S # {} /\ i \in Nat /\ \A y \in S : y <= i
  BY <1>1
<1>3. Outward(i, kinds) \in S /\ \A y \in S : Outward(i, kinds) >= y
  BY <1>2, HasMax DEF Outward
<1> QED
  BY <1>1, <1>3 DEF In

-----------------------------------------------------------------------------
(* Senders are where they should be                                        *)

\* A sender moves, and the others stay.
LEMMA Moves ==
    ASSUME PlaceInv, config' = config,
           NEW s \in Senders, NEW does \in Doings, NEW i \in Nat, PlaceOf(does, i),
           pc' = [pc EXCEPT ![s] = does], at' = [at EXCEPT ![s] = i],
           \A r \in Senders \ {s} : slot'[r] = slot[r],
           does = "slot" <=> slot'[s] # Idle
    PROVE  PlaceInv'
<1>1. Chain' = Chain /\ Final' = Final
  BY ChainStays
<1>2. pc' \in [Senders -> Doings] /\ at' \in [Senders -> Nat]
  BY DEF PlaceInv
<1>3. ASSUME NEW r \in Senders PROVE Placed(r)'
  <2>1. CASE r = s
    BY <1>1, <2>1 DEF PlaceInv, Placed, PlaceOf, In
  <2>2. CASE r # s
    BY <1>1, <2>2 DEF PlaceInv, Placed, PlaceOf, In
  <2> QED
    BY <2>1, <2>2
<1> QED
  BY <1>2, <1>3 DEF PlaceInv, Valid

LEMMA CallMoves ==
    ASSUME PlaceInv, config' = config, NEW s \in Senders, NEW i \in 0..Len(Chain), Call(s, i),
           \A r \in Senders \ {s} : slot'[r] = slot[r], slot'[s] = Idle
    PROVE  PlaceInv'
<1>1. config \in Configs
  BY DEF PlaceInv
<1>2. Inward(i) \in Nat /\ PlaceOf("down", Inward(i))
  BY <1>1, InwardFacts, ChainFacts DEF PlaceOf
<1> QED
  BY <1>2, Moves DEF Call, Doings

LEMMA LeaveMoves ==
    ASSUME PlaceInv, config' = config, NEW s \in Senders, NEW i \in 0..Final, NEW r,
           Leave(s, i, r), \A q \in Senders \ {s} : slot'[q] = slot[q], slot'[s] = Idle
    PROVE  PlaceInv'
<1> DEFINE j == Outward(i, {"own", "retry"})
           does == IF j = 0 THEN "idle" ELSE "up"
<1>1. config \in Configs
  BY DEF PlaceInv
<1>2. j \in Nat /\ PlaceOf(does, j)
  BY <1>1, OutwardFacts DEF PlaceOf
<1>3. pc' = [pc EXCEPT ![s] = does] /\ at' = [at EXCEPT ![s] = j]
  BY DEF Leave
<1>4. does \in Doings /\ does # "slot"
  BY DEF Doings
<1> HIDE DEF j, does
<1> QED
  BY <1>2, <1>3, <1>4, Moves

\* s goes on with something else where it is.
LEMMA GotoMoves ==
    ASSUME PlaceInv, config' = config, NEW s \in Senders, NEW does \in Doings, Goto(s, does),
           PlaceOf(does, at[s]), \A q \in Senders \ {s} : slot'[q] = slot[q],
           does = "slot" <=> slot'[s] # Idle
    PROVE  PlaceInv'
<1>1. at[s] \in Nat /\ at' = [at EXCEPT ![s] = at[s]]
  BY DEF PlaceInv, Goto
<1>2. pc' = [pc EXCEPT ![s] = does]
  BY DEF Goto
<1> QED
  BY <1>1, <1>2, Moves

\* Where the actions start from.
LEMMA PlaceFacts ==
    ASSUME PlaceInv, NEW s \in Senders
    PROVE  /\ config \in Configs /\ Final = Len(Chain) + 1 /\ Len(Chain) \in Nat
           /\ at[s] \in 0..Final
           /\ pc[s] \in {"up", "slot", "backoff"} => at[s] \in 1..Len(Chain)
           /\ pc[s] = "down" /\ at[s] # Final => at[s] \in 1..Len(Chain)
           /\ pc[s] # "slot" <=> slot[s] = Idle
<1>1. config \in Configs /\ at[s] \in Nat /\ Placed(s) /\ pc[s] \in Doings
  BY DEF PlaceInv
<1>2. Final = Len(Chain) + 1 /\ Len(Chain) \in Nat
  BY <1>1, ChainFacts
<1> QED
  BY <1>1, <1>2 DEF Placed, PlaceOf, In, Doings

LEMMA InitPlace == Init => PlaceInv
<1> SUFFICES ASSUME Init PROVE PlaceInv
  OBVIOUS
<1>1. config \in Configs /\ Valid(config)
  BY PipelineAssumption DEF Init
<1> QED
  BY <1>1, LimiterAssumption
  DEF Init, LimiterInit, PlaceInv, Placed, PlaceOf, Doings

\* Use leaves the retries and the limit as they are.
LEMMA UseFacts ==
    ASSUME PlaceInv, Use
    PROVE  /\ config' \in Configs /\ Valid(config)'
           /\ config'.autoRetry = config.autoRetry
           /\ config'.maxRetries = config.maxRetries
           /\ config'.autoRateLimit = config.autoRateLimit
           /\ slot' = slot
<1>1. config \in Configs /\ Valid(config)
  BY DEF PlaceInv
<1>2. PICK m \in Added : config' = WithMiddleware(config, <<m>>)
  BY DEF Use
<1>3. config.middleware \o <<m>> \in Seq(OfProgram)
  BY <1>1, <1>2, PipelineAssumption, OneMiddlewareMore DEF Configs
<1>4. config' = [config EXCEPT !.middleware = config.middleware \o <<m>>]
  BY <1>2 DEF WithMiddleware
<1>5. /\ config' \in Configs
      /\ config'.autoRetry = config.autoRetry
      /\ config'.maxRetries = config.maxRetries
      /\ config'.autoRateLimit = config.autoRateLimit
      /\ config'.waitMin = config.waitMin /\ config'.waitMax = config.waitMax
  BY <1>1, <1>3, <1>4 DEF Configs
<1>6. slot' = slot
  BY DEF Use, Rebuild, limiterVars
<1> QED
  BY <1>1, <1>5, <1>6 DEF Valid

LEMMA StepPlace ==
    ASSUME PlaceInv, RateInv, [Next]_vars
    PROVE  PlaceInv'
<1>0. slot \in [Senders -> Nat \cup {Idle}]
  BY DEF RateInv, LimiterTypeOK
<1>1. ASSUME NEW s \in Senders, SendMessage(s) PROVE PlaceInv'
  <2>1. slot' = slot /\ config' = config /\ Call(s, 0) /\ slot[s] = Idle
    BY <1>1, PlaceFacts DEF SendMessage, limiterVars
  <2> QED
    BY <2>1, PlaceFacts, CallMoves
<1>2. ASSUME NEW s \in Senders, OwnCalls(s) PROVE PlaceInv'
  <2>1. slot' = slot /\ config' = config /\ Call(s, at[s]) /\ slot[s] = Idle
    BY <1>2, PlaceFacts DEF OwnCalls, Down, limiterVars
  <2>2. at[s] \in 0..Len(Chain)
    BY <1>2, PlaceFacts DEF OwnCalls, Down
  <2> QED
    BY <2>1, <2>2, CallMoves
<1>3. ASSUME NEW s \in Senders, OwnReturns(s) \/ RetryReturns(s) PROVE PlaceInv'
  <2>1. /\ slot' = slot /\ config' = config /\ Leave(s, at[s], result[s]) /\ slot[s] = Idle
        /\ at[s] \in 0..Final
    BY <1>3, PlaceFacts DEF OwnReturns, RetryReturns, Up, limiterVars
  <2> QED
    BY <2>1, LeaveMoves
<1>4. ASSUME NEW s \in Senders, OwnPanics(s) PROVE PlaceInv'
  <2> DEFINE j == Outward(at[s], {"recovery"})
  <2>1. slot' = slot /\ config' = config /\ slot[s] = Idle
    BY <1>4, PlaceFacts DEF OwnPanics, Down, Up, limiterVars
  <2>2. j \in 0..Final /\ 0 \in 0..Final
    BY PlaceFacts, OutwardFacts, ChainFacts DEF In
  <2>3. Leave(s, j, "panicked") \/ Leave(s, 0, "panic")
    BY <1>4 DEF OwnPanics
  <2> HIDE DEF j
  <2> QED
    BY <2>1, <2>2, <2>3, LeaveMoves
<1>5. ASSUME NEW s \in Senders, Reserve(s) PROVE PlaceInv'
  <2>1. \E t \in Nat : slot' = [slot EXCEPT ![s] = t]
    <3>1. CASE TakeToken(s)
      BY <3>1 DEF TakeToken, RateInv, LimiterTypeOK
    <3>2. CASE TakeSlot(s)
      BY <1>5, <3>2, ReserveIsReserved DEF TakeSlot, Reserve
    <3> QED
      BY <1>5, <3>1, <3>2 DEF Reserve, ReserveSlot
  <2>2. slot'[s] # Idle /\ \A q \in Senders \ {s} : slot'[q] = slot[q]
    BY <1>0, <2>1, LimiterAssumption
  <2>3. PlaceOf("slot", at[s]) /\ Goto(s, "slot") /\ config' = config /\ "slot" \in Doings
    BY <1>5, PlaceFacts DEF Reserve, Down, PlaceOf, In, Doings
  <2> QED
    BY <2>2, <2>3, GotoMoves
<1>6. ASSUME NEW s \in Senders, Proceed(s) PROVE PlaceInv'
  <2>1. slot'[s] = Idle /\ \A q \in Senders \ {s} : slot'[q] = slot[q]
    BY <1>0, <1>6 DEF Proceed, UseSlot
  <2>2. config' = config /\ Call(s, at[s]) /\ at[s] \in 0..Len(Chain)
    BY <1>6, PlaceFacts DEF Proceed
  <2> QED
    BY <2>1, <2>2, CallMoves
<1>7. ASSUME NEW s \in Senders, SlotCancelled(s) PROVE PlaceInv'
  <2>1. slot'[s] = Idle /\ \A q \in Senders \ {s} : slot'[q] = slot[q]
    BY <1>0, <1>7 DEF SlotCancelled, GiveUp
  <2>2. config' = config /\ Leave(s, at[s], "cancelled") /\ at[s] \in 0..Final
    BY <1>7, PlaceFacts DEF SlotCancelled
  <2> QED
    BY <2>1, <2>2, LeaveMoves
<1>8. ASSUME NEW s \in Senders, PostPaused(s) \/ Answered(s) \/ NotAnswered(s)
      PROVE  PlaceInv'
  <2>1. slot' = slot /\ config' = config /\ slot[s] = Idle /\ Final \in 0..Final
    BY <1>8, PlaceFacts DEF PostPaused, Answered, NotAnswered, AtRequest, limiterVars
  <2>2. \E r : Leave(s, Final, r)
    BY <1>8 DEF PostPaused, Answered, NotAnswered
  <2> QED
    BY <2>1, <2>2, LeaveMoves
<1>9. ASSUME NEW s \in Senders, Post(s) PROVE PlaceInv'
  <2>1. /\ slot' = slot /\ config' = config /\ slot[s] = Idle /\ Goto(s, "flying")
        /\ PlaceOf("flying", at[s]) /\ "flying" \in Doings
    BY <1>9, PlaceFacts DEF Post, AtRequest, limiterVars, PlaceOf, Doings
  <2> QED
    BY <2>1, GotoMoves
<1>10. ASSUME NEW s \in Senders, BackOff(s) PROVE PlaceInv'
  <2>1. /\ slot' = slot /\ config' = config /\ slot[s] = Idle /\ Goto(s, "backoff")
        /\ PlaceOf("backoff", at[s]) /\ "backoff" \in Doings
    BY <1>10, PlaceFacts DEF BackOff, Up, limiterVars, PlaceOf, In, Doings
  <2> QED
    BY <2>1, GotoMoves
<1>11. ASSUME NEW s \in Senders, TryAgain(s) PROVE PlaceInv'
  <2>1. /\ slot' = slot /\ config' = config /\ slot[s] = Idle /\ Call(s, at[s])
        /\ at[s] \in 0..Len(Chain)
    BY <1>11, PlaceFacts DEF TryAgain, limiterVars
  <2> QED
    BY <2>1, CallMoves
<1>12. ASSUME NEW s \in Senders, BackoffCancelled(s) PROVE PlaceInv'
  <2>1. /\ slot' = slot /\ config' = config /\ slot[s] = Idle
        /\ Leave(s, at[s], "cancelled") /\ at[s] \in 0..Final
    BY <1>12, PlaceFacts DEF BackoffCancelled, limiterVars
  <2> QED
    BY <2>1, LeaveMoves
<1>13. CASE Use
  <2>1. \A s \in Senders : pc[s] = "idle" /\ pc' = pc /\ at' = at /\ slot' = slot
    BY <1>13, UseFacts DEF Use
  <2>2. pc' = pc /\ at' = at
    BY <1>13 DEF Use
  <2> QED
    BY <1>13, <2>1, <2>2, UseFacts DEF PlaceInv, Placed, PlaceOf
<1>14. CASE Guard \/ Tick \/ UNCHANGED vars
  <2>1. UNCHANGED <<config, pc, at, slot>>
    BY <1>14 DEF Guard, Tick, LimiterTick, vars, sendVars, limiterVars
  <2>2. Chain' = Chain /\ Final' = Final
    BY <2>1, ChainStays
  <2> QED
    BY <2>1, <2>2 DEF PlaceInv, Placed, PlaceOf, In, Valid
<1> QED
  BY <1>1, <1>2, <1>3, <1>4, <1>5, <1>6, <1>7, <1>8, <1>9, <1>10, <1>11, <1>12, <1>13, <1>14
  DEF Next

-----------------------------------------------------------------------------
(* Attempts are earned                                                     *)

\* From the request, an answer comes to the retries if there are any.
LEMMA AnswerGoesToRetry ==
    ASSUME config \in Configs
    PROVE  LET j == Outward(Final, {"own", "retry"}) IN
           IF config.autoRetry THEN In(j, {"retry"}) ELSE j = 0 \/ In(j, {"own"})
<1> DEFINE j == Outward(Final, {"own", "retry"})
<1>1. Final = Len(Chain) + 1 /\ Len(Chain) \in Nat /\ Final \in 0..Final
  BY ChainFacts
<1>2. /\ j \in Nat /\ (j = 0 \/ (j < Final /\ In(j, {"own", "retry"})))
      /\ \A k \in 1..(Final - 1) : Chain[k] \in {"own", "retry"} => k <= j
  BY <1>1, OutwardFacts
<1> HIDE DEF j
<1>3. CASE config.autoRetry
  <2>1. PICK k \in 1..Len(Chain) : Chain[k] = "retry"
    BY <1>3, ChainFacts
  <2>2. k <= j /\ j \in 1..Len(Chain) /\ In(j, {"own", "retry"})
    BY <1>1, <1>2, <2>1
  <2>3. j > k => Chain[j] = "limit"
    BY <2>1, <2>2, ChainFacts
  <2> QED
    BY <1>3, <2>1, <2>2, <2>3 DEF In, j
<1>4. CASE ~config.autoRetry
  <2>1. \A k \in 1..Len(Chain) : Chain[k] # "retry"
    BY <1>4, ChainFacts
  <2> QED
    BY <1>2, <1>4, <2>1 DEF In, j
<1> QED
  BY <1>3, <1>4

\* Further out, nothing comes to the retries again.
LEMMA ReturnLeavesRetry ==
    ASSUME config \in Configs, NEW i \in 0..Final, i = 0 \/ In(i, {"own", "retry", "recovery"})
    PROVE  LET j == Outward(i, {"own", "retry"}) IN j = 0 \/ In(j, {"own"})
<1> DEFINE j == Outward(i, {"own", "retry"})
<1>1. j \in Nat /\ (j = 0 \/ (j < i /\ In(j, {"own", "retry"})))
  BY OutwardFacts
<1> HIDE DEF j
<1>2. ASSUME j # 0, Chain[j] = "retry" PROVE FALSE
  <2>1. j \in 1..Len(Chain) /\ i \in 1..Len(Chain) /\ i > j
    BY <1>1, <1>2, ChainFacts DEF In
  <2>2. Chain[i] = "limit"
    BY <1>2, <2>1, ChainFacts
  <2> QED
    BY <2>1, <2>2 DEF In
<1> QED
  BY <1>1, <1>2 DEF In, j

\* The others keep what they have earned.
LEMMA OthersEarned ==
    ASSUME EarnedInv, config' = config, NEW s \in Senders,
           \A q \in Senders \ {s} :
              pc'[q] = pc[q] /\ at'[q] = at[q] /\ result'[q] = result[q] /\ answers'[q] = answers[q],
           result' \in [Senders -> Errors], answers' \in [Senders -> Seq(Ways)],
           Earned(s)'
    PROVE  EarnedInv'
<1>1. Chain' = Chain
  BY ChainStays
<1>2. ASSUME NEW q \in Senders \ {s} PROVE Earned(q)'
  BY <1>1, <1>2 DEF EarnedInv, Earned, Due, Attempts, In, Told, Exhausted
<1> QED
  BY <1>2 DEF EarnedInv

\* s goes on inwards, with an attempt due.
LEMMA CallEarns ==
    ASSUME PlaceInv, EarnedInv, config' = config, NEW s \in Senders, NEW i \in 0..Len(Chain),
           Call(s, i),
           \A q \in Senders \ {s} : result'[q] = result[q] /\ answers'[q] = answers[q],
           result' \in [Senders -> Errors], answers' \in [Senders -> Seq(Ways)],
           Len(answers'[s]) < Attempts,
           \A k \in 1..Len(answers'[s]) : answers'[s][k] \in Mendable,
           answers'[s] = <<>> \/ In(i, {"limit", "retry"})
    PROVE  EarnedInv'
<1>1. Chain' = Chain /\ config \in Configs
  BY ChainStays DEF PlaceInv
<1>2. /\ pc'[s] = "down" /\ at'[s] = Inward(i)
      /\ \A q \in Senders \ {s} : pc'[q] = pc[q] /\ at'[q] = at[q]
  BY DEF Call, PlaceInv
<1>3. Len(answers'[s]) \in Nat /\ Attempts \in Int
  BY <1>1 DEF Attempts, Configs
<1>4. ASSUME In(i, {"limit", "retry"}) PROVE ~In(Inward(i), {"own"})
  <2>1. SUFFICES ASSUME In(Inward(i), {"own"}) PROVE FALSE
    OBVIOUS
  <2>2. Inward(i) > i /\ Inward(i) \in 1..Len(Chain) /\ i \in 1..Len(Chain)
    BY <1>1, <1>4, <2>1, InwardFacts DEF In
  <2>3. Chain[i] # "limit"
    BY <1>1, <2>2, ChainFacts
  <2>4. Chain[Inward(i)] = "limit"
    BY <1>1, <1>4, <2>2, <2>3, ChainFacts DEF In
  <2> QED
    BY <2>1, <2>4 DEF In
<1>5. Earned(s)'
  BY <1>1, <1>2, <1>3, <1>4 DEF Earned, Due, Attempts, In
<1> QED
  BY <1>2, <1>5, OthersEarned

\* s comes out of place i with r.
LEMMA LeaveEarns ==
    ASSUME PlaceInv, EarnedInv, config' = config, NEW s \in Senders, NEW i \in 0..Final,
           NEW r \in Errors, Leave(s, i, r),
           \A q \in Senders \ {s} : answers'[q] = answers[q],
           answers' \in [Senders -> Seq(Ways)],
           \A k \in 1..(Len(answers'[s]) - 1) : answers'[s][k] \in Mendable,
           Len(answers'[s]) <= Attempts,
           LET j == Outward(i, {"own", "retry"}) IN
           /\ In(j, {"retry"}) => r = "cancelled" \/ Told(s)'
           /\ j = 0 \/ In(j, {"own"}) => r \in Elsewhere \/ (Told(s)' /\ Exhausted(s)')
    PROVE  EarnedInv'
<1> DEFINE j == Outward(i, {"own", "retry"})
<1>1. Chain' = Chain /\ config \in Configs
  BY ChainStays DEF PlaceInv
<1>2. /\ pc'[s] = (IF j = 0 THEN "idle" ELSE "up") /\ at'[s] = j /\ result'[s] = r
      /\ \A q \in Senders \ {s} : pc'[q] = pc[q] /\ at'[q] = at[q] /\ result'[q] = result[q]
      /\ result' \in [Senders -> Errors]
  BY DEF Leave, PlaceInv, EarnedInv
<1>3. /\ In(j, {"retry"}) => r = "cancelled" \/ Told(s)'
      /\ j = 0 \/ In(j, {"own"}) => r \in Elsewhere \/ (Told(s)' /\ Exhausted(s)')
  OBVIOUS
<1>4. j = 0 => ~In(j, {"retry"}) /\ ~In(j, {"own"})
  BY <1>1, ChainFacts DEF In
<1> HIDE DEF j
<1>5. Attempts' = Attempts
  BY <1>1 DEF Attempts
<1>6. Earned(s)'
  BY <1>1, <1>2, <1>3, <1>4, <1>5 DEF Earned, Due, In
<1> QED
  BY <1>2, <1>6, OthersEarned

\* An answer, or the guard, ends an attempt that was due.
LEMMA AnswerEarns ==
    ASSUME PlaceInv, EarnedInv, config' = config, NEW s \in Senders, Due(s), pc[s] # "backoff",
           NEW a \in Ways, Went(s, a), Leave(s, Final, Outcome(a))
    PROVE  EarnedInv'
<1> DEFINE n == Len(answers[s])
           j == Outward(Final, {"own", "retry"})
<1>1. config \in Configs /\ Valid(config) /\ Final \in 0..Final
  BY ChainFacts DEF PlaceInv
<1>2. answers[s] \in Seq(Ways) /\ n \in Nat /\ Earned(s)
  BY DEF EarnedInv
<1>3. /\ n < Attempts /\ \A k \in 1..n : answers[s][k] \in Mendable
      /\ Attempts \in Int
  BY <1>1, <1>2 DEF Earned, Attempts, Configs
<1>4. /\ answers' \in [Senders -> Seq(Ways)]
      /\ answers'[s] = Append(answers[s], a)
      /\ \A q \in Senders \ {s} : answers'[q] = answers[q]
  BY <1>2 DEF Went, EarnedInv
<1>5. /\ Len(answers'[s]) = n + 1 /\ answers'[s][n + 1] = a /\ answers'[s] # <<>>
      /\ \A k \in 1..n : answers'[s][k] = answers[s][k]
  BY <1>2, <1>4
<1>6. \A k \in 1..(Len(answers'[s]) - 1) : answers'[s][k] \in Mendable
  BY <1>2, <1>3, <1>5
<1>7. Len(answers'[s]) <= Attempts
  BY <1>2, <1>3, <1>5
<1>8. Outcome(a) \in Errors
  BY DEF Outcome, Ways, Errors
<1>9. result'[s] = Outcome(a)
  BY DEF Leave, EarnedInv
<1>10. Told(s)'
  BY <1>2, <1>5, <1>9 DEF Told
<1>11. ~config.autoRetry => Exhausted(s)'
  BY DEF Exhausted
<1>12. IF config.autoRetry THEN In(j, {"retry"}) ELSE j = 0 \/ In(j, {"own"})
  BY <1>1, AnswerGoesToRetry
<1>13. j = 0 \/ In(j, {"own"}) => ~In(j, {"retry"})
  BY <1>1, ChainFacts DEF In
<1>14. /\ In(j, {"retry"}) => Outcome(a) = "cancelled" \/ Told(s)'
       /\ j = 0 \/ In(j, {"own"})
             => Outcome(a) \in Elsewhere \/ (Told(s)' /\ Exhausted(s)')
  BY <1>10, <1>11, <1>12, <1>13
<1> HIDE DEF n, j
<1> QED
  BY <1>1, <1>4, <1>6, <1>7, <1>8, <1>14, LeaveEarns DEF j

\* The chain comes to an end that is no attempt's.
LEMMA ElsewhereEarns ==
    ASSUME PlaceInv, EarnedInv, config' = config, NEW s \in Senders, NEW i \in 0..Final,
           NEW r \in {"cancelled", "panic", "panicked"}, Leave(s, i, r), answers' = answers,
           r = "cancelled" \/ i = 0 \/ In(i, {"own", "retry", "recovery"})
    PROVE  EarnedInv'
<1> DEFINE j == Outward(i, {"own", "retry"})
<1>1. config \in Configs /\ Earned(s) /\ answers \in [Senders -> Seq(Ways)]
  BY DEF PlaceInv, EarnedInv
<1>2. r \in Errors /\ r \in Elsewhere
  BY DEF Errors, Elsewhere
<1>3. r # "cancelled" => j = 0 \/ In(j, {"own"})
  BY <1>1, ReturnLeavesRetry
<1>4. j = 0 \/ In(j, {"own"}) => ~In(j, {"retry"})
  BY <1>1, ChainFacts DEF In
<1>5. /\ In(j, {"retry"}) => r = "cancelled" \/ Told(s)'
      /\ j = 0 \/ In(j, {"own"}) => r \in Elsewhere \/ (Told(s)' /\ Exhausted(s)')
  BY <1>2, <1>3, <1>4
<1>6. /\ \A k \in 1..(Len(answers'[s]) - 1) : answers'[s][k] \in Mendable
      /\ Len(answers'[s]) <= Attempts
  BY <1>1 DEF Earned
<1> QED
  BY <1>1, <1>2, <1>5, <1>6, LeaveEarns

LEMMA InitEarned == Init => EarnedInv
<1> SUFFICES ASSUME Init PROVE EarnedInv
  OBVIOUS
<1>1. config \in Configs /\ Valid(config)
  BY PipelineAssumption DEF Init
<1>2. 0 <= Attempts
  BY <1>1 DEF Attempts, Valid, Configs
<1>3. \A s \in Senders : answers[s] = <<>> /\ pc[s] = "idle" /\ result[s] = "none"
  BY DEF Init
<1>4. answers \in [Senders -> Seq(Ways)] /\ result \in [Senders -> Errors]
  BY DEF Init, Errors
<1> QED
  BY <1>2, <1>3, <1>4 DEF EarnedInv, Earned, Due, Elsewhere

\* Before the first attempt there is one to make.
LEMMA AttemptsArePositive == ASSUME PlaceInv PROVE Attempts \in Nat \ {0}
BY DEF PlaceInv, Attempts, Valid, Configs

LEMMA StepEarned ==
    ASSUME PlaceInv, EarnedInv, [Next]_vars
    PROVE  EarnedInv'
<1>0. /\ config \in Configs
      /\ result \in [Senders -> Errors] /\ answers \in [Senders -> Seq(Ways)]
      /\ \A s \in Senders : Earned(s) /\ Placed(s)
  BY DEF PlaceInv, EarnedInv
<1>1. ASSUME NEW s \in Senders, SendMessage(s) PROVE EarnedInv'
  <2>1. /\ config' = config /\ Call(s, 0) /\ 0 \in 0..Len(Chain)
        /\ answers'[s] = <<>> /\ answers' \in [Senders -> Seq(Ways)]
        /\ result' \in [Senders -> Errors]
        /\ \A q \in Senders \ {s} : result'[q] = result[q] /\ answers'[q] = answers[q]
    BY <1>0, <1>1, ChainFacts DEF SendMessage, Errors
  <2>2. Len(answers'[s]) < Attempts /\ \A k \in 1..Len(answers'[s]) : answers'[s][k] \in Mendable
    BY <2>1, AttemptsArePositive
  <2> QED
    BY <2>1, <2>2, CallEarns
<1>2. ASSUME NEW s \in Senders, OwnCalls(s) PROVE EarnedInv'
  <2>1. /\ config' = config /\ Call(s, at[s]) /\ at[s] \in 0..Len(Chain)
        /\ answers' = answers /\ result' = result
    BY <1>2, PlaceFacts DEF OwnCalls, Down
  <2>2. answers[s] = <<>>
    BY <1>0, <1>2, PlaceFacts DEF OwnCalls, Down, Earned, In
  <2>3. Len(answers'[s]) < Attempts /\ \A k \in 1..Len(answers'[s]) : answers'[s][k] \in Mendable
    BY <2>1, <2>2, AttemptsArePositive
  <2> QED
    BY <1>0, <2>1, <2>2, <2>3, CallEarns
<1>3. ASSUME NEW s \in Senders, OwnReturns(s) PROVE EarnedInv'
  <2> DEFINE j == Outward(at[s], {"own", "retry"})
  <2>1. /\ config' = config /\ Leave(s, at[s], result[s]) /\ at[s] \in 0..Final
        /\ answers' = answers /\ In(at[s], {"own"}) /\ pc[s] = "up"
    BY <1>3, PlaceFacts DEF OwnReturns, Up, In
  <2>2. result[s] \in Elsewhere \/ (Told(s) /\ Exhausted(s))
    BY <1>0, <2>1 DEF Earned
  <2>3. result'[s] = result[s] /\ result[s] \in Errors
    BY <1>0, <2>1 DEF Leave
  <2>4. Told(s) /\ Exhausted(s) => Told(s)' /\ Exhausted(s)'
    BY <2>1, <2>3 DEF Told, Exhausted
  <2>5. j = 0 \/ In(j, {"own"})
    BY <1>0, <2>1, ReturnLeavesRetry DEF In
  <2>6. ~In(j, {"retry"})
    BY <1>0, <2>5, ChainFacts DEF In
  <2>7. /\ \A k \in 1..(Len(answers'[s]) - 1) : answers'[s][k] \in Mendable
        /\ Len(answers'[s]) <= Attempts
    BY <1>0, <2>1 DEF Earned
  <2> QED
    BY <1>0, <2>1, <2>2, <2>3, <2>4, <2>6, <2>7, LeaveEarns
<1>4. ASSUME NEW s \in Senders, OwnPanics(s) PROVE EarnedInv'
  <2> DEFINE j == Outward(at[s], {"recovery"})
  <2>1. config' = config /\ answers' = answers
    BY <1>4 DEF OwnPanics
  <2>2. j \in 0..Final /\ (j # 0 => In(j, {"recovery"})) /\ 0 \in 0..Final
    BY <1>0, PlaceFacts, OutwardFacts, ChainFacts DEF In
  <2>3. (j # 0 /\ Leave(s, j, "panicked")) \/ Leave(s, 0, "panic")
    BY <1>4 DEF OwnPanics
  <2>4. j # 0 => In(j, {"own", "retry", "recovery"})
    BY <2>2 DEF In
  <2> HIDE DEF j
  <2> QED
    BY <2>1, <2>2, <2>3, <2>4, ElsewhereEarns
<1>5. ASSUME NEW s \in Senders, NEW does \in {"slot", "flying"},
             Goto(s, does), pc[s] = "down", ~In(at[s], {"own"}),
             UNCHANGED <<config, result, answers>>
      PROVE  EarnedInv'
  <2>1. Chain' = Chain /\ Attempts' = Attempts
    BY <1>5, ChainStays DEF Attempts
  <2>2. /\ pc'[s] = does /\ at' = at /\ \A q \in Senders \ {s} : pc'[q] = pc[q]
    BY <1>5 DEF Goto, PlaceInv
  <2>3. Earned(s)'
    BY <1>0, <1>5, <2>1, <2>2 DEF Earned, Due, In
  <2> QED
    BY <1>0, <1>5, <2>2, <2>3, OthersEarned
<1>6. ASSUME NEW s \in Senders, Reserve(s) PROVE EarnedInv'
  BY <1>5, <1>6 DEF Reserve, Down, In
<1>7. ASSUME NEW s \in Senders, Post(s) PROVE EarnedInv'
  <2>1. ~In(at[s], {"own"})
    BY <1>0, <1>7, ChainFacts DEF Post, AtRequest, In
  <2> QED
    BY <1>5, <1>7, <2>1 DEF Post, AtRequest
<1>8. ASSUME NEW s \in Senders, Proceed(s) PROVE EarnedInv'
  <2>1. /\ config' = config /\ Call(s, at[s]) /\ at[s] \in 0..Len(Chain)
        /\ answers' = answers /\ result' = result /\ pc[s] = "slot"
    BY <1>8, PlaceFacts DEF Proceed
  <2>2. In(at[s], {"limit", "retry"})
    BY <1>0, <2>1 DEF Placed, PlaceOf, In
  <2>3. Len(answers'[s]) < Attempts /\ \A k \in 1..Len(answers'[s]) : answers'[s][k] \in Mendable
    BY <1>0, <2>1 DEF Earned, Due
  <2> QED
    BY <1>0, <2>1, <2>2, <2>3, CallEarns
<1>9. ASSUME NEW s \in Senders, TryAgain(s) PROVE EarnedInv'
  <2>1. /\ config' = config /\ Call(s, at[s]) /\ at[s] \in 0..Len(Chain)
        /\ answers' = answers /\ result' = result /\ pc[s] = "backoff"
    BY <1>9, PlaceFacts DEF TryAgain
  <2>2. In(at[s], {"limit", "retry"})
    BY <1>0, <2>1 DEF Placed, PlaceOf, In
  <2>3. Len(answers'[s]) < Attempts /\ \A k \in 1..Len(answers'[s]) : answers'[s][k] \in Mendable
    BY <1>0, <2>1 DEF Earned, Due
  <2> QED
    BY <1>0, <2>1, <2>2, <2>3, CallEarns
<1>10. ASSUME NEW s \in Senders, SlotCancelled(s) \/ BackoffCancelled(s) PROVE EarnedInv'
  <2>1. /\ config' = config /\ Leave(s, at[s], "cancelled") /\ at[s] \in 0..Final
        /\ answers' = answers
    BY <1>10, PlaceFacts DEF SlotCancelled, BackoffCancelled
  <2> QED
    BY <2>1, ElsewhereEarns
<1>11. ASSUME NEW s \in Senders, PostPaused(s) PROVE EarnedInv'
  <2>1. /\ config' = config /\ Went(s, "paused") /\ Leave(s, Final, Outcome("paused"))
        /\ Due(s) /\ pc[s] # "backoff" /\ "paused" \in Ways
    BY <1>0, <1>11, ChainFacts DEF PostPaused, AtRequest, Due, In, Outcome, Ways
  <2> QED
    BY <2>1, AnswerEarns
<1>12. ASSUME NEW s \in Senders, Answered(s) \/ NotAnswered(s) PROVE EarnedInv'
  <2>1. config' = config /\ Due(s) /\ pc[s] # "backoff"
    BY <1>12 DEF Answered, NotAnswered, Due
  <2>2. \E a \in Ways : Went(s, a) /\ Leave(s, Final, Outcome(a))
    BY <1>12 DEF Answered, NotAnswered, Outcome, Ways
  <2> QED
    BY <2>1, <2>2, AnswerEarns
<1>13. ASSUME NEW s \in Senders, BackOff(s) PROVE EarnedInv'
  <2> DEFINE n == Len(answers[s])
  <2>1. /\ pc[s] = "up" /\ In(at[s], {"retry"}) /\ Retryable(result[s])
        /\ n < config.maxRetries /\ Goto(s, "backoff")
        /\ UNCHANGED <<config, result, answers>>
    BY <1>13, PlaceFacts DEF BackOff, Up, In, AttemptsLeft
  <2>2. config.autoRetry /\ Attempts = config.maxRetries
    BY <1>0, <2>1, ChainFacts DEF In, Attempts
  <2>3. Told(s) /\ result[s] \in Mendable
    BY <1>0, <2>1 DEF Earned, Retryable, Mendable
  <2>4. answers[s][n] \in Mendable /\ n \in Nat /\ n > 0
    BY <1>0, <2>3 DEF Told, Outcome, Mendable
  <2>5. \A k \in 1..n : answers[s][k] \in Mendable
    BY <1>0, <2>4 DEF Earned
  <2>6. Chain' = Chain /\ Attempts' = Attempts
    BY <2>1, ChainStays DEF Attempts
  <2>7. /\ pc'[s] = "backoff" /\ at' = at /\ \A q \in Senders \ {s} : pc'[q] = pc[q]
    BY <2>1 DEF Goto, PlaceInv
  <2>8. Earned(s)'
    BY <1>0, <2>1, <2>2, <2>4, <2>5, <2>6, <2>7 DEF Earned, Due
  <2> QED
    BY <1>0, <2>1, <2>7, <2>8, OthersEarned
<1>14. ASSUME NEW s \in Senders, RetryReturns(s) PROVE EarnedInv'
  <2> DEFINE j == Outward(at[s], {"own", "retry"})
  <2>1. /\ config' = config /\ Leave(s, at[s], result[s]) /\ at[s] \in 0..Final
        /\ answers' = answers /\ In(at[s], {"retry"}) /\ pc[s] = "up"
        /\ ~(Retryable(result[s]) /\ AttemptsLeft(s))
    BY <1>14, PlaceFacts DEF RetryReturns, Up, In
  <2>2. result[s] = "cancelled" \/ Told(s)
    BY <1>0, <2>1 DEF Earned
  <2>3. result'[s] = result[s] /\ result[s] \in Errors
    BY <1>0, <2>1 DEF Leave
  <2>4. config.autoRetry
    BY <1>0, <2>1, ChainFacts DEF In
  <2>5. /\ \A k \in 1..(Len(answers'[s]) - 1) : answers'[s][k] \in Mendable
        /\ Len(answers'[s]) <= Attempts
        /\ Len(answers[s]) \in Nat /\ config.maxRetries \in Int
    BY <1>0, <2>1 DEF Earned, Configs
  <2>6. Exhausted(s)
    BY <2>1, <2>4, <2>5 DEF Exhausted, Retryable, Mendable, AttemptsLeft, Attempts
  <2>7. (Told(s) => Told(s)') /\ Exhausted(s)'
    BY <2>1, <2>3, <2>6 DEF Told, Exhausted
  <2>8. j = 0 \/ In(j, {"own"})
    BY <1>0, <2>1, ReturnLeavesRetry DEF In
  <2>9. ~In(j, {"retry"})
    BY <1>0, <2>8, ChainFacts DEF In
  <2>10. result[s] \in Elsewhere \/ (Told(s)' /\ Exhausted(s)')
    BY <2>2, <2>7 DEF Elsewhere
  <2> QED
    BY <1>0, <2>1, <2>3, <2>5, <2>9, <2>10, LeaveEarns
<1>15. CASE Use
  <2>1. /\ \A s \in Senders : pc[s] = "idle"
        /\ UNCHANGED <<pc, at, result, answers>>
        /\ Attempts' = Attempts /\ config'.autoRetry = config.autoRetry
        /\ config'.maxRetries = config.maxRetries
    BY <1>15, UseFacts DEF Use, Attempts
  <2> QED
    BY <1>0, <2>1 DEF EarnedInv, Earned, Due, Told, Exhausted
<1>16. CASE Guard \/ Tick \/ UNCHANGED vars
  <2>1. UNCHANGED <<config, pc, at, result, answers>>
    BY <1>16 DEF Guard, Tick, vars, sendVars
  <2>2. Chain' = Chain
    BY <2>1, ChainStays
  <2> QED
    BY <2>1, <2>2 DEF EarnedInv, Earned, Due, Attempts, In, Told, Exhausted
<1> QED
  BY <1>1, <1>2, <1>3, <1>4, <1>6, <1>7, <1>8, <1>9, <1>10, <1>11, <1>12, <1>13, <1>14, <1>15,
     <1>16 DEF Next

-----------------------------------------------------------------------------
(* The wire keeps the rate                                                 *)

\* Requests have slots of their own, and so are at least as far apart as those.
LEMMA BackedKeepsRate ==
    ASSUME RateInv, WireInv PROVE WireKeepsRate
<1> USE LimiterAssumption
<1> SUFFICES ASSUME config.autoRateLimit,
                    NEW i \in 1..Len(wire), NEW j \in 1..Len(wire), i < j
             PROVE  wire[j] - wire[i] >= (j - i + 1 - Burst) * Period
  BY DEF WireKeepsRate
<1> DEFINE n == Len(wire)
           m == Len(slots)
<1>1. PICK f, g : Own(f, g)
  BY DEF WireInv, Backed
<1>2. /\ slots \in Seq(Nat) /\ m \in Nat /\ old \in 0..m
      /\ wire \in Seq(Nat) /\ n \in Nat
      /\ \A k, l \in 1..n : k <= l => wire[k] <= wire[l]
  BY DEF RateInv, LimiterTypeOK, WireInv, InTime
<1>3. /\ \A k \in 1..n : f[k] \in (old + 1)..m /\ slots[f[k]] = wire[k]
      /\ \A k, l \in 1..n : f[k] = f[l] => k = l
  BY <1>1 DEF Own, Current
<1> DEFINE S == {f[k] : k \in i..j}
           a == Min(S)
           b == Max(S)
<1>4. i..j \subseteq 1..n /\ i \in i..j /\ i \in Nat /\ j \in Nat
  BY <1>2
<1>5. S \in SUBSET Nat /\ S # {} /\ \A y \in S : y <= m
  <2>1. \A k \in i..j : f[k] \in Nat /\ f[k] <= m
    BY <1>2, <1>3, <1>4
  <2> QED
    BY <1>4, <2>1
<1>6. a \in S /\ b \in S /\ \A y \in S : a <= y /\ y <= b
  BY <1>2, <1>5, HasMin, HasMax
<1> HIDE DEF a, b
<1>7. a \in (old + 1)..m /\ b \in (old + 1)..m /\ a <= b
  BY <1>3, <1>4, <1>6
<1>8. j - i + 1 <= b - a + 1
  <2> DEFINE h == [k \in i..j |-> f[k]]
  <2>1. h \in [i..j -> a..b]
    <3>1. ASSUME NEW k \in i..j PROVE f[k] \in a..b
      <4>1. f[k] \in S /\ f[k] \in Int /\ a \in Int /\ b \in Int
        BY <1>2, <1>5, <1>6
      <4> QED
        BY <1>6, <4>1
    <3> QED
      BY <3>1
  <2>2. \A k, l \in i..j : h[k] = h[l] => k = l
    BY <1>3, <1>4
  <2>3. h \in Injection(i..j, a..b)
    BY <2>1, <2>2 DEF Injection, IsInjective
  <2>4. /\ IsFiniteSet(a..b) /\ Cardinality(a..b) = b - a + 1
        /\ Cardinality(i..j) = j - i + 1
    <3>1. a \in Int /\ b \in Int /\ ~(a > b) /\ i \in Int /\ j \in Int /\ ~(i > j)
      BY <1>2, <1>4, <1>7
    <3> QED
      BY <3>1, FS_Interval
  <2>5. Cardinality(i..j) <= Cardinality(a..b)
    <3> HIDE DEF h
    <3> QED
      BY <2>3, <2>4, FS_Injection
  <2> QED
    BY <2>4, <2>5
<1>9. slots[b] - slots[a] >= (b - a + 1 - Burst) * Period
  <2>1. a < b
    BY <1>2, <1>4, <1>7, <1>8
  <2> QED
    BY <1>7, <2>1 DEF RateInv, LimiterKeepsRate, Apart
<1>10. (b - a + 1 - Burst) * Period >= (j - i + 1 - Burst) * Period
  <2>1. b - a + 1 - Burst \in Int /\ j - i + 1 - Burst \in Int
        /\ b - a + 1 - Burst >= j - i + 1 - Burst
    BY <1>2, <1>4, <1>7, <1>8
  <2>2. ASSUME NEW x \in Int, NEW y \in Int, x >= y PROVE x * Period >= y * Period
    BY <2>2
  <2> QED
    BY <2>1, <2>2
<1>11. slots[a] >= wire[i] /\ slots[b] <= wire[j]
  <2>1. PICK k \in i..j : a = f[k]
    BY <1>6
  <2>2. PICK l \in i..j : b = f[l]
    BY <1>6
  <2> QED
    BY <1>2, <1>3, <1>4, <2>1, <2>2
<1>12. /\ slots[a] \in Int /\ slots[b] \in Int /\ wire[i] \in Int /\ wire[j] \in Int
       /\ (b - a + 1 - Burst) * Period \in Int /\ (j - i + 1 - Burst) * Period \in Int
  <2>1. slots[a] \in Nat /\ slots[b] \in Nat /\ wire[i] \in Nat /\ wire[j] \in Nat
    <3>1. a \in 1..m /\ b \in 1..m
      BY <1>2, <1>7
    <3>2. slots[a] \in Nat /\ slots[b] \in Nat
      <4>1. ASSUME NEW q \in Seq(Nat), NEW k \in 1..Len(q) PROVE q[k] \in Nat
        OBVIOUS
      <4>2. slots \in Seq(Nat)
        BY <1>2
      <4> QED
        BY <3>1, <4>1, <4>2
    <3>3. wire[i] \in Nat /\ wire[j] \in Nat
      BY <1>2
    <3> QED
      BY <3>2, <3>3
  <2>2. b - a + 1 - Burst \in Int /\ j - i + 1 - Burst \in Int
    BY <1>2, <1>4, <1>7
  <2>3. ASSUME NEW x \in Int PROVE x * Period \in Int
    OBVIOUS
  <2> QED
    BY <2>1, <2>2, <2>3
<1> QED
  BY <1>9, <1>10, <1>11, <1>12

\* Nobody new has a slot: everybody keeps what is his.
LEMMA FewerHolders ==
    ASSUME Backed, config'.autoRateLimit = config.autoRateLimit,
           config.autoRateLimit => /\ Holders' \subseteq Holders
                                   /\ \A q \in Holders' : SlotOf(q)' = SlotOf(q),
           UNCHANGED <<wire, slots, old>>
    PROVE  Backed'
<1> SUFFICES ASSUME config.autoRateLimit
             PROVE  \E f \in [1..Len(wire) -> Current], g \in [Holders' -> Current] : Own(f, g)'
  BY DEF Backed, Current
<1>1. PICK f \in [1..Len(wire) -> Current], g \in [Holders -> Current] : Own(f, g)
  BY DEF Backed
<1>2. PICK h \in [Holders' -> Current] : \A q \in Holders' : h[q] = g[q]
  <2> WITNESS [q \in Holders' |-> g[q]] \in [Holders' -> Current]
  <2> QED
    OBVIOUS
<1>3. Own(f, h)'
  BY <1>1, <1>2 DEF Own, Current
<1> QED
  BY <1>2, <1>3

\* s moves while the others stay, and has no slot that it had not.
LEMMA HolderMoves ==
    ASSUME Backed, config' = config, NEW s \in Senders,
           \A q \in Senders \ {s} : pc'[q] = pc[q] /\ at'[q] = at[q] /\ slot'[q] = slot[q],
           UNCHANGED <<wire, slots, old, now>>,
           config.autoRateLimit /\ s \in Holders' => s \in Holders /\ SlotOf(s)' = SlotOf(s)
    PROVE  Backed'
<1>1. Final' = Final
  BY ChainStays
<1>2. \A q \in Senders \ {s} : (q \in Holders' <=> q \in Holders) /\ SlotOf(q)' = SlotOf(q)
  BY <1>1 DEF Holders, AtRequest, SlotOf
<1>3. Holders' \subseteq Senders
  BY DEF Holders
<1> QED
  BY <1>2, <1>3, FewerHolders

\* A reservation gives one sender a time.
LEMMA ReserveMoves ==
    ASSUME RateInv, NEW s \in Senders, Reserve(s)
    PROVE  /\ slot'[s] \in Nat /\ slot'[s] >= now
           /\ \A q \in Senders \ {s} : slot'[q] = slot[q]
<1>1. now \in Nat /\ slot \in [Senders -> Nat \cup {Idle}]
  BY DEF RateInv, LimiterTypeOK
<1>2. CASE TakeToken(s)
  BY <1>1, <1>2 DEF TakeToken
<1>3. CASE TakeSlot(s)
  <2>1. slot' = [slot EXCEPT ![s] = Ready] /\ Filled < Period
    BY <1>3 DEF TakeSlot
  <2>2. Ready \in Nat /\ Ready >= now
    BY <1>1, <2>1, FilledFacts, LimiterAssumption DEF Ready
  <2> QED
    BY <1>1, <2>1, <2>2
<1> QED
  BY <1>2, <1>3 DEF Reserve, ReserveSlot

LEMMA InitWire == Init => WireInv
<1> SUFFICES ASSUME Init PROVE WireInv
  OBVIOUS
<1>1. /\ wire = <<>> /\ slots = <<>> /\ old = 0 /\ Len(wire) = 0
      /\ \A s \in Senders : slot[s] = Idle /\ pc[s] = "idle"
  BY DEF Init, LimiterInit
<1>2. Holders = {}
  BY <1>1 DEF Holders, AtRequest
<1>3. InTime
  BY <1>1 DEF InTime
<1>4. Backed
  <2> DEFINE f == [i \in 1..Len(wire) |-> 1]
             g == [s \in Holders |-> 1]
  <2>1. f \in [1..Len(wire) -> Current] /\ g \in [Holders -> Current]
    BY <1>1, <1>2
  <2>2. Own(f, g)
    BY <1>1, <1>2, <2>1 DEF Own
  <2> QED
    BY <2>1, <2>2 DEF Backed
<1> QED
  BY <1>3, <1>4 DEF WireInv

\* Time stands still or goes on, and the wire with it.
LEMMA StepInTime ==
    ASSUME PlaceInv, RateInv, InTime, [Next]_vars
    PROVE  InTime'
<1> USE LimiterAssumption
<1>0. now \in Nat /\ slot \in [Senders -> Nat \cup {Idle}] /\ wire \in Seq(Nat)
  BY DEF RateInv, LimiterTypeOK, InTime
<1>1. ASSUME UNCHANGED <<wire, now>>,
             \A s \in Senders : slot'[s] # Idle => slot'[s] = slot[s] \/ slot'[s] >= now
      PROVE  InTime'
  <2>1. \A s \in Senders : slot'[s] # Idle => slot'[s] >= now
    BY <1>1 DEF InTime
  <2> QED
    BY <1>1, <2>1 DEF InTime
<1>2. ASSUME NEW s \in Senders, Post(s) PROVE InTime'
  <2>1. wire' = Append(wire, now) /\ now' = now /\ slot' = slot
    BY <1>2 DEF Post, limiterVars
  <2>2. /\ wire' \in Seq(Nat) /\ Len(wire') = Len(wire) + 1 /\ Len(wire) \in Nat
        /\ wire'[Len(wire) + 1] = now
        /\ \A i \in 1..Len(wire) : wire'[i] = wire[i]
    BY <1>0, <2>1
  <2>3. \A i \in 1..Len(wire') : i \in 1..Len(wire) \/ i = Len(wire) + 1
    BY <2>2
  <2>4. \A i \in 1..Len(wire') : wire'[i] <= now'
    BY <1>0, <2>1, <2>2, <2>3 DEF InTime
  <2>5. ASSUME NEW i \in 1..Len(wire'), NEW j \in 1..Len(wire'), i < j
        PROVE  wire'[i] <= wire'[j]
    <3>1. CASE j = Len(wire) + 1
      BY <2>1, <2>2, <2>4, <3>1
    <3>2. CASE j \in 1..Len(wire)
      <4>1. i \in 1..Len(wire)
        BY <2>2, <2>5, <3>2
      <4> QED
        BY <2>2, <2>5, <3>2, <4>1 DEF InTime
    <3> QED
      BY <2>3, <3>1, <3>2
  <2> QED
    BY <2>1, <2>2, <2>4, <2>5 DEF InTime
<1>3. ASSUME NEW s \in Senders, Reserve(s) PROVE InTime'
  <2>1. /\ slot'[s] \in Nat /\ slot'[s] >= now
        /\ \A q \in Senders \ {s} : slot'[q] = slot[q]
    BY <1>3, ReserveMoves
  <2>2. UNCHANGED <<wire, now>>
    BY <1>3 DEF Reserve, ReserveSlot
  <2> QED
    BY <1>1, <2>1, <2>2
<1>4. ASSUME NEW s \in Senders, Proceed(s) \/ SlotCancelled(s) PROVE InTime'
  BY <1>0, <1>1, <1>4 DEF Proceed, SlotCancelled, UseSlot, GiveUp
<1>5. CASE Use
  <2>1. UNCHANGED <<now, slot>> /\ wire' = <<>>
    BY <1>5 DEF Use, Rebuild, limiterVars
  <2> QED
    BY <2>1 DEF InTime
<1>6. CASE Tick
  <2>1. now' = now + 1 /\ UNCHANGED <<slot, wire>>
    BY <1>6 DEF Tick, LimiterTick, sendVars
  <2>2. \A s \in Senders : slot[s] # Idle => slot[s] \in Nat /\ slot[s] > now
    BY <1>0, <1>6 DEF Tick, LimiterTick
  <2>3. \A i \in 1..Len(wire) : wire[i] \in Nat /\ wire[i] <= now
    BY <1>0 DEF InTime
  <2>4. \A i \in 1..Len(wire) : wire[i] <= now + 1
    BY <1>0, <2>3
  <2>5. \A s \in Senders : slot[s] # Idle => slot[s] >= now + 1
    BY <1>0, <2>2
  <2> QED
    BY <2>1, <2>4, <2>5 DEF InTime
<1>7. ASSUME UNCHANGED <<wire, now, slot>> PROVE InTime'
  BY <1>1, <1>7
<1>8. ASSUME NEW s \in Senders,
             \/ SendMessage(s) \/ OwnCalls(s) \/ OwnReturns(s) \/ OwnPanics(s)
             \/ PostPaused(s) \/ Answered(s) \/ NotAnswered(s)
             \/ BackOff(s) \/ RetryReturns(s) \/ TryAgain(s) \/ BackoffCancelled(s)
      PROVE  InTime'
  BY <1>7, <1>8
  DEF SendMessage, OwnCalls, OwnReturns, OwnPanics, PostPaused, Answered, NotAnswered,
      BackOff, RetryReturns, TryAgain, BackoffCancelled, limiterVars
<1>9. CASE Guard \/ UNCHANGED vars
  BY <1>7, <1>9 DEF Guard, vars, sendVars, limiterVars
<1> QED
  BY <1>2, <1>3, <1>4, <1>5, <1>6, <1>8, <1>9 DEF Next

\* Everybody on the wire, or about to be, goes on having a slot.
LEMMA StepBacked ==
    ASSUME PlaceInv, RateInv, WireInv, [Next]_vars
    PROVE  Backed'
<1> USE DEF WireInv
<1>0. /\ pc \in [Senders -> Doings] /\ at \in [Senders -> Nat]
      /\ slot \in [Senders -> Nat \cup {Idle}]
      /\ slots \in Seq(Nat) /\ Len(slots) \in Nat /\ old \in 0..Len(slots)
      /\ wire \in Seq(Nat) /\ Len(wire) \in Nat /\ now \in Nat
      /\ config \in Configs
  BY DEF PlaceInv, RateInv, LimiterTypeOK, InTime
\* Before the limiter nobody comes to the request.
<1>1. ASSUME NEW s \in Senders, NEW i \in 0..Len(Chain), Call(s, i), config' = config,
             config.autoRateLimit => i < Len(Chain),
             UNCHANGED <<limiterVars, wire>>
      PROVE  Backed'
  <2>1. UNCHANGED <<wire, slots, old, now, slot>>
    BY <1>1 DEF limiterVars
  <2>2. \A q \in Senders \ {s} : pc'[q] = pc[q] /\ at'[q] = at[q]
    BY <1>0, <1>1 DEF Call
  <2>3. config.autoRateLimit => s \notin Holders'
    <3>1. pc'[s] = "down" /\ at'[s] = Inward(i) /\ Final' = Final
      BY <1>0, <1>1, ChainStays DEF Call
    <3>2. config.autoRateLimit => Inward(i) # Final
      BY <1>0, <1>1, InwardFacts
    <3> QED
      BY <3>1, <3>2 DEF Holders, AtRequest
  <2> QED
    BY <1>1, <2>1, <2>2, <2>3, HolderMoves
\* Who leaves the chain, or its place in it, needs no slot.
<1>2. ASSUME NEW s \in Senders, config' = config, UNCHANGED <<now, slots, old, wire>>,
             \A q \in Senders \ {s} : pc'[q] = pc[q] /\ at'[q] = at[q] /\ slot'[q] = slot[q],
             pc'[s] \notin {"slot", "down"}
      PROVE  Backed'
  <2>1. s \notin Holders'
    BY <1>2 DEF Holders, AtRequest
  <2> QED
    BY <1>2, <2>1, HolderMoves
<1>3. ASSUME NEW s \in Senders, SendMessage(s) PROVE Backed'
  <2>1. 0 \in 0..Len(Chain) /\ (config.autoRateLimit => 0 < Len(Chain))
    BY <1>0, ChainFacts
  <2> QED
    BY <1>1, <1>3, <2>1 DEF SendMessage
<1>4. ASSUME NEW s \in Senders, OwnCalls(s) PROVE Backed'
  <2>1. at[s] \in 1..Len(Chain) /\ Chain[at[s]] = "own"
    BY <1>4, PlaceFacts DEF OwnCalls, Down
  <2>2. config.autoRateLimit => at[s] < Len(Chain)
    BY <1>0, <2>1, ChainFacts
  <2> QED
    BY <1>1, <1>4, <2>1, <2>2 DEF OwnCalls
<1>5. ASSUME NEW s \in Senders, TryAgain(s) PROVE Backed'
  <2>1. at[s] \in 1..Len(Chain) /\ Chain[at[s]] = "retry"
    BY <1>5 DEF TryAgain, PlaceInv, Placed, PlaceOf, In
  <2>2. config.autoRateLimit => at[s] < Len(Chain)
    BY <1>0, <2>1, ChainFacts
  <2> QED
    BY <1>1, <1>5, <2>1, <2>2 DEF TryAgain
<1>6. ASSUME NEW s \in Senders, NEW i, NEW r, Leave(s, i, r), config' = config,
             UNCHANGED <<now, slots, old, wire>>,
             \A q \in Senders \ {s} : slot'[q] = slot[q]
      PROVE  Backed'
  <2>1. /\ pc'[s] \in {"idle", "up"}
        /\ \A q \in Senders \ {s} : pc'[q] = pc[q] /\ at'[q] = at[q]
    BY <1>0, <1>6 DEF Leave
  <2> QED
    BY <1>2, <1>6, <2>1
<1>7. ASSUME NEW s \in Senders,
             \/ OwnReturns(s) \/ OwnPanics(s) \/ PostPaused(s) \/ Answered(s)
             \/ NotAnswered(s) \/ RetryReturns(s) \/ BackoffCancelled(s)
      PROVE  Backed'
  <2>1. config' = config /\ UNCHANGED <<now, slots, old, slot, wire>>
    BY <1>7 DEF OwnReturns, OwnPanics, PostPaused, Answered, NotAnswered, RetryReturns,
                BackoffCancelled, limiterVars
  <2>2. \E i, r : Leave(s, i, r)
    BY <1>7 DEF OwnReturns, OwnPanics, PostPaused, Answered, NotAnswered, RetryReturns,
                BackoffCancelled
  <2> QED
    BY <1>6, <2>1, <2>2
<1>8. ASSUME NEW s \in Senders, SlotCancelled(s) PROVE Backed'
  <2>1. /\ config' = config /\ UNCHANGED <<now, slots, old, wire>>
        /\ \A q \in Senders \ {s} : slot'[q] = slot[q]
    BY <1>0, <1>8 DEF SlotCancelled, GiveUp, bucketVars
  <2> QED
    BY <1>6, <1>8, <2>1 DEF SlotCancelled
<1>9. ASSUME NEW s \in Senders, BackOff(s) PROVE Backed'
  <2>1. /\ config' = config /\ UNCHANGED <<now, slots, old, slot, wire>>
        /\ pc'[s] = "backoff"
        /\ \A q \in Senders \ {s} : pc'[q] = pc[q] /\ at'[q] = at[q]
    BY <1>0, <1>9 DEF BackOff, Goto, limiterVars
  <2> QED
    BY <1>2, <2>1
\* The slot of s has come, and s may post: it has the same slot.
<1>10. ASSUME NEW s \in Senders, Proceed(s) PROVE Backed'
  <2>1. /\ config' = config /\ UNCHANGED <<now, slots, old, wire>>
        /\ pc[s] = "slot" /\ slot[s] # Idle /\ slot[s] <= now /\ pc'[s] = "down"
        /\ \A q \in Senders \ {s} : pc'[q] = pc[q] /\ at'[q] = at[q] /\ slot'[q] = slot[q]
    BY <1>0, <1>10 DEF Proceed, UseSlot, Call
  <2>2. slot[s] = now
    BY <1>0, <2>1 DEF InTime
  <2>3. s \in Holders /\ SlotOf(s) = now
    BY <2>1, <2>2 DEF Holders, SlotOf
  <2>4. SlotOf(s)' = now
    BY <2>1 DEF SlotOf
  <2> QED
    BY <2>1, <2>3, <2>4, HolderMoves
<1>11. CASE Guard \/ UNCHANGED vars
  <2>1. UNCHANGED <<config, pc, at, slot, slots, old, wire, now>>
    BY <1>11 DEF Guard, vars, sendVars, limiterVars
  <2>2. Final' = Final
    BY <2>1, ChainStays
  <2>3. Holders' = Holders /\ \A q \in Holders' : SlotOf(q)' = SlotOf(q)
    BY <2>1, <2>2 DEF Holders, AtRequest, SlotOf
  <2> QED
    BY <2>1, <2>3, FewerHolders
\* Time does not pass while somebody is about to post.
<1>12. CASE Tick
  <2>1. UNCHANGED <<config, pc, at, slot, slots, old, wire>>
    BY <1>12 DEF Tick, LimiterTick, sendVars
  <2>2. \A q \in Senders : pc[q] # "down"
    BY <1>12 DEF Tick
  <2>3. Holders' = Holders /\ \A q \in Holders' : SlotOf(q)' = SlotOf(q)
    BY <2>1, <2>2 DEF Holders, AtRequest, SlotOf
  <2> QED
    BY <2>1, <2>3, FewerHolders
\* A reservation is a slot of its own.
<1>13. ASSUME NEW s \in Senders, Reserve(s) PROVE Backed'
  <2>1. /\ config' = config /\ UNCHANGED <<now, old, wire>>
        /\ pc'[s] = "slot" /\ at' = at
        /\ \A q \in Senders \ {s} : pc'[q] = pc[q]
        /\ slots' = Append(slots, slot'[s])
    BY <1>0, <1>13 DEF Reserve, ReserveSlot, Goto
  <2>2. slot'[s] \in Nat /\ \A q \in Senders \ {s} : slot'[q] = slot[q]
    BY <1>13, ReserveMoves
  <2>3. pc[s] = "down" /\ at[s] # Final /\ Final' = Final
    BY <1>0, <1>13, ChainStays, PlaceFacts DEF Reserve, Down
  <2>4. SUFFICES ASSUME config.autoRateLimit
                 PROVE  \E f \in [1..Len(wire') -> Current'], g \in [Holders' -> Current'] :
                           Own(f, g)'
    BY <2>1 DEF Backed
  <2>5. PICK f \in [1..Len(wire) -> Current], g \in [Holders -> Current] : Own(f, g)
    BY <2>4 DEF Backed
  <2>6. /\ Len(slots') = Len(slots) + 1 /\ slots'[Len(slots) + 1] = slot'[s]
        /\ \A i \in 1..Len(slots) : slots'[i] = slots[i]
    BY <1>0, <2>1, <2>2
  <2>7. /\ Current' = Current \cup {Len(slots) + 1} /\ Len(slots) + 1 \notin Current
        /\ Current \subseteq 1..Len(slots)
    BY <1>0, <2>1, <2>6 DEF Current
  <2>8. Holders' = Holders \cup {s} /\ s \notin Holders
    BY <2>1, <2>3 DEF Holders, AtRequest
  <2>9. SlotOf(s)' = slot'[s] /\ \A q \in Holders : SlotOf(q)' = SlotOf(q)
    BY <2>1, <2>2, <2>8 DEF SlotOf, Holders
  <2>10. PICK h \in [Holders' -> Current'] :
            h[s] = Len(slots) + 1 /\ \A q \in Holders : h[q] = g[q]
    <3> DEFINE d == [q \in Holders' |-> IF q = s THEN Len(slots) + 1 ELSE g[q]]
    <3>1. d \in [Holders' -> Current']
      BY <2>7, <2>8
    <3>2. d[s] = Len(slots) + 1 /\ \A q \in Holders : d[q] = g[q]
      BY <2>8
    <3> HIDE DEF d
    <3> QED
      BY <3>1, <3>2
  <2>11. /\ f \in [1..Len(wire) -> Current']
         /\ \A q \in Holders : g[q] \in Current
         /\ \A i \in 1..Len(wire) : f[i] \in Current
    BY <2>7
  <2>12. Own(f, h)'
    <3>1. \A i \in 1..Len(wire) : slots'[f[i]] = wire[i]
      BY <2>5, <2>6, <2>7, <2>11 DEF Own
    <3>2. ASSUME NEW q \in Holders' PROVE slots'[h[q]] = SlotOf(q)'
      <4>1. CASE q = s
        BY <2>6, <2>9, <2>10, <4>1
      <4>2. CASE q \in Holders
        <5>1. slots[g[q]] = SlotOf(q) /\ g[q] \in 1..Len(slots) /\ h[q] = g[q]
          BY <2>5, <2>7, <2>10, <2>11, <4>2 DEF Own
        <5> QED
          BY <2>6, <2>9, <4>2, <5>1
      <4> QED
        BY <2>8, <4>1, <4>2
    <3>3. \A q, r \in Holders' : h[q] = h[r] => q = r
      BY <2>5, <2>7, <2>8, <2>10, <2>11 DEF Own
    <3>4. \A i \in 1..Len(wire), q \in Holders' : f[i] # h[q]
      BY <2>5, <2>7, <2>8, <2>10, <2>11 DEF Own
    <3>5. \A i, j \in 1..Len(wire) : f[i] = f[j] => i = j
      BY <2>5 DEF Own
    <3> QED
      BY <2>1, <2>10, <2>11, <3>1, <3>2, <3>3, <3>4, <3>5 DEF Own
  <2> QED
    BY <2>1, <2>10, <2>11, <2>12
\* The slot goes with the request.
<1>14. ASSUME NEW s \in Senders, Post(s) PROVE Backed'
  <2>1. /\ config' = config /\ UNCHANGED <<now, slot, slots, old>>
        /\ wire' = Append(wire, now) /\ pc'[s] = "flying" /\ at' = at
        /\ \A q \in Senders \ {s} : pc'[q] = pc[q]
        /\ AtRequest(s)
    BY <1>0, <1>14 DEF Post, Goto, limiterVars
  <2>2. Final' = Final /\ Current' = Current
    BY <2>1, ChainStays DEF Current
  <2>3. SUFFICES ASSUME config.autoRateLimit
                 PROVE  \E f \in [1..Len(wire') -> Current'], g \in [Holders' -> Current'] :
                           Own(f, g)'
    BY <2>1 DEF Backed
  <2>4. PICK f \in [1..Len(wire) -> Current], g \in [Holders -> Current] : Own(f, g)
    BY <2>3 DEF Backed
  <2> DEFINE n == Len(wire)
  <2>5. /\ Len(wire') = n + 1 /\ wire'[n + 1] = now /\ n + 1 \notin 1..n
        /\ \A i \in 1..n : wire'[i] = wire[i]
        /\ 1..Len(wire') = (1..n) \cup {n + 1}
    BY <1>0, <2>1
  <2>6. Holders' = Holders \ {s} /\ s \in Holders
    BY <2>1, <2>2 DEF Holders, AtRequest
  <2>7. SlotOf(s) = now /\ \A q \in Holders' : SlotOf(q)' = SlotOf(q)
    BY <2>1, <2>6 DEF SlotOf, Holders, AtRequest
  <2>8. PICK e \in [1..Len(wire') -> Current'] : e[n + 1] = g[s] /\ \A i \in 1..n : e[i] = f[i]
    <3> DEFINE d == [i \in 1..Len(wire') |-> IF i = n + 1 THEN g[s] ELSE f[i]]
    <3>1. d \in [1..Len(wire') -> Current']
      BY <2>2, <2>5, <2>6
    <3>2. d[n + 1] = g[s] /\ \A i \in 1..n : d[i] = f[i]
      BY <2>5
    <3> HIDE DEF d
    <3> QED
      BY <3>1, <3>2
  <2>9. PICK h \in [Holders' -> Current'] : \A q \in Holders' : h[q] = g[q]
    <3> DEFINE d == [q \in Holders' |-> g[q]]
    <3>1. d \in [Holders' -> Current'] /\ \A q \in Holders' : d[q] = g[q]
      BY <2>2, <2>6
    <3> HIDE DEF d
    <3> QED
      BY <3>1
  <2> HIDE DEF n
  <2>10. Own(e, h)'
    <3>1. \A i \in 1..Len(wire') : slots[e[i]] = wire'[i]
      BY <2>4, <2>5, <2>6, <2>7, <2>8 DEF Own, n
    <3>2. \A q \in Holders' : slots[h[q]] = SlotOf(q)'
      BY <2>4, <2>6, <2>7, <2>9 DEF Own
    <3>3. \A i, j \in 1..Len(wire') : e[i] = e[j] => i = j
      BY <2>4, <2>5, <2>6, <2>8, <2>9 DEF Own, n
    <3>4. \A q, r \in Holders' : h[q] = h[r] => q = r
      BY <2>4, <2>6, <2>9 DEF Own
    <3>5. \A i \in 1..Len(wire'), q \in Holders' : e[i] # h[q]
      BY <2>4, <2>5, <2>6, <2>8, <2>9 DEF Own, n
    <3> QED
      BY <2>1, <2>8, <3>1, <3>2, <3>3, <3>4, <3>5 DEF Own
  <2> QED
    BY <2>10
\* A new chain has nobody in it, and a new limiter has given no slot.
<1>15. CASE Use
  <2>1. /\ \A s \in Senders : pc[s] = "idle"
        /\ pc' = pc /\ wire' = <<>> /\ Len(wire') = 0 /\ slots' = slots
        /\ config'.autoRateLimit = config.autoRateLimit
    BY <1>15, UseFacts DEF Use, Rebuild, limiterVars
  <2>2. Holders' = {}
    BY <2>1 DEF Holders, AtRequest
  <2>3. 1..Len(wire') = {}
    BY <2>1
  <2>4. PICK f \in [{} -> Current'] : TRUE
    <3>1. [x \in {} |-> 1] \in [{} -> Current']
      OBVIOUS
    <3> QED
      BY <3>1
  <2>5. Own(f, f)'
    BY <2>2, <2>3, <2>4 DEF Own
  <2> QED
    BY <2>2, <2>3, <2>4, <2>5 DEF Backed
<1> QED
  BY <1>3, <1>4, <1>5, <1>7, <1>8, <1>9, <1>10, <1>11, <1>12, <1>13, <1>14, <1>15 DEF Next

-----------------------------------------------------------------------------
(* The pipeline's theorems                                                 *)

PipelineInv == RateInv /\ PlaceInv /\ EarnedInv /\ WireInv

LEMMA PipelineInvariance == Spec => []PipelineInv
<1>1. Init => PipelineInv
  BY InitRate, InitPlace, InitEarned, InitWire DEF PipelineInv, Init
<1>2. PipelineInv /\ [Next]_vars => PipelineInv'
  <2> SUFFICES ASSUME PipelineInv, [Next]_vars PROVE PipelineInv'
    OBVIOUS
  <2>1. RateInv'
    BY StepOfLimiter, StepRate DEF PipelineInv
  <2>2. PlaceInv' /\ EarnedInv'
    BY StepPlace, StepEarned DEF PipelineInv
  <2>3. WireInv'
    BY StepInTime, StepBacked DEF PipelineInv, WireInv
  <2> QED
    BY <2>1, <2>2, <2>3 DEF PipelineInv
<1> QED
  BY <1>1, <1>2, PTL DEF Spec

\* Requests leave at the configured rate, whatever the program's middleware
\* does, however often the retries try again and whoever gives up a slot: the
\* limiter is inside the retries (buildMiddleware), so each attempt waits for
\* a slot of its own.
THEOREM WireRate == Spec => []WireKeepsRate
<1>1. PipelineInv => WireKeepsRate
  BY BackedKeepsRate DEF PipelineInv
<1> QED
  BY <1>1, PipelineInvariance, PTL

\* Only failures that another attempt may mend are followed by one, at most
\* maxRetries attempts are made, and what the caller is told is how the last
\* one went, once no attempt is left.
THEOREM AttemptsEarned == Spec => []RetriesAreEarned
<1>1. PipelineInv => RetriesAreEarned
  BY DEF PipelineInv, EarnedInv, Earned, RetriesAreEarned, Told, Exhausted, Elsewhere, Attempts
<1> QED
  BY <1>1, PipelineInvariance, PTL
=============================================================================
