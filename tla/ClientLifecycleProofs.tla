----------------------- MODULE ClientLifecycleProofs ------------------------
(***************************************************************************)
(* Theorems about ClientLifecycle, for any number of goroutines that call  *)
(* Run and Close: one owner of the message loop at a time, no owner and no *)
(* event handler once Close has returned, and no Close that waits for a    *)
(* channel nobody will close.                                              *)
(***************************************************************************)
EXTENDS ClientLifecycle, TLAPS

\* Every run has a channel of its own; a channel is closed when and only when
\* its run has come to its end.
ChannelInv ==
    /\ signalled \subseteq 1..runs
    /\ \A r \in Runners : InFlight(r) => myRun[r] \in (1..runs) \ signalled
    /\ \A r, s \in Runners :
          InFlight(r) /\ InFlight(s) /\ myRun[r] = myRun[s] => r = s
    /\ \A k \in (1..runs) \ signalled :
          \E r \in Runners : InFlight(r) /\ myRun[r] = k

Closing(c) == cpc[c] \in {"marked", "waiting", "draining"}

\* closeOnce admits one closer, and each of its phases knows what may run.
CloseInv ==
    /\ closed <=> (once # "new")
    /\ \A c \in Closers : Closing(c) => once = "busy"
    /\ \A c \in Closers : cpc[c] = "returned" => once = "done"
    /\ \A c, d \in Closers : Closing(c) /\ Closing(d) => c = d
    /\ \A c \in Closers : waitOn[c] \in (1..runs) \cup {NoRun}

\* What the one closer has excluded so far.
ExclusionInv ==
    /\ \A c \in Closers, r \in Runners :
          cpc[c] = "waiting" /\ Owns(r) => myRun[r] = waitOn[c]
    /\ \A c \in Closers, r \in Runners : cpc[c] = "draining" => ~Owns(r)
    /\ \A r \in Runners : once = "done" => ~Owns(r)

\* The dispatcher follows the closer, and is quiet once closed.
PhaseInv ==
    /\ once = "done" => phase = "closed"
    /\ phase = "closed" => busy = {}

\* A message is being handled only while the batch is not empty.
BatchInv == \A r \in Runners : pc[r] = "handling" => batch[r] > 0

IInv ==
    /\ TypeOK /\ BatchInv
    /\ SingleRun /\ ChannelInv /\ CloseInv /\ ExclusionInv /\ PhaseInv

-----------------------------------------------------------------------------
(* The steps of Run inside the part that owns the client                   *)

Inside == RunStates \ {"out", "enter", "left", "signalling"}

\* r goes from one state of that part to another; it may dispatch an event.
Moves(r) ==
    /\ pc[r] \in Inside
    /\ pc' \in {[pc EXCEPT ![r] = s] : s \in Inside}
    /\ connected' \in [Runners -> BOOLEAN]
    /\ batch' \in [Runners -> Nat]
    /\ BatchInv'
    /\ phase' = phase
    /\ \/ busy' = busy
       \/ phase = "open" /\ busy' = busy \cup {r}
    /\ UNCHANGED <<runVars, calls, myRun, cancelled, closeVars, told>>

LEMMA DispatchKeepsPhase ==
  ASSUME NEW r \in Runners, Dispatch(r)
  PROVE  /\ phase' = phase
         /\ busy' = busy \/ (phase = "open" /\ busy' = busy \cup {r})
  BY DEF Dispatch, Events!Accept, Events!Refuse, Events!specVars

LEMMA InsideSteps ==
  ASSUME TypeOK, BatchInv, NEW r \in Runners,
         \/ LoggedIn(r) \/ SetupFails(r) \/ Connect(r) \/ LoopStops(r)
         \/ LoopPolls(r) \/ LoopExpired(r) \/ PollEmpty(r) \/ PollMessages(r)
         \/ PollCancelled(r) \/ PollExpired(r) \/ PollFails(r)
         \/ HandlerReturns(r) \/ BackoffEnds(r) \/ BackoffCancelled(r)
         \/ ReloginSucceeds(r) \/ ReloginFails(r)
  PROVE  Moves(r)
<1> USE DEF Moves, BatchInv, Inside, RunStates, Goto, localVars, closeVars, eventVars
<1>1. CASE LoggedIn(r) \/ SetupFails(r) \/ LoopStops(r) \/ LoopPolls(r)
  BY <1>1, DispatchKeepsPhase
  DEF LoggedIn, SetupFails, LoopStops, LoopPolls, TypeOK
<1>2. CASE Connect(r) \/ LoopExpired(r) \/ PollFails(r)
  BY <1>2, DispatchKeepsPhase DEF Connect, LoopExpired, PollFails, TypeOK
<1>3. CASE \/ PollEmpty(r) \/ PollCancelled(r) \/ PollExpired(r)
           \/ BackoffEnds(r) \/ BackoffCancelled(r) \/ ReloginFails(r)
  BY <1>3
  DEF PollEmpty, PollCancelled, PollExpired, BackoffEnds, BackoffCancelled,
      ReloginFails, TypeOK
<1>4. CASE ReloginSucceeds(r)
  BY <1>4, DispatchKeepsPhase DEF ReloginSucceeds, TypeOK
<1>5. CASE PollMessages(r)
  <2>1. PICK n \in 1..MaxBatch : batch' = [batch EXCEPT ![r] = n]
    BY <1>5 DEF PollMessages
  <2>2. n \in Nat /\ n > 0
    BY LifecycleAssumption
  <2>3. /\ pc[r] = "polling" /\ pc' = [pc EXCEPT ![r] = "handling"]
        /\ Dispatch(r)
        /\ UNCHANGED <<runVars, calls, myRun, connected, cancelled, closeVars, told>>
    BY <1>5 DEF PollMessages
  <2>4. batch' \in [Runners -> Nat] /\ BatchInv'
    BY <2>1, <2>2, <2>3 DEF TypeOK
  <2> QED
    BY <2>3, <2>4, DispatchKeepsPhase DEF TypeOK
<1>6. CASE HandlerReturns(r)
  <2>1. batch' = [batch EXCEPT ![r] = @ - 1] /\ pc[r] = "handling"
    BY <1>6 DEF HandlerReturns
  <2>2. batch[r] - 1 \in Nat /\ batch' \in [Runners -> Nat]
    BY <2>1 DEF TypeOK
  <2>3. CASE batch[r] > 1
    BY <1>6, <2>1, <2>2, <2>3, DispatchKeepsPhase DEF HandlerReturns, TypeOK
  <2>4. CASE ~(batch[r] > 1)
    BY <1>6, <2>1, <2>2, <2>4 DEF HandlerReturns, TypeOK
  <2> QED
    BY <2>3, <2>4
<1> QED
  BY <1>1, <1>2, <1>3, <1>4, <1>5, <1>6

-----------------------------------------------------------------------------
(* The steps of the specification, as the proofs below distinguish them    *)

Steps ==
    \/ \E r \in Runners :
          \/ Moves(r) \/ RunCall(r) \/ RunRefused(r) \/ RunTakes(r) \/ Leave(r)
          \/ Disconnect(r) \/ RunReturns(r) \/ Cancel(r) \/ HandlersDone(r)
    \/ \E c \in Closers :
          \/ CloseBegins(c) \/ CloseAgain(c) \/ CloseStops(c) \/ CloseEvents(c)
          \/ CloseReturns(c)
    \/ UNCHANGED vars

LEMMA NextSteps ==
  ASSUME TypeOK, BatchInv, [Next]_vars
  PROVE  Steps
  BY InsideSteps DEF Next, RunStep, LoginStep, CloseStep, RunRejected, Steps

\* A run that has not signalled knows its channel.
LEMMA ChannelOfRun ==
  ASSUME TypeOK, ChannelInv, NEW r \in Runners, InFlight(r)
  PROVE  /\ myRun[r] \in 1..runs
         /\ myRun[r] \in Channels
         /\ myRun[r] # NoRun
  BY LifecycleAssumption DEF ChannelInv, TypeOK, Channels

LEMMA TypeOKStep ==
  ASSUME TypeOK, BatchInv, ChannelInv, Steps
  PROVE  TypeOK'
<1>1. ASSUME NEW r \in Runners, Moves(r)
      PROVE  TypeOK'
  BY <1>1 DEF Moves, Inside, TypeOK, Events!SpecTypeOK, runVars, closeVars
<1>2. ASSUME NEW r \in Runners, RunCall(r)
      PROVE  TypeOK'
  BY <1>2
  DEF RunCall, Goto, TypeOK, RunStates, runVars, localVars, closeVars, eventVars,
      Events!SpecTypeOK
<1>3. ASSUME NEW r \in Runners, RunRefused(r)
      PROVE  TypeOK'
  BY <1>3
  DEF RunRefused, Goto, TypeOK, RunStates, runVars, localVars, closeVars, eventVars,
      Events!SpecTypeOK
<1>4. ASSUME NEW r \in Runners, RunTakes(r)
      PROVE  TypeOK'
  BY <1>4 DEF RunTakes, Goto, TypeOK, RunStates, Channels, closeVars, eventVars,
           Events!SpecTypeOK
<1>5. ASSUME NEW r \in Runners, Leave(r)
      PROVE  TypeOK'
  BY <1>5
  DEF Leave, Goto, TypeOK, RunStates, runVars, localVars, closeVars, eventVars,
      Events!SpecTypeOK
<1>6. ASSUME NEW r \in Runners, Disconnect(r)
      PROVE  TypeOK'
  <2>1. pc[r] = "left" /\ pc' = [pc EXCEPT ![r] = "signalling"]
    BY <1>6 DEF Disconnect, Goto
  <2>2. phase' = phase /\ busy' \subseteq Runners
    BY <1>6, DispatchKeepsPhase
    DEF Disconnect, eventVars, TypeOK, Events!SpecTypeOK
  <2>3. told' \subseteq Channels
    BY <1>6, <2>1, ChannelOfRun DEF Disconnect, InFlight, RunStates, TypeOK
  <2> QED
    BY <1>6, <2>1, <2>2, <2>3
    DEF Disconnect, TypeOK, RunStates, runVars, localVars, closeVars,
        Events!SpecTypeOK
<1>7. ASSUME NEW r \in Runners, RunReturns(r)
      PROVE  TypeOK'
  <2>1. signalled' \subseteq Channels
    BY <1>7, ChannelOfRun
    DEF RunReturns, Goto, Channel, InFlight, RunStates, TypeOK
  <2> QED
    BY <1>7, <2>1
    DEF RunReturns, Goto, TypeOK, RunStates, localVars, closeVars, eventVars,
        Events!SpecTypeOK
<1>8. ASSUME NEW r \in Runners, Cancel(r)
      PROVE  TypeOK'
  BY <1>8
  DEF Cancel, Goto, TypeOK, RunStates, runVars, localVars, closeVars, eventVars,
      Events!SpecTypeOK
<1>9. ASSUME NEW r \in Runners, HandlersDone(r)
      PROVE  TypeOK'
  <2>1. phase' = phase /\ busy' = busy \ {r}
    BY <1>9 DEF HandlersDone, Events!Drain
  <2> QED
    BY <1>9, <2>1
    DEF HandlersDone, TypeOK, runVars, localVars, closeVars, Events!SpecTypeOK
<1>10. ASSUME NEW c \in Closers, CloseStops(c)
      PROVE  TypeOK'
  <2>1. waitOn' \in [Closers -> Channels \cup {NoRun}]
    BY <1>10 DEF CloseStops, TypeOK
  <2> QED
    BY <1>10, <2>1
    DEF CloseStops, GotoC, TypeOK, localVars, eventVars, Events!SpecTypeOK
<1>11. ASSUME NEW c \in Closers,
             \/ CloseBegins(c) \/ CloseAgain(c) \/ CloseEvents(c)
             \/ CloseReturns(c)
      PROVE  TypeOK'
  BY <1>11
  DEF CloseBegins, CloseAgain, CloseEvents, CloseReturns, TypeOK, Goto, GotoC,
      RunStates, runVars, localVars, closeVars, eventVars, Events!Accept,
      Events!Drain, Events!Refuse, Events!specVars, Events!BeginClose,
      Events!EndClose, Events!SpecTypeOK
<1>12. CASE UNCHANGED vars
  BY <1>12 DEF vars, TypeOK, Goto, GotoC, RunStates, runVars, localVars, closeVars, eventVars, Events!Accept, Events!Drain, Events!Refuse, Events!specVars, Events!BeginClose, Events!EndClose, Events!SpecTypeOK
<1> QED
  BY <1>1, <1>2, <1>3, <1>4, <1>5, <1>6, <1>7, <1>8, <1>9, <1>10, <1>11, <1>12 DEF Steps

LEMMA BatchInvStep ==
  ASSUME TypeOK, BatchInv, Steps
  PROVE  BatchInv'
<1>1. ASSUME NEW r \in Runners, Moves(r)
      PROVE  BatchInv'
  BY <1>1 DEF Moves
<1>2. ASSUME NEW r \in Runners,
             \/ RunCall(r) \/ RunRefused(r) \/ RunTakes(r) \/ Leave(r)
             \/ Disconnect(r) \/ RunReturns(r) \/ Cancel(r)
             \/ HandlersDone(r)
      PROVE  BatchInv'
  BY <1>2
  DEF RunCall, RunRefused, RunTakes, Leave, Disconnect, RunReturns, Cancel,
      HandlersDone, BatchInv, TypeOK, Goto, runVars, localVars, closeVars,
      eventVars
<1>3. ASSUME NEW c \in Closers,
             \/ CloseBegins(c) \/ CloseAgain(c) \/ CloseStops(c)
             \/ CloseEvents(c) \/ CloseReturns(c)
      PROVE  BatchInv'
  BY <1>3
  DEF CloseBegins, CloseAgain, CloseStops, CloseEvents, CloseReturns,
      BatchInv, TypeOK, Goto, runVars, localVars, closeVars, eventVars
<1>4. CASE UNCHANGED vars
  BY <1>4 DEF vars, BatchInv, TypeOK, Goto, runVars, localVars, closeVars, eventVars
<1> QED
  BY <1>1, <1>2, <1>3, <1>4 DEF Steps

LEMMA SingleRunStep ==
  ASSUME TypeOK, SingleRun, Steps
  PROVE  SingleRun'
<1>1. ASSUME NEW r \in Runners, Moves(r)
      PROVE  SingleRun'
  <2>1. Owns(r) /\ \A s \in Runners : Owns(s)' <=> Owns(s)
    BY <1>1 DEF Moves, Inside, Owns, RunStates, TypeOK
  <2>2. UNCHANGED <<running, runDone, myRun>>
    BY <1>1 DEF Moves, runVars
  <2> QED
    BY <2>1, <2>2 DEF SingleRun
<1>2. ASSUME NEW r \in Runners, RunTakes(r)
      PROVE  SingleRun'
  <2>1. \A s \in Runners : ~Owns(s)
    BY <1>2 DEF RunTakes, MayRun, SingleRun
  <2>2. \A s \in Runners : Owns(s)' <=> s = r
    BY <1>2, <2>1 DEF RunTakes, Goto, Owns, RunStates, TypeOK
  <2>3. running' = TRUE /\ runDone' = runs + 1 /\ myRun'[r] = runs + 1
    BY <1>2 DEF RunTakes, TypeOK
  <2> QED
    BY <2>2, <2>3 DEF SingleRun
<1>3. ASSUME NEW r \in Runners, Leave(r)
      PROVE  SingleRun'
  <2>1. Owns(r) /\ \A s \in Runners : Owns(s)' <=> (Owns(s) /\ s # r)
    BY <1>3 DEF Leave, Goto, Owns, RunStates, TypeOK
  <2>2. \A s \in Runners : ~Owns(s)'
    BY <2>1 DEF SingleRun
  <2> QED
    BY <1>3, <2>2 DEF Leave, SingleRun
<1>4. ASSUME NEW r \in Runners,
             \/ RunCall(r) \/ RunRefused(r) \/ Disconnect(r)
             \/ RunReturns(r) \/ Cancel(r) \/ HandlersDone(r)
      PROVE  SingleRun'
  BY <1>4
  DEF RunCall, RunRefused, Disconnect, RunReturns, Cancel, HandlersDone,
      SingleRun, Owns, TypeOK, RunStates, Goto, runVars, localVars, closeVars,
      eventVars
<1>5. ASSUME NEW c \in Closers,
             \/ CloseBegins(c) \/ CloseAgain(c) \/ CloseStops(c)
             \/ CloseEvents(c) \/ CloseReturns(c)
      PROVE  SingleRun'
  BY <1>5
  DEF CloseBegins, CloseAgain, CloseStops, CloseEvents, CloseReturns,
      SingleRun, Owns, TypeOK, RunStates, Goto, runVars, localVars, closeVars,
      eventVars
<1>6. CASE UNCHANGED vars
  BY <1>6 DEF vars, SingleRun, Owns, TypeOK, RunStates, Goto, runVars, localVars, closeVars, eventVars
<1> QED
  BY <1>1, <1>2, <1>3, <1>4, <1>5, <1>6 DEF Steps

LEMMA ChannelInvStep ==
  ASSUME TypeOK, ChannelInv, Steps
  PROVE  ChannelInv'
<1>1. ASSUME NEW r \in Runners, Moves(r)
      PROVE  ChannelInv'
  <2>1. \A s \in Runners : InFlight(s)' <=> InFlight(s)
    BY <1>1 DEF Moves, Inside, InFlight, RunStates, TypeOK
  <2>2. UNCHANGED <<runs, signalled, myRun>>
    BY <1>1 DEF Moves, runVars
  <2> QED
    BY <2>1, <2>2 DEF ChannelInv
<1>2. ASSUME NEW r \in Runners, RunCall(r)
      PROVE  ChannelInv'
  <2>1. \A s \in Runners : InFlight(s)' <=> InFlight(s)
    BY <1>2 DEF RunCall, Goto, InFlight, RunStates, TypeOK
  <2>2. UNCHANGED <<runs, signalled, myRun>>
    BY <1>2 DEF RunCall, runVars, localVars
  <2> QED
    BY <2>1, <2>2 DEF ChannelInv
<1>3. ASSUME NEW r \in Runners, RunRefused(r)
      PROVE  ChannelInv'
  <2>1. \A s \in Runners : InFlight(s)' <=> InFlight(s)
    BY <1>3 DEF RunRefused, Goto, InFlight, RunStates, TypeOK
  <2>2. UNCHANGED <<runs, signalled, myRun>>
    BY <1>3 DEF RunRefused, runVars, localVars
  <2> QED
    BY <2>1, <2>2 DEF ChannelInv
<1>4. ASSUME NEW r \in Runners, RunTakes(r)
      PROVE  ChannelInv'
  <2>1. /\ runs' = runs + 1 /\ signalled' = signalled
        /\ myRun' = [myRun EXCEPT ![r] = runs + 1]
    BY <1>4 DEF RunTakes
  <2>2. \A s \in Runners : InFlight(s)' <=> (InFlight(s) \/ s = r)
    BY <1>4 DEF RunTakes, Goto, InFlight, RunStates, TypeOK
  <2>3. ~InFlight(r)
    BY <1>4 DEF RunTakes, Goto, InFlight, RunStates
  <2>4. /\ runs \in Nat
        /\ \A s \in Runners : myRun'[s] = IF s = r THEN runs + 1 ELSE myRun[s]
    BY <2>1 DEF TypeOK
  <2>5. \A k \in (1..runs') \ signalled' :
           \E s \in Runners : InFlight(s)' /\ myRun'[s] = k
    <3> SUFFICES ASSUME NEW k \in (1..runs') \ signalled'
                 PROVE  \E s \in Runners : InFlight(s)' /\ myRun'[s] = k
      OBVIOUS
    <3>1. CASE k = runs + 1
      BY <2>2, <2>4, <3>1
    <3>2. CASE k # runs + 1
      <4>1. k \in (1..runs) \ signalled
        BY <2>1, <2>4, <3>2
      <4>2. PICK s \in Runners : InFlight(s) /\ myRun[s] = k
        BY <4>1 DEF ChannelInv
      <4> QED
        BY <2>2, <2>3, <2>4, <4>2
    <3> QED
      BY <3>1, <3>2
  <2> QED
    BY <2>1, <2>2, <2>3, <2>4, <2>5 DEF ChannelInv
<1>5. ASSUME NEW r \in Runners, Leave(r)
      PROVE  ChannelInv'
  <2>1. \A s \in Runners : InFlight(s)' <=> InFlight(s)
    BY <1>5 DEF Leave, Goto, InFlight, RunStates, TypeOK
  <2>2. UNCHANGED <<runs, signalled, myRun>>
    BY <1>5 DEF Leave, runVars, localVars
  <2> QED
    BY <2>1, <2>2 DEF ChannelInv
<1>6. ASSUME NEW r \in Runners, Disconnect(r)
      PROVE  ChannelInv'
  <2>1. \A s \in Runners : InFlight(s)' <=> InFlight(s)
    BY <1>6 DEF Disconnect, Goto, InFlight, RunStates, TypeOK
  <2>2. UNCHANGED <<runs, signalled, myRun>>
    BY <1>6 DEF Disconnect, runVars, localVars
  <2> QED
    BY <2>1, <2>2 DEF ChannelInv
<1>7. ASSUME NEW r \in Runners, RunReturns(r)
      PROVE  ChannelInv'
  <2>1. UNCHANGED <<runs, myRun>> /\ signalled' = signalled \cup {myRun[r]}
    BY <1>7 DEF RunReturns, Channel, localVars
  <2>2. InFlight(r) /\ \A s \in Runners : InFlight(s)' <=> (InFlight(s) /\ s # r)
    BY <1>7 DEF RunReturns, Goto, InFlight, RunStates, TypeOK
  <2> QED
    BY <2>1, <2>2 DEF ChannelInv
<1>8. ASSUME NEW r \in Runners, Cancel(r)
      PROVE  ChannelInv'
  <2>1. UNCHANGED <<pc, runs, signalled, myRun>>
    BY <1>8 DEF Cancel, runVars, localVars
  <2> QED
    BY <2>1 DEF ChannelInv, InFlight
<1>9. ASSUME NEW r \in Runners, HandlersDone(r)
      PROVE  ChannelInv'
  <2>1. UNCHANGED <<pc, runs, signalled, myRun>>
    BY <1>9 DEF HandlersDone, runVars, localVars
  <2> QED
    BY <2>1 DEF ChannelInv, InFlight
<1>10. ASSUME NEW c \in Closers, CloseBegins(c)
      PROVE  ChannelInv'
  <2>1. UNCHANGED <<pc, runs, signalled, myRun>>
    BY <1>10 DEF CloseBegins, runVars, localVars
  <2> QED
    BY <2>1 DEF ChannelInv, InFlight
<1>11. ASSUME NEW c \in Closers, CloseAgain(c)
      PROVE  ChannelInv'
  <2>1. UNCHANGED <<pc, runs, signalled, myRun>>
    BY <1>11 DEF CloseAgain, runVars, localVars
  <2> QED
    BY <2>1 DEF ChannelInv, InFlight
<1>12. ASSUME NEW c \in Closers, CloseStops(c)
      PROVE  ChannelInv'
  <2>1. UNCHANGED <<pc, runs, signalled, myRun>>
    BY <1>12 DEF CloseStops, runVars, localVars
  <2> QED
    BY <2>1 DEF ChannelInv, InFlight
<1>13. ASSUME NEW c \in Closers, CloseEvents(c)
      PROVE  ChannelInv'
  <2>1. UNCHANGED <<pc, runs, signalled, myRun>>
    BY <1>13 DEF CloseEvents, runVars, localVars
  <2> QED
    BY <2>1 DEF ChannelInv, InFlight
<1>14. ASSUME NEW c \in Closers, CloseReturns(c)
      PROVE  ChannelInv'
  <2>1. UNCHANGED <<pc, runs, signalled, myRun>>
    BY <1>14 DEF CloseReturns, runVars, localVars
  <2> QED
    BY <2>1 DEF ChannelInv, InFlight
<1>15. CASE UNCHANGED vars
  BY <1>15 DEF vars, ChannelInv, InFlight, TypeOK, RunStates, Goto, runVars, localVars, closeVars, eventVars
<1> QED
  BY <1>1, <1>2, <1>3, <1>4, <1>5, <1>6, <1>7, <1>8, <1>9, <1>10, <1>11,
     <1>12, <1>13, <1>14, <1>15 DEF Steps

\* c.runDone is nil or the channel of a run.
LEMMA RunDoneIsAChannel ==
  ASSUME TypeOK, SingleRun, ChannelInv, running
  PROVE  runDone \in (1..runs) \cup {NoRun}
<1>1. PICK r \in Runners : Owns(r)
  BY DEF SingleRun
<1> QED
  BY <1>1, ChannelOfRun DEF SingleRun, Owns, InFlight, RunStates

LEMMA CloseInvStep ==
  ASSUME TypeOK, SingleRun, ChannelInv, CloseInv, Steps
  PROVE  CloseInv'
<1>1. ASSUME NEW r \in Runners, Moves(r)
      PROVE  CloseInv'
  BY <1>1 DEF Moves, CloseInv, Closing, runVars, closeVars
<1>2. ASSUME NEW r \in Runners, RunTakes(r)
      PROVE  CloseInv'
  <2>1. runs \in Nat /\ runs' = runs + 1
    BY <1>2 DEF RunTakes, TypeOK
  <2> QED
    BY <1>2, <2>1 DEF RunTakes, CloseInv, Closing, closeVars
<1>3. ASSUME NEW c \in Closers, CloseStops(c)
      PROVE  CloseInv'
  <2>1. \A d \in Closers : Closing(d)' <=> Closing(d)
    BY <1>3 DEF CloseStops, GotoC, Closing, TypeOK
  <2>2. UNCHANGED <<closed, once, runs>>
    BY <1>3 DEF CloseStops
  <2>4. \A d \in Closers : waitOn'[d] \in (1..runs) \cup {NoRun}
    BY <1>3, RunDoneIsAChannel DEF CloseStops, TypeOK, CloseInv
  <2>5. \A d \in Closers : cpc'[d] = "returned" => cpc[d] = "returned"
    BY <1>3 DEF CloseStops, GotoC, TypeOK
  <2> QED
    BY <2>1, <2>2, <2>4, <2>5 DEF CloseInv
<1>4. ASSUME NEW r \in Runners,
             \/ RunCall(r) \/ RunRefused(r) \/ Leave(r) \/ Disconnect(r)
             \/ RunReturns(r) \/ Cancel(r) \/ HandlersDone(r)
      PROVE  CloseInv'
  BY <1>4
  DEF RunCall, RunRefused, Leave, Disconnect, RunReturns, Cancel,
      HandlersDone, CloseInv, Closing, Goto, GotoC, TypeOK, runVars,
      localVars, closeVars, eventVars
<1>5. ASSUME NEW c \in Closers,
             \/ CloseBegins(c) \/ CloseAgain(c) \/ CloseEvents(c)
             \/ CloseReturns(c)
      PROVE  CloseInv'
  BY <1>5
  DEF CloseBegins, CloseAgain, CloseEvents, CloseReturns, CloseInv, Closing,
      Goto, GotoC, TypeOK, runVars, localVars, closeVars, eventVars
<1>6. CASE UNCHANGED vars
  BY <1>6 DEF vars, CloseInv, Closing, Goto, GotoC, TypeOK, runVars, localVars, closeVars, eventVars
<1> QED
  BY <1>1, <1>2, <1>3, <1>4, <1>5, <1>6 DEF Steps

LEMMA ExclusionInvStep ==
  ASSUME TypeOK, SingleRun, ChannelInv, CloseInv, ExclusionInv, Steps
  PROVE  ExclusionInv'
<1>1. ASSUME NEW r \in Runners, Moves(r)
      PROVE  ExclusionInv'
  <2>1. UNCHANGED <<myRun, once, waitOn, cpc>>
    BY <1>1 DEF Moves, runVars, localVars, closeVars
  <2>2. \A s \in Runners : Owns(s)' => Owns(s)
    BY <1>1 DEF Moves, Goto, Inside, Owns, RunStates, TypeOK
  <2> QED
    BY <2>1, <2>2 DEF ExclusionInv
<1>2. ASSUME NEW r \in Runners, RunCall(r)
      PROVE  ExclusionInv'
  <2>1. UNCHANGED <<myRun, once, waitOn, cpc>>
    BY <1>2 DEF RunCall, runVars, localVars, closeVars
  <2>2. \A s \in Runners : Owns(s)' => Owns(s)
    BY <1>2 DEF RunCall, Goto, Inside, Owns, RunStates, TypeOK
  <2> QED
    BY <2>1, <2>2 DEF ExclusionInv
<1>3. ASSUME NEW r \in Runners, RunRefused(r)
      PROVE  ExclusionInv'
  <2>1. UNCHANGED <<myRun, once, waitOn, cpc>>
    BY <1>3 DEF RunRefused, runVars, localVars, closeVars
  <2>2. \A s \in Runners : Owns(s)' => Owns(s)
    BY <1>3 DEF RunRefused, Goto, Inside, Owns, RunStates, TypeOK
  <2> QED
    BY <2>1, <2>2 DEF ExclusionInv
<1>4. ASSUME NEW r \in Runners, RunTakes(r)
      PROVE  ExclusionInv'
  <2>1. once = "new" /\ once' = "new"
    BY <1>4 DEF RunTakes, MayRun, CloseInv
  <2>2. \A c \in Closers : cpc'[c] \notin {"waiting", "draining"}
    BY <1>4, <2>1 DEF RunTakes, CloseInv, Closing, closeVars
  <2> QED
    BY <2>1, <2>2 DEF ExclusionInv
<1>5. ASSUME NEW r \in Runners, Leave(r)
      PROVE  ExclusionInv'
  <2>1. UNCHANGED <<myRun, once, waitOn, cpc>>
    BY <1>5 DEF Leave, runVars, localVars, closeVars
  <2>2. \A s \in Runners : Owns(s)' => Owns(s)
    BY <1>5 DEF Leave, Goto, Inside, Owns, RunStates, TypeOK
  <2> QED
    BY <2>1, <2>2 DEF ExclusionInv
<1>6. ASSUME NEW r \in Runners, Disconnect(r)
      PROVE  ExclusionInv'
  <2>1. UNCHANGED <<myRun, once, waitOn, cpc>>
    BY <1>6 DEF Disconnect, runVars, localVars, closeVars
  <2>2. \A s \in Runners : Owns(s)' => Owns(s)
    BY <1>6 DEF Disconnect, Goto, Inside, Owns, RunStates, TypeOK
  <2> QED
    BY <2>1, <2>2 DEF ExclusionInv
<1>7. ASSUME NEW r \in Runners, RunReturns(r)
      PROVE  ExclusionInv'
  <2>1. UNCHANGED <<myRun, once, waitOn, cpc>>
    BY <1>7 DEF RunReturns, runVars, localVars, closeVars
  <2>2. \A s \in Runners : Owns(s)' => Owns(s)
    BY <1>7 DEF RunReturns, Goto, Inside, Owns, RunStates, TypeOK
  <2> QED
    BY <2>1, <2>2 DEF ExclusionInv
<1>8. ASSUME NEW r \in Runners, Cancel(r)
      PROVE  ExclusionInv'
  <2>1. UNCHANGED <<myRun, once, waitOn, cpc>>
    BY <1>8 DEF Cancel, runVars, localVars, closeVars
  <2>2. \A s \in Runners : Owns(s)' => Owns(s)
    BY <1>8 DEF Cancel, Goto, Inside, Owns, RunStates, TypeOK
  <2> QED
    BY <2>1, <2>2 DEF ExclusionInv
<1>9. ASSUME NEW r \in Runners, HandlersDone(r)
      PROVE  ExclusionInv'
  <2>1. UNCHANGED <<myRun, once, waitOn, cpc>>
    BY <1>9 DEF HandlersDone, runVars, localVars, closeVars
  <2>2. \A s \in Runners : Owns(s)' => Owns(s)
    BY <1>9 DEF HandlersDone, Goto, Inside, Owns, RunStates, TypeOK
  <2> QED
    BY <2>1, <2>2 DEF ExclusionInv
<1>10. ASSUME NEW c \in Closers, CloseBegins(c)
      PROVE  ExclusionInv'
  <2>1. UNCHANGED <<myRun, waitOn, pc>> /\ once' = "busy"
    BY <1>10 DEF CloseBegins, localVars
  <2>2. \A d \in Closers : cpc'[d] \in {"waiting", "draining"} => cpc[d] = cpc'[d]
    BY <1>10 DEF CloseBegins, GotoC, TypeOK
  <2> QED
    BY <2>1, <2>2 DEF ExclusionInv, Owns
<1>11. ASSUME NEW c \in Closers, CloseAgain(c)
      PROVE  ExclusionInv'
  <2>1. UNCHANGED <<myRun, waitOn, pc>> /\ once' = once
    BY <1>11 DEF CloseAgain, localVars, runVars
  <2>2. \A d \in Closers : cpc'[d] \in {"waiting", "draining"} => cpc[d] = cpc'[d]
    BY <1>11 DEF CloseAgain, GotoC, TypeOK
  <2> QED
    BY <2>1, <2>2 DEF ExclusionInv, Owns
<1>12. ASSUME NEW c \in Closers, CloseStops(c)
      PROVE  ExclusionInv'
  <2>1. /\ UNCHANGED <<myRun, once, pc>>
        /\ cpc[c] = "marked" /\ cpc' = [cpc EXCEPT ![c] = "waiting"]
    BY <1>12 DEF CloseStops, GotoC, localVars
  <2>2. once = "busy" /\ \A d \in Closers \ {c} : ~Closing(d)
    BY <2>1 DEF CloseInv, Closing
  <2>3. \A r \in Runners : Owns(r) => myRun[r] = waitOn'[c]
    BY <1>12 DEF CloseStops, SingleRun, TypeOK
  <2> QED
    BY <2>1, <2>2, <2>3 DEF ExclusionInv, Closing, Owns, TypeOK
<1>13. ASSUME NEW c \in Closers, CloseEvents(c)
      PROVE  ExclusionInv'
  <2>1. /\ UNCHANGED <<myRun, once, pc, waitOn>>
        /\ cpc[c] = "waiting" /\ cpc' = [cpc EXCEPT ![c] = "draining"]
    BY <1>13 DEF CloseEvents, GotoC, localVars, runVars
  <2>2. \A r \in Runners : ~Owns(r)
    <3> SUFFICES ASSUME NEW r \in Runners, Owns(r) PROVE FALSE
      OBVIOUS
    <3>1. myRun[r] = waitOn[c]
      BY <2>1 DEF ExclusionInv
    <3>2. InFlight(r)
      BY DEF Owns, InFlight
    <3>3. myRun[r] \notin signalled /\ myRun[r] # NoRun
      BY <3>2, ChannelOfRun DEF ChannelInv
    <3> QED
      BY <1>13, <3>1, <3>3 DEF CloseEvents, RunHasEnded
  <2> QED
    BY <2>1, <2>2 DEF ExclusionInv, Owns, TypeOK
<1>14. ASSUME NEW c \in Closers, CloseReturns(c)
      PROVE  ExclusionInv'
  <2>1. /\ UNCHANGED <<myRun, pc, waitOn>> /\ cpc[c] = "draining"
        /\ cpc' = [cpc EXCEPT ![c] = "returned"]
    BY <1>14 DEF CloseReturns, GotoC, localVars
  <2>2. \A r \in Runners : ~Owns(r)
    BY <2>1 DEF ExclusionInv
  <2> QED
    BY <2>1, <2>2 DEF ExclusionInv, Owns, TypeOK
<1>15. CASE UNCHANGED vars
  BY <1>15 DEF vars, ExclusionInv, Owns, runVars, localVars, closeVars, eventVars
<1> QED
  BY <1>1, <1>2, <1>3, <1>4, <1>5, <1>6, <1>7, <1>8, <1>9, <1>10, <1>11,
     <1>12, <1>13, <1>14, <1>15 DEF Steps

LEMMA PhaseInvStep ==
  ASSUME PhaseInv, Steps
  PROVE  PhaseInv'
<1>1. ASSUME NEW r \in Runners, Moves(r)
      PROVE  PhaseInv'
  <2>1. phase' = phase /\ once' = once /\ (phase = "closed" => busy' = busy)
    BY <1>1, DispatchKeepsPhase DEF Moves, runVars, eventVars
  <2> QED
    BY <2>1 DEF PhaseInv
<1>2. ASSUME NEW r \in Runners, Disconnect(r)
      PROVE  PhaseInv'
  <2>1. phase' = phase /\ once' = once /\ (phase = "closed" => busy' = busy)
    BY <1>2, DispatchKeepsPhase DEF Disconnect, runVars, eventVars
  <2> QED
    BY <2>1 DEF PhaseInv
<1>3. ASSUME NEW r \in Runners,
             \/ RunCall(r) \/ RunRefused(r) \/ RunTakes(r) \/ Leave(r)
             \/ RunReturns(r) \/ Cancel(r) \/ HandlersDone(r)
      PROVE  PhaseInv'
  BY <1>3
  DEF RunCall, RunRefused, RunTakes, Leave, RunReturns, Cancel, HandlersDone,
      PhaseInv, runVars, localVars, closeVars, eventVars, Events!Drain,
      Events!BeginClose, Events!EndClose
<1>4. ASSUME NEW c \in Closers,
             \/ CloseBegins(c) \/ CloseAgain(c) \/ CloseStops(c)
             \/ CloseEvents(c) \/ CloseReturns(c)
      PROVE  PhaseInv'
  BY <1>4
  DEF CloseBegins, CloseAgain, CloseStops, CloseEvents, CloseReturns,
      PhaseInv, runVars, localVars, closeVars, eventVars, Events!Drain,
      Events!BeginClose, Events!EndClose
<1>5. CASE UNCHANGED vars
  BY <1>5 DEF vars, PhaseInv, runVars, localVars, closeVars, eventVars, Events!Drain, Events!BeginClose, Events!EndClose
<1> QED
  BY <1>1, <1>2, <1>3, <1>4, <1>5 DEF Steps

-----------------------------------------------------------------------------
(* Theorems                                                                *)

LEMMA InitIInv == Init => IInv
<1> SUFFICES ASSUME Init PROVE IInv
  OBVIOUS
<1>1. TypeOK
  BY DEF Init, TypeOK, RunStates, Channels, Events!SpecInit, Events!SpecTypeOK
<1> QED
  BY <1>1
  DEF Init, IInv, BatchInv, SingleRun, ChannelInv, CloseInv, ExclusionInv,
      PhaseInv, Owns, InFlight, Closing, Events!SpecInit

\* The inductive invariant holds in every reachable state.
THEOREM Invariant == Spec => []IInv
<1>1. IInv /\ [Next]_vars => IInv'
  BY NextSteps, TypeOKStep, BatchInvStep, SingleRunStep, ChannelInvStep,
     CloseInvStep, ExclusionInvStep, PhaseInvStep DEF IInv
<1> QED
  BY InitIInv, <1>1, PTL DEF Spec

\* The variables keep their types.
THEOREM TypeCorrect == Spec => []TypeOK
<1>1. IInv => TypeOK
  BY DEF IInv
<1> QED
  BY Invariant, <1>1, PTL

\* At most one goroutine owns the message loop, whatever the number of calls of
\* Run, Close and cancellations that race (client.go:231-249).
THEOREM OneRun == Spec => []SingleRun
<1>1. IInv => SingleRun
  BY DEF IInv
<1> QED
  BY Invariant, <1>1, PTL

\* When Close has returned nothing of the client runs any more
\* (client.go:757-779).
THEOREM CloseIsComplete == Spec => []CloseIsFinal
<1>1. IInv => CloseIsFinal
  BY DEF IInv, CloseIsFinal, CloseInv, ExclusionInv, PhaseInv
<1> QED
  BY Invariant, <1>1, PTL

\* Close never waits for a channel that nobody is going to close
\* (client.go:245-257, :766-775).
THEOREM CloseIsWoken == Spec => []NoLostWakeup
<1>1. IInv => NoLostWakeup
  BY DEF IInv, NoLostWakeup, CloseInv, ChannelInv
<1> QED
  BY Invariant, <1>1, PTL
=============================================================================
