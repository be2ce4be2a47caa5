-------------------------- MODULE ClientLifecycle ---------------------------
(***************************************************************************)
(* Client.Run against Client.Close (src/client.go): which goroutine owns   *)
(* the message loop, how Close stops it and waits for it, and which events *)
(* the dispatcher still accepts.  The dispatcher is DispatcherSpec, the    *)
(* abstract specification that EventDispatcher implements.                 *)
(*                                                                         *)
(* A body of c.mu.Lock() ... c.mu.Unlock() is one step, for nothing else   *)
(* in it blocks or writes what others read without the mutex; everything   *)
(* between two such sections, blocking calls or reads of the closed flag   *)
(* is a step of its own.  Every event type is taken to have a handler.     *)
(***************************************************************************)
EXTENDS Naturals

CONSTANTS Runners,   \* goroutines that call Run
          Closers,   \* goroutines that call Close
          NoRun,     \* the nil channel
          MaxCalls,  \* bound: calls of Run
          MaxBatch   \* bound: messages in one answer of the server

ASSUME LifecycleAssumption ==
    /\ MaxCalls \in Nat
    /\ MaxBatch \in Nat
    /\ NoRun \notin Nat

VARIABLES
    closed,     \* c.closed
    running,    \* c.running
    runDone,    \* c.runDone: the channel of the current run, or NoRun
    stopped,    \* c.stopChan is closed
    once,       \* c.closeOnce: "new", "busy" or "done"
    calls,      \* calls of Run so far
    runs,       \* channels made so far; the channels are 1..runs
    signalled,  \* the runDone channels that have been closed
    pc,         \* where each runner is in Run
    myRun,      \* [Runners -> channel or NoRun]: the local runDone of Run
    connected,  \* the local connected of Run
    cancelled,  \* the context of the call has been cancelled
    batch,      \* messages of the last answer that are still to handle
    cpc,        \* where each closer is in Close
    waitOn,     \* [Closers -> channel or NoRun]: the local runDone of Close
    told,       \* history: runs whose Disconnected event was dispatched
    phase, busy \* the dispatcher

runVars    == <<closed, running, runDone, stopped, once, runs, signalled>>
localVars  == <<myRun, connected, cancelled, batch>>
closeVars  == <<cpc, waitOn>>
eventVars  == <<phase, busy>>
vars == <<runVars, calls, pc, localVars, closeVars, told, eventVars>>

Events == INSTANCE DispatcherSpec WITH Sources <- Runners

Init ==
    /\ closed = FALSE
    /\ running = FALSE
    /\ runDone = NoRun
    /\ stopped = FALSE
    /\ once = "new"
    /\ calls = 0
    /\ runs = 0
    /\ signalled = {}
    /\ pc = [r \in Runners |-> "out"]
    /\ myRun = [r \in Runners |-> NoRun]
    /\ connected = [r \in Runners |-> FALSE]
    /\ cancelled = [r \in Runners |-> FALSE]
    /\ batch = [r \in Runners |-> 0]
    /\ cpc = [c \in Closers |-> "idle"]
    /\ waitOn = [c \in Closers |-> NoRun]
    /\ told = {}
    /\ Events!SpecInit

Goto(r, from, to) ==
    /\ pc[r] = from
    /\ pc' = [pc EXCEPT ![r] = to]

\* c.events.Dispatch of an event that has a handler.
Dispatch(r) == Events!Accept(r) \/ Events!Refuse

-----------------------------------------------------------------------------
(* Run                                                                     *)

\* Run is called and ensureOpen finds the client open.
RunCall(r) ==
    /\ Goto(r, "out", "enter")
    /\ ~closed
    /\ calls < MaxCalls
    /\ calls' = calls + 1
    /\ cancelled' = [cancelled EXCEPT ![r] = FALSE]
    /\ UNCHANGED <<runVars, myRun, connected, batch, closeVars, told, eventVars>>

\* Run is called on a closed client and returns ErrClientClosed.
RunRejected(r) ==
    /\ pc[r] = "out"
    /\ closed
    /\ UNCHANGED vars

\* The critical section of Run refuses: closed since, or already running.
RunRefused(r) ==
    /\ Goto(r, "enter", "out")
    /\ closed \/ running
    /\ UNCHANGED <<runVars, calls, localVars, closeVars, told, eventVars>>

\* The two checks of the critical section, and two ways to get them wrong.
MayRunEvenIfClosed == ~running
MayRunTwice == ~closed
MayRun == ~closed /\ ~running

\* The critical section of Run makes the channel and takes the loop.
RunTakes(r) ==
    /\ Goto(r, "enter", "login")
    /\ MayRun
    /\ runs' = runs + 1
    /\ running' = TRUE
    /\ runDone' = runs + 1
    /\ myRun' = [myRun EXCEPT ![r] = runs + 1]
    /\ connected' = [connected EXCEPT ![r] = FALSE]
    /\ UNCHANGED <<closed, calls, stopped, once, signalled, cancelled, batch,
                   closeVars, told, eventVars>>

\* Already logged in, or Login succeeds and dispatches its event.
LoggedIn(r) ==
    /\ Goto(r, "login", "initialize")
    /\ Dispatch(r) \/ UNCHANGED eventVars
    /\ UNCHANGED <<runVars, calls, localVars, closeVars, told>>

\* Login or the initialization of a plugin fails.
SetupFails(r) ==
    /\ \E step \in {"login", "initialize"} : Goto(r, step, "leaving")
    /\ UNCHANGED <<runVars, calls, localVars, closeVars, told, eventVars>>

\* The plugins are initialized; Run reports Connected and enters the loop.
Connect(r) ==
    /\ Goto(r, "initialize", "loop")
    /\ Dispatch(r)
    /\ connected' = [connected EXCEPT ![r] = TRUE]
    /\ UNCHANGED <<runVars, calls, myRun, cancelled, batch, closeVars, told>>

\* A select without its ctx.Done() case.
LoopStopsOnClose(r) ==
    /\ Goto(r, "loop", "leaving")
    /\ stopped
    /\ UNCHANGED <<runVars, calls, localVars, closeVars, told, eventVars>>

\* The select at the head of the loop: ctx.Done() or stopChan is ready.
LoopStops(r) ==
    /\ Goto(r, "loop", "leaving")
    /\ cancelled[r] \/ stopped
    /\ UNCHANGED <<runVars, calls, localVars, closeVars, told, eventVars>>

\* Its default case, with the session alive: Run asks for updates.
LoopPolls(r) ==
    /\ Goto(r, "loop", "polling")
    /\ ~cancelled[r] /\ ~stopped
    /\ UNCHANGED <<runVars, calls, localVars, closeVars, told, eventVars>>

\* Its default case, with the session paused: SessionExpired is reported and
\* OnSessionExpired called.
LoopExpired(r) ==
    /\ Goto(r, "loop", "relogin")
    /\ ~cancelled[r] /\ ~stopped
    /\ Dispatch(r)
    /\ UNCHANGED <<runVars, calls, localVars, closeVars, told>>

\* GetUpdates answers without messages.
PollEmpty(r) ==
    /\ Goto(r, "polling", "loop")
    /\ UNCHANGED <<runVars, calls, localVars, closeVars, told, eventVars>>

\* GetUpdates answers with messages; the first one is dispatched and handled.
PollMessages(r) ==
    /\ Goto(r, "polling", "handling")
    /\ \E n \in 1..MaxBatch : batch' = [batch EXCEPT ![r] = n]
    /\ Dispatch(r)
    /\ UNCHANGED <<runVars, calls, myRun, connected, cancelled, closeVars, told>>

\* GetUpdates fails because the context was cancelled.
PollCancelled(r) ==
    /\ Goto(r, "polling", "leaving")
    /\ cancelled[r]
    /\ UNCHANGED <<runVars, calls, localVars, closeVars, told, eventVars>>

\* GetUpdates fails because the token expired: OnSessionExpired is called.
PollExpired(r) ==
    /\ Goto(r, "polling", "relogin")
    /\ UNCHANGED <<runVars, calls, localVars, closeVars, told, eventVars>>

\* GetUpdates fails in another way: Error is reported and Run backs off.
PollFails(r) ==
    /\ Goto(r, "polling", "backoff")
    /\ Dispatch(r)
    /\ UNCHANGED <<runVars, calls, localVars, closeVars, told>>

\* The handlers of a message return; the next message is dispatched, if any.
HandlerReturns(r) ==
    /\ pc[r] = "handling"
    /\ batch' = [batch EXCEPT ![r] = @ - 1]
    /\ IF batch[r] > 1
       THEN Dispatch(r) /\ UNCHANGED pc
       ELSE Goto(r, "handling", "loop") /\ UNCHANGED eventVars
    /\ UNCHANGED <<runVars, calls, myRun, connected, cancelled, closeVars, told>>

\* The timer of waitPollErrorBackoff fires.
BackoffEnds(r) ==
    /\ Goto(r, "backoff", "loop")
    /\ UNCHANGED <<runVars, calls, localVars, closeVars, told, eventVars>>

\* ctx.Done() is ready in waitPollErrorBackoff.
BackoffCancelled(r) ==
    /\ Goto(r, "backoff", "leaving")
    /\ cancelled[r]
    /\ UNCHANGED <<runVars, calls, localVars, closeVars, told, eventVars>>

\* OnSessionExpired returns a session; by default it is Login with its event.
ReloginSucceeds(r) ==
    /\ Goto(r, "relogin", "loop")
    /\ Dispatch(r) \/ UNCHANGED eventVars
    /\ UNCHANGED <<runVars, calls, localVars, closeVars, told>>

\* OnSessionExpired returns an error (Login does when the client is closed or
\* the context cancelled) or no session.
ReloginFails(r) ==
    /\ Goto(r, "relogin", "leaving")
    /\ UNCHANGED <<runVars, calls, localVars, closeVars, told, eventVars>>

\* The critical section of Run's deferred function.
Leave(r) ==
    /\ Goto(r, "leaving", "left")
    /\ running' = FALSE
    /\ runDone' = NoRun
    /\ UNCHANGED <<closed, calls, stopped, once, runs, signalled, localVars, closeVars,
                   told, eventVars>>

\* The deferred function reports Disconnected if the run was connected.
Disconnect(r) ==
    /\ Goto(r, "left", "signalling")
    /\ IF connected[r]
       THEN /\ Dispatch(r)
            /\ told' = IF phase = "open" THEN told \cup {myRun[r]} ELSE told
       ELSE UNCHANGED <<told, eventVars>>
    /\ UNCHANGED <<runVars, calls, localVars, closeVars>>

\* close(runDone), of the channel in the variable that Run kept for itself.
Forgotten(r) == runDone
Channel(r) == myRun[r]

RunReturns(r) ==
    /\ Goto(r, "signalling", "out")
    /\ signalled' = signalled \cup {Channel(r)}
    /\ UNCHANGED <<closed, calls, running, runDone, stopped, once, runs, localVars,
                   closeVars, told, eventVars>>

\* The caller of Run cancels the context it passed.
Cancel(r) ==
    /\ pc[r] # "out"
    /\ cancelled' = [cancelled EXCEPT ![r] = TRUE]
    /\ UNCHANGED <<runVars, calls, pc, myRun, connected, batch, closeVars, told,
                   eventVars>>

\* The last event handler started by r returns.
HandlersDone(r) ==
    /\ Events!Drain(r)
    /\ UNCHANGED <<runVars, calls, pc, localVars, closeVars, told>>

-----------------------------------------------------------------------------
(* Close                                                                   *)

GotoC(c, from, to) ==
    /\ cpc[c] = from
    /\ cpc' = [cpc EXCEPT ![c] = to]

\* closeOnce admits the first caller, which sets the flag.
CloseBegins(c) ==
    /\ GotoC(c, "idle", "marked")
    /\ once = "new"
    /\ once' = "busy"
    /\ closed' = TRUE
    /\ UNCHANGED <<running, runDone, stopped, calls, runs, signalled, pc,
                   localVars, waitOn, told, eventVars>>

\* closeOnce holds every other caller until the first one has finished.
CloseAgain(c) ==
    /\ GotoC(c, "idle", "returned")
    /\ once = "done"
    /\ UNCHANGED <<runVars, calls, pc, localVars, waitOn, told, eventVars>>

\* The critical section of Close stops the run that holds the loop.
CloseStops(c) ==
    /\ GotoC(c, "marked", "waiting")
    /\ IF running
       THEN stopped' = TRUE /\ waitOn' = [waitOn EXCEPT ![c] = runDone]
       ELSE UNCHANGED <<stopped, waitOn>>
    /\ UNCHANGED <<closed, running, runDone, once, calls, runs, signalled, pc,
                   localVars, told, eventVars>>

\* Receiving from the channel of the run lets Close go on.
RunHasEnded(c) == waitOn[c] \in signalled \cup {NoRun}

\* The run has ended; the dispatcher is told to close.
CloseEvents(c) ==
    /\ GotoC(c, "waiting", "draining")
    /\ RunHasEnded(c)
    /\ Events!BeginClose
    /\ UNCHANGED <<runVars, calls, pc, localVars, waitOn, told>>

\* The dispatcher is quiet; Close returns and closeOnce is done.
CloseReturns(c) ==
    /\ GotoC(c, "draining", "returned")
    /\ Events!EndClose
    /\ once' = "done"
    /\ UNCHANGED <<closed, running, runDone, stopped, calls, runs, signalled, pc,
                   localVars, waitOn, told>>

-----------------------------------------------------------------------------
\* What Run does on its own; a login waits for a person with a phone.
RunStep(r) ==
    \/ RunRefused(r) \/ RunTakes(r) \/ Connect(r)
    \/ LoopStops(r) \/ LoopPolls(r) \/ LoopExpired(r)
    \/ PollEmpty(r) \/ PollMessages(r) \/ PollCancelled(r) \/ PollExpired(r)
    \/ PollFails(r)
    \/ HandlerReturns(r)
    \/ BackoffEnds(r) \/ BackoffCancelled(r)
    \/ Leave(r) \/ Disconnect(r) \/ RunReturns(r)

LoginStep(r) ==
    LoggedIn(r) \/ SetupFails(r) \/ ReloginSucceeds(r) \/ ReloginFails(r)

CloseStep(c) ==
    CloseAgain(c) \/ CloseStops(c) \/ CloseEvents(c) \/ CloseReturns(c)

Next ==
    \/ \E r \in Runners :
          \/ RunCall(r) \/ RunRejected(r) \/ RunStep(r) \/ LoginStep(r)
          \/ Cancel(r) \/ HandlersDone(r)
    \/ \E c \in Closers : CloseBegins(c) \/ CloseStep(c)

Spec == Init /\ [][Next]_vars

\* Goroutines are scheduled; a poll ends by its timeout, a handler returns, a
\* timer fires.  A login is only sure to end once its context is cancelled.
Fairness ==
    /\ \A r \in Runners :
          /\ WF_vars(RunStep(r))
          /\ WF_vars(HandlersDone(r))
          /\ WF_vars(cancelled[r] /\ LoginStep(r))
    /\ \A c \in Closers : WF_vars(CloseStep(c))

FairSpec == Spec /\ Fairness

-----------------------------------------------------------------------------
(* Properties                                                              *)

RunStates == {"out", "enter", "login", "initialize", "loop", "polling",
              "handling", "backoff", "relogin", "leaving", "left", "signalling"}

Channels == Nat \ {0}

TypeOK ==
    /\ closed \in BOOLEAN
    /\ running \in BOOLEAN
    /\ runDone \in Channels \cup {NoRun}
    /\ stopped \in BOOLEAN
    /\ once \in {"new", "busy", "done"}
    /\ calls \in Nat
    /\ runs \in Nat
    /\ signalled \subseteq Channels
    /\ pc \in [Runners -> RunStates]
    /\ myRun \in [Runners -> Channels \cup {NoRun}]
    /\ connected \in [Runners -> BOOLEAN]
    /\ cancelled \in [Runners -> BOOLEAN]
    /\ batch \in [Runners -> Nat]
    /\ cpc \in [Closers -> {"idle", "marked", "waiting", "draining", "returned"}]
    /\ waitOn \in [Closers -> Channels \cup {NoRun}]
    /\ told \subseteq Channels
    /\ Events!SpecTypeOK

\* r is in the part of Run that owns the client.
Owns(r) == pc[r] \in RunStates \ {"out", "enter", "left", "signalling"}

\* r has not closed its channel yet.
InFlight(r) == pc[r] \in RunStates \ {"out", "enter"}

\* At most one goroutine owns the message loop, and c.running and c.runDone
\* say so exactly (client.go:231-249).
SingleRun ==
    /\ \A r, s \in Runners : Owns(r) /\ Owns(s) => r = s
    /\ running <=> \E r \in Runners : Owns(r)
    /\ \A r \in Runners : Owns(r) => runDone = myRun[r]

\* When any Close has returned no goroutine runs the loop, the login or a
\* message handler, and no event handler is left (client.go:757-760).
CloseIsFinal ==
    (\E c \in Closers : cpc[c] = "returned") =>
        /\ \A r \in Runners : ~Owns(r)
        /\ busy = {}

\* A channel Close waits for is closed, or a run will still close it.
NoLostWakeup ==
    \A c \in Closers :
       cpc[c] = "waiting" =>
          \/ waitOn[c] \in signalled \cup {NoRun}
          \/ \E r \in Runners : InFlight(r) /\ myRun[r] = waitOn[c]

\* Close returns unless a login never ends.
CloseEnds ==
    (\A r \in Runners : []<>(pc[r] \notin {"login", "relogin"})) =>
        \A c \in Closers : cpc[c] # "idle" ~> cpc[c] = "returned"

\* Run ends when its context is cancelled, whatever it was doing.
CancelEndsRun == \A r \in Runners : cancelled[r] ~> pc[r] = "out"

\* A run that reported Connected also reports Disconnected when it ends (the
\* event table of the README says the event means "Client stopped").
DisconnectIsReported ==
    \A r \in Runners :
       pc[r] = "signalling" /\ connected[r] => myRun[r] \in told
=============================================================================
