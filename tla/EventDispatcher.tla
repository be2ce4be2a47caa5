-------------------------- MODULE EventDispatcher ---------------------------
(***************************************************************************)
(* event.Dispatcher of src/event/event.go: a copy-on-write table of        *)
(* handlers, a mutex, a wait group and a closed flag, used by any number   *)
(* of goroutines at once.                                                  *)
(*                                                                         *)
(* A step is what the code does between two points where another goroutine *)
(* can be seen: Subscribe reads the table and writes it back in two steps, *)
(* because Unsubscribe does not take the mutex; Dispatch reads the table   *)
(* before it takes the mutex.  The counter of the wait group is kept split *)
(* by the thread whose dispatch raised it, so its value is the sum of wg.  *)
(***************************************************************************)
EXTENDS Naturals, Sequences, Functions

CONSTANTS Threads,      \* goroutines that use the dispatcher
          EventTypes,
          Free,         \* "no thread": the mutex is not held
          MaxHandlers,  \* bound: Subscribe calls
          MaxPending    \* bound: the wait group of one thread

ASSUME DispatcherAssumption ==
    /\ Free \notin Threads
    /\ MaxHandlers \in Nat
    /\ MaxPending \in Nat

VARIABLES
    handlers,   \* [EventTypes -> Seq(handler)]; no entry is the empty list
    mu,         \* the thread that holds the mutex, or Free
    closed,     \* the closed flag
    wg,         \* [Threads -> Nat]: wait group, split by dispatching thread
    pc,         \* where each thread is
    local,      \* [Threads -> [list, etype, id]]: what a thread has read
    spawned,    \* [Threads -> Nat]: handler goroutines not started yet
    running,    \* [Threads -> Nat]: handler goroutines inside the handler
    syncLeft,   \* [Threads -> Nat]: handlers a DispatchSync still has to visit
    failed,     \* [Threads -> BOOLEAN]: firstErr # nil
    issued,     \* handlers created so far
    subscribed, \* history: <<event type, handler>> of completed Subscribes
    removed,    \* history: handlers an Unsubscribe has removed
    leaked,     \* history: [Threads -> Nat]: what is left in wg for handlers nobody will visit
    drained     \* history: some Close has returned

vars == <<handlers, mu, closed, wg, pc, local, spawned, running, syncLeft,
          failed, issued, subscribed, removed, leaked, drained>>

tableVars == <<handlers, issued, subscribed, removed>>
taskVars  == <<wg, spawned, running, syncLeft, failed, leaked>>

NoLocal == [list |-> <<>>, etype |-> Free, id |-> 0]

Init ==
    /\ handlers = [e \in EventTypes |-> <<>>]
    /\ mu = Free
    /\ closed = FALSE
    /\ wg = [t \in Threads |-> 0]
    /\ pc = [t \in Threads |-> "idle"]
    /\ local = [t \in Threads |-> NoLocal]
    /\ spawned = [t \in Threads |-> 0]
    /\ running = [t \in Threads |-> 0]
    /\ syncLeft = [t \in Threads |-> 0]
    /\ failed = [t \in Threads |-> FALSE]
    /\ issued = 0
    /\ subscribed = {}
    /\ removed = {}
    /\ leaked = [t \in Threads |-> 0]
    /\ drained = FALSE

Goto(t, from, to) ==
    /\ pc[t] = from
    /\ pc' = [pc EXCEPT ![t] = to]

Return(t) == local' = [local EXCEPT ![t] = NoLocal]

\* d.mu.Lock() lets its caller go on (and what a missing lock would do).
AnyoneMayLock == TRUE
MutexFree == mu = Free

\* d.wg.Done() of one handler of t, and a way to get it wrong.
DoneUnlessFailed(t) == wg' = IF failed[t] THEN wg ELSE [wg EXCEPT ![t] = @ - 1]
Done(t) == wg' = [wg EXCEPT ![t] = @ - 1]

-----------------------------------------------------------------------------
(* Subscribe and Unsubscribe                                               *)

\* Subscribe takes the mutex, checks closed and reads the current list.
SubscribeLoad(t, e) ==
    /\ Goto(t, "idle", "subscribing")
    /\ MutexFree
    /\ ~closed
    /\ issued < MaxHandlers
    /\ mu' = t
    /\ issued' = issued + 1
    /\ local' = [local EXCEPT ![t] =
                    [list |-> handlers[e], etype |-> e, id |-> issued + 1]]
    /\ UNCHANGED <<handlers, closed, subscribed, removed, drained, taskVars>>

\* Subscribe stores the list it read with the new handler at its end.
SubscribeStore(t) ==
    /\ Goto(t, "subscribing", "idle")
    /\ handlers' = [handlers EXCEPT ![local[t].etype] =
                        Append(local[t].list, local[t].id)]
    /\ subscribed' = subscribed \cup {<<local[t].etype, local[t].id>>}
    /\ mu' = Free
    /\ Return(t)
    /\ UNCHANGED <<closed, issued, removed, drained, taskVars>>

\* Unsubscribe deletes the entry of the table without the mutex.
Unsubscribe(e) ==
    /\ removed' = removed \cup Range(handlers[e])
    /\ handlers' = [handlers EXCEPT ![e] = <<>>]
    /\ UNCHANGED <<mu, closed, pc, local, issued, subscribed, drained, taskVars>>

-----------------------------------------------------------------------------
(* Dispatch and DispatchSync                                               *)

\* Both read the handlers first; without a handler they return at once.
DispatchLoad(t, e, to) ==
    /\ Goto(t, "idle", to)
    /\ handlers[e] # <<>>
    /\ local' = [local EXCEPT ![t] = [list |-> handlers[e], etype |-> e, id |-> 0]]
    /\ UNCHANGED <<mu, closed, drained, tableVars, taskVars>>

\* beginDispatch finds the dispatcher closed.
DispatchRefused(t) ==
    /\ Goto(t, pc[t], "idle")
    /\ pc[t] \in {"dispatch", "dispatchSync"}
    /\ MutexFree
    /\ closed
    /\ Return(t)
    /\ UNCHANGED <<mu, closed, drained, tableVars, taskVars>>

\* beginDispatch without the check of closed.
BeginDispatchUnchecked(t, n) ==
    /\ MutexFree
    /\ wg[t] + n <= MaxPending
    /\ wg' = [wg EXCEPT ![t] = @ + n]

\* beginDispatch of n handlers on an open dispatcher.
BeginDispatch(t, n) ==
    /\ MutexFree
    /\ ~closed
    /\ wg[t] + n <= MaxPending
    /\ wg' = [wg EXCEPT ![t] = @ + n]

\* Dispatch starts one goroutine per handler and returns.
DispatchAsync(t) ==
    LET n == Len(local[t].list) IN
    /\ Goto(t, "dispatch", "idle")
    /\ BeginDispatch(t, n)
    /\ spawned' = [spawned EXCEPT ![t] = @ + n]
    /\ Return(t)
    /\ UNCHANGED <<mu, closed, drained, running, syncLeft, failed, leaked, tableVars>>

\* DispatchSync goes on to call the handlers itself.
DispatchSync(t) ==
    LET n == Len(local[t].list) IN
    /\ Goto(t, "dispatchSync", "sync")
    /\ BeginDispatch(t, n)
    /\ syncLeft' = [syncLeft EXCEPT ![t] = n]
    /\ failed' = [failed EXCEPT ![t] = FALSE]
    /\ UNCHANGED <<mu, closed, drained, local, spawned, running, leaked, tableVars>>

TaskStart(t) ==
    /\ spawned[t] > 0
    /\ spawned' = [spawned EXCEPT ![t] = @ - 1]
    /\ running' = [running EXCEPT ![t] = @ + 1]
    /\ UNCHANGED <<mu, closed, drained, pc, local, wg, syncLeft, failed, leaked, tableVars>>

\* The handler returns, fails or panics: the deferred calls recover the panic
\* and release the wait group in every case.
TaskFinish(t) ==
    /\ running[t] > 0
    /\ running' = [running EXCEPT ![t] = @ - 1]
    /\ Done(t)
    /\ UNCHANGED <<mu, closed, drained, pc, local, spawned, syncLeft, failed, leaked, tableVars>>

\* The loop of DispatchSync: after the first error the handlers are skipped,
\* but each of them still releases the wait group.
SyncHandler(t) ==
    /\ pc[t] = "sync"
    /\ syncLeft' = [syncLeft EXCEPT ![t] = @ - 1]
    /\ Done(t)
    /\ \E err \in {failed[t], TRUE} : failed' = [failed EXCEPT ![t] = err]
    /\ IF syncLeft[t] = 1
       THEN Goto(t, "sync", "idle") /\ Return(t)
       ELSE UNCHANGED <<pc, local>>
    /\ UNCHANGED <<mu, closed, drained, spawned, running, leaked, tableVars>>

\* A handler of DispatchSync panics: its own deferred Done runs, the panic
\* leaves the loop and nobody releases the wait group for the other handlers.
SyncPanic(t) ==
    /\ ~failed[t]
    /\ Goto(t, "sync", "idle")
    /\ Done(t)
    /\ leaked' = [leaked EXCEPT ![t] = @ + syncLeft[t] - 1]
    /\ syncLeft' = [syncLeft EXCEPT ![t] = 0]
    /\ Return(t)
    /\ UNCHANGED <<mu, closed, drained, spawned, running, failed, tableVars>>

-----------------------------------------------------------------------------
(* Close                                                                   *)

CloseMark(t) ==
    /\ Goto(t, "idle", "closing")
    /\ MutexFree
    /\ closed' = TRUE
    /\ UNCHANGED <<mu, drained, local, tableVars, taskVars>>

\* wg.Wait() lets its caller go on.
WaitForNobody == TRUE
WaitDone == \A t \in Threads : wg[t] = 0

CloseReturn(t) ==
    /\ Goto(t, "closing", "idle")
    /\ WaitDone
    /\ drained' = TRUE
    /\ UNCHANGED <<mu, closed, local, tableVars, taskVars>>

-----------------------------------------------------------------------------
Next ==
    \/ \E t \in Threads, e \in EventTypes :
          \/ SubscribeLoad(t, e)
          \/ DispatchLoad(t, e, "dispatch")
          \/ DispatchLoad(t, e, "dispatchSync")
    \/ \E e \in EventTypes : Unsubscribe(e)
    \/ \E t \in Threads :
          \/ SubscribeStore(t)
          \/ DispatchRefused(t) \/ DispatchAsync(t) \/ DispatchSync(t)
          \/ TaskStart(t) \/ TaskFinish(t)
          \/ SyncHandler(t) \/ SyncPanic(t)
          \/ CloseMark(t) \/ CloseReturn(t)

Spec == Init /\ [][Next]_vars

\* Goroutines are scheduled, handlers return, and a thread inside a call of
\* the dispatcher keeps going; nobody is obliged to start a new call.
Fairness ==
    \A t \in Threads :
       /\ WF_vars(SubscribeStore(t))
       /\ WF_vars(TaskStart(t)) /\ WF_vars(TaskFinish(t))
       /\ WF_vars(SyncHandler(t))
       /\ WF_vars(CloseReturn(t))

FairSpec == Spec /\ Fairness

-----------------------------------------------------------------------------
(* Properties                                                              *)

TableTypes ==
    /\ handlers \in [EventTypes -> Seq(1..MaxHandlers)]
    /\ issued \in 0..MaxHandlers
    /\ subscribed \subseteq EventTypes \X (1..MaxHandlers)
    /\ removed \subseteq 1..MaxHandlers

Local == [list : Seq(1..MaxHandlers),
          etype : EventTypes \cup {Free},
          id : 0..MaxHandlers]

CallTypes ==
    /\ mu \in Threads \cup {Free}
    /\ closed \in BOOLEAN
    /\ drained \in BOOLEAN
    /\ pc \in [Threads -> {"idle", "subscribing", "dispatch", "dispatchSync",
                           "sync", "closing"}]
    /\ local \in [Threads -> Local]

TaskTypes ==
    /\ wg \in [Threads -> Nat]
    /\ spawned \in [Threads -> Nat]
    /\ running \in [Threads -> Nat]
    /\ syncLeft \in [Threads -> Nat]
    /\ failed \in [Threads -> BOOLEAN]
    /\ leaked \in [Threads -> Nat]

\* Types of the variables that event.go declares and of the call states; the
\* wait group never becomes negative, which would panic (event.go:99, :131).
TypeOK == TableTypes /\ CallTypes /\ TaskTypes

Pending(t) == spawned[t] + running[t] + syncLeft[t]

\* Once a Close has returned, no handler is running or about to run, for any
\* dispatch that was racing with it (Close, event.go:148-154).
QuietAfterClose == drained => \A t \in Threads : Pending(t) = 0

\* The wait group stands for exactly the handlers that are still to finish and
\* those that a panic of a synchronous handler has left behind, so that Close
\* waits for nothing else.
ExactAccounting == \A t \in Threads : wg[t] = Pending(t) + leaked[t]

\* A handler whose Subscribe has returned stays in the table until an
\* Unsubscribe removes it, however many Subscribes run at the same time.
NoLostSubscription ==
    \A s \in subscribed : s[2] \in removed \cup Range(handlers[s[1]])

\* Unsubscribe removes all handlers for an event type (event.go:75): a
\* handler it has removed does not come back.
UnsubscribeIsFinal ==
    \A e \in EventTypes : Range(handlers[e]) \cap removed = {}

\* A Close that has begun to wait returns, although other threads keep trying
\* to dispatch, unless a handler of DispatchSync has panicked before others.
CloseTerminates ==
    \A t \in Threads :
       (pc[t] = "closing") ~> (pc[t] = "idle" \/ \E u \in Threads : leaked[u] > 0)

\* Close stops accepting new dispatches and waits for in-flight handlers
\* (event.go:148), and for nobody else.
CloseWaitsForHandlers ==
    \A t \in Threads :
       (pc[t] = "closing") ~> (pc[t] = "idle")

\* The abstract dispatcher: busy with the threads whose handlers are pending.
Phase == IF drained THEN "closed" ELSE IF closed THEN "closing" ELSE "open"

Busy == {t \in Threads : Pending(t) > 0}

Abstract == INSTANCE DispatcherSpec WITH
    Sources <- Threads, phase <- Phase, busy <- Busy

\* The dispatcher keeps the promise of DispatcherSpec.
ImplementsContract == Abstract!Contract
=============================================================================
