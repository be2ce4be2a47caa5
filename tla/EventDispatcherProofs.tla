------------------------ MODULE EventDispatcherProofs -----------------------
(***************************************************************************)
(* Theorems about EventDispatcher, for every set of threads and event      *)
(* types and every bound: type correctness, quiescence after Close, the    *)
(* exactness of the wait group when no synchronous handler panics, no lost *)
(* subscription, and the implementation of DispatcherSpec.                 *)
(***************************************************************************)
EXTENDS EventDispatcher, SequenceTheorems, TLAPS

\* A thread has synchronous handlers to visit exactly while it is in the loop
\* of DispatchSync, and a dispatch that got past the first check has handlers.
CallState ==
    \A t \in Threads :
       /\ (pc[t] = "sync") <=> (syncLeft[t] > 0)
       /\ pc[t] \in {"dispatch", "dispatchSync"} => local[t].list # <<>>
       /\ pc[t] = "subscribing" => local[t].etype \in EventTypes /\ local[t].id > 0

\* Nobody is waiting in Close, and no Close has returned, before the flag is set.
ClosedState ==
    /\ drained => closed
    /\ \A t \in Threads : pc[t] = "closing" => closed

IInv == TypeOK /\ CallState /\ ClosedState /\ ExactAccounting /\ QuietAfterClose

-----------------------------------------------------------------------------
(* Data                                                                    *)

\* Updating one argument of a function keeps its type.
LEMMA Update ==
  ASSUME NEW D, NEW S, NEW f \in [D -> S], NEW x, NEW v \in S
  PROVE  [f EXCEPT ![x] = v] \in [D -> S]
  OBVIOUS

\* Appending to a sequence adds one member to its range.
LEMMA RangeOfAppend ==
  ASSUME NEW S, NEW s \in Seq(S), NEW x \in S
  PROVE  Range(Append(s, x)) = Range(s) \cup {x}
<1>1. /\ DOMAIN s = 1..Len(s)
      /\ DOMAIN Append(s, x) = 1..Len(s) + 1
      /\ Len(s) \in Nat
  OBVIOUS
<1>2. \A i \in 1..Len(s) : Append(s, x)[i] = s[i]
  OBVIOUS
<1>3. Append(s, x)[Len(s) + 1] = x
  OBVIOUS
<1> QED
  BY <1>1, <1>2, <1>3 DEF Range

LEMMA NoLocalType == NoLocal \in Local
  BY DispatcherAssumption DEF NoLocal, Local

\* The number of handlers of a dispatch that passed the first check.
LEMMA ListLength ==
  ASSUME CallTypes, CallState, NEW t \in Threads
  PROVE  /\ Len(local[t].list) \in Nat
         /\ pc[t] \in {"dispatch", "dispatchSync"} => Len(local[t].list) > 0
<1>1. local[t].list \in Seq(1..MaxHandlers)
  BY DEF CallTypes, Local
<1> QED
  BY <1>1, EmptySeq DEF CallState

-----------------------------------------------------------------------------
(* The initial state                                                       *)

LEMMA InitIInv == Init => IInv
<1> SUFFICES ASSUME Init PROVE IInv
  OBVIOUS
<1>1. TableTypes
  BY DispatcherAssumption DEF Init, TableTypes
<1>2. CallTypes
  BY NoLocalType DEF Init, CallTypes
<1>3. TaskTypes
  BY DEF Init, TaskTypes
<1> QED
  BY <1>1, <1>2, <1>3 DEF Init, IInv, TypeOK, CallState, ClosedState, ExactAccounting,
     QuietAfterClose, Pending

-----------------------------------------------------------------------------
(* Every step                                                              *)

LEMMA TableTypesStep ==
  ASSUME TableTypes, CallTypes, CallState, [Next]_vars
  PROVE  TableTypes'
<1>1. ASSUME NEW t \in Threads, NEW e \in EventTypes, SubscribeLoad(t, e)
      PROVE  TableTypes'
  BY <1>1, DispatcherAssumption DEF SubscribeLoad, TableTypes
<1>2. ASSUME NEW e \in EventTypes, Unsubscribe(e)
      PROVE  TableTypes'
  <2>1. Range(handlers[e]) \subseteq 1..MaxHandlers
    BY RangeOfSeq DEF TableTypes
  <2>2. removed' \subseteq 1..MaxHandlers
    BY <1>2, <2>1 DEF Unsubscribe, TableTypes
  <2>3. handlers' \in [EventTypes -> Seq(1..MaxHandlers)]
    BY <1>2, Update DEF Unsubscribe, TableTypes
  <2> QED
    BY <1>2, <2>2, <2>3 DEF Unsubscribe, TableTypes
<1>3. ASSUME NEW t \in Threads, SubscribeStore(t)
      PROVE  TableTypes'
  <2>1. /\ local[t].list \in Seq(1..MaxHandlers)
        /\ local[t].etype \in EventTypes
        /\ local[t].id \in 1..MaxHandlers
    BY <1>3, DispatcherAssumption DEF SubscribeStore, Goto, CallTypes, CallState, Local
  <2>2. Append(local[t].list, local[t].id) \in Seq(1..MaxHandlers)
    BY <2>1
  <2>3. handlers' \in [EventTypes -> Seq(1..MaxHandlers)]
    BY <1>3, <2>2, Update DEF SubscribeStore, TableTypes
  <2>4. subscribed' \subseteq EventTypes \X (1..MaxHandlers)
    BY <1>3, <2>1 DEF SubscribeStore, TableTypes
  <2> QED
    BY <1>3, <2>3, <2>4 DEF SubscribeStore, TableTypes
<1>4. ASSUME NEW t \in Threads, NEW e \in EventTypes,
             NEW to \in {"dispatch", "dispatchSync"}, DispatchLoad(t, e, to)
      PROVE  TableTypes'
  BY <1>4
  DEF DispatchLoad, TableTypes, tableVars
<1>5. ASSUME NEW t \in Threads,
             \/ DispatchRefused(t) \/ DispatchAsync(t) \/ DispatchSync(t)
             \/ TaskStart(t) \/ TaskFinish(t) \/ SyncHandler(t)
             \/ SyncPanic(t) \/ CloseMark(t) \/ CloseReturn(t)
      PROVE  TableTypes'
  BY <1>5
  DEF DispatchRefused, DispatchAsync, DispatchSync, TaskStart, TaskFinish,
      SyncHandler, SyncPanic, CloseMark, CloseReturn, TableTypes, tableVars
<1>6. CASE UNCHANGED vars
  BY <1>6 DEF vars, TableTypes, tableVars
<1> QED
  BY <1>1, <1>2, <1>3, <1>4, <1>5, <1>6 DEF Next

LEMMA CallTypesStep ==
  ASSUME TableTypes, CallTypes, [Next]_vars
  PROVE  CallTypes'
<1>1. ASSUME NEW t \in Threads, NEW e \in EventTypes, SubscribeLoad(t, e)
      PROVE  CallTypes'
  <2> DEFINE read == [list |-> handlers[e], etype |-> e, id |-> issued + 1]
  <2>1. read \in Local
    BY <1>1, DispatcherAssumption DEF SubscribeLoad, TableTypes, Local
  <2>2. local' \in [Threads -> Local]
    BY <1>1, <2>1, Update DEF SubscribeLoad, CallTypes
  <2> QED
    BY <1>1, <2>2 DEF SubscribeLoad, Goto, CallTypes
<1>2. ASSUME NEW t \in Threads, NEW e \in EventTypes,
             NEW to \in {"dispatch", "dispatchSync"}, DispatchLoad(t, e, to)
      PROVE  CallTypes'
  <2> DEFINE read == [list |-> handlers[e], etype |-> e, id |-> 0]
  <2>1. read \in Local
    BY DispatcherAssumption DEF TableTypes, Local
  <2>2. local' \in [Threads -> Local]
    BY <1>2, <2>1, Update DEF DispatchLoad, CallTypes
  <2> QED
    BY <1>2, <2>2 DEF DispatchLoad, Goto, CallTypes
<1>3. ASSUME NEW t \in Threads, SubscribeStore(t)
      PROVE  CallTypes'
  <2>1. local' \in [Threads -> Local]
    BY <1>3, NoLocalType, Update DEF SubscribeStore, Return, CallTypes
  <2> QED
    BY <1>3, <2>1 DEF SubscribeStore, Goto, CallTypes
<1>4. ASSUME NEW t \in Threads, DispatchRefused(t)
      PROVE  CallTypes'
  <2>1. local' \in [Threads -> Local]
    BY <1>4, NoLocalType, Update DEF DispatchRefused, Return, CallTypes
  <2> QED
    BY <1>4, <2>1 DEF DispatchRefused, Goto, CallTypes
<1>5. ASSUME NEW t \in Threads, DispatchAsync(t)
      PROVE  CallTypes'
  <2>1. local' \in [Threads -> Local]
    BY <1>5, NoLocalType, Update DEF DispatchAsync, Return, CallTypes
  <2> QED
    BY <1>5, <2>1 DEF DispatchAsync, Goto, CallTypes
<1>6. ASSUME NEW t \in Threads, SyncHandler(t)
      PROVE  CallTypes'
  <2>1. local' \in [Threads -> Local]
    BY <1>6, NoLocalType, Update DEF SyncHandler, Return, CallTypes
  <2> QED
    BY <1>6, <2>1 DEF SyncHandler, Goto, CallTypes
<1>7. ASSUME NEW t \in Threads, SyncPanic(t)
      PROVE  CallTypes'
  <2>1. local' \in [Threads -> Local]
    BY <1>7, NoLocalType, Update DEF SyncPanic, Return, CallTypes
  <2> QED
    BY <1>7, <2>1 DEF SyncPanic, Goto, CallTypes
<1>8. ASSUME NEW e \in EventTypes, Unsubscribe(e)
      PROVE  CallTypes'
  BY <1>8
  DEF Unsubscribe, CallTypes, Goto, taskVars, tableVars
<1>9. ASSUME NEW t \in Threads,
             \/ DispatchSync(t) \/ TaskStart(t) \/ TaskFinish(t)
             \/ CloseMark(t) \/ CloseReturn(t)
      PROVE  CallTypes'
  BY <1>9
  DEF DispatchSync, TaskStart, TaskFinish, CloseMark, CloseReturn, CallTypes,
      Goto, taskVars, tableVars
<1>10. CASE UNCHANGED vars
  BY <1>10 DEF vars, CallTypes, Goto, taskVars, tableVars
<1> QED
  BY <1>1, <1>2, <1>3, <1>4, <1>5, <1>6, <1>7, <1>8, <1>9, <1>10 DEF Next

LEMMA TaskTypesStep ==
  ASSUME CallTypes, TaskTypes, CallState, ExactAccounting, [Next]_vars
  PROVE  TaskTypes'
<1>1. ASSUME NEW t \in Threads, DispatchAsync(t)
      PROVE  TaskTypes'
  <2>1. Len(local[t].list) \in Nat
    BY ListLength
  <2>4. wg[t] + Len(local[t].list) \in Nat /\ wg \in [Threads -> Nat]
    <3>1. wg \in [Threads -> Nat] /\ wg[t] \in Nat
      BY DEF TaskTypes
    <3> QED
      BY <2>1, <3>1
  <2>5. wg' = [wg EXCEPT ![t] = wg[t] + Len(local[t].list)]
    BY <1>1 DEF DispatchAsync, BeginDispatch
  <2>2. wg' \in [Threads -> Nat]
    BY <2>4, <2>5, Update
  <2>3. spawned' \in [Threads -> Nat]
    BY <1>1, <2>1, Update DEF DispatchAsync, TaskTypes
  <2> QED
    BY <1>1, <2>2, <2>3 DEF DispatchAsync, TaskTypes
<1>2. ASSUME NEW t \in Threads, DispatchSync(t)
      PROVE  TaskTypes'
  <2>1. Len(local[t].list) \in Nat
    BY ListLength
  <2>4. wg[t] + Len(local[t].list) \in Nat /\ wg \in [Threads -> Nat]
    <3>1. wg \in [Threads -> Nat] /\ wg[t] \in Nat
      BY DEF TaskTypes
    <3> QED
      BY <2>1, <3>1
  <2>5. wg' = [wg EXCEPT ![t] = wg[t] + Len(local[t].list)]
    BY <1>2 DEF DispatchSync, BeginDispatch
  <2>2. wg' \in [Threads -> Nat]
    BY <2>4, <2>5, Update
  <2>3. syncLeft' \in [Threads -> Nat]
    BY <1>2, <2>1, Update DEF DispatchSync, TaskTypes
  <2> QED
    BY <1>2, <2>2, <2>3 DEF DispatchSync, TaskTypes
<1>3. ASSUME NEW t \in Threads, TaskFinish(t)
      PROVE  TaskTypes'
  <2>1. wg[t] - 1 \in Nat
    BY <1>3 DEF TaskFinish, TaskTypes, ExactAccounting, Pending
  <2>2. wg' \in [Threads -> Nat]
    BY <1>3, <2>1, Update DEF TaskFinish, Done, TaskTypes
  <2>3. running' \in [Threads -> Nat]
    BY <1>3, Update DEF TaskFinish, TaskTypes
  <2> QED
    BY <1>3, <2>2, <2>3 DEF TaskFinish, TaskTypes
<1>4. ASSUME NEW t \in Threads, SyncHandler(t)
      PROVE  TaskTypes'
  <2>1. wg[t] - 1 \in Nat /\ syncLeft[t] - 1 \in Nat
    BY <1>4 DEF SyncHandler, TaskTypes, CallState, ExactAccounting, Pending
  <2>2. wg' \in [Threads -> Nat]
    BY <1>4, <2>1, Update DEF SyncHandler, Done, TaskTypes
  <2>3. syncLeft' \in [Threads -> Nat]
    BY <1>4, <2>1, Update DEF SyncHandler, TaskTypes
  <2>4. failed' \in [Threads -> BOOLEAN]
    BY <1>4 DEF SyncHandler, TaskTypes
  <2> QED
    BY <1>4, <2>2, <2>3, <2>4 DEF SyncHandler, TaskTypes
<1>5. ASSUME NEW t \in Threads, SyncPanic(t)
      PROVE  TaskTypes'
  <2>1. wg[t] - 1 \in Nat
    <3>1. syncLeft[t] > 0
      BY <1>5 DEF SyncPanic, Goto, CallState
    <3>2. wg[t] = spawned[t] + running[t] + syncLeft[t] + leaked[t]
      BY DEF ExactAccounting, Pending
    <3>3. /\ spawned[t] \in Nat /\ running[t] \in Nat
          /\ syncLeft[t] \in Nat /\ leaked[t] \in Nat
      BY DEF TaskTypes
    <3> QED
      BY <3>1, <3>2, <3>3
  <2>2. wg' \in [Threads -> Nat]
    BY <1>5, <2>1, Update DEF SyncPanic, Done, TaskTypes
  <2>3. leaked[t] + syncLeft[t] - 1 \in Nat
    BY <1>5 DEF SyncPanic, Goto, TaskTypes, CallState
  <2>4. leaked' \in [Threads -> Nat]
    BY <1>5, <2>3, Update DEF SyncPanic, TaskTypes
  <2> QED
    BY <1>5, <2>2, <2>4 DEF SyncPanic, TaskTypes
<1>6. ASSUME NEW t \in Threads, NEW e \in EventTypes, SubscribeLoad(t, e)
      PROVE  TaskTypes'
  BY <1>6
  DEF SubscribeLoad, TaskTypes, taskVars
<1>7. ASSUME NEW t \in Threads, NEW e \in EventTypes,
             NEW to \in {"dispatch", "dispatchSync"}, DispatchLoad(t, e, to)
      PROVE  TaskTypes'
  BY <1>7
  DEF DispatchLoad, TaskTypes, taskVars
<1>8. ASSUME NEW e \in EventTypes, Unsubscribe(e)
      PROVE  TaskTypes'
  BY <1>8
  DEF Unsubscribe, TaskTypes, taskVars
<1>9. ASSUME NEW t \in Threads,
             \/ SubscribeStore(t) \/ DispatchRefused(t)
             \/ CloseMark(t) \/ CloseReturn(t)
      PROVE  TaskTypes'
  BY <1>9
  DEF SubscribeStore, DispatchRefused, CloseMark, CloseReturn, TaskTypes, taskVars
<1>11. ASSUME NEW t \in Threads, TaskStart(t)
      PROVE  TaskTypes'
  BY <1>11 DEF TaskStart, TaskTypes
<1>10. CASE UNCHANGED vars
  BY <1>10 DEF vars, TaskTypes, taskVars
<1> QED
  BY <1>1, <1>2, <1>3, <1>4, <1>5, <1>6, <1>7, <1>8, <1>9, <1>10, <1>11 DEF Next

LEMMA CallStateStep ==
  ASSUME TypeOK, CallState, [Next]_vars
  PROVE  CallState'
<1> USE DEF TypeOK
<1>1. ASSUME NEW t \in Threads, NEW e \in EventTypes, SubscribeLoad(t, e)
      PROVE  CallState'
  <2>1. local'[t].etype = e /\ local'[t].id > 0
    BY <1>1 DEF SubscribeLoad, CallTypes, TableTypes
  <2> QED
    BY <1>1, <2>1 DEF SubscribeLoad, CallState, Goto, CallTypes, taskVars
<1>2. ASSUME NEW t \in Threads, NEW e \in EventTypes,
             NEW to \in {"dispatch", "dispatchSync"}, DispatchLoad(t, e, to)
      PROVE  CallState'
  <2>1. local'[t].list # <<>>
    BY <1>2 DEF DispatchLoad, CallTypes
  <2> QED
    BY <1>2, <2>1 DEF DispatchLoad, CallState, Goto, CallTypes, taskVars
<1>3. ASSUME NEW t \in Threads, SubscribeStore(t)
      PROVE  CallState'
  BY <1>3 DEF SubscribeStore, CallState, Return, Goto, TaskTypes, CallTypes, taskVars
<1>4. ASSUME NEW t \in Threads, DispatchRefused(t)
      PROVE  CallState'
  BY <1>4 DEF DispatchRefused, CallState, Return, Goto, TaskTypes, CallTypes, taskVars
<1>5. ASSUME NEW t \in Threads, DispatchAsync(t)
      PROVE  CallState'
  BY <1>5 DEF DispatchAsync, CallState, Return, Goto, TaskTypes, CallTypes, taskVars
<1>6. ASSUME NEW t \in Threads, DispatchSync(t)
      PROVE  CallState'
  <2>1. Len(local[t].list) > 0
    BY <1>6, ListLength DEF DispatchSync, Goto
  <2> QED
    BY <1>6, <2>1 DEF DispatchSync, CallState, Goto, TaskTypes, CallTypes
<1>7. ASSUME NEW t \in Threads, SyncHandler(t)
      PROVE  CallState'
  <2>1. CASE syncLeft[t] = 1
    BY <1>7, <2>1, SMTT(30)
    DEF SyncHandler, CallState, Return, Goto, TaskTypes, CallTypes
  <2>2. CASE syncLeft[t] # 1
    BY <1>7, <2>2 DEF SyncHandler, CallState, Goto, TaskTypes, CallTypes
  <2> QED
    BY <2>1, <2>2
<1>8. ASSUME NEW t \in Threads, SyncPanic(t)
      PROVE  CallState'
  BY <1>8 DEF SyncPanic, CallState, Return, Goto, TaskTypes, CallTypes, taskVars
<1>9. ASSUME NEW e \in EventTypes, Unsubscribe(e)
      PROVE  CallState'
  BY <1>9
  DEF Unsubscribe, CallState, Goto, CallTypes, taskVars
<1>10. ASSUME NEW t \in Threads,
             \/ TaskStart(t) \/ TaskFinish(t) \/ CloseMark(t)
             \/ CloseReturn(t)
      PROVE  CallState'
  BY <1>10
  DEF TaskStart, TaskFinish, CloseMark, CloseReturn, CallState, Goto,
      CallTypes, taskVars
<1>11. CASE UNCHANGED vars
  BY <1>11 DEF vars, CallState, Goto, CallTypes, taskVars
<1> QED
  BY <1>1, <1>2, <1>3, <1>4, <1>5, <1>6, <1>7, <1>8, <1>9, <1>10, <1>11 DEF Next

LEMMA ClosedStateStep ==
  ASSUME CallTypes, ClosedState, [Next]_vars
  PROVE  ClosedState'
<1>1. ASSUME NEW t \in Threads, SyncHandler(t)
      PROVE  ClosedState'
  BY <1>1 DEF SyncHandler, ClosedState, Goto, CallTypes
<1>2. ASSUME NEW t \in Threads, NEW e \in EventTypes, SubscribeLoad(t, e)
      PROVE  ClosedState'
  BY <1>2
  DEF SubscribeLoad, ClosedState, Goto, CallTypes
<1>3. ASSUME NEW t \in Threads, NEW e \in EventTypes,
             NEW to \in {"dispatch", "dispatchSync"}, DispatchLoad(t, e, to)
      PROVE  ClosedState'
  BY <1>3
  DEF DispatchLoad, ClosedState, Goto, CallTypes
<1>4. ASSUME NEW e \in EventTypes, Unsubscribe(e)
      PROVE  ClosedState'
  BY <1>4
  DEF Unsubscribe, ClosedState, Goto, CallTypes
<1>5. ASSUME NEW t \in Threads,
             \/ SubscribeStore(t) \/ DispatchRefused(t) \/ DispatchAsync(t)
             \/ DispatchSync(t) \/ TaskStart(t) \/ TaskFinish(t)
             \/ SyncPanic(t) \/ CloseMark(t) \/ CloseReturn(t)
      PROVE  ClosedState'
  BY <1>5
  DEF SubscribeStore, DispatchRefused, DispatchAsync, DispatchSync, TaskStart,
      TaskFinish, SyncPanic, CloseMark, CloseReturn, ClosedState, Goto,
      CallTypes
<1>6. CASE UNCHANGED vars
  BY <1>6 DEF vars, ClosedState, Goto, CallTypes
<1> QED
  BY <1>1, <1>2, <1>3, <1>4, <1>5, <1>6 DEF Next

LEMMA ExactAccountingStep ==
  ASSUME TaskTypes, CallTypes, CallState, ExactAccounting, [Next]_vars
  PROVE  ExactAccounting'
<1>1. ASSUME NEW t \in Threads, DispatchAsync(t)
      PROVE  ExactAccounting'
  <2>1. Len(local[t].list) \in Nat
    BY ListLength
  <2>2. /\ wg' = [wg EXCEPT ![t] = @ + Len(local[t].list)]
        /\ spawned' = [spawned EXCEPT ![t] = @ + Len(local[t].list)]
        /\ running' = running
        /\ syncLeft' = syncLeft
        /\ leaked' = leaked
    BY <1>1 DEF DispatchAsync, BeginDispatch
  <2> SUFFICES ASSUME NEW u \in Threads PROVE wg'[u] = Pending(u)' + leaked'[u]
    BY DEF ExactAccounting
  <2>4. /\ wg[u] = Pending(u) + leaked[u]
        /\ wg[u] \in Nat /\ spawned[u] \in Nat /\ leaked[u] \in Nat
        /\ running[u] \in Nat /\ syncLeft[u] \in Nat
    BY DEF ExactAccounting, TaskTypes
  <2>5. CASE u = t
    <3>1. /\ wg'[u] = wg[u] + Len(local[t].list)
          /\ spawned'[u] = spawned[u] + Len(local[t].list)
          /\ running'[u] = running[u]
          /\ syncLeft'[u] = syncLeft[u]
          /\ leaked'[u] = leaked[u]
      BY <2>2, <2>4, <2>5, <2>1 DEF TaskTypes
    <3>2. Pending(u)' = Pending(u) + Len(local[t].list)
      <4> DEFINE n == Len(local[t].list)
      <4>1. n \in Nat /\ spawned'[u] = spawned[u] + n
        BY <2>1, <3>1
      <4> HIDE DEF n
      <4>2. spawned'[u] + running'[u] + syncLeft'[u] = spawned[u] + running[u] + syncLeft[u] + n
        BY <2>4, <3>1, <4>1
      <4> QED
        BY <4>2 DEF Pending, n
    <3>3. Pending(u) \in Nat
      BY <2>4 DEF Pending
    <3> QED
      BY <2>1, <2>4, <3>1, <3>2, <3>3
  <2>6. CASE u # t
    BY <2>2, <2>4, <2>6 DEF Pending, TaskTypes
  <2> QED
    BY <2>5, <2>6
<1>2. ASSUME NEW t \in Threads, DispatchSync(t)
      PROVE  ExactAccounting'
  <2>1. Len(local[t].list) \in Nat
    BY ListLength
  <2>2. /\ wg' = [wg EXCEPT ![t] = @ + Len(local[t].list)]
        /\ syncLeft' = [syncLeft EXCEPT ![t] = Len(local[t].list)]
        /\ running' = running
        /\ spawned' = spawned
        /\ leaked' = leaked
    BY <1>2 DEF DispatchSync, BeginDispatch
  <2>3. syncLeft[t] = 0
    BY <1>2 DEF DispatchSync, CallState, TaskTypes, Goto
  <2> SUFFICES ASSUME NEW u \in Threads PROVE wg'[u] = Pending(u)' + leaked'[u]
    BY DEF ExactAccounting
  <2>4. /\ wg[u] = Pending(u) + leaked[u]
        /\ wg[u] \in Nat /\ spawned[u] \in Nat /\ leaked[u] \in Nat
        /\ running[u] \in Nat /\ syncLeft[u] \in Nat
    BY DEF ExactAccounting, TaskTypes
  <2>5. CASE u = t
    <3>1. /\ wg'[u] = wg[u] + Len(local[t].list)
          /\ syncLeft'[u] = syncLeft[u] + Len(local[t].list)
          /\ running'[u] = running[u]
          /\ spawned'[u] = spawned[u]
          /\ leaked'[u] = leaked[u]
      BY <2>2, <2>3, <2>4, <2>5, <2>1 DEF TaskTypes
    <3>2. Pending(u)' = Pending(u) + Len(local[t].list)
      <4> DEFINE n == Len(local[t].list)
      <4>1. n \in Nat /\ syncLeft'[u] = syncLeft[u] + n
        BY <2>1, <3>1
      <4> HIDE DEF n
      <4>2. spawned'[u] + running'[u] + syncLeft'[u] = spawned[u] + running[u] + syncLeft[u] + n
        BY <2>4, <3>1, <4>1
      <4> QED
        BY <4>2 DEF Pending, n
    <3>3. Pending(u) \in Nat
      BY <2>4 DEF Pending
    <3> QED
      BY <2>1, <2>4, <3>1, <3>2, <3>3
  <2>6. CASE u # t
    BY <2>2, <2>4, <2>6 DEF Pending, TaskTypes
  <2> QED
    BY <2>5, <2>6
<1>3. ASSUME NEW t \in Threads, TaskStart(t)
      PROVE  ExactAccounting'
  BY <1>3 DEF TaskStart, ExactAccounting, Pending, TaskTypes, CallState
<1>4. ASSUME NEW t \in Threads, TaskFinish(t)
      PROVE  ExactAccounting'
  BY <1>4 DEF TaskFinish, Done, ExactAccounting, Pending, TaskTypes, CallState
<1>5. ASSUME NEW t \in Threads, SyncHandler(t)
      PROVE  ExactAccounting'
  <2>1. syncLeft[t] > 0
    BY <1>5 DEF SyncHandler, CallState
  <2>2. /\ wg' = [wg EXCEPT ![t] = wg[t] - 1]
        /\ syncLeft' = [syncLeft EXCEPT ![t] = syncLeft[t] - 1]
        /\ spawned' = spawned /\ running' = running /\ leaked' = leaked
    BY <1>5 DEF SyncHandler, Done
  <2> SUFFICES ASSUME NEW u \in Threads PROVE wg'[u] = Pending(u)' + leaked'[u]
    BY DEF ExactAccounting
  <2> QED
    BY <2>1, <2>2 DEF ExactAccounting, Pending, TaskTypes
<1>6. ASSUME NEW t \in Threads, SyncPanic(t)
      PROVE  ExactAccounting'
  <2>1. syncLeft[t] > 0
    BY <1>6 DEF SyncPanic, CallState, Goto
  <2>2. wg' = [wg EXCEPT ![t] = wg[t] - 1] /\ syncLeft' = [syncLeft EXCEPT ![t] = 0]
    BY <1>6 DEF SyncPanic, Done
  <2>3. /\ spawned' = spawned /\ running' = running
        /\ leaked' = [leaked EXCEPT ![t] = leaked[t] + syncLeft[t] - 1]
    BY <1>6 DEF SyncPanic
  <2> SUFFICES ASSUME NEW u \in Threads PROVE wg'[u] = Pending(u)' + leaked'[u]
    BY DEF ExactAccounting
  <2> QED
    BY <2>1, <2>2, <2>3 DEF ExactAccounting, Pending, TaskTypes
<1>7. ASSUME NEW t \in Threads, NEW e \in EventTypes, SubscribeLoad(t, e)
      PROVE  ExactAccounting'
  BY <1>7
  DEF SubscribeLoad, ExactAccounting, Pending, TaskTypes, taskVars
<1>8. ASSUME NEW t \in Threads, NEW e \in EventTypes,
             NEW to \in {"dispatch", "dispatchSync"}, DispatchLoad(t, e, to)
      PROVE  ExactAccounting'
  BY <1>8
  DEF DispatchLoad, ExactAccounting, Pending, TaskTypes, taskVars
<1>9. ASSUME NEW e \in EventTypes, Unsubscribe(e)
      PROVE  ExactAccounting'
  BY <1>9
  DEF Unsubscribe, ExactAccounting, Pending, TaskTypes, taskVars
<1>10. ASSUME NEW t \in Threads,
             \/ SubscribeStore(t) \/ DispatchRefused(t) \/ CloseMark(t)
             \/ CloseReturn(t)
      PROVE  ExactAccounting'
  BY <1>10
  DEF SubscribeStore, DispatchRefused, CloseMark, CloseReturn, ExactAccounting,
      Pending, TaskTypes, taskVars
<1>11. CASE UNCHANGED vars
  BY <1>11 DEF vars, ExactAccounting, Pending, TaskTypes, taskVars
<1> QED
  BY <1>1, <1>2, <1>3, <1>4, <1>5, <1>6, <1>7, <1>8, <1>9, <1>10, <1>11 DEF Next

LEMMA QuietAfterCloseStep ==
  ASSUME TaskTypes, CallState, ClosedState, ExactAccounting, QuietAfterClose, [Next]_vars
  PROVE  QuietAfterClose'
<1>1. ASSUME NEW t \in Threads, DispatchAsync(t)
      PROVE  QuietAfterClose'
  BY <1>1 DEF DispatchAsync, BeginDispatch, QuietAfterClose, ClosedState
<1>2. ASSUME NEW t \in Threads, DispatchSync(t)
      PROVE  QuietAfterClose'
  BY <1>2 DEF DispatchSync, BeginDispatch, QuietAfterClose, ClosedState
<1>3. ASSUME NEW t \in Threads, TaskStart(t)
      PROVE  QuietAfterClose'
  BY <1>3 DEF TaskStart, QuietAfterClose, Pending, TaskTypes
<1>4. ASSUME NEW t \in Threads, TaskFinish(t)
      PROVE  QuietAfterClose'
  BY <1>4 DEF TaskFinish, QuietAfterClose, Pending, TaskTypes
<1>5. ASSUME NEW t \in Threads, SyncHandler(t)
      PROVE  QuietAfterClose'
  BY <1>5 DEF SyncHandler, QuietAfterClose, Pending, TaskTypes, CallState, Goto
<1>6. ASSUME NEW t \in Threads, SyncPanic(t)
      PROVE  QuietAfterClose'
  BY <1>6 DEF SyncPanic, QuietAfterClose, Pending, TaskTypes, CallState, Goto
<1>7. ASSUME NEW t \in Threads, CloseReturn(t)
      PROVE  QuietAfterClose'
  <2>1. \A u \in Threads : Pending(u) = 0
    <3> SUFFICES ASSUME NEW u \in Threads PROVE Pending(u) = 0
      OBVIOUS
    <3>1. wg[u] = 0
      BY <1>7 DEF CloseReturn, WaitDone
    <3>2. Pending(u) + leaked[u] = 0
      BY <3>1 DEF ExactAccounting
    <3>3. Pending(u) \in Nat /\ leaked[u] \in Nat
      BY DEF Pending, TaskTypes
    <3> QED
      BY <3>2, <3>3
  <2> QED
    BY <1>7, <2>1 DEF CloseReturn, QuietAfterClose, Pending, taskVars
<1>8. ASSUME NEW t \in Threads, NEW e \in EventTypes, SubscribeLoad(t, e)
      PROVE  QuietAfterClose'
  BY <1>8
  DEF SubscribeLoad, QuietAfterClose, Pending, TaskTypes, taskVars
<1>9. ASSUME NEW t \in Threads, NEW e \in EventTypes,
             NEW to \in {"dispatch", "dispatchSync"}, DispatchLoad(t, e, to)
      PROVE  QuietAfterClose'
  BY <1>9
  DEF DispatchLoad, QuietAfterClose, Pending, TaskTypes, taskVars
<1>10. ASSUME NEW e \in EventTypes, Unsubscribe(e)
      PROVE  QuietAfterClose'
  BY <1>10
  DEF Unsubscribe, QuietAfterClose, Pending, TaskTypes, taskVars
<1>11. ASSUME NEW t \in Threads,
             \/ SubscribeStore(t) \/ DispatchRefused(t) \/ CloseMark(t)
      PROVE  QuietAfterClose'
  BY <1>11
  DEF SubscribeStore, DispatchRefused, CloseMark, QuietAfterClose, Pending,
      TaskTypes, taskVars
<1>12. CASE UNCHANGED vars
  BY <1>12 DEF vars, QuietAfterClose, Pending, TaskTypes, taskVars
<1> QED
  BY <1>1, <1>2, <1>3, <1>4, <1>5, <1>6, <1>7, <1>8, <1>9, <1>10, <1>11, <1>12 DEF Next

-----------------------------------------------------------------------------
(* Theorems                                                                *)

\* The inductive invariant holds in every reachable state.
THEOREM Invariant == Spec => []IInv
<1>1. IInv /\ [Next]_vars => IInv'
  BY TableTypesStep, CallTypesStep, TaskTypesStep, CallStateStep,
     ClosedStateStep, ExactAccountingStep, QuietAfterCloseStep DEF IInv, TypeOK
<1> QED
  BY InitIInv, <1>1, PTL DEF Spec

\* The variables keep their types; in particular no Done makes the wait group
\* negative (event.go:99, :131).
THEOREM TypeCorrect == Spec => []TypeOK
<1>1. IInv => TypeOK
  BY DEF IInv
<1> QED
  BY Invariant, <1>1, PTL

\* After Close returns no handler runs, whatever raced with it and even if
\* synchronous handlers have panicked (event.go:148-154).
THEOREM CloseQuiesces == Spec => []QuietAfterClose
<1>1. IInv => QuietAfterClose
  BY DEF IInv
<1> QED
  BY Invariant, <1>1, PTL

-----------------------------------------------------------------------------
(* The wait group                                                          *)

\* The wait group counts exactly the handlers that are still to finish and those
\* that a panicking synchronous handler has left behind: Close never waits for
\* anything else (event.go:97-109, :128-140).
THEOREM WaitGroupIsExact == Spec => []ExactAccounting
<1>1. IInv => ExactAccounting
  BY DEF IInv
<1> QED
  BY Invariant, <1>1, PTL

-----------------------------------------------------------------------------
(* Subscriptions                                                           *)

\* A thread inside Subscribe holds the mutex, so the only change another
\* thread can make to the list it has read is to empty the entry.
SubscribeState ==
    \A t \in Threads :
       /\ (pc[t] = "subscribing") <=> (mu = t)
       /\ pc[t] = "subscribing" =>
             handlers[local[t].etype] \in {<<>>, local[t].list}

LEMMA SubscribeStateStep ==
  ASSUME TableTypes, CallTypes, CallState, SubscribeState, [Next]_vars
  PROVE  SubscribeState'
<1>1. ASSUME NEW t \in Threads, NEW e \in EventTypes, SubscribeLoad(t, e)
      PROVE  SubscribeState'
  <2>1. mu' = t /\ pc'[t] = "subscribing" /\ handlers' = handlers
    BY <1>1 DEF SubscribeLoad, Goto, CallTypes
  <2>2. local'[t].etype = e /\ local'[t].list = handlers[e]
    BY <1>1 DEF SubscribeLoad, CallTypes
  <2>3. ASSUME NEW u \in Threads, u # t
        PROVE  pc'[u] = pc[u] /\ local'[u] = local[u] /\ pc[u] # "subscribing"
    BY <1>1, <2>3, DispatcherAssumption
       DEF SubscribeLoad, Goto, MutexFree, SubscribeState, CallTypes
  <2> QED
    BY <2>1, <2>2, <2>3 DEF SubscribeState
<1>2. ASSUME NEW t \in Threads, SubscribeStore(t)
      PROVE  SubscribeState'
  <2>1. pc[t] = "subscribing" /\ pc'[t] # "subscribing" /\ mu = t /\ mu' = Free
    BY <1>2 DEF SubscribeStore, SubscribeState, Goto, CallTypes
  <2>2. ASSUME NEW u \in Threads, u # t
        PROVE  pc'[u] = pc[u] /\ local'[u] = local[u]
    BY <1>2, <2>2 DEF SubscribeStore, Goto, Return, CallTypes
  <2> QED
    BY <1>2, <2>1, <2>2, DispatcherAssumption DEF SubscribeStore, SubscribeState, tableVars, CallTypes
<1>3. ASSUME NEW t \in Threads, DispatchRefused(t)
      PROVE  SubscribeState'
  <2>1. pc[t] # "subscribing" /\ pc'[t] # "subscribing" /\ mu' = mu
    BY <1>3 DEF DispatchRefused, SubscribeState, Goto, CallTypes
  <2>2. ASSUME NEW u \in Threads, u # t
        PROVE  pc'[u] = pc[u] /\ local'[u] = local[u]
    BY <1>3, <2>2 DEF DispatchRefused, Goto, Return, CallTypes
  <2> QED
    BY <1>3, <2>1, <2>2, DispatcherAssumption DEF DispatchRefused, SubscribeState, tableVars, CallTypes
<1>4. ASSUME NEW t \in Threads, DispatchAsync(t)
      PROVE  SubscribeState'
  <2>1. pc[t] # "subscribing" /\ pc'[t] # "subscribing" /\ mu' = mu
    BY <1>4 DEF DispatchAsync, SubscribeState, Goto, CallTypes
  <2>2. ASSUME NEW u \in Threads, u # t
        PROVE  pc'[u] = pc[u] /\ local'[u] = local[u]
    BY <1>4, <2>2 DEF DispatchAsync, Goto, Return, CallTypes
  <2> QED
    BY <1>4, <2>1, <2>2, DispatcherAssumption DEF DispatchAsync, SubscribeState, tableVars, CallTypes
<1>5. ASSUME NEW t \in Threads, SyncHandler(t)
      PROVE  SubscribeState'
  <2>1. pc[t] # "subscribing" /\ pc'[t] # "subscribing" /\ mu' = mu
    BY <1>5 DEF SyncHandler, SubscribeState, Goto, CallTypes
  <2>2. ASSUME NEW u \in Threads, u # t
        PROVE  pc'[u] = pc[u] /\ local'[u] = local[u]
    BY <1>5, <2>2 DEF SyncHandler, Goto, Return, CallTypes
  <2> QED
    BY <1>5, <2>1, <2>2, DispatcherAssumption DEF SyncHandler, SubscribeState, tableVars, CallTypes
<1>6. ASSUME NEW t \in Threads, SyncPanic(t)
      PROVE  SubscribeState'
  <2>1. pc[t] # "subscribing" /\ pc'[t] # "subscribing" /\ mu' = mu
    BY <1>6 DEF SyncPanic, SubscribeState, Goto, CallTypes
  <2>2. ASSUME NEW u \in Threads, u # t
        PROVE  pc'[u] = pc[u] /\ local'[u] = local[u]
    BY <1>6, <2>2 DEF SyncPanic, Goto, Return, CallTypes
  <2> QED
    BY <1>6, <2>1, <2>2, DispatcherAssumption DEF SyncPanic, SubscribeState, tableVars, CallTypes
<1>7. ASSUME NEW t \in Threads, NEW e \in EventTypes,
             NEW to \in {"dispatch", "dispatchSync"}, DispatchLoad(t, e, to)
      PROVE  SubscribeState'
  BY <1>7
  DEF DispatchLoad, SubscribeState, Goto, tableVars, CallTypes
<1>8. ASSUME NEW e \in EventTypes, Unsubscribe(e)
      PROVE  SubscribeState'
  BY <1>8
  DEF Unsubscribe, SubscribeState, Goto, tableVars, CallTypes
<1>9. ASSUME NEW t \in Threads,
             \/ DispatchSync(t) \/ TaskStart(t) \/ TaskFinish(t)
             \/ CloseMark(t) \/ CloseReturn(t)
      PROVE  SubscribeState'
  BY <1>9
  DEF DispatchSync, TaskStart, TaskFinish, CloseMark, CloseReturn,
      SubscribeState, Goto, tableVars, CallTypes
<1>10. CASE UNCHANGED vars
  BY <1>10 DEF vars, SubscribeState, Goto, tableVars, CallTypes
<1> QED
  BY <1>1, <1>2, <1>3, <1>4, <1>5, <1>6, <1>7, <1>8, <1>9, <1>10 DEF Next

LEMMA NoLostSubscriptionStep ==
  ASSUME TableTypes, CallTypes, CallState, SubscribeState, NoLostSubscription, [Next]_vars
  PROVE  NoLostSubscription'
<1>1. ASSUME NEW t \in Threads, SubscribeStore(t)
      PROVE  NoLostSubscription'
  <2> DEFINE e == local[t].etype
             l == local[t].list
             h == local[t].id
  <2>1. /\ l \in Seq(1..MaxHandlers) /\ e \in EventTypes /\ h \in 1..MaxHandlers
        /\ handlers[e] \in {<<>>, l}
    BY <1>1, DispatcherAssumption
       DEF SubscribeStore, Goto, CallTypes, CallState, SubscribeState, Local
  <2>2. /\ handlers' = [handlers EXCEPT ![e] = Append(l, h)]
        /\ subscribed' = subscribed \cup {<<e, h>>}
        /\ removed' = removed
    BY <1>1 DEF SubscribeStore
  <2> HIDE DEF e, l, h
  <2>3. Range(Append(l, h)) = Range(l) \cup {h}
    <3> DEFINE S == 1..MaxHandlers
    <3>1. l \in Seq(S) /\ h \in S
      BY <2>1
    <3> HIDE DEF S
    <3> QED
      BY <3>1, RangeOfAppend
  <2>7. Range(handlers[e]) \subseteq Range(l)
    <3>1. CASE handlers[e] = <<>>
      BY <3>1 DEF Range
    <3>2. CASE handlers[e] = l
      BY <3>2
    <3> QED
      BY <2>1, <3>1, <3>2
  <2> SUFFICES ASSUME NEW s \in subscribed'
               PROVE  s[2] \in removed' \cup Range(handlers'[s[1]])
    BY DEF NoLostSubscription
  <2>4. CASE s = <<e, h>>
    BY <2>1, <2>2, <2>3, <2>4 DEF TableTypes
  <2>5. CASE s \in subscribed /\ s[1] = e
    BY <2>1, <2>2, <2>3, <2>7, <2>5 DEF TableTypes, NoLostSubscription
  <2>6. CASE s \in subscribed /\ s[1] # e
    BY <2>2, <2>6 DEF TableTypes, NoLostSubscription
  <2> QED
    BY <2>2, <2>4, <2>5, <2>6
<1>2. ASSUME NEW t \in Threads, NEW e \in EventTypes, SubscribeLoad(t, e)
      PROVE  NoLostSubscription'
  BY <1>2
  DEF SubscribeLoad, NoLostSubscription, tableVars
<1>3. ASSUME NEW t \in Threads, NEW e \in EventTypes,
             NEW to \in {"dispatch", "dispatchSync"}, DispatchLoad(t, e, to)
      PROVE  NoLostSubscription'
  BY <1>3
  DEF DispatchLoad, NoLostSubscription, tableVars
<1>4. ASSUME NEW e \in EventTypes, Unsubscribe(e)
      PROVE  NoLostSubscription'
  BY <1>4
  DEF Unsubscribe, NoLostSubscription, tableVars
<1>5. ASSUME NEW t \in Threads,
             \/ DispatchRefused(t) \/ DispatchAsync(t) \/ DispatchSync(t)
             \/ TaskStart(t) \/ TaskFinish(t) \/ SyncHandler(t)
             \/ SyncPanic(t) \/ CloseMark(t) \/ CloseReturn(t)
      PROVE  NoLostSubscription'
  BY <1>5
  DEF DispatchRefused, DispatchAsync, DispatchSync, TaskStart, TaskFinish,
      SyncHandler, SyncPanic, CloseMark, CloseReturn, NoLostSubscription,
      tableVars
<1>6. CASE UNCHANGED vars
  BY <1>6 DEF vars, NoLostSubscription, tableVars
<1> QED
  BY <1>1, <1>2, <1>3, <1>4, <1>5, <1>6 DEF Next

\* A handler whose Subscribe has returned stays subscribed until an Unsubscribe
\* removes it, for any number of concurrent calls (event.go:56-73).
THEOREM SubscriptionsSurvive == Spec => []NoLostSubscription
<1>1. Init => SubscribeState /\ NoLostSubscription
  BY DispatcherAssumption DEF Init, SubscribeState, NoLostSubscription
<1>2. /\ IInv /\ SubscribeState /\ NoLostSubscription /\ [Next]_vars
      => (SubscribeState /\ NoLostSubscription)'
  BY SubscribeStateStep, NoLostSubscriptionStep DEF IInv, TypeOK
<1> QED
  BY Invariant, <1>1, <1>2, PTL DEF Spec

-----------------------------------------------------------------------------
(* The dispatcher implements DispatcherSpec                                *)

LEMMA StepSimulation ==
  ASSUME IInv, IInv', [Next]_vars
  PROVE  [Abstract!SpecNext]_(Abstract!specVars)
<1>1. ASSUME NEW t \in Threads, NEW e \in EventTypes, SubscribeLoad(t, e)
      PROVE  [Abstract!SpecNext]_(Abstract!specVars)
  <2>1. Phase' = Phase
    BY <1>1 DEF SubscribeLoad, Phase, tableVars, taskVars
  <2>2. Busy' = Busy
    BY <1>1 DEF SubscribeLoad, Busy, Pending, taskVars
  <2> QED
    BY <2>1, <2>2 DEF Abstract!specVars
<1>2. ASSUME NEW t \in Threads, NEW e \in EventTypes,
             NEW to \in {"dispatch", "dispatchSync"}, DispatchLoad(t, e, to)
      PROVE  [Abstract!SpecNext]_(Abstract!specVars)
  <2>1. Phase' = Phase
    BY <1>2 DEF DispatchLoad, Phase, tableVars, taskVars
  <2>2. Busy' = Busy
    BY <1>2 DEF DispatchLoad, Busy, Pending, taskVars
  <2> QED
    BY <2>1, <2>2 DEF Abstract!specVars
<1>3. ASSUME NEW e \in EventTypes, Unsubscribe(e)
      PROVE  [Abstract!SpecNext]_(Abstract!specVars)
  <2>1. Phase' = Phase
    BY <1>3 DEF Unsubscribe, Phase, tableVars, taskVars
  <2>2. Busy' = Busy
    BY <1>3 DEF Unsubscribe, Busy, Pending, taskVars
  <2> QED
    BY <2>1, <2>2 DEF Abstract!specVars
<1>4. ASSUME NEW t \in Threads, SubscribeStore(t)
      PROVE  [Abstract!SpecNext]_(Abstract!specVars)
  <2>1. Phase' = Phase
    BY <1>4 DEF SubscribeStore, Phase, tableVars, taskVars
  <2>2. Busy' = Busy
    BY <1>4 DEF SubscribeStore, Busy, Pending, taskVars
  <2> QED
    BY <2>1, <2>2 DEF Abstract!specVars
<1>5. ASSUME NEW t \in Threads, DispatchRefused(t)
      PROVE  [Abstract!SpecNext]_(Abstract!specVars)
  <2>1. Phase' = Phase
    BY <1>5 DEF DispatchRefused, Phase, tableVars, taskVars
  <2>2. Busy' = Busy
    BY <1>5 DEF DispatchRefused, Busy, Pending, taskVars
  <2> QED
    BY <2>1, <2>2 DEF Abstract!specVars
<1>6. ASSUME NEW t \in Threads, DispatchAsync(t)
      PROVE  [Abstract!SpecNext]_(Abstract!specVars)
  <2>1. Phase = "open" /\ Phase' = Phase
    BY <1>6 DEF DispatchAsync, BeginDispatch, Phase, IInv, ClosedState
  <2>2. Len(local[t].list) > 0 /\ Len(local[t].list) \in Nat
    BY <1>6, ListLength DEF DispatchAsync, Goto, IInv, TypeOK
  <2>3. Pending(t)' > 0
    <3>1. spawned'[t] = spawned[t] + Len(local[t].list)
      BY <1>6, <2>2 DEF DispatchAsync, IInv, TypeOK, TaskTypes
    <3>2. running'[t] = running[t] /\ syncLeft'[t] = syncLeft[t]
      BY <1>6 DEF DispatchAsync
    <3>3. spawned[t] \in Nat /\ running[t] \in Nat /\ syncLeft[t] \in Nat
      BY DEF IInv, TypeOK, TaskTypes
    <3> QED
      BY <2>2, <3>1, <3>2, <3>3 DEF Pending
  <2>4. \A u \in Threads \ {t} : Pending(u)' = Pending(u)
    BY <1>6 DEF DispatchAsync, Pending, IInv, TypeOK, TaskTypes
  <2>5. Busy' = Busy \cup {t}
    BY <2>3, <2>4 DEF Busy
  <2>6. Abstract!Accept(t)
    BY <2>1, <2>5 DEF Abstract!Accept
  <2> QED
    BY <2>6 DEF Abstract!SpecNext
<1>7. ASSUME NEW t \in Threads, DispatchSync(t)
      PROVE  [Abstract!SpecNext]_(Abstract!specVars)
  <2>1. Phase = "open" /\ Phase' = Phase
    BY <1>7 DEF DispatchSync, BeginDispatch, Phase, IInv, ClosedState
  <2>2. Len(local[t].list) > 0 /\ Len(local[t].list) \in Nat
    BY <1>7, ListLength DEF DispatchSync, Goto, IInv, TypeOK
  <2>3. Pending(t)' > 0
    BY <1>7, <2>2 DEF DispatchSync, Pending, IInv, TypeOK, TaskTypes
  <2>4. \A u \in Threads \ {t} : Pending(u)' = Pending(u)
    BY <1>7 DEF DispatchSync, Pending, IInv, TypeOK, TaskTypes
  <2>5. Busy' = Busy \cup {t}
    BY <2>3, <2>4 DEF Busy
  <2>6. Abstract!Accept(t)
    BY <2>1, <2>5 DEF Abstract!Accept
  <2> QED
    BY <2>6 DEF Abstract!SpecNext
<1>8. ASSUME NEW t \in Threads, TaskStart(t)
      PROVE  [Abstract!SpecNext]_(Abstract!specVars)
  <2>1. Phase' = Phase
    BY <1>8 DEF TaskStart, Phase
  <2>2. \A u \in Threads : Pending(u)' = Pending(u)
    BY <1>8 DEF TaskStart, Pending, IInv, TypeOK, TaskTypes
  <2>3. Busy' = Busy
    BY <2>2 DEF Busy
  <2> QED
    BY <2>1, <2>3 DEF Abstract!specVars
<1>9. ASSUME NEW t \in Threads, TaskFinish(t)
      PROVE  [Abstract!SpecNext]_(Abstract!specVars)
  <2>1. Phase' = Phase
    BY <1>9 DEF TaskFinish, Phase
  <2>2. Pending(t) > 0
    BY <1>9 DEF TaskFinish, Pending, IInv, TypeOK, TaskTypes
  <2>3. \A u \in Threads \ {t} : Pending(u)' = Pending(u)
    BY <1>9 DEF TaskFinish, Pending, IInv, TypeOK, TaskTypes
  <2>4. t \in Busy /\ Busy' \in {Busy, Busy \ {t}}
    BY <2>2, <2>3 DEF Busy
  <2>5. Abstract!Drain(t) \/ UNCHANGED Abstract!specVars
    BY <2>1, <2>4 DEF Abstract!Drain, Abstract!specVars
  <2> QED
    BY <2>5 DEF Abstract!SpecNext
<1>10. ASSUME NEW t \in Threads, SyncHandler(t)
      PROVE  [Abstract!SpecNext]_(Abstract!specVars)
  <2>1. Phase' = Phase
    BY <1>10 DEF SyncHandler, Phase
  <2>2. Pending(t) > 0
    BY <1>10 DEF SyncHandler, Pending, IInv, TypeOK, TaskTypes, CallState
  <2>3. \A u \in Threads \ {t} : Pending(u)' = Pending(u)
    BY <1>10 DEF SyncHandler, Pending, IInv, TypeOK, TaskTypes
  <2>4. t \in Busy /\ Busy' \in {Busy, Busy \ {t}}
    BY <2>2, <2>3 DEF Busy
  <2>5. Abstract!Drain(t) \/ UNCHANGED Abstract!specVars
    BY <2>1, <2>4 DEF Abstract!Drain, Abstract!specVars
  <2> QED
    BY <2>5 DEF Abstract!SpecNext
<1>11. ASSUME NEW t \in Threads, SyncPanic(t)
      PROVE  [Abstract!SpecNext]_(Abstract!specVars)
  <2>1. Phase' = Phase
    BY <1>11 DEF SyncPanic, Phase
  <2>2. Pending(t) > 0
    BY <1>11 DEF SyncPanic, Pending, IInv, TypeOK, TaskTypes, CallState, Goto
  <2>3. \A u \in Threads \ {t} : Pending(u)' = Pending(u)
    BY <1>11 DEF SyncPanic, Pending, IInv, TypeOK, TaskTypes
  <2>4. t \in Busy /\ Busy' \in {Busy, Busy \ {t}}
    BY <2>2, <2>3 DEF Busy
  <2>5. Abstract!Drain(t) \/ UNCHANGED Abstract!specVars
    BY <2>1, <2>4 DEF Abstract!Drain, Abstract!specVars
  <2> QED
    BY <2>5 DEF Abstract!SpecNext
<1>12. ASSUME NEW t \in Threads, CloseMark(t)
      PROVE  [Abstract!SpecNext]_(Abstract!specVars)
  <2>1. Busy' = Busy
    BY <1>12 DEF CloseMark, Busy, Pending, taskVars
  <2>2. (Phase = "open" /\ Phase' = "closing") \/ Phase' = Phase
    BY <1>12 DEF CloseMark, Phase, IInv, ClosedState
  <2> QED
    BY <2>1, <2>2 DEF Abstract!SpecNext, Abstract!BeginClose, Abstract!specVars
<1>13. ASSUME NEW t \in Threads, CloseReturn(t)
      PROVE  [Abstract!SpecNext]_(Abstract!specVars)
  <2>1. Busy' = Busy
    BY <1>13 DEF CloseReturn, Busy, Pending, taskVars
  <2>2. (Phase = "closing" /\ Phase' = "closed") \/ Phase' = Phase
    BY <1>13 DEF CloseReturn, Phase, IInv, ClosedState
  <2>3. Busy = {}
    BY <1>13 DEF CloseReturn, WaitDone, Busy, Pending, IInv, TypeOK, TaskTypes, ExactAccounting
  <2> QED
    BY <2>1, <2>2, <2>3 DEF Abstract!SpecNext, Abstract!EndClose, Abstract!specVars
<1>14. CASE UNCHANGED vars
  BY <1>14 DEF vars, Phase, Busy, Pending, Abstract!specVars
<1> QED
  BY <1>1, <1>2, <1>3, <1>4, <1>5, <1>6, <1>7, <1>8, <1>9, <1>10, <1>11,
     <1>12, <1>13, <1>14 DEF Next

\* The dispatcher keeps the promise of DispatcherSpec: nothing is accepted after
\* Close has begun, and Close ends only when nobody is busy (event.go:148-167).
THEOREM Implementation == Spec => ImplementsContract
<1>1. Init => Abstract!SpecInit
  BY DEF Init, Abstract!SpecInit, Phase, Busy, Pending
<1>2. IInv /\ IInv' /\ [Next]_vars => [Abstract!SpecNext]_(Abstract!specVars)
  BY StepSimulation
<1> QED
  BY Invariant, <1>1, <1>2, PTL DEF Spec, ImplementsContract, Abstract!Contract
=============================================================================
