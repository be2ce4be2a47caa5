---------------------------- MODULE PluginProofs ----------------------------
(***************************************************************************)
(* Proofs about PluginRegistry and LogoutPlugin, for every set of plugins, *)
(* whatever names they have, and any number of goroutines that add them.   *)
(*                                                                         *)
(* Who holds the lock can be told from where the goroutines are (LockInv); *)
(* that nothing overlaps an Initialize, and that the list of plugins does  *)
(* not move under the loop, follow from it.  What the loop has passed on   *)
(* its way through Initialize is settled (SettledInv): initialised, failed *)
(* or still in the hands of the UsePlugin that added it.                   *)
(***************************************************************************)
EXTENDS LogoutPlugin, TLAPS

\* Where the loop and the callers of UsePlugin can be, and which of it is under
\* the lock for writing and for reading.
LoopPlaces == {"idle", "initializeAll", "each", "check", "initializing", "loop", "onMessage",
               "onError", "message", "error"}
CallerPlaces == {"idle", "register", "registered", "initialize", "check", "initializing"}
Writing == {"check", "initializing", "each"}
Reading == {"message", "error"}

PlaceInv ==
    /\ pc[Loop] \in LoopPlaces
    /\ \A c \in Callers : pc[c] \in CallerPlaces
    /\ pc[Loop] \in {"check", "initializing"} => next \in 1..Len(plugins)
    /\ pc[Loop] \in {"each"} \cup Reading => next >= 1

LockInv ==
    /\ writer = {q \in Procs : pc[q] \in Writing}
    /\ reader = {q \in Procs : pc[q] \in Reading}
    /\ \A q, r \in writer : q = r
    /\ writer = {} \/ reader = {}

\* Every success had a start, and who is initialising has one ahead of it.
CountInv ==
    /\ \A p \in Plugins : succeeded[p] <= started[p]
    /\ \A p \in Plugins : succeeded[p] > 0 => IsInitialized(p)
    /\ \A q \in Procs :
          pc[q] = "initializing" => succeeded[Target(q)] < started[Target(q)]

\* p is initialised, or has failed, or a caller of UsePlugin is about to
\* initialise it.
Settled(p) ==
    \/ IsInitialized(p)
    \/ started[p] > succeeded[p]
    \/ \E c \in Callers : mine[c] = p /\ pc[c] \in {"registered", "initialize", "check"}

\* The plugins the loop has passed since Run was called
Passed ==
    {i \in 1..Len(plugins) :
        \/ pc[Loop] \in {"loop", "onMessage", "onError"} \cup Reading
        \/ pc[Loop] \in Writing /\ i < next}

SettledInv == \A i \in Passed : Settled(plugins[i])

RegistryInv == TypeOK /\ PlaceInv /\ LockInv /\ CountInv /\ SettledInv /\ NamesAreUnique

-----------------------------------------------------------------------------
(* Types, places and the lock                                              *)

LEMMA InitRegistry == Init => RegistryInv
<1> SUFFICES ASSUME Init PROVE RegistryInv
  OBVIOUS
<1>1. plugins \in Seq(Plugins) /\ NamesAreUnique
  BY RegistryAssumption DEF Init, NamesAreUnique
<1>2. (CHOOSE p \in Plugins : TRUE) \in Plugins
  BY RegistryAssumption
<1>3. TypeOK
  BY <1>1, <1>2, RegistryAssumption DEF Init, TypeOK, Waiting
<1>4. PlaceInv /\ LockInv /\ CountInv /\ SettledInv
  BY RegistryAssumption
  DEF Init, PlaceInv, LoopPlaces, CallerPlaces, Reading, Writing, LockInv, CountInv, SettledInv,
      Passed, Procs
<1> QED
  BY <1>1, <1>3, <1>4 DEF RegistryInv

\* The actions, one by one.
Actions ==
    \/ \E c \in Callers :
          \/ \E p \in Plugins : UsePlugin(c, p)
          \/ Register(c) \/ CallInitializeOne(c) \/ LockToInitialize(c)
    \/ \E q \in Procs :
          SkipInitialized(q) \/ CallInitialize(q) \/ InitializeReturns(q) \/ InitializeFails(q)
    \/ RunCall \/ RunReturns \/ LockToInitializeAll \/ EachPlugin \/ AllInitialized
    \/ \E what \in DOMAIN On : CallOn(what) \/ LockToRead(what)
    \/ PluginCalled \/ PluginsDone

LEMMA NextActions == Next => Actions
BY DEF Next, Work, Locked, Actions

\* The plugin q is initialising
LEMMA TargetIsPlugin ==
    ASSUME TypeOK, PlaceInv, NEW q \in Procs, pc[q] \in {"check", "initializing"}
    PROVE  Target(q) \in Plugins
BY DEF TypeOK, PlaceInv, Procs, Target

LEMMA OnFacts ==
    DOMAIN On = {"onMessage", "onError"} /\ On["onMessage"] = "message" /\ On["onError"] = "error"
BY DEF On

LEMMA BoundFacts == MaxCalls \in Nat /\ MaxRuns \in Nat
BY RegistryAssumption

\* One plugin more
LEMMA AppendOne ==
    ASSUME NEW S, NEW l \in Seq(S), NEW p \in S
    PROVE  /\ Append(l, p) \in Seq(S) /\ Len(l) \in Nat /\ Len(Append(l, p)) = Len(l) + 1
           /\ Append(l, p)[Len(l) + 1] = p /\ \A i \in 1..Len(l) : Append(l, p)[i] = l[i]
OBVIOUS

LEMMA StepType ==
    ASSUME TypeOK, PlaceInv, Actions
    PROVE  TypeOK'
<1> USE BoundFacts DEF TypeOK, Goto, Procs, Waiting
<1>1. ASSUME NEW c \in Callers, NEW p \in Plugins, UsePlugin(c, p) PROVE TypeOK'
  BY <1>1 DEF UsePlugin
<1>2. ASSUME NEW c \in Callers, Register(c) PROVE TypeOK'
  <2>1. /\ plugins' = plugins \/ plugins' = Append(plugins, mine[c])
        /\ pc' = [pc EXCEPT ![c] = "idle"] \/ pc' = [pc EXCEPT ![c] = "registered"]
        /\ UNCHANGED <<initialized, writer, reader, mine, next, started, succeeded, heard,
                       calls, runs>>
    BY <1>2 DEF Register
  <2>2. /\ plugins' \in Seq(Plugins) /\ Len(plugins) \in Nat /\ Len(plugins') \in Nat
        /\ Len(plugins') >= Len(plugins)
    <3>1. mine[c] \in Plugins /\ plugins \in Seq(Plugins)
      OBVIOUS
    <3>2. CASE plugins' = plugins
      BY <3>1, <3>2
    <3>3. CASE plugins' = Append(plugins, mine[c])
      <4> DEFINE l == Append(plugins, mine[c])
      <4>1. l \in Seq(Plugins) /\ Len(plugins) \in Nat /\ Len(l) = Len(plugins) + 1
        BY <3>1, AppendOne
      <4> HIDE DEF l
      <4>2. plugins' = l
        BY <3>3 DEF l
      <4> QED
        BY <4>1, <4>2
    <3> QED
      BY <2>1, <3>2, <3>3
  <2>3. pc' \in [Procs -> Waiting \cup {"idle", "registered", "check", "initializing", "each",
                     "loop", "onMessage", "onError", "message", "error"}]
    BY <2>1
  <2>4. next' \in 0..(Len(plugins') + 1)
    BY <2>1, <2>2
  <2> QED
    BY <2>1, <2>2, <2>3, <2>4
<1>3. ASSUME NEW c \in Callers, CallInitializeOne(c) \/ LockToInitialize(c) PROVE TypeOK'
  BY <1>3 DEF CallInitializeOne, LockToInitialize
<1>4. ASSUME NEW q \in Procs, NextTarget(q)
      PROVE  /\ next' \in 0..(Len(plugins) + 1) /\ pc' \in [Procs -> Waiting \cup
                   {"idle", "registered", "check", "initializing", "each", "loop", "onMessage",
                    "onError", "message", "error"}]
             /\ writer' \subseteq Procs /\ reader' \subseteq {Loop}
  BY <1>4 DEF NextTarget, PlaceInv, Unlock
<1>5. ASSUME NEW q \in Procs, SkipInitialized(q) PROVE TypeOK'
  BY <1>4, <1>5 DEF SkipInitialized
<1>6. ASSUME NEW q \in Procs, CallInitialize(q) PROVE TypeOK'
  BY <1>6, TargetIsPlugin DEF CallInitialize
<1>7. ASSUME NEW q \in Procs, InitializeReturns(q) PROVE TypeOK'
  <2>1. Target(q) \in Plugins
    BY <1>7, TargetIsPlugin DEF InitializeReturns
  <2>2. /\ succeeded' = [succeeded EXCEPT ![Target(q)] = @ + 1]
        /\ initialized' = initialized \cup {Name[Target(q)]}
        /\ UNCHANGED <<plugins, mine, started, heard, calls, runs>>
    BY <1>7 DEF InitializeReturns, Remember
  <2>3. succeeded' \in [Plugins -> Nat] /\ initialized' \subseteq {Name[p] : p \in Plugins}
    BY <2>1, <2>2
  <2> QED
    BY <1>4, <1>7, <2>2, <2>3 DEF InitializeReturns
<1>8. ASSUME NEW q \in Procs, InitializeFails(q) PROVE TypeOK'
  BY <1>8 DEF InitializeFails, Unlock
<1>9. CASE RunReturns \/ EachPlugin \/ AllInitialized \/ LockToInitializeAll
  BY <1>9 DEF RunReturns, LockToInitializeAll, EachPlugin, AllInitialized, Unlock
<1>13. CASE RunCall
  BY <1>13 DEF RunCall
<1>10. ASSUME NEW what \in DOMAIN On, CallOn(what) \/ LockToRead(what) PROVE TypeOK'
  BY <1>10, OnFacts DEF CallOn, LockToRead
<1>11. CASE PluginCalled
  BY <1>11 DEF PluginCalled, PlaceInv, Reading
<1>12. CASE PluginsDone
  BY <1>12 DEF PluginsDone, Unlock
<1> QED
  BY <1>1, <1>2, <1>3, <1>5, <1>6, <1>7, <1>8, <1>9, <1>10, <1>11, <1>12, <1>13 DEF Actions

\* A goroutine moves, and the others stay.
LEMMA GotoMoves ==
    ASSUME TypeOK, NEW q \in Procs, NEW from, NEW to, Goto(q, from, to)
    PROVE  pc[q] = from /\ pc'[q] = to /\ \A r \in Procs \ {q} : pc'[r] = pc[r]
BY DEF TypeOK, Goto

\* Where a step of initializeLocked leaves the goroutine that takes it
LEMMA NextTargetMoves ==
    ASSUME TypeOK, NEW q \in Procs, NextTarget(q)
    PROVE  /\ pc[q] \in {"check", "initializing"}
           /\ \A r \in Procs \ {q} : pc'[r] = pc[r]
           /\ IF q = Loop
              THEN pc'[q] = "each" /\ next' = next + 1 /\ UNCHANGED <<writer, reader>>
              ELSE pc'[q] = "idle" /\ next' = next /\ writer' = writer \ {q} /\ reader' = reader \ {q}
BY DEF TypeOK, NextTarget, Unlock

LEMMA StepPlace ==
    ASSUME TypeOK, PlaceInv, Actions
    PROVE  PlaceInv'
<1> USE RegistryAssumption DEF LoopPlaces, CallerPlaces, Reading
<1>0. /\ Loop \in Procs /\ Loop \notin Callers /\ Callers \subseteq Procs
      /\ \A q \in Procs : q = Loop \/ q \in Callers
      /\ next \in Nat /\ Len(plugins) \in Nat
  BY DEF Procs, TypeOK
\* Steps of a caller leave the loop where it is.
<1>1. ASSUME NEW c \in Callers, pc'[c] \in CallerPlaces,
             \A r \in Procs \ {c} : pc'[r] = pc[r], next' = next,
             Len(plugins') \in Nat, Len(plugins') >= Len(plugins)
      PROVE  PlaceInv'
  BY <1>0, <1>1 DEF PlaceInv
\* Steps of the loop do not touch the list.
<1>2. ASSUME \A r \in Procs \ {Loop} : pc'[r] = pc[r], plugins' = plugins,
             pc'[Loop] \in LoopPlaces,
             pc'[Loop] \in {"check", "initializing"} => next' \in 1..Len(plugins),
             pc'[Loop] \in {"each"} \cup Reading => next' >= 1
      PROVE  PlaceInv'
  BY <1>0, <1>2 DEF PlaceInv
<1>3. ASSUME NEW c \in Callers, NEW p \in Plugins, UsePlugin(c, p) PROVE PlaceInv'
  BY <1>0, <1>1, <1>3, GotoMoves DEF UsePlugin
<1>4. ASSUME NEW c \in Callers, Register(c) PROVE PlaceInv'
  <2>1. Len(plugins') \in Nat /\ Len(plugins') >= Len(plugins)
    BY <1>4 DEF Register, TypeOK
  <2> QED
    BY <1>0, <1>1, <1>4, <2>1, GotoMoves DEF Register
<1>5. ASSUME NEW c \in Callers, CallInitializeOne(c) \/ LockToInitialize(c) PROVE PlaceInv'
  BY <1>0, <1>1, <1>5, GotoMoves DEF CallInitializeOne, LockToInitialize
<1>6. ASSUME NEW q \in Procs, NextTarget(q), plugins' = plugins PROVE PlaceInv'
  <2>1. CASE q = Loop
    BY <1>0, <1>2, <1>6, <2>1, NextTargetMoves DEF PlaceInv
  <2>2. CASE q \in Callers
    BY <1>0, <1>1, <1>6, <2>2, NextTargetMoves
  <2> QED
    BY <1>0, <2>1, <2>2
<1>7. ASSUME NEW q \in Procs, SkipInitialized(q) \/ InitializeReturns(q) PROVE PlaceInv'
  BY <1>6, <1>7 DEF SkipInitialized, InitializeReturns
<1>8. ASSUME NEW q \in Procs, CallInitialize(q) \/ InitializeFails(q) PROVE PlaceInv'
  <2>1. UNCHANGED <<plugins, next>>
    BY <1>8 DEF CallInitialize, InitializeFails
  <2>2. \/ Goto(q, "check", "initializing")
        \/ Goto(q, "initializing", "idle")
    BY <1>8 DEF CallInitialize, InitializeFails
  <2>3. CASE q = Loop
    BY <1>0, <1>2, <2>1, <2>2, <2>3, GotoMoves DEF PlaceInv
  <2>4. CASE q \in Callers
    BY <1>0, <1>1, <2>1, <2>2, <2>4, GotoMoves
  <2> QED
    BY <1>0, <2>3, <2>4
<1>9. CASE RunCall \/ RunReturns \/ LockToInitializeAll \/ EachPlugin \/ AllInitialized
  <2>1. CASE RunCall \/ RunReturns
    BY <1>0, <1>2, <2>1, GotoMoves DEF RunCall, RunReturns
  <2>2. CASE LockToInitializeAll
    BY <1>0, <1>2, <2>2, GotoMoves DEF LockToInitializeAll
  <2>3. CASE EachPlugin
    BY <1>0, <1>2, <2>3, GotoMoves DEF EachPlugin, PlaceInv
  <2>4. CASE AllInitialized
    BY <1>0, <1>2, <2>4, GotoMoves DEF AllInitialized
  <2> QED
    BY <1>9, <2>1, <2>2, <2>3, <2>4
<1>10. ASSUME NEW what \in DOMAIN On, CallOn(what) \/ LockToRead(what) PROVE PlaceInv'
  <2>1. CASE CallOn(what)
    BY <1>0, <1>2, <2>1, GotoMoves, OnFacts DEF CallOn
  <2>2. CASE LockToRead(what)
    BY <1>0, <1>2, <2>2, GotoMoves, OnFacts DEF LockToRead
  <2> QED
    BY <1>10, <2>1, <2>2
<1>11. CASE PluginCalled
  BY <1>0, <1>2, <1>11 DEF PluginCalled, PlaceInv
<1>12. CASE PluginsDone
  BY <1>0, <1>2, <1>12, GotoMoves DEF PluginsDone
<1> QED
  BY <1>3, <1>4, <1>5, <1>7, <1>8, <1>9, <1>10, <1>11, <1>12 DEF Actions

LEMMA StepLock ==
    ASSUME TypeOK, PlaceInv, LockInv, Actions
    PROVE  LockInv'
<1>0. /\ Loop \in Procs /\ Loop \notin Callers /\ Callers \subseteq Procs
      /\ \A q \in Procs : q = Loop \/ q \in Callers
      /\ writer \subseteq Procs /\ reader \subseteq Procs
  BY RegistryAssumption DEF Procs, TypeOK
<1> USE DEF Writing, Reading
\* The lock does not change hands.
<1>1. ASSUME NEW q \in Procs, \A r \in Procs \ {q} : pc'[r] = pc[r],
             pc[q] \in Writing <=> pc'[q] \in Writing,
             pc[q] \in Reading <=> pc'[q] \in Reading,
             UNCHANGED <<writer, reader>>
      PROVE  LockInv'
  <2>1. /\ \A r \in Procs : pc'[r] \in Writing <=> pc[r] \in Writing
        /\ \A r \in Procs : pc'[r] \in Reading <=> pc[r] \in Reading
    BY <1>1
  <2> QED
    BY <1>1, <2>1 DEF LockInv
\* q takes it.
<1>2. ASSUME NEW q \in Procs, \A r \in Procs \ {q} : pc'[r] = pc[r],
             CanWrite, writer' = {q}, reader' = reader, pc'[q] \in Writing
      PROVE  LockInv'
  BY <1>2 DEF LockInv, CanWrite
<1>3. ASSUME NEW q \in Procs, \A r \in Procs \ {q} : pc'[r] = pc[r],
             writer = {}, reader' = reader \cup {q}, writer' = writer, pc'[q] \in Reading,
             pc[q] \notin Writing
      PROVE  LockInv'
  BY <1>3 DEF LockInv
\* q gives it back.
<1>4. ASSUME NEW q \in Procs, \A r \in Procs \ {q} : pc'[r] = pc[r], Unlock(q),
             pc'[q] \notin Writing \cup Reading
      PROVE  LockInv'
  BY <1>4 DEF LockInv, Unlock
<1>5. ASSUME NEW c \in Callers, NEW p \in Plugins, UsePlugin(c, p) PROVE LockInv'
  BY <1>0, <1>1, <1>5, GotoMoves DEF UsePlugin
<1>6. ASSUME NEW c \in Callers, Register(c) PROVE LockInv'
  BY <1>0, <1>1, <1>6, GotoMoves DEF Register
<1>7. ASSUME NEW c \in Callers, CallInitializeOne(c) PROVE LockInv'
  BY <1>0, <1>1, <1>7, GotoMoves DEF CallInitializeOne
<1>8. ASSUME NEW c \in Callers, LockToInitialize(c) PROVE LockInv'
  BY <1>0, <1>2, <1>8, GotoMoves DEF LockToInitialize
<1>9. ASSUME NEW q \in Procs, NextTarget(q) PROVE LockInv'
  <2>1. CASE q = Loop
    BY <1>1, <1>9, <2>1, NextTargetMoves
  <2>2. CASE q # Loop
    BY <1>4, <1>9, <2>2, NextTargetMoves DEF Unlock
  <2> QED
    BY <2>1, <2>2
<1>10. ASSUME NEW q \in Procs, SkipInitialized(q) \/ InitializeReturns(q) PROVE LockInv'
  BY <1>9, <1>10 DEF SkipInitialized, InitializeReturns
<1>11. ASSUME NEW q \in Procs, CallInitialize(q) PROVE LockInv'
  BY <1>1, <1>11, GotoMoves DEF CallInitialize
<1>12. ASSUME NEW q \in Procs, InitializeFails(q) PROVE LockInv'
  BY <1>4, <1>12, GotoMoves DEF InitializeFails
<1>13. CASE RunCall \/ RunReturns
  BY <1>0, <1>1, <1>13, GotoMoves DEF RunCall, RunReturns
<1>14. CASE LockToInitializeAll
  BY <1>0, <1>2, <1>14, GotoMoves DEF LockToInitializeAll
<1>15. CASE EachPlugin
  BY <1>0, <1>1, <1>15, GotoMoves DEF EachPlugin
<1>16. CASE AllInitialized
  BY <1>0, <1>4, <1>16, GotoMoves DEF AllInitialized
<1>17. ASSUME NEW what \in DOMAIN On, CallOn(what) PROVE LockInv'
  BY <1>0, <1>1, <1>17, GotoMoves, OnFacts DEF CallOn
<1>18. ASSUME NEW what \in DOMAIN On, LockToRead(what) PROVE LockInv'
  <2>1. /\ writer = {} /\ writer' = writer /\ reader' = {Loop}
        /\ pc[Loop] \notin Writing /\ pc'[Loop] \in Reading
        /\ \A r \in Procs \ {Loop} : pc'[r] = pc[r]
    BY <1>0, <1>18, GotoMoves, OnFacts DEF LockToRead, CanRead
  <2>2. reader' = reader \cup {Loop}
    BY <2>1 DEF TypeOK
  <2> QED
    BY <1>0, <1>3, <2>1, <2>2
<1>19. CASE PluginCalled
  BY <1>0, <1>1, <1>19 DEF PluginCalled
<1>20. CASE PluginsDone
  BY <1>0, <1>4, <1>20, GotoMoves DEF PluginsDone
<1> QED
  BY <1>5, <1>6, <1>7, <1>8, <1>10, <1>11, <1>12, <1>13, <1>14, <1>15, <1>16, <1>17, <1>18,
     <1>19, <1>20 DEF Actions

-----------------------------------------------------------------------------
(* Starts, successes and names                                             *)

\* Nobody else initialises.
LEMMA Alone ==
    ASSUME LockInv, NEW q \in Procs, pc[q] \in Writing, NEW r \in Procs, r # q
    PROVE  pc[r] \notin Writing \cup Reading
<1>1. q \in writer
  BY DEF LockInv
<1>2. r \notin writer /\ reader = {}
  BY <1>1 DEF LockInv
<1> QED
  BY <1>2 DEF LockInv

LEMMA StepCount ==
    ASSUME TypeOK, PlaceInv, LockInv, CountInv, Actions
    PROVE  CountInv'
<1>0. /\ Loop \in Procs /\ Loop \notin Callers /\ Callers \subseteq Procs
      /\ started \in [Plugins -> Nat] /\ succeeded \in [Plugins -> Nat]
  BY RegistryAssumption DEF Procs, TypeOK
\* Nothing is counted, and whoever initialises goes on with the same plugin.
<1>1. ASSUME UNCHANGED <<initialized, started, succeeded>>,
             \A r \in Procs : pc'[r] = "initializing" =>
                pc[r] = "initializing" /\ Target(r)' = Target(r)
      PROVE  CountInv'
  BY <1>1 DEF CountInv, IsInitialized
<1>2. ASSUME NEW q \in Procs, pc'[q] # "initializing",
             \A r \in Procs \ {q} : pc'[r] = pc[r],
             UNCHANGED <<initialized, started, succeeded>>,
             \A r \in Procs \ {q} : pc[r] = "initializing" => Target(r)' = Target(r)
      PROVE  CountInv'
  BY <1>1, <1>2
<1>3. ASSUME NEW c \in Callers, NEW p \in Plugins, UsePlugin(c, p) PROVE CountInv'
  <2>1. /\ \A r \in Procs \ {c} : pc[r] = "initializing" => Target(r)' = Target(r)
        /\ UNCHANGED <<initialized, started, succeeded>> /\ Goto(c, "idle", "register")
    BY <1>0, <1>3 DEF UsePlugin, Target, TypeOK, Procs
  <2> QED
    BY <1>0, <1>2, <2>1, GotoMoves
<1>4. ASSUME NEW c \in Callers, Register(c) PROVE CountInv'
  <2>1. pc[Loop] # "initializing"
    BY <1>0, <1>4 DEF Register, CanWrite, LockInv, Writing
  <2>2. /\ UNCHANGED <<initialized, started, succeeded, mine>>
        /\ Goto(c, "register", "idle") \/ Goto(c, "register", "registered")
    BY <1>4 DEF Register
  <2>3. \A r \in Procs : pc[r] = "initializing" => Target(r)' = Target(r)
    BY <2>1, <2>2 DEF Target
  <2> QED
    BY <1>0, <1>2, <2>2, <2>3, GotoMoves
<1>5. ASSUME NEW q \in Procs, NEW from, NEW to, Goto(q, from, to), to # "initializing",
             UNCHANGED <<initialized, started, succeeded, plugins, mine>>,
             q = Loop \/ next' = next
      PROVE  CountInv'
  <2>1. \A r \in Procs \ {q} : pc[r] = "initializing" => Target(r)' = Target(r)
    BY <1>5 DEF Target
  <2> QED
    BY <1>2, <1>5, <2>1, GotoMoves
<1>6. ASSUME NEW c \in Callers, CallInitializeOne(c) \/ LockToInitialize(c) PROVE CountInv'
  BY <1>0, <1>5, <1>6 DEF CallInitializeOne, LockToInitialize
<1>7. ASSUME NEW q \in Procs, SkipInitialized(q) PROVE CountInv'
  <2>1. /\ NextTarget(q) /\ UNCHANGED <<initialized, started, succeeded, plugins, mine>>
    BY <1>7 DEF SkipInitialized
  <2>2. \A r \in Procs \ {q} : pc[r] # "initializing"
    BY <2>1, NextTargetMoves, Alone DEF Writing
  <2> QED
    BY <1>2, <2>1, <2>2, NextTargetMoves
<1>8. ASSUME NEW q \in Procs, CallInitialize(q) PROVE CountInv'
  <2> DEFINE p == Target(q)
  <2>1. /\ Goto(q, "check", "initializing") /\ started' = [started EXCEPT ![p] = @ + 1]
        /\ UNCHANGED <<initialized, succeeded, plugins, mine, next>>
    BY <1>8 DEF CallInitialize
  <2>2. p \in Plugins /\ pc[q] = "check"
    BY <2>1, TargetIsPlugin DEF Goto
  <2>3. \A r \in Procs \ {q} : pc'[r] # "initializing"
    BY <2>1, <2>2, GotoMoves, Alone DEF Writing
  <2>4. Target(q)' = p
    BY <2>1 DEF Target
  <2> HIDE DEF p
  <2>5. /\ \A e \in Plugins : started'[e] >= started[e] /\ started[e] \in Nat
        /\ started'[p] = started[p] + 1
    BY <1>0, <2>1, <2>2
  <2>6. \A e \in Plugins : succeeded[e] \in Nat /\ succeeded[e] <= started[e]
    BY <1>0 DEF CountInv
  <2>7. \A e \in Plugins : succeeded'[e] <= started'[e]
    BY <1>0, <2>1, <2>2, <2>5, <2>6
  <2>8. succeeded'[p] < started'[p]
    BY <2>1, <2>2, <2>5, <2>6
  <2> QED
    BY <2>1, <2>3, <2>4, <2>7, <2>8 DEF CountInv, IsInitialized
<1>9. ASSUME NEW q \in Procs, InitializeReturns(q) PROVE CountInv'
  <2> DEFINE p == Target(q)
  <2>1. /\ NextTarget(q) /\ pc[q] = "initializing"
        /\ succeeded' = [succeeded EXCEPT ![p] = @ + 1]
        /\ initialized' = initialized \cup {Name[p]}
        /\ UNCHANGED <<started, plugins, mine>>
    BY <1>9 DEF InitializeReturns, Remember
  <2>2. p \in Plugins /\ succeeded[p] < started[p]
    BY <2>1, TargetIsPlugin DEF CountInv
  <2>3. \A r \in Procs : pc'[r] # "initializing"
    BY <2>1, NextTargetMoves, Alone DEF Writing
  <2> HIDE DEF p
  <2>4. \A e \in Plugins : succeeded'[e] <= started'[e]
    BY <1>0, <2>1, <2>2 DEF CountInv
  <2>5. \A e \in Plugins : succeeded'[e] > 0 => IsInitialized(e)'
    BY <1>0, <2>1, <2>2 DEF CountInv, IsInitialized
  <2> QED
    BY <2>3, <2>4, <2>5 DEF CountInv
<1>10. ASSUME NEW q \in Procs, InitializeFails(q) PROVE CountInv'
  BY <1>5, <1>10 DEF InitializeFails
<1>11. CASE RunCall \/ RunReturns \/ LockToInitializeAll \/ EachPlugin \/ AllInitialized
  <2>1. \E from, to : Goto(Loop, from, to) /\ to # "initializing"
    BY <1>11 DEF RunCall, RunReturns, LockToInitializeAll, EachPlugin, AllInitialized
  <2>2. UNCHANGED <<initialized, started, succeeded, plugins, mine>>
    BY <1>11 DEF RunCall, RunReturns, LockToInitializeAll, EachPlugin, AllInitialized
  <2> QED
    BY <1>0, <1>5, <2>1, <2>2
<1>12. ASSUME NEW what \in DOMAIN On, CallOn(what) \/ LockToRead(what) PROVE CountInv'
  BY <1>0, <1>5, <1>12, OnFacts DEF CallOn, LockToRead
<1>13. CASE PluginCalled
  <2>1. UNCHANGED <<initialized, started, succeeded, plugins, mine, pc>>
        /\ pc[Loop] \in Reading
    BY <1>13 DEF PluginCalled, Reading
  <2>2. \A r \in Procs : pc[r] = "initializing" => Target(r)' = Target(r)
    BY <2>1 DEF Target, Reading
  <2> QED
    BY <1>1, <2>1, <2>2
<1>14. CASE PluginsDone
  BY <1>0, <1>5, <1>14 DEF PluginsDone
<1> QED
  BY <1>3, <1>4, <1>6, <1>7, <1>8, <1>9, <1>10, <1>11, <1>12, <1>13, <1>14 DEF Actions

\* The list only grows, by a plugin whose name is not taken.
LEMMA ListGrows ==
    ASSUME TypeOK, Actions
    PROVE  \/ plugins' = plugins
           \/ \E c \in Callers : /\ Register(c) /\ ~Taken(mine[c])
                                 /\ plugins' = Append(plugins, mine[c])
                                 /\ Goto(c, "register", "registered")
BY DEF Actions, UsePlugin, Register, CallInitializeOne, LockToInitialize, SkipInitialized,
       CallInitialize, InitializeReturns, InitializeFails, RunCall, RunReturns,
       LockToInitializeAll, EachPlugin, AllInitialized, CallOn, LockToRead, PluginCalled,
       PluginsDone

LEMMA StepNames ==
    ASSUME TypeOK, NamesAreUnique, Actions
    PROVE  NamesAreUnique'
<1>1. CASE plugins' = plugins
  BY <1>1 DEF NamesAreUnique
<1>2. ASSUME NEW c \in Callers, ~Taken(mine[c]), plugins' = Append(plugins, mine[c])
      PROVE  NamesAreUnique'
  <2>1. /\ plugins \in Seq(Plugins) /\ Len(plugins) \in Nat /\ Len(plugins') = Len(plugins) + 1
        /\ plugins'[Len(plugins) + 1] = mine[c]
        /\ \A i \in 1..Len(plugins) : plugins'[i] = plugins[i]
    BY <1>2 DEF TypeOK
  <2>2. \A i \in 1..Len(plugins) : Name[plugins[i]] # Name[mine[c]]
    BY <1>2, <2>1 DEF Taken, Registered, ToSet
  <2>3. \A i \in 1..Len(plugins') : i \in 1..Len(plugins) \/ i = Len(plugins) + 1
    BY <2>1
  <2> QED
    BY <2>1, <2>2, <2>3 DEF NamesAreUnique
<1> QED
  BY <1>1, <1>2, ListGrows

-----------------------------------------------------------------------------
(* What the loop has passed is settled                                     *)

\* A settled plugin stays settled.
LEMMA SettledStays ==
    ASSUME TypeOK, PlaceInv, LockInv, CountInv, Actions, NEW p \in Plugins, Settled(p)
    PROVE  Settled(p)'
<1>0. /\ Loop \in Procs /\ Loop \notin Callers /\ Callers \subseteq Procs
      /\ started \in [Plugins -> Nat] /\ succeeded \in [Plugins -> Nat]
      /\ mine \in [Callers -> Plugins] /\ pc \in [Procs -> Waiting \cup
             {"idle", "registered", "check", "initializing", "each", "loop", "onMessage",
              "onError", "message", "error"}]
  BY RegistryAssumption DEF Procs, TypeOK
<1> DEFINE Hands(c) == mine[c] = p /\ pc[c] \in {"registered", "initialize", "check"}
<1>1. ASSUME UNCHANGED <<initialized, started, succeeded>>,
             \A c \in Callers : Hands(c) => Hands(c)'
      PROVE  Settled(p)'
  BY <1>1 DEF Settled, IsInitialized
\* Steps that count nothing take a caller from one of these places to the next,
\* or start from elsewhere.
<1>2. ASSUME NEW q \in Procs, NEW from, NEW to, Goto(q, from, to),
             from \notin {"registered", "initialize", "check"}
                \/ to \in {"registered", "initialize", "check"},
             \A c \in Callers \ {q} : mine'[c] = mine[c],
             from \notin {"registered", "initialize", "check"} \/ mine' = mine,
             UNCHANGED <<initialized, started, succeeded>>
      PROVE  Settled(p)'
  <2>1. pc[q] = from /\ pc'[q] = to /\ \A r \in Procs \ {q} : pc'[r] = pc[r]
    BY <1>2, GotoMoves
  <2>2. ASSUME NEW c \in Callers, Hands(c) PROVE Hands(c)'
    BY <1>0, <1>2, <2>1, <2>2
  <2> QED
    BY <1>1, <1>2, <2>2
<1>3. ASSUME NEW c \in Callers, NEW e \in Plugins, UsePlugin(c, e) PROVE Settled(p)'
  <2>1. /\ Goto(c, "idle", "register") /\ \A d \in Callers \ {c} : mine'[d] = mine[d]
        /\ UNCHANGED <<initialized, started, succeeded>>
    BY <1>0, <1>3 DEF UsePlugin
  <2> QED
    BY <1>0, <1>2, <2>1
<1>4. ASSUME NEW c \in Callers, Register(c) PROVE Settled(p)'
  <2>1. /\ Goto(c, "register", "idle") \/ Goto(c, "register", "registered")
        /\ UNCHANGED <<mine, initialized, started, succeeded>>
    BY <1>4 DEF Register
  <2> QED
    BY <1>0, <1>2, <2>1
<1>5. ASSUME NEW c \in Callers, CallInitializeOne(c) \/ LockToInitialize(c)
      PROVE  Settled(p)'
  <2>1. /\ Goto(c, "registered", "initialize") \/ Goto(c, "initialize", "check")
        /\ UNCHANGED <<mine, initialized, started, succeeded>>
    BY <1>5 DEF CallInitializeOne, LockToInitialize
  <2> QED
    BY <1>0, <1>2, <2>1
<1>6. ASSUME NEW q \in Procs, SkipInitialized(q) PROVE Settled(p)'
  <2>1. /\ \A r \in Procs \ {q} : pc'[r] = pc[r]
        /\ UNCHANGED <<mine, initialized, started, succeeded>>
        /\ IsInitialized(Target(q))
    BY <1>6, NextTargetMoves DEF SkipInitialized
  <2>2. CASE IsInitialized(p)
    BY <2>1, <2>2 DEF Settled, IsInitialized
  <2>3. CASE ~IsInitialized(p)
    <3>1. \A c \in Callers : Hands(c) => c # q
      BY <1>0, <2>1, <2>3 DEF Target
    <3> QED
      BY <1>0, <1>1, <2>1, <3>1
  <2> QED
    BY <2>2, <2>3
<1>7. ASSUME NEW q \in Procs, CallInitialize(q) PROVE Settled(p)'
  <2>1. /\ Goto(q, "check", "initializing")
        /\ started' = [started EXCEPT ![Target(q)] = @ + 1]
        /\ UNCHANGED <<mine, initialized, succeeded>>
    BY <1>7 DEF CallInitialize
  <2>2. pc[q] = "check" /\ \A r \in Procs \ {q} : pc'[r] = pc[r]
    BY <2>1, GotoMoves
  <2>3. Target(q) \in Plugins
    BY <2>2, TargetIsPlugin
  <2>4. CASE p = Target(q)
    <3>1. started'[p] > succeeded'[p]
      BY <1>0, <2>1, <2>3, <2>4 DEF CountInv
    <3> QED
      BY <3>1 DEF Settled
  <2>5. CASE p # Target(q)
    <3>1. started'[p] = started[p] /\ succeeded'[p] = succeeded[p]
      BY <1>0, <2>1, <2>5
    <3>2. \A c \in Callers : Hands(c) => c # q
      BY <1>0, <2>5 DEF Target
    <3> QED
      BY <1>0, <2>1, <2>2, <3>1, <3>2 DEF Settled, IsInitialized
  <2> QED
    BY <2>4, <2>5
<1>8. ASSUME NEW q \in Procs, InitializeReturns(q) PROVE Settled(p)'
  <2>1. /\ pc[q] = "initializing" /\ \A r \in Procs \ {q} : pc'[r] = pc[r]
        /\ succeeded' = [succeeded EXCEPT ![Target(q)] = @ + 1]
        /\ initialized' = initialized \cup {Name[Target(q)]}
        /\ UNCHANGED <<mine, started>>
    BY <1>8, NextTargetMoves DEF InitializeReturns, Remember
  <2>2. CASE p = Target(q)
    BY <2>1, <2>2 DEF Settled, IsInitialized
  <2>3. CASE p # Target(q)
    <3>1. succeeded'[p] = succeeded[p]
      BY <1>0, <2>1, <2>3
    <3> QED
      BY <1>0, <2>1, <3>1 DEF Settled, IsInitialized
  <2> QED
    BY <2>2, <2>3
<1>9. ASSUME NEW q \in Procs, InitializeFails(q) PROVE Settled(p)'
  BY <1>2, <1>9 DEF InitializeFails
<1>10. CASE RunCall \/ RunReturns \/ LockToInitializeAll \/ EachPlugin \/ AllInitialized
  <2>1. \E from, to : Goto(Loop, from, to)
    BY <1>10 DEF RunCall, RunReturns, LockToInitializeAll, EachPlugin, AllInitialized
  <2>2. UNCHANGED <<mine, initialized, started, succeeded>>
    BY <1>10 DEF RunCall, RunReturns, LockToInitializeAll, EachPlugin, AllInitialized
  <2>3. \A r \in Procs \ {Loop} : pc'[r] = pc[r]
    BY <1>0, <2>1, GotoMoves
  <2> QED
    BY <1>0, <1>1, <2>2, <2>3
<1>11. ASSUME NEW what \in DOMAIN On, CallOn(what) \/ LockToRead(what) PROVE Settled(p)'
  BY <1>0, <1>2, <1>11, OnFacts DEF CallOn, LockToRead
<1>12. CASE PluginCalled
  BY <1>1, <1>12 DEF PluginCalled
<1>13. CASE PluginsDone
  <2>1. \E from, to : Goto(Loop, from, to) /\ from \in {"message", "error"}
    BY <1>13 DEF PluginsDone
  <2>2. UNCHANGED <<mine, initialized, started, succeeded>>
    BY <1>13 DEF PluginsDone
  <2> QED
    BY <1>0, <1>2, <2>1, <2>2
<1> QED
  BY <1>3, <1>4, <1>5, <1>6, <1>7, <1>8, <1>9, <1>10, <1>11, <1>12, <1>13 DEF Actions

LEMMA ListedStays ==
    ASSUME TypeOK, PlaceInv, LockInv, CountInv, Actions,
           NEW i, plugins[i] \in Plugins, plugins'[i] = plugins[i], Settled(plugins[i])
    PROVE  Settled(plugins[i])'
<1>1. PICK p \in Plugins : p = plugins[i] /\ Settled(p)
  OBVIOUS
<1>2. Settled(p)'
  BY <1>1, SettledStays
<1>3. p = plugins'[i]
  BY <1>1
<1> QED
  BY <1>2, <1>3 DEF Settled, IsInitialized

LEMMA StepSettled ==
    ASSUME TypeOK, PlaceInv, LockInv, CountInv, SettledInv, Actions
    PROVE  SettledInv'
<1>0. /\ Loop \in Procs /\ Loop \notin Callers /\ Callers \subseteq Procs
      /\ plugins \in Seq(Plugins) /\ Len(plugins) \in Nat /\ next \in Nat
      /\ \A i \in 1..Len(plugins) : plugins[i] \in Plugins
  BY RegistryAssumption DEF Procs, TypeOK
<1> USE DEF Writing, Reading
\* What was passed stays settled.
<1>1. ASSUME plugins' = plugins, \A i \in Passed' : i \in Passed \/ Settled(plugins[i])'
      PROVE  SettledInv'
  <2>1. ASSUME NEW i \in Passed' PROVE Settled(plugins[i])'
    <3>1. i \in 1..Len(plugins) /\ plugins[i] \in Plugins
      BY <1>0, <1>1 DEF Passed
    <3>2. CASE i \in Passed
      BY <1>1, <3>1, <3>2, ListedStays DEF SettledInv
    <3> QED
      BY <1>1, <3>2
  <2> QED
    BY <1>1, <2>1 DEF SettledInv
<1>2. ASSUME plugins' = plugins, pc'[Loop] = pc[Loop],
             pc[Loop] \in Writing => next' = next
      PROVE  SettledInv'
  BY <1>1, <1>2 DEF Passed
<1>3. ASSUME plugins' = plugins, pc'[Loop] \in {"idle", "initializeAll"} PROVE SettledInv'
  BY <1>1, <1>3 DEF Passed
<1>4. ASSUME NEW c \in Callers, NEW p \in Plugins, UsePlugin(c, p) PROVE SettledInv'
  BY <1>0, <1>2, <1>4, GotoMoves DEF UsePlugin
<1>5. ASSUME NEW c \in Callers, Register(c) PROVE SettledInv'
  <2>1. CASE plugins' = plugins
    <3>1. pc'[Loop] = pc[Loop] /\ next' = next
      BY <1>0, <1>5, GotoMoves DEF Register
    <3> QED
      BY <1>2, <2>1, <3>1
  <2>2. CASE plugins' # plugins
    <3>1. /\ plugins' = Append(plugins, mine[c]) /\ Goto(c, "register", "registered")
          /\ mine' = mine /\ mine[c] \in Plugins /\ CanWrite
      BY <1>5, <2>2 DEF Register, TypeOK
    <3>2. pc'[Loop] = pc[Loop] /\ pc'[c] = "registered"
      BY <1>0, <3>1, GotoMoves
    <3>3. pc[Loop] \notin Writing
      BY <1>0, <3>1 DEF LockInv, CanWrite
    <3>4. /\ Len(plugins') = Len(plugins) + 1 /\ plugins'[Len(plugins) + 1] = mine[c]
          /\ \A i \in 1..Len(plugins) : plugins'[i] = plugins[i]
      BY <1>0, <3>1, AppendOne
    <3>5. Settled(mine[c])'
      BY <3>1, <3>2 DEF Settled
    <3>6. ASSUME NEW i \in Passed' PROVE Settled(plugins[i])'
      <4>1. i \in 1..Len(plugins) \/ i = Len(plugins) + 1
        BY <1>0, <3>4 DEF Passed
      <4>2. CASE i = Len(plugins) + 1
        BY <3>1, <3>4, <3>5, <4>2 DEF Settled, IsInitialized
      <4>3. CASE i \in 1..Len(plugins)
        <5>1. i \in Passed
          BY <3>2, <3>3, <3>6, <4>3 DEF Passed
        <5>2. Settled(plugins[i]) /\ plugins[i] \in Plugins /\ plugins'[i] = plugins[i]
          BY <1>0, <3>4, <4>3, <5>1 DEF SettledInv
        <5> QED
          BY <5>2, ListedStays
      <4> QED
        BY <4>1, <4>2, <4>3
    <3> QED
      BY <3>6 DEF SettledInv
  <2> QED
    BY <2>1, <2>2
<1>6. ASSUME NEW c \in Callers, CallInitializeOne(c) \/ LockToInitialize(c)
      PROVE  SettledInv'
  BY <1>0, <1>2, <1>6, GotoMoves DEF CallInitializeOne, LockToInitialize
<1>7. ASSUME NEW q \in Procs, SkipInitialized(q) \/ InitializeReturns(q) PROVE SettledInv'
  <2>1. NextTarget(q) /\ plugins' = plugins /\ mine' = mine
    BY <1>7 DEF SkipInitialized, InitializeReturns
  <2>2. CASE q # Loop
    BY <1>0, <1>2, <2>1, <2>2, NextTargetMoves
  <2>3. CASE q = Loop
    <3>1. /\ pc[Loop] \in {"check", "initializing"} /\ pc'[Loop] = "each" /\ next' = next + 1
          /\ next \in 1..Len(plugins)
      BY <1>0, <2>1, <2>3, NextTargetMoves DEF PlaceInv
    <3>2. Name[plugins[next]] \in initialized'
      BY <1>7, <2>3 DEF SkipInitialized, InitializeReturns, Remember, IsInitialized, Target
    <3>3. ASSUME NEW i \in Passed' PROVE i \in Passed \/ Settled(plugins[i])'
      <4>1. i \in 1..Len(plugins) /\ i < next + 1
        BY <2>1, <3>1, <3>3 DEF Passed
      <4>2. CASE i = next
        BY <2>1, <3>2, <4>2 DEF Settled, IsInitialized
      <4>3. CASE i < next
        BY <3>1, <4>1, <4>3 DEF Passed
      <4> QED
        BY <1>0, <4>1, <4>2, <4>3
    <3> QED
      BY <1>1, <2>1, <3>3
  <2> QED
    BY <2>2, <2>3
<1>8. ASSUME NEW q \in Procs, CallInitialize(q) \/ InitializeFails(q) PROVE SettledInv'
  <2>1. UNCHANGED <<plugins, next>>
    BY <1>8 DEF CallInitialize, InitializeFails
  <2>2. Goto(q, "check", "initializing") \/ Goto(q, "initializing", "idle")
    BY <1>8 DEF CallInitialize, InitializeFails
  <2>3. CASE q # Loop
    BY <1>0, <1>2, <2>1, <2>2, <2>3, GotoMoves
  <2>4. CASE q = Loop
    BY <1>0, <1>1, <2>1, <2>2, <2>4, GotoMoves DEF Passed
  <2> QED
    BY <2>3, <2>4
<1>9. CASE RunCall \/ RunReturns
  BY <1>0, <1>3, <1>9, GotoMoves DEF RunCall, RunReturns
<1>10. CASE LockToInitializeAll
  BY <1>0, <1>1, <1>10, GotoMoves DEF LockToInitializeAll, Passed
<1>11. CASE EachPlugin \/ AllInitialized
  <2>1. /\ pc[Loop] = "each" /\ UNCHANGED <<plugins, next>>
        /\ pc'[Loop] = "check" \/ (pc'[Loop] = "loop" /\ next > Len(plugins))
    BY <1>0, <1>11, GotoMoves DEF EachPlugin, AllInitialized
  <2>2. \A i \in Passed' : i \in Passed
    BY <1>0, <2>1 DEF Passed
  <2> QED
    BY <1>1, <2>1, <2>2
<1>12. ASSUME pc[Loop] \in {"loop", "onMessage", "onError"} \cup Reading, plugins' = plugins
       PROVE  SettledInv'
  BY <1>1, <1>12 DEF Passed
<1>13. ASSUME NEW what \in DOMAIN On, CallOn(what) \/ LockToRead(what) PROVE SettledInv'
  BY <1>12, <1>13, OnFacts DEF CallOn, LockToRead, Goto
<1>14. CASE PluginCalled \/ PluginsDone
  BY <1>12, <1>14 DEF PluginCalled, PluginsDone, Goto
<1> QED
  BY <1>4, <1>5, <1>6, <1>7, <1>8, <1>9, <1>10, <1>11, <1>13, <1>14 DEF Actions

-----------------------------------------------------------------------------
(* The registry's theorems                                                 *)

LEMMA StepRegistry == RegistryInv /\ [Next]_vars => RegistryInv'
<1> SUFFICES ASSUME RegistryInv, [Next]_vars PROVE RegistryInv'
  OBVIOUS
<1>1. CASE Next
  <2>1. Actions
    BY <1>1, NextActions
  <2> QED
    BY <2>1, StepType, StepPlace, StepLock, StepCount, StepSettled, StepNames DEF RegistryInv
<1>2. CASE UNCHANGED vars
  BY <1>2
  DEF vars, RegistryInv, TypeOK, PlaceInv, LockInv, CountInv, IsInitialized, Target, SettledInv,
      Passed, Settled, NamesAreUnique
<1> QED
  BY <1>1, <1>2

LEMMA RegistryInvariance == Spec => []RegistryInv
BY InitRegistry, StepRegistry, PTL DEF Spec

\* The variables of the registry keep their types.
THEOREM TypeCorrect == Spec => []TypeOK
<1>1. RegistryInv => TypeOK
  BY DEF RegistryInv
<1> QED
  BY <1>1, RegistryInvariance, PTL

\* No two registered plugins have one name: Register looks for the name and
\* adds the plugin under one lock.
THEOREM NamesUnique == Spec => []NamesAreUnique
<1>1. RegistryInv => NamesAreUnique
  BY DEF RegistryInv
<1> QED
  BY <1>1, RegistryInvariance, PTL

LEMMA AloneInitializes == RegistryInv => InitializeIsAlone
BY Alone DEF RegistryInv, InitializeIsAlone, Writing, Reading

\* No other plugin is initialised, and none called with a message or an error,
\* while a plugin's Initialize runs.
THEOREM InitializesAlone == Spec => []InitializeIsAlone
BY AloneInitializes, RegistryInvariance, PTL

\* A plugin is initialised again only if it has not succeeded yet, whoever
\* asks for it.
THEOREM InitializesOnce == Spec => InitializedOnce
<1>1. RegistryInv /\ [Next]_vars =>
         [\A p \in Plugins : started'[p] > started[p] => succeeded[p] = 0]_vars
  <2> SUFFICES ASSUME RegistryInv, Next, NEW p \in Plugins, started'[p] > started[p]
               PROVE  succeeded[p] = 0
    OBVIOUS
  <2>1. /\ TypeOK /\ PlaceInv /\ CountInv
        /\ started \in [Plugins -> Nat] /\ succeeded \in [Plugins -> Nat]
    BY DEF RegistryInv, TypeOK
  <2>2. started' # started
    BY <2>1
  <2>3. PICK q \in Procs : CallInitialize(q)
    BY <2>2, NextActions
    DEF Actions, UsePlugin, Register, CallInitializeOne, LockToInitialize, SkipInitialized,
        InitializeReturns, InitializeFails, RunCall, RunReturns, LockToInitializeAll, EachPlugin,
        AllInitialized, CallOn, LockToRead, PluginCalled, PluginsDone
  <2>4. p = Target(q) /\ ~IsInitialized(p)
    BY <2>1, <2>3 DEF CallInitialize
  <2> QED
    BY <2>1, <2>4 DEF CountInv
<1> QED
  BY <1>1, RegistryInvariance, PTL DEF Spec, InitializedOnce

\* The list does not change while the loop goes through it.
THEOREM ListStable == Spec => ListIsStable
<1>1. RegistryInv /\ [Next]_vars =>
         [pc[Loop] \in {"each", "check", "message", "error"} => UNCHANGED plugins]_vars
  <2> SUFFICES ASSUME RegistryInv, Next, pc[Loop] \in {"each", "check", "message", "error"}
               PROVE  UNCHANGED plugins
    OBVIOUS
  <2>1. ~CanWrite
    BY DEF RegistryInv, LockInv, CanWrite, Writing, Reading, Procs
  <2> QED
    BY <2>1, ListGrows, NextActions DEF RegistryInv, Register
<1> QED
  BY <1>1, RegistryInvariance, PTL DEF Spec, ListIsStable

LEMMA EarlyStep ==
    RegistryInv /\ [Next]_vars =>
       [\A p \in heard' \ heard :
          \/ started[p] > succeeded[p]
          \/ \E c \in Callers : mine[c] = p /\ pc[c] \in {"registered", "initialize"}]_vars
<1> SUFFICES ASSUME RegistryInv, Next, NEW p \in heard' \ heard
             PROVE  \/ started[p] > succeeded[p]
                    \/ \E c \in Callers : mine[c] = p /\ pc[c] \in {"registered", "initialize"}
  OBVIOUS
<1>1. PluginCalled
  BY NextActions
  DEF Actions, UsePlugin, Register, CallInitializeOne, LockToInitialize, SkipInitialized,
      CallInitialize, InitializeReturns, InitializeFails, RunCall, RunReturns,
      LockToInitializeAll, EachPlugin, AllInitialized, CallOn, LockToRead, PluginsDone
<1>2. /\ pc[Loop] = "message" /\ p = plugins[next] /\ ~IsInitialized(p)
      /\ next \in 1..Len(plugins)
  BY <1>1 DEF PluginCalled, RegistryInv, PlaceInv, TypeOK, Reading
<1>3. Settled(p)
  BY <1>2 DEF RegistryInv, SettledInv, Passed, Reading
<1>4. \A c \in Callers : pc[c] # "check"
  BY <1>2, RegistryAssumption, Alone DEF RegistryInv, Procs, Writing, Reading
<1> QED
  BY <1>2, <1>3, <1>4 DEF Settled

\* A plugin that hears a message before it is initialised is one that
\* UsePlugin is still adding, or one whose Initialize has failed.
THEOREM EarlyHearersExplained == Spec => EarlyIsExplained
BY EarlyStep, RegistryInvariance, PTL DEF Spec, EarlyIsExplained

-----------------------------------------------------------------------------
(* Messages through the plugins                                            *)

\* The LogoutPlugins that have heard the text in delivery have no question
\* open, and between messages, nor have those that heard the last one.
ChatInv ==
    /\ message = "exit" => pc[Loop] \in {"onMessage", "message"}
    /\ message # "exit" => confirmed \cap resting = {}
    /\ pc[Loop] = "message" /\ message \in Texts \ {"exit"}
          => confirmed \cap LogoutPlugins \cap Heard = {}

\* Every step of a chat is one of the registry.
LEMMA ChatSteps == [ChatNext]_allVars => [Next]_vars
<1> SUFFICES ASSUME [ChatNext]_allVars PROVE [Next]_vars
  OBVIOUS
<1>1. ASSUME NEW c \in Callers, NEW p \in LogoutPlugins \cup Failing, UsePlugin(c, p)
      PROVE  Next
  <2>1. p \in Plugins
    BY <1>1, RegistryAssumption DEF LogoutPlugins
  <2> QED
    BY <1>1, <2>1 DEF Next
<1>2. CASE RunCall \/ RunReturns \/ Arrives \/ CallOn("onError")
  BY <1>2, OnFacts DEF Next, Arrives
<1>3. ASSUME NEW q \in Procs, ChatWork(q) PROVE Next
  BY <1>3 DEF ChatWork, Hears, Reports, Delivered, Reported, Next, Work
<1>4. CASE UNCHANGED allVars
  BY <1>4 DEF allVars
<1> QED
  BY <1>1, <1>2, <1>3, <1>4 DEF ChatNext

\* What goroutines do under the lock, or waiting for it, leaves a delivery
\* where it is, or begins it at the first plugin.
LEMMA LockedKeepsDelivery ==
    ASSUME RegistryInv, NEW q \in Procs, Locked(q)
    PROVE  /\ pc[Loop] = "message" =>
                 pc'[Loop] = "message" /\ next' = next /\ plugins' = plugins
           /\ pc[Loop] = "onMessage" => pc'[Loop] \in {"onMessage", "message"}
           /\ pc'[Loop] = "message" /\ pc[Loop] # "message" => next' = 1
<1>0. /\ Loop \in Procs /\ Loop \notin Callers /\ Callers \subseteq Procs /\ TypeOK /\ LockInv
  BY RegistryAssumption DEF Procs, RegistryInv
<1>1. CASE q \in Callers /\ Register(q)
  <2>1. ~CanWrite \/ pc[Loop] # "message"
    BY <1>0 DEF LockInv, CanWrite, Reading
  <2>2. CanWrite /\ pc'[Loop] = pc[Loop] /\ next' = next
    BY <1>0, <1>1, GotoMoves DEF Register
  <2> QED
    BY <2>1, <2>2
<1>2. CASE q \in Callers /\ (CallInitializeOne(q) \/ LockToInitialize(q))
  BY <1>0, <1>2, GotoMoves DEF CallInitializeOne, LockToInitialize
<1>3. CASE SkipInitialized(q) \/ InitializeReturns(q)
  <2>1. NextTarget(q) /\ plugins' = plugins
    BY <1>3 DEF SkipInitialized, InitializeReturns
  <2> QED
    BY <1>0, <2>1, NextTargetMoves
<1>4. CASE CallInitialize(q) \/ InitializeFails(q)
  BY <1>0, <1>4, GotoMoves DEF CallInitialize, InitializeFails
<1>5. CASE q = Loop /\ (LockToInitializeAll \/ EachPlugin \/ AllInitialized)
  BY <1>0, <1>5, GotoMoves DEF LockToInitializeAll, EachPlugin, AllInitialized
<1>6. ASSUME NEW what \in DOMAIN On, LockToRead(what)
      PROVE  /\ pc[Loop] = what /\ pc'[Loop] = On[what] /\ next' = 1
  BY <1>0, <1>6, GotoMoves DEF LockToRead
<1> QED
  BY <1>1, <1>2, <1>3, <1>4, <1>5, <1>6, OnFacts DEF Locked

LEMMA InitChat == ChatInit => ChatInv
BY RegistryAssumption DEF ChatInit, Init, ChatInv, Procs

LEMMA StepChat ==
    ASSUME RegistryInv, ChatInv, [ChatNext]_allVars
    PROVE  ChatInv'
<1>0. TypeOK /\ Loop \in Procs /\ Loop \notin Callers /\ Callers \subseteq Procs
  BY RegistryAssumption DEF Procs, RegistryInv
\* No message is in delivery, before or after the step.
<1>1. ASSUME UNCHANGED pluginVars,
             pc[Loop] \notin {"onMessage", "message"}, pc'[Loop] # "message"
      PROVE  ChatInv'
  BY <1>1 DEF ChatInv, pluginVars
<1>2. ASSUME UNCHANGED pluginVars, UNCHANGED <<next, plugins>>, pc'[Loop] = pc[Loop]
      PROVE  ChatInv'
  BY <1>2 DEF ChatInv, pluginVars, Heard
<1>3. ASSUME NEW q \in Procs, Locked(q), UNCHANGED pluginVars PROVE ChatInv'
  <2>1. CASE pc[Loop] = "message"
    BY <1>2, <1>3, <2>1, LockedKeepsDelivery
  <2>2. CASE pc[Loop] # "message"
    <3>1. pc'[Loop] = "message" => Heard' = {}
      BY <1>3, <2>2, LockedKeepsDelivery DEF Heard
    <3>2. pc[Loop] = "onMessage" => pc'[Loop] \in {"onMessage", "message"}
      BY <1>3, LockedKeepsDelivery
    <3> QED
      BY <1>3, <2>2, <3>1, <3>2 DEF ChatInv, pluginVars
  <2> QED
    BY <2>1, <2>2
<1>4. ASSUME NEW c \in Callers, NEW p, UsePlugin(c, p), UNCHANGED pluginVars PROVE ChatInv'
  <2>1. UNCHANGED <<next, plugins>> /\ pc'[Loop] = pc[Loop]
    BY <1>0, <1>4, GotoMoves DEF UsePlugin
  <2> QED
    BY <1>2, <1>4, <2>1
<1>5. CASE (RunCall \/ RunReturns \/ CallOn("onError")) /\ UNCHANGED pluginVars
  BY <1>0, <1>1, <1>5, GotoMoves DEF RunCall, RunReturns, CallOn
<1>6. CASE Arrives
  BY <1>0, <1>6, GotoMoves DEF Arrives, CallOn, ChatInv
<1>7. CASE Hears
  <2> DEFINE p == plugins[next]
  <2>1. /\ pc[Loop] = "message" /\ pc' = pc /\ next' = next + 1 /\ plugins' = plugins
        /\ UNCHANGED <<message, resting>>
    BY <1>7 DEF Hears, PluginCalled
  <2>2. \/ p \in LogoutPlugins /\ Confirmation(p)
        \/ p \notin LogoutPlugins /\ confirmed' = confirmed
    <3>1. next \in 1..Len(plugins)
      BY <1>7 DEF Hears, PluginCalled, RegistryInv, PlaceInv, TypeOK, Reading
    <3>2. p \in Plugins
      BY <1>0, <3>1 DEF TypeOK
    <3> QED
      BY <1>7, <3>2 DEF Hears, LogoutPlugins
  <2>3. message # "exit" =>
           confirmed' \subseteq confirmed
    BY <2>2 DEF Confirmation
  <2>4. message \in Texts \ {"exit"} => p \notin confirmed' \cap LogoutPlugins
    BY <2>2 DEF Confirmation
  <2>5. next \in Nat
    BY <1>0 DEF TypeOK
  <2>6. Heard' = Heard \cup {p} \/ Heard' \subseteq Heard \cup {p}
    BY <2>1, <2>5 DEF Heard
  <2> HIDE DEF p
  <2> QED
    BY <2>1, <2>3, <2>4, <2>6 DEF ChatInv, LogoutPlugins
<1>8. CASE Reports
  BY <1>1, <1>8 DEF Reports, PluginCalled
<1>9. CASE Delivered
  <2>1. /\ pc[Loop] = "message" /\ message' = "none" /\ confirmed' = confirmed
        /\ resting' = IF message = "exit" THEN {}
                      ELSE IF message \in Texts THEN LogoutPlugins \cap Heard
                      ELSE resting
    BY <1>9 DEF Delivered
  <2>2. confirmed' \cap resting' = {}
    BY <2>1 DEF ChatInv
  <2> QED
    BY <2>1, <2>2 DEF ChatInv, Texts
<1>10. CASE Reported
  <2>1. \E to \in {"loop", "onError"} : pc'[Loop] = to
    BY <1>0, <1>10, GotoMoves DEF Reported, PluginsDone
  <2> QED
    BY <1>1, <1>10, <2>1 DEF Reported
<1>11. CASE UNCHANGED allVars
  BY <1>2, <1>11 DEF allVars, vars, pluginVars
<1> QED
  BY <1>3, <1>4, <1>5, <1>6, <1>7, <1>8, <1>9, <1>10, <1>11 DEF ChatNext, ChatWork

LEMMA ChatInvariance == ChatSpec => [](RegistryInv /\ ChatInv)
<1>1. ChatInit => RegistryInv /\ ChatInv
  BY InitRegistry, InitChat DEF ChatInit
<1>2. RegistryInv /\ ChatInv /\ [ChatNext]_allVars => RegistryInv' /\ ChatInv'
  BY ChatSteps, StepRegistry, StepChat
<1>3. ChatSpec => ChatInit /\ [][ChatNext]_allVars
  BY PTL DEF ChatSpec
<1> QED
  BY <1>1, <1>2, <1>3, PTL

\* A chat goes through the registry as it is: what holds of every behaviour of
\* the registry holds while messages are delivered.
THEOREM ChatIsRegistry == ChatSpec => Spec
<1>1. ChatInit => Init
  BY DEF ChatInit
<1>2. ChatSpec => ChatInit /\ [][ChatNext]_allVars
  BY PTL DEF ChatSpec
<1> QED
  BY <1>1, <1>2, ChatSteps, PTL DEF Spec

\* A text takes the question of "/exit" back in every LogoutPlugin it reaches,
\* so between messages none of those is ready to log out.
THEOREM ConfirmationsFresh == ChatSpec => []ConfirmationIsFresh
<1>1. ChatInv => ConfirmationIsFresh
  BY DEF ChatInv, ConfirmationIsFresh
<1> QED
  BY <1>1, ChatInvariance, PTL
=============================================================================
