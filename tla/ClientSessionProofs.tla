------------------------- MODULE ClientSessionProofs -------------------------
(***************************************************************************)
(* Proofs about ClientSession: the types of its variables, and Agreement,  *)
(* LoggedOutIsForgotten, NeverAskAgain and LoggedOutForGood, for any       *)
(* number of goroutines.                                                   *)
(*                                                                         *)
(* The last four rest on one inductive invariant.  AlmostQuiet says that   *)
(* at most one goroutine is inside an operation; it holds until operations *)
(* overlap, and again when one of them clears the token alone.  Shape(p)   *)
(* says, write by write, which of the five places of the token are already *)
(* up to date when p is the only one that may be inside; of it, Undone(p), *)
(* which is about a token that is being cleared, holds whatever was before.*)
(* What the store keeps is the program's affair if it keepsTokens.         *)
(***************************************************************************)
EXTENDS ClientSession, TLAPS

Banned == refused \cup ended

Settled ==
    /\ loggedIn <=> currentUser # None
    /\ apiToken = currentUser

\* No context tokens, but for late ones
Forgotten == contexts = {} \/ crossed

\* No token in the store, but for a program that keeps its tokens
Emptied == store = None \/ keepsTokens

\* The token in the store may be loaded.
StoreIsGood == store \notin Banned \/ keepsTokens

\* What holds between operations.
Sound ==
    /\ Settled
    /\ ~loggedIn => (Emptied \/ ~cleared) /\ Forgotten /\ apiToken = None
    /\ apiToken \notin Banned
    /\ StoreIsGood

\* The token p is about to set is a real one.
GoodToken(p) == tok[p] # None /\ tok[p] \notin Banned

RestOf(p) == \A q \in Procs \ {p} : pc[q] \in Rest

Clearing == {"delete", "forget", "flag", "dropUser", "dropToken"}
Calm == Rest \cup {"login", "check", "verify", "scan", "reset", "pause"}

\* What p has cleared of the token.
Undone(p) ==
    /\ pc[p] \in Clearing \ {"delete"} => Emptied
    /\ pc[p] \in {"flag", "dropUser", "dropToken"} => Forgotten
    /\ pc[p] \in {"dropUser", "dropToken"} => ~loggedIn
    /\ pc[p] = "dropToken" => currentUser = None

\* What holds at each point of p while the others rest.
Shape(p) ==
    /\ pc[p] \in Calm => Sound
    /\ pc[p] = "delete" => Settled /\ (~loggedIn => (Emptied \/ ~cleared) /\ Forgotten)
    /\ pc[p] \in {"forget", "flag"} => Settled
    /\ pc[p] \in {"remember", "setUser"} => Sound /\ GoodToken(p)
    /\ pc[p] = "setFlag" =>
          /\ currentUser = tok[p] /\ GoodToken(p)
          /\ apiToken \notin Banned /\ StoreIsGood
    /\ pc[p] = "setToken" =>
          /\ loggedIn /\ currentUser = tok[p] /\ GoodToken(p)
          /\ StoreIsGood
    /\ pc[p] = "save" =>
          /\ loggedIn /\ currentUser = tok[p] /\ apiToken = tok[p] /\ GoodToken(p)
          /\ StoreIsGood

\* A refused token leaves the requests before Run polls again.
Polls ==
    /\ pc[Loop] \notin Clearing => apiToken \notin refused
    /\ pc[Loop] = "flight" => sent \notin refused

AlmostQuiet == \A p, q \in Procs : p # q => pc[p] \in Rest \/ pc[q] \in Rest

Shapes == \A p \in Procs : RestOf(p) => Shape(p)
Undones == \A p \in Procs : RestOf(p) => Undone(p)

Inv ==
    /\ TypeOK
    /\ overlap # "some" => AlmostQuiet /\ Undones
    /\ overlap = "none" => Shapes /\ Polls

-----------------------------------------------------------------------------
(* Types                                                                   *)

\* A move keeps the type of pc and moves one goroutine.
LEMMA MoveMoves ==
    ASSUME pc \in [Procs -> States], NEW p \in Procs, NEW from, NEW to \in States,
           Move(p, from, to)
    PROVE  /\ pc' \in [Procs -> States]
           /\ pc[p] = from
           /\ pc'[p] = to
           /\ \A q \in Procs \ {p} : pc'[q] = pc[q]
BY DEF Move

\* What one action may do to the variables: the goroutine at from goes
\* somewhere, the others stay.
LEMMA StepType ==
    ASSUME TypeOK, SessionAssumption, NEW p \in Procs,
           UNCHANGED keepsTokens,
           \/ p \in Callers /\ Call(p)
           \/ LoginStep(p)
           \/ WriteStep(p)
    PROVE  TypeOK'
<1> USE SessionAssumption DEF TypeOK, Tokens, None, Goto, Move, States, Goals, vars, tokenVars,
        serverVars, historyVars
<1>1. CASE LoginCall(p)
  BY <1>1 DEF LoginCall, Start
<1>2. CASE RestoreToken(p)
  BY <1>2 DEF RestoreToken, Start
<1>3. CASE LoadToken(p)
  BY <1>3 DEF LoadToken, Start
<1>4. CASE LogoutCall(p)
  BY <1>4 DEF LogoutCall, Start
<1>5. CASE ReadUser(p)
  BY <1>5 DEF ReadUser
<1>6. CASE ReadLoggedIn(p)
  BY <1>6 DEF ReadLoggedIn
<1>7. CASE Verified(p)
  BY <1>7 DEF Verified, AfterLogin
<1>8. CASE NotVerified(p)
  BY <1>8 DEF NotVerified
<1>9. CASE ScanSucceeds(p)
  BY <1>9 DEF ScanSucceeds
<1>10. CASE ScanFails(p)
  BY <1>10 DEF ScanFails
<1>11. CASE DeleteStored(p)
  BY <1>11 DEF DeleteStored, Mends
<1>12. CASE ForgetContexts(p)
  BY <1>12 DEF ForgetContexts
<1>13. CASE MarkLoggedOut(p)
  BY <1>13 DEF MarkLoggedOut
<1>14. CASE DropUser(p)
  BY <1>14 DEF DropUser
<1>15. CASE DropToken(p)
  BY <1>15 DEF DropToken, Cleared
<1>16. CASE RememberToken(p)
  BY <1>16 DEF RememberToken
<1>17. CASE StoreUser(p)
  BY <1>17 DEF StoreUser
<1>18. CASE MarkLoggedIn(p)
  BY <1>18 DEF MarkLoggedIn
<1>19. CASE SetApiToken(p)
  BY <1>19 DEF SetApiToken
<1>20. CASE SaveToken(p)
  BY <1>20 DEF SaveToken, AfterLogin
<1>21. CASE ResetSession(p)
  BY <1>21 DEF ResetSession
<1>22. CASE PauseSession(p)
  BY <1>22 DEF PauseSession
<1> QED
  BY <1>1, <1>2, <1>3, <1>4, <1>5, <1>6, <1>7, <1>8, <1>9, <1>10, <1>11, <1>12, <1>13,
     <1>14, <1>15, <1>16, <1>17, <1>18, <1>19, <1>20, <1>21, <1>22 DEF Call,
     LoginStep, WriteStep

LEMMA LoopType ==
    ASSUME TypeOK, SessionAssumption, UNCHANGED keepsTokens,
           LoopStep \/ PauseEnds \/ \E t \in alive : Revoke(t)
    PROVE  TypeOK'
<1> USE SessionAssumption DEF TypeOK, Tokens, None, Goto, Move, States, Goals, vars, tokenVars,
        serverVars, historyVars, Procs
<1>1. CASE RunCall
  BY <1>1 DEF RunCall, Start
<1>2. CASE LoopExpired
  BY <1>2 DEF LoopExpired, Start
<1>3. CASE LoopPolls
  BY <1>3 DEF LoopPolls, Start
<1>4. CASE PollSent
  BY <1>4 DEF PollSent
<1>5. CASE PollAnswered
  BY <1>5 DEF PollAnswered
<1>6. CASE PollExpired
  <2>1. /\ UNCHANGED <<tokenVars, issued, alive, cursor, tok, user, reported, cleared, ended, crossed>>
        /\ overlap' \in {overlap, "some"}
    BY <1>6 DEF PollExpired, Start
  <2>2. sent' = None /\ paused' \in BOOLEAN /\ contexts' = contexts
    BY <1>6 DEF PollExpired
  <2>3. refused' \subseteq 1..issued
    <3>1. sent \in 0..issued /\ issued \in Nat /\ refused \subseteq 1..issued
      OBVIOUS
    <3>2. {sent} \ {0} \subseteq 1..issued
      BY <3>1
    <3>3. refused' = refused \cup ({sent} \ {0})
      BY <1>6 DEF PollExpired
    <3> QED
      BY <3>1, <3>2, <3>3
  <2>4. pc' \in [Procs -> States] /\ goal' \in [Procs -> Goals]
    BY <1>6 DEF PollExpired, Start
  <2> QED
    BY <2>1, <2>2, <2>3, <2>4
<1>7. CASE PollFails
  BY <1>7 DEF PollFails
<1>8. CASE RunReturns
  BY <1>8 DEF RunReturns, Start
<1>9. CASE PauseEnds
  BY <1>9 DEF PauseEnds
<1>10. CASE \E t \in alive : Revoke(t)
  BY <1>10 DEF Revoke
<1> QED
  BY <1>1, <1>2, <1>3, <1>4, <1>5, <1>6, <1>7, <1>8, <1>9, <1>10 DEF LoopStep

\* The variables keep their types; no token is used that was not issued.
THEOREM TypeCorrect == SessionAssumption => (Spec => []TypeOK)
<1> SUFFICES ASSUME SessionAssumption PROVE Spec => []TypeOK
  OBVIOUS
<1>1. Init => TypeOK
  <2> SUFFICES ASSUME Init PROVE TypeOK
    OBVIOUS
  <2>1. pc \in [Procs -> States] /\ goal \in [Procs -> Goals]
    BY DEF Init, States, Goals
  <2>2. tok \in [Procs -> Tokens] /\ user \in [Procs -> Tokens]
    BY DEF Init, Tokens, None
  <2>3. {currentUser, apiToken, authToken, store, sent, cursor} \subseteq Tokens
    BY DEF Init, Tokens, None
  <2>4. alive \subseteq 1..issued /\ issued \in Nat
    BY DEF Init
  <2> QED
    BY <2>1, <2>2, <2>3, <2>4 DEF Init, TypeOK, Tokens, None
<1>2. TypeOK /\ [Next]_vars => TypeOK'
  <2> SUFFICES ASSUME TypeOK, [Next]_vars PROVE TypeOK'
    OBVIOUS
  <2>k. UNCHANGED keepsTokens
    BY DEF Next, vars
  <2>1. CASE \E c \in Callers : Call(c)
    BY <2>1, <2>k, StepType DEF Procs
  <2>2. CASE \E p \in Procs : LoginStep(p) \/ WriteStep(p)
    BY <2>2, <2>k, StepType
  <2>3. CASE LoopStep \/ PauseEnds \/ \E t \in alive : Revoke(t)
    BY <2>3, <2>k, LoopType
  <2>4. CASE UNCHANGED vars
    BY <2>4 DEF vars, tokenVars, serverVars, historyVars, TypeOK, Tokens
  <2> QED
    BY <2>1, <2>2, <2>3, <2>4 DEF Next
<1> QED
  BY <1>1, <1>2, PTL DEF Spec

-----------------------------------------------------------------------------
(* One operation at a time                                                 *)

\* The steps of operations, and those of Run that are in none.
OpStep(p) ==
    /\ UNCHANGED keepsTokens
    /\ \/ p \in Callers /\ Call(p)
       \/ LoginStep(p)
       \/ WriteStep(p)
       \/ p = Loop /\ ((RunCall /\ ~loggedIn) \/ LoopExpired \/ PollExpired)

LightStep ==
    /\ UNCHANGED keepsTokens
    /\ \/ RunCall /\ loggedIn
       \/ LoopPolls \/ PollSent \/ PollAnswered \/ PollFails \/ RunReturns

\* The program counters change for p alone.
Moves(p) ==
    /\ pc' \in [Procs -> States]
    /\ \A q \in Procs \ {p} : pc'[q] = pc[q]

\* An action of p moves p only, and only while the others rest.
Acts(p) ==
    /\ RestOf(p)
    /\ pc' \in [Procs -> States]
    /\ \A q \in Procs \ {p} : pc'[q] = pc[q] /\ tok'[q] = tok[q]

LEMMA NonRestActs ==
    ASSUME AlmostQuiet, NEW p \in Procs, pc[p] \notin Rest
    PROVE  RestOf(p)
BY DEF AlmostQuiet, RestOf

LEMMA GotoActs ==
    ASSUME TypeOK, overlap # "some" => AlmostQuiet, overlap' # "some",
           NEW p \in Procs, NEW from, NEW to \in States,
           Goto(p, from, to), from \notin Rest
    PROVE  RestOf(p) /\ Moves(p)
<1>1. pc[p] \notin Rest /\ AlmostQuiet
  BY DEF Goto, Move
<1> QED
  BY <1>1, NonRestActs, MoveMoves DEF Goto, TypeOK, Moves

LEMMA StartActs ==
    ASSUME TypeOK, overlap' # "some", NEW p \in Procs, NEW from, NEW to \in States, NEW g,
           Start(p, from, to, g), to \notin Rest
    PROVE  RestOf(p) /\ Moves(p)
BY MoveMoves DEF TypeOK, Start, Busy, RestOf, Moves

\* Unless operations overlap, who is in one acts alone.
LEMMA StepActs ==
    ASSUME TypeOK, overlap # "some" => AlmostQuiet, overlap' # "some", SessionAssumption,
           NEW p \in Procs, OpStep(p)
    PROVE  Acts(p)
<1> USE DEF Acts, Moves, Rest, States
<1>1. CASE LoginCall(p)
  <2>1. RestOf(p) /\ Moves(p)
    BY <1>1, StartActs DEF LoginCall
  <2>2. tok' = tok
    BY <1>1 DEF LoginCall
  <2> QED
    BY <2>1, <2>2
<1>2. CASE RestoreToken(p)
  <2>1. RestOf(p) /\ Moves(p)
    BY <1>2, StartActs DEF RestoreToken
  <2>2. \A q \in Procs \ {p} : tok'[q] = tok[q]
    BY <1>2 DEF RestoreToken, TypeOK
  <2> QED
    BY <2>1, <2>2
<1>3. CASE LoadToken(p)
  <2>1. RestOf(p) /\ Moves(p)
    BY <1>3, StartActs DEF LoadToken
  <2>2. \A q \in Procs \ {p} : tok'[q] = tok[q]
    BY <1>3 DEF LoadToken, TypeOK
  <2> QED
    BY <2>1, <2>2
<1>4. CASE LogoutCall(p)
  <2>1. RestOf(p) /\ Moves(p)
    BY <1>4, StartActs DEF LogoutCall
  <2>2. tok' = tok
    BY <1>4 DEF LogoutCall
  <2> QED
    BY <2>1, <2>2
<1>5. CASE ReadUser(p)
  <2>1. RestOf(p) /\ Moves(p)
    BY <1>5, GotoActs DEF ReadUser
  <2>2. tok' = tok
    BY <1>5 DEF ReadUser
  <2> QED
    BY <2>1, <2>2
<1>6. CASE ReadLoggedIn(p)
  <2>1. RestOf(p) /\ Moves(p)
    BY <1>6, GotoActs DEF ReadLoggedIn
  <2>2. tok' = tok
    BY <1>6 DEF ReadLoggedIn
  <2> QED
    BY <2>1, <2>2
<1>7. CASE Verified(p)
  <2>1. RestOf(p) /\ Moves(p)
    BY <1>7, GotoActs DEF Verified, AfterLogin
  <2>2. tok' = tok
    BY <1>7 DEF Verified
  <2> QED
    BY <2>1, <2>2
<1>8. CASE NotVerified(p)
  <2>1. RestOf(p) /\ Moves(p)
    BY <1>8, GotoActs DEF NotVerified
  <2>2. tok' = tok
    BY <1>8 DEF NotVerified
  <2> QED
    BY <2>1, <2>2
<1>9. CASE ScanSucceeds(p)
  <2>1. RestOf(p) /\ Moves(p)
    BY <1>9, GotoActs DEF ScanSucceeds
  <2>2. \A q \in Procs \ {p} : tok'[q] = tok[q]
    BY <1>9 DEF ScanSucceeds, TypeOK
  <2> QED
    BY <2>1, <2>2
<1>10. CASE ScanFails(p)
  <2>1. RestOf(p) /\ Moves(p)
    BY <1>10, GotoActs DEF ScanFails
  <2>2. tok' = tok
    BY <1>10 DEF ScanFails
  <2> QED
    BY <2>1, <2>2
<1>11. CASE DeleteStored(p)
  <2>1. RestOf(p) /\ Moves(p)
    BY <1>11, NonRestActs, MoveMoves DEF DeleteStored, Mends, Busy, RestOf, TypeOK
  <2>2. tok' = tok
    BY <1>11 DEF DeleteStored
  <2> QED
    BY <2>1, <2>2
<1>12. CASE ForgetContexts(p)
  <2>1. RestOf(p) /\ Moves(p)
    BY <1>12, GotoActs DEF ForgetContexts
  <2>2. tok' = tok
    BY <1>12 DEF ForgetContexts
  <2> QED
    BY <2>1, <2>2
<1>13. CASE MarkLoggedOut(p)
  <2>1. RestOf(p) /\ Moves(p)
    BY <1>13, GotoActs DEF MarkLoggedOut
  <2>2. tok' = tok
    BY <1>13 DEF MarkLoggedOut
  <2> QED
    BY <2>1, <2>2
<1>14. CASE DropUser(p)
  <2>1. RestOf(p) /\ Moves(p)
    BY <1>14, GotoActs DEF DropUser
  <2>2. tok' = tok
    BY <1>14 DEF DropUser
  <2> QED
    BY <2>1, <2>2
<1>15. CASE DropToken(p)
  <2>1. RestOf(p) /\ Moves(p)
    BY <1>15, NonRestActs, MoveMoves DEF DropToken, Cleared, TypeOK
  <2>2. tok' = tok
    BY <1>15 DEF DropToken
  <2> QED
    BY <2>1, <2>2
<1>16. CASE RememberToken(p)
  <2>1. RestOf(p) /\ Moves(p)
    BY <1>16, GotoActs DEF RememberToken
  <2>2. tok' = tok
    BY <1>16 DEF RememberToken
  <2> QED
    BY <2>1, <2>2
<1>17. CASE StoreUser(p)
  <2>1. RestOf(p) /\ Moves(p)
    BY <1>17, GotoActs DEF StoreUser
  <2>2. tok' = tok
    BY <1>17 DEF StoreUser
  <2> QED
    BY <2>1, <2>2
<1>18. CASE MarkLoggedIn(p)
  <2>1. RestOf(p) /\ Moves(p)
    BY <1>18, GotoActs DEF MarkLoggedIn
  <2>2. tok' = tok
    BY <1>18 DEF MarkLoggedIn
  <2> QED
    BY <2>1, <2>2
<1>19. CASE SetApiToken(p)
  <2>1. RestOf(p) /\ Moves(p)
    BY <1>19, GotoActs DEF SetApiToken
  <2>2. \A q \in Procs \ {p} : tok'[q] = tok[q]
    BY <1>19 DEF SetApiToken, TypeOK
  <2> QED
    BY <2>1, <2>2
<1>20. CASE SaveToken(p)
  <2>1. RestOf(p) /\ Moves(p)
    BY <1>20, GotoActs DEF SaveToken, AfterLogin
  <2>2. \A q \in Procs \ {p} : tok'[q] = tok[q]
    BY <1>20 DEF SaveToken, TypeOK
  <2> QED
    BY <2>1, <2>2
<1>21. CASE ResetSession(p)
  <2>1. RestOf(p) /\ Moves(p)
    BY <1>21, GotoActs DEF ResetSession
  <2>2. tok' = tok
    BY <1>21 DEF ResetSession
  <2> QED
    BY <2>1, <2>2
<1>22. CASE PauseSession(p)
  <2>1. RestOf(p) /\ Moves(p)
    BY <1>22, GotoActs DEF PauseSession
  <2>2. tok' = tok
    BY <1>22 DEF PauseSession
  <2> QED
    BY <2>1, <2>2
<1>23. CASE p = Loop /\ RunCall /\ ~loggedIn
  <2>1. RestOf(p) /\ Moves(p)
    BY <1>23, StartActs DEF RunCall
  <2>2. tok' = tok
    BY <1>23 DEF RunCall
  <2> QED
    BY <2>1, <2>2
<1>24. CASE p = Loop /\ LoopExpired
  <2>1. RestOf(p) /\ Moves(p)
    BY <1>24, StartActs DEF LoopExpired
  <2>2. tok' = tok
    BY <1>24 DEF LoopExpired
  <2> QED
    BY <2>1, <2>2
<1>25. CASE p = Loop /\ PollExpired
  <2>1. RestOf(p) /\ Moves(p)
    BY <1>25, StartActs DEF PollExpired
  <2>2. tok' = tok
    BY <1>25 DEF PollExpired
  <2> QED
    BY <2>1, <2>2
<1> QED
  BY <1>1, <1>2, <1>3, <1>4, <1>5, <1>6, <1>7, <1>8, <1>9, <1>10, <1>11, <1>12,
     <1>13, <1>14, <1>15, <1>16, <1>17, <1>18, <1>19, <1>20, <1>21, <1>22, <1>23,
     <1>24, <1>25 DEF OpStep, Call,
     LoginStep, WriteStep

LEMMA QuietStep ==
    ASSUME NEW p \in Procs, Acts(p)
    PROVE  AlmostQuiet'
BY DEF AlmostQuiet, Acts, RestOf

-----------------------------------------------------------------------------
(* The shape of the session                                                *)

\* What has been cleared stays so for whoever clears alone.
LEMMA UndoneStep ==
    ASSUME TypeOK, SessionAssumption, NEW p \in Procs, OpStep(p), RestOf(p),
           overlap # "some" => Undone(p), overlap' # "some"
    PROVE  Undone(p)'
<1>t. pc \in [Procs -> States] /\ Loop \in Procs /\ keepsTokens' = keepsTokens
  BY DEF TypeOK, Procs, OpStep
<1> USE <1>t DEF Goto, Move, Undone, Emptied, Forgotten, Clearing, tokenVars, historyVars, States
<1>1. CASE LoginCall(p)
  BY <1>1 DEF LoginCall, Start
<1>2. CASE RestoreToken(p)
  BY <1>2 DEF RestoreToken, Start
<1>3. CASE LoadToken(p)
  BY <1>3 DEF LoadToken, Start
<1>4. CASE LogoutCall(p)
  BY <1>4 DEF LogoutCall, Start
<1>5. CASE ReadUser(p)
  BY <1>5 DEF ReadUser
<1>6. CASE ReadLoggedIn(p)
  BY <1>6 DEF ReadLoggedIn
<1>7. CASE Verified(p)
  BY <1>7 DEF Verified, AfterLogin
<1>8. CASE NotVerified(p)
  BY <1>8 DEF NotVerified
<1>9. CASE ScanSucceeds(p)
  BY <1>9 DEF ScanSucceeds
<1>10. CASE ScanFails(p)
  BY <1>10 DEF ScanFails
<1>11. CASE DeleteStored(p)
  BY <1>11 DEF DeleteStored, Mends
<1>12. CASE ForgetContexts(p)
  BY <1>12 DEF ForgetContexts
<1>13. CASE MarkLoggedOut(p)
  BY <1>13 DEF MarkLoggedOut
<1>14. CASE DropUser(p)
  BY <1>14 DEF DropUser
<1>15. CASE DropToken(p)
  BY <1>15 DEF DropToken, Cleared
<1>16. CASE RememberToken(p)
  BY <1>16 DEF RememberToken
<1>17. CASE StoreUser(p)
  BY <1>17 DEF StoreUser
<1>18. CASE MarkLoggedIn(p)
  BY <1>18 DEF MarkLoggedIn
<1>19. CASE SetApiToken(p)
  BY <1>19 DEF SetApiToken
<1>20. CASE SaveToken(p)
  BY <1>20 DEF SaveToken, AfterLogin
<1>21. CASE ResetSession(p)
  BY <1>21 DEF ResetSession
<1>22. CASE PauseSession(p)
  BY <1>22 DEF PauseSession
<1>23. CASE p = Loop /\ RunCall /\ ~loggedIn
  BY <1>23 DEF RunCall, Start
<1>24. CASE p = Loop /\ LoopExpired
  BY <1>24 DEF LoopExpired, Start
<1>25. CASE p = Loop /\ PollExpired
  BY <1>25 DEF PollExpired, Start
<1> QED
  BY <1>1, <1>2, <1>3, <1>4, <1>5, <1>6, <1>7, <1>8, <1>9, <1>10, <1>11, <1>12,
     <1>13, <1>14, <1>15, <1>16, <1>17, <1>18, <1>19, <1>20, <1>21, <1>22, <1>23,
     <1>24, <1>25 DEF OpStep, Call,
     LoginStep, WriteStep

\* The shape of p after a step of its own
LEMMA ShapeStep ==
    ASSUME TypeOK, SessionAssumption, NEW p \in Procs, OpStep(p),
           Shape(p), Undone(p)
    PROVE  Shape(p)'
<1>t. /\ pc \in [Procs -> States] /\ goal \in [Procs -> Goals] /\ tok \in [Procs -> Tokens]
      /\ Loop \in Procs /\ keepsTokens' = keepsTokens
  BY DEF TypeOK, Procs, OpStep
<1>b. Banned \subseteq 1..issued /\ issued \in Nat /\ alive \subseteq 1..issued
      /\ {currentUser, apiToken, store, sent} \subseteq 0..issued
  BY DEF TypeOK, Banned, Tokens
<1> USE <1>t, <1>b DEF Goto, Move, Shape, Undone, Emptied, Forgotten, Calm, Rest, Clearing, Sound,
        StoreIsGood, Settled, Banned, GoodToken, tokenVars, historyVars, serverVars, None, Goals, States
<1>1. CASE LoginCall(p)
  BY <1>1 DEF LoginCall, Start
<1>2. CASE RestoreToken(p)
  BY <1>2 DEF RestoreToken, Start
<1>3. CASE LoadToken(p)
  BY <1>3 DEF LoadToken, Start
<1>4. CASE LogoutCall(p)
  BY <1>4 DEF LogoutCall, Start
<1>5. CASE ReadUser(p)
  BY <1>5 DEF ReadUser
<1>6. CASE ReadLoggedIn(p)
  BY <1>6 DEF ReadLoggedIn
<1>7. CASE Verified(p)
  BY <1>7 DEF Verified, AfterLogin
<1>8. CASE NotVerified(p)
  BY <1>8 DEF NotVerified
<1>9. CASE ScanSucceeds(p)
  BY <1>9 DEF ScanSucceeds
<1>10. CASE ScanFails(p)
  BY <1>10 DEF ScanFails
<1>11. CASE DeleteStored(p)
  BY <1>11 DEF DeleteStored, Mends
<1>12. CASE ForgetContexts(p)
  BY <1>12 DEF ForgetContexts
<1>13. CASE MarkLoggedOut(p)
  BY <1>13 DEF MarkLoggedOut
<1>14. CASE DropUser(p)
  BY <1>14 DEF DropUser
<1>15. CASE DropToken(p)
  BY <1>15 DEF DropToken, Cleared
<1>16. CASE RememberToken(p)
  BY <1>16 DEF RememberToken
<1>17. CASE StoreUser(p)
  BY <1>17 DEF StoreUser
<1>18. CASE MarkLoggedIn(p)
  BY <1>18 DEF MarkLoggedIn
<1>19. CASE SetApiToken(p)
  BY <1>19 DEF SetApiToken
<1>20. CASE SaveToken(p)
  BY <1>20 DEF SaveToken, AfterLogin
<1>21. CASE ResetSession(p)
  BY <1>21 DEF ResetSession
<1>22. CASE PauseSession(p)
  BY <1>22 DEF PauseSession
<1>23. CASE p = Loop /\ RunCall /\ ~loggedIn
  BY <1>23 DEF RunCall, Start
<1>24. CASE p = Loop /\ LoopExpired
  BY <1>24 DEF LoopExpired, Start
<1>25. CASE p = Loop /\ PollExpired
  BY <1>25 DEF PollExpired, Start
<1> QED
  BY <1>1, <1>2, <1>3, <1>4, <1>5, <1>6, <1>7, <1>8, <1>9, <1>10, <1>11, <1>12,
     <1>13, <1>14, <1>15, <1>16, <1>17, <1>18, <1>19, <1>20, <1>21, <1>22, <1>23,
     <1>24, <1>25 DEF OpStep, Call,
     LoginStep, WriteStep

\* The token in the requests and in the poll that is out after a step of p
LEMMA PollsStep ==
    ASSUME TypeOK, SessionAssumption, NEW p \in Procs, OpStep(p),
           Shape(p), Polls
    PROVE  Polls'
<1>t. /\ pc \in [Procs -> States] /\ Loop \in Procs
  BY DEF TypeOK, Procs
<1>n. None \notin refused'
  BY LoopType, StepType DEF TypeOK, Procs, None, OpStep, LoopStep
<1> USE <1>t, <1>n DEF Goto, Move, Polls, Shape, GoodToken, Banned, Clearing, States, tokenVars,
        historyVars
<1>1. CASE LoginCall(p)
  BY <1>1 DEF LoginCall, Start
<1>2. CASE RestoreToken(p)
  BY <1>2 DEF RestoreToken, Start
<1>3. CASE LoadToken(p)
  BY <1>3 DEF LoadToken, Start
<1>4. CASE LogoutCall(p)
  BY <1>4 DEF LogoutCall, Start
<1>5. CASE ReadUser(p)
  BY <1>5 DEF ReadUser
<1>6. CASE ReadLoggedIn(p)
  BY <1>6 DEF ReadLoggedIn
<1>7. CASE Verified(p)
  BY <1>7 DEF Verified, AfterLogin
<1>8. CASE NotVerified(p)
  BY <1>8 DEF NotVerified
<1>9. CASE ScanSucceeds(p)
  BY <1>9 DEF ScanSucceeds
<1>10. CASE ScanFails(p)
  BY <1>10 DEF ScanFails
<1>11. CASE DeleteStored(p)
  BY <1>11 DEF DeleteStored, Mends
<1>12. CASE ForgetContexts(p)
  BY <1>12 DEF ForgetContexts
<1>13. CASE MarkLoggedOut(p)
  BY <1>13 DEF MarkLoggedOut
<1>14. CASE DropUser(p)
  BY <1>14 DEF DropUser
<1>15. CASE DropToken(p)
  BY <1>15 DEF DropToken, Cleared
<1>16. CASE RememberToken(p)
  BY <1>16 DEF RememberToken
<1>17. CASE StoreUser(p)
  BY <1>17 DEF StoreUser
<1>18. CASE MarkLoggedIn(p)
  BY <1>18 DEF MarkLoggedIn
<1>19. CASE SetApiToken(p)
  BY <1>19 DEF SetApiToken
<1>20. CASE SaveToken(p)
  BY <1>20 DEF SaveToken, AfterLogin
<1>21. CASE ResetSession(p)
  BY <1>21 DEF ResetSession
<1>22. CASE PauseSession(p)
  BY <1>22 DEF PauseSession
<1>23. CASE p = Loop /\ RunCall /\ ~loggedIn
  BY <1>23 DEF RunCall, Start
<1>24. CASE p = Loop /\ LoopExpired
  BY <1>24 DEF LoopExpired, Start
<1>25. CASE p = Loop /\ PollExpired
  BY <1>25 DEF PollExpired, Start
<1> QED
  BY <1>1, <1>2, <1>3, <1>4, <1>5, <1>6, <1>7, <1>8, <1>9, <1>10, <1>11, <1>12,
     <1>13, <1>14, <1>15, <1>16, <1>17, <1>18, <1>19, <1>20, <1>21, <1>22, <1>23,
     <1>24, <1>25 DEF OpStep, Call,
     LoginStep, WriteStep

\* The last write of an operation that clears up behind others
LEMMA Mended ==
    ASSUME TypeOK, SessionAssumption, NEW p \in Procs, OpStep(p), Undone(p), RestOf(p),
           overlap # "none", overlap' = "none"
    PROVE  Shape(p)' /\ Polls'
<1>1. DropToken(p)
  BY DEF OpStep, Call, LoginStep, WriteStep, LoginCall, RestoreToken, LoadToken, LogoutCall,
         ReadUser, ReadLoggedIn, Verified, NotVerified, ScanSucceeds, ScanFails, DeleteStored,
         ForgetContexts, MarkLoggedOut, DropUser, RememberToken, StoreUser, MarkLoggedIn,
         SetApiToken, SaveToken, ResetSession, PauseSession, RunCall, LoopExpired, PollExpired,
         Goto, Start, Mends
<1>2. /\ pc[p] = "dropToken" /\ pc'[p] \in {"reset", "login", "scan"}
      /\ \A q \in Procs \ {p} : pc'[q] = pc[q]
      /\ pc[Loop] # "flight"
      /\ apiToken' = None
      /\ UNCHANGED <<keepsTokens, loggedIn, currentUser, store, contexts, crossed, refused, ended>>
  BY <1>1 DEF DropToken, Cleared, Move, TypeOK, historyVars, OpStep
<1>3. ~loggedIn /\ currentUser = None /\ Emptied /\ Forgotten
  BY <1>2 DEF Undone, Clearing
<1>4. None \notin Banned
  BY DEF TypeOK, Banned, None
<1>5. Shape(p)'
  BY <1>2, <1>3, <1>4 DEF Shape, Calm, Rest, Sound, StoreIsGood, Settled, Banned, Emptied, Forgotten
<1>6. Polls'
  <2>1. pc'[Loop] # "flight"
    BY <1>2 DEF Procs
  <2> QED
    BY <1>2, <1>4, <2>1 DEF Polls, Banned
<1> QED
  BY <1>5, <1>6

\* The shape of the goroutine that acted gives the shape of the others.
LEMMA ShapesStep ==
    ASSUME NEW p \in Procs, Acts(p), Shape(p)'
    PROVE  Shapes'
<1> SUFFICES ASSUME NEW q \in Procs, RestOf(q)' PROVE Shape(q)'
  BY DEF Shapes
<1>1. CASE q = p
  BY <1>1
<1>2. CASE q # p
  <2>1. pc'[p] \in Rest /\ pc'[q] \in Rest
    BY <1>2 DEF RestOf, Acts
  <2>2. Sound'
    BY <2>1 DEF Shape, Rest, Calm
  <2> QED
    BY <2>1, <2>2 DEF Shape, Rest, Calm
<1> QED
  BY <1>1, <1>2

LEMMA UndonesStep ==
    ASSUME NEW p \in Procs, Acts(p), Undone(p)'
    PROVE  Undones'
<1> SUFFICES ASSUME NEW q \in Procs, q # p PROVE Undone(q)'
  BY DEF Undones
<1> QED
  BY DEF Undone, Acts, RestOf, Rest, Clearing

\* A step of an operation
LEMMA OpInv ==
    ASSUME Inv, SessionAssumption, NEW p \in Procs, OpStep(p)
    PROVE  /\ overlap' # "some" => AlmostQuiet' /\ Undones'
           /\ overlap' = "none" => Shapes' /\ Polls'
<1> USE DEF Inv
<1> SUFFICES ASSUME overlap' # "some"
             PROVE  AlmostQuiet' /\ Undones' /\ (overlap' = "none" => Shapes' /\ Polls')
  OBVIOUS
<1>1. Acts(p)
  BY StepActs
<1>2. RestOf(p)
  BY <1>1 DEF Acts
<1>3. Undone(p)'
  BY <1>2, UndoneStep DEF Undones
<1>4. ASSUME overlap' = "none" PROVE Shape(p)' /\ Polls'
  <2>1. CASE overlap = "none"
    BY <1>2, <2>1, ShapeStep, PollsStep DEF Shapes, Undones
  <2>2. CASE overlap # "none"
    <3>1. overlap # "some"
      BY <1>4, <2>2 DEF OpStep, Call, LoginStep, WriteStep, LoginCall, RestoreToken, LoadToken,
         LogoutCall, ReadUser, ReadLoggedIn, Verified, NotVerified, ScanSucceeds, ScanFails,
         DeleteStored, ForgetContexts, MarkLoggedOut, DropUser, DropToken, Cleared,
         RememberToken, StoreUser, MarkLoggedIn, SetApiToken, SaveToken, ResetSession,
         PauseSession, RunCall, LoopExpired, PollExpired, Goto, Start, Mends
    <3> QED
      BY <1>2, <1>4, <2>2, <3>1, Mended DEF Undones
  <2> QED
    BY <2>1, <2>2
<1> QED
  BY <1>1, <1>3, <1>4, QuietStep, UndonesStep, ShapesStep

\* A step of Run in none: a poll leaves or is answered while others may be busy.
LEMMA LightInv ==
    ASSUME Inv, SessionAssumption, LightStep
    PROVE  /\ overlap' # "some" => AlmostQuiet' /\ Undones'
           /\ overlap' = "none" => Shapes' /\ Polls'
<1> USE DEF Inv
<1>1. /\ pc \in [Procs -> States] /\ Loop \in Procs /\ alive \subseteq 1..issued /\ issued \in Nat
  BY DEF TypeOK, Procs
<1>2. /\ overlap' = overlap
      /\ pc[Loop] \in Rest /\ pc'[Loop] \in Rest
      /\ \A q \in Procs \ {Loop} : pc'[q] = pc[q]
      /\ UNCHANGED <<keepsTokens, loggedIn, currentUser, apiToken, store, tok, cleared, refused, ended>>
  BY <1>1 DEF LightStep, RunCall, LoopPolls, PollSent, PollAnswered, PollFails, RunReturns,
              Start, Goto, Move, Rest, tokenVars, historyVars
<1>3. \/ contexts' = contexts /\ crossed' = crossed
      \/ crossed'
      \/ ~Busy(Loop) /\ sent = apiToken /\ sent # None
  <2>1. CASE PollAnswered
    <3>1. sent # None
      BY <1>1, <2>1 DEF PollAnswered, None
    <3>2. crossed' = (crossed \/ Busy(Loop) \/ sent # apiToken)
      BY <2>1 DEF PollAnswered
    <3> QED
      BY <3>1, <3>2
  <2>2. CASE ~PollAnswered
    BY <2>2 DEF LightStep, RunCall, LoopPolls, PollSent, PollFails, RunReturns, historyVars
  <2> QED
    BY <2>1, <2>2
<1>4. ASSUME NEW q \in Procs, q # Loop, pc[q] \notin Rest, Forgotten PROVE Forgotten'
  BY <1>3, <1>4 DEF Busy, Forgotten
<1>5. AlmostQuiet => AlmostQuiet'
  BY <1>2 DEF AlmostQuiet
<1>6. ASSUME Undones PROVE Undones'
  <2> SUFFICES ASSUME NEW q \in Procs, RestOf(q)' PROVE Undone(q)'
    BY DEF Undones
  <2>1. RestOf(q)
    BY <1>2 DEF RestOf
  <2>2. CASE pc'[q] \in Rest
    BY <2>2 DEF Undone, Rest, Clearing
  <2>3. CASE pc'[q] \notin Rest
    <3>1. q # Loop /\ pc[q] = pc'[q] /\ pc[q] \notin Rest
      BY <1>2, <2>3
    <3>2. Forgotten => Forgotten'
      BY <1>4, <3>1
    <3> QED
      BY <1>2, <1>6, <2>1, <3>1, <3>2 DEF Undones, Undone, Emptied, Clearing
  <2> QED
    BY <2>2, <2>3
<1>7. ASSUME Shapes PROVE Shapes'
  <2> SUFFICES ASSUME NEW q \in Procs, RestOf(q)' PROVE Shape(q)'
    BY DEF Shapes
  <2>1. RestOf(q) /\ Shape(q)
    BY <1>2, <1>7 DEF RestOf, Shapes
  <2>2. CASE pc'[q] \in Rest
    <3>1. pc[q] \in Rest
      BY <1>2, <2>2
    <3>2. Sound
      BY <2>1, <3>1 DEF Shape, Calm
    <3>3. Sound'
      <4>1. ASSUME ~loggedIn PROVE Forgotten'
        <5>1. Forgotten /\ apiToken = None
          BY <3>2, <4>1 DEF Sound
        <5> QED
          BY <1>3, <5>1 DEF Forgotten
      <4> QED
        BY <1>2, <3>2, <4>1 DEF Sound, StoreIsGood, Emptied, Settled, Banned
    <3> QED
      BY <2>2, <3>3 DEF Shape, Calm, Rest
  <2>3. CASE pc'[q] \notin Rest
    <3>1. q # Loop /\ pc[q] = pc'[q] /\ pc[q] \notin Rest
      BY <1>2, <2>3
    <3>2. Forgotten => Forgotten'
      BY <1>4, <3>1
    <3> QED
      BY <1>2, <2>1, <3>1, <3>2 DEF Shape, Sound, StoreIsGood, Emptied, Settled, Banned, GoodToken
  <2> QED
    BY <2>2, <2>3
<1>8. ASSUME Polls PROVE Polls'
  <2>1. pc[Loop] \notin Clearing /\ apiToken \notin refused
    BY <1>2, <1>8 DEF Rest, Clearing, Polls
  <2>2. pc'[Loop] = "flight" => sent' = apiToken
    BY <1>1 DEF LightStep, RunCall, LoopPolls, PollSent, PollAnswered, PollFails, RunReturns,
                Start, Goto, Move
  <2> QED
    BY <1>2, <2>1, <2>2 DEF Polls
<1> QED
  BY <1>2, <1>5, <1>6, <1>7, <1>8

\* What nobody's operation touches keeps every shape.
LEMMA ShapesKept ==
    ASSUME Inv,
           UNCHANGED <<keepsTokens, pc, tok, sent, tokenVars, contexts, cleared, refused,
                       ended, overlap, crossed>>
    PROVE  /\ overlap' # "some" => AlmostQuiet' /\ Undones'
           /\ overlap' = "none" => Shapes' /\ Polls'
<1>1. /\ AlmostQuiet' = AlmostQuiet /\ Undones' = Undones /\ Polls' = Polls
  BY DEF AlmostQuiet, Undones, Undone, Emptied, Forgotten, RestOf, Polls, tokenVars
<1>2. Shapes' = Shapes
  BY DEF Shapes, Shape, RestOf, Sound, StoreIsGood, Settled, Banned, Emptied, Forgotten, GoodToken,
         tokenVars
<1> QED
  BY <1>1, <1>2 DEF Inv

LEMMA Invariance == SessionAssumption => (Spec => []Inv)
<1> SUFFICES ASSUME SessionAssumption PROVE Spec => []Inv
  OBVIOUS
<1> DEFINE Rules == /\ overlap # "some" => AlmostQuiet /\ Undones
                    /\ overlap = "none" => Shapes /\ Polls
<1>1. Init => Rules
  <2> SUFFICES ASSUME Init PROVE AlmostQuiet /\ Undones /\ Shapes /\ Polls
    OBVIOUS
  <2>1. \A p \in Procs : pc[p] = "idle"
    BY DEF Init
  <2>2. Sound
    BY DEF Init, Sound, StoreIsGood, Settled, Banned, Forgotten, None
  <2>3. Polls
    BY <2>1 DEF Init, Polls, Procs
  <2> QED
    BY <2>1, <2>2, <2>3 DEF AlmostQuiet, Shapes, Shape, Undones, Undone, Rest, Calm, Clearing
<1>2. TypeOK /\ Rules /\ [Next]_vars => Rules'
  <2> SUFFICES ASSUME Inv, [Next]_vars PROVE Rules'
    BY DEF Inv
  <2>1. ASSUME NEW p \in Procs, OpStep(p) PROVE Rules'
    BY <2>1, OpInv
  <2>2. CASE LightStep
    BY <2>2, LightInv
  <2>k. UNCHANGED keepsTokens
    BY DEF Next, vars
  <2>3. ASSUME UNCHANGED <<keepsTokens, pc, tok, sent, tokenVars, contexts, cleared, refused, ended,
                       overlap, crossed>>
        PROVE  Rules'
    BY <2>3, ShapesKept
  <2> HIDE DEF Rules
  <2>4. CASE \E c \in Callers : Call(c)
    BY <2>k, <2>4, <2>1 DEF Procs, OpStep
  <2>5. CASE \E p \in Procs : LoginStep(p) \/ WriteStep(p)
    BY <2>k, <2>5, <2>1 DEF OpStep
  <2>6. CASE LoopStep
    BY <2>k, <2>6, <2>1, <2>2 DEF Procs, LoopStep, OpStep, LightStep
  <2>7. CASE PauseEnds
    BY <2>k, <2>7, <2>3 DEF PauseEnds, historyVars
  <2>8. CASE \E t \in alive : Revoke(t)
    BY <2>k, <2>8, <2>3 DEF Revoke, historyVars
  <2>9. CASE UNCHANGED vars
    BY <2>9, <2>3 DEF vars, historyVars
  <2> QED
    BY <2>4, <2>5, <2>6, <2>7, <2>8, <2>9 DEF Next
<1>3. Inv <=> TypeOK /\ Rules
  BY DEF Inv
<1> HIDE DEF Rules
<1> QED
  BY <1>1, <1>2, <1>3, TypeCorrect, PTL DEF Spec

\* When everybody rests, everything is in place.
LEMMA QuietIsSound ==
    ASSUME Inv, SessionAssumption, Quiet
    PROVE  Sound
<1>1. Loop \in Procs /\ pc[Loop] \in Rest /\ RestOf(Loop)
  BY DEF Procs, Quiet, RestOf
<1> QED
  BY <1>1 DEF Inv, Quiet, Shapes, Shape, Rest, Calm

\* Between operations the flag, the user and the token agree, for any number
\* of goroutines, unless operations have overlapped since the last clearToken
\* that did not.
THEOREM AgreementHolds == SessionAssumption => (Spec => []Agreement)
<1> SUFFICES ASSUME SessionAssumption PROVE Spec => []Agreement
  OBVIOUS
<1>1. Inv => Agreement
  BY QuietIsSound DEF Agreement, Sound, Settled
<1> QED
  BY <1>1, Invariance, PTL

\* A client that is not logged in keeps nothing of the session it had, but for
\* the context tokens of an answer that came late, and what is in the store of a
\* program that keeps its tokens itself.
THEOREM NothingIsLeft == SessionAssumption => (Spec => []LoggedOutIsForgotten)
<1> SUFFICES ASSUME SessionAssumption PROVE Spec => []LoggedOutIsForgotten
  OBVIOUS
<1>1. Inv => LoggedOutIsForgotten
  BY QuietIsSound DEF LoggedOutIsForgotten, Sound, Emptied, Forgotten
<1> QED
  BY <1>1, Invariance, PTL

\* A token that was there when Logout was called is not in use when it has
\* returned, nor stored, unless the program keeps its tokens itself.
THEOREM LogoutIsFinal == SessionAssumption => (Spec => []LoggedOutForGood)
<1> SUFFICES ASSUME SessionAssumption PROVE Spec => []LoggedOutForGood
  OBVIOUS
<1>1. Inv => LoggedOutForGood
  BY QuietIsSound DEF LoggedOutForGood, Sound, StoreIsGood, Banned
<1> QED
  BY <1>1, Invariance, PTL

\* Run never polls with a token the server has refused to it, whatever other
\* goroutines do while it polls, unless a program that keeps its tokens itself
\* has loaded that one again.
THEOREM RefusedIsNotAskedAgain == SessionAssumption => (Spec => []NeverAskAgain)
<1> SUFFICES ASSUME SessionAssumption PROVE Spec => []NeverAskAgain
  OBVIOUS
<1>1. Inv => NeverAskAgain
  BY DEF Inv, NeverAskAgain, Polls
<1> QED
  BY <1>1, Invariance, PTL
=============================================================================
