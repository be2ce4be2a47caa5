--------------------------- MODULE LoginFlowProofs ---------------------------
(***************************************************************************)
(* Theorems about a login and the file that keeps its token.  LoginFlow,   *)
(* for every limit of refreshes: the ration of codes, and that a login     *)
(* returns what the person did.  FileTokenStore, for any number of         *)
(* goroutines and tokens: it implements TokenRegister.                     *)
(***************************************************************************)
EXTENDS LoginFlow, FileTokenStore, TLAPS

\* The codes the flow has asked for are the first one and the refreshes.
Counted == pc # "get" /\ result # "error" => issued = refreshCount + 1

\* Until the first code there is none, and none is displayed before its turn.
Start ==
    /\ pc = "get" => issued = 0 /\ refreshCount = 0
    /\ pc \in {"get", "display"} => shown = NoCode

\* The login has a result exactly when it is done.
Returned == result # "none" <=> pc = "done"

\* An expired login has used up its refreshes.
UsedUp == result = "expired" => refreshCount = MaxRefreshCount

\* The flow only goes for another code when one is left.
Left == pc = "refresh" => refreshCount < MaxRefreshCount

\* The flow holds a code while it polls.
Holds == pc \in {"display", "wait", "asking", "answered", "refresh"} => qrCode # NoCode

\* Only a code on display has been touched by a person.
Touched ==
    \A k \in Codes : scan[k] \in {"scaned", "confirmed", "canceled"} => k = shown

\* A final answer is still the status of the code.
FinalAnswer ==
    pc = "answered" /\ answer \in {"confirmed", "canceled"} => scan[qrCode] = answer

\* A login that succeeded or was cancelled agrees with the code it holds.
Outcome ==
    /\ result = "loggedIn" => qrCode # NoCode /\ scan[qrCode] = "confirmed"
    /\ result = "canceled" => qrCode # NoCode /\ scan[qrCode] = "canceled"

\* An error keeps the count within the limit.
Bounded == issued <= refreshCount + 1

Inv == TypeOK /\ Counted /\ Start /\ Returned /\ UsedUp /\ Left /\ Holds /\ Touched
       /\ FinalAnswer /\ Outcome /\ Bounded

FlowPart == Counted /\ Start /\ Returned /\ UsedUp /\ Left /\ Holds /\ Bounded
ScanPart == Touched /\ FinalAnswer /\ Outcome

-----------------------------------------------------------------------------
LEMMA InitInv == Init => Inv
<1> SUFFICES ASSUME Init PROVE Inv
  OBVIOUS
<1> USE LoginAssumption DEF Init, NoCode, Codes
<1>1. TypeOK
  <2>1. scan \in [Codes -> Statuses]
    BY DEF Statuses
  <2>2. 0 \in 0..0 /\ 0 \in 0..MaxRefreshCount /\ 0 \in 0..MaxCodes
    OBVIOUS
  <2> QED
    BY <2>1, <2>2 DEF TypeOK
<1>2. Counted /\ Start /\ Returned /\ UsedUp /\ Left /\ Holds /\ Bounded
  BY DEF Counted, Start, Returned, UsedUp, Left, Holds, Bounded
<1>3. Touched /\ FinalAnswer /\ Outcome
  BY DEF Touched, FinalAnswer, Outcome
<1> QED
  BY <1>1, <1>2, <1>3 DEF Inv

\* The variables keep their types.
LEMMA StepType == Inv /\ [Next]_vars => TypeOK'
<1> SUFFICES ASSUME Inv, [Next]_vars PROVE TypeOK'
  OBVIOUS
<1> USE LoginAssumption DEF Inv, TypeOK, Statuses, Codes, NoCode, Goto, Return
<1>1. CASE FirstCode
  <2>1. issued' = issued + 1 /\ issued' \in 0..MaxCodes /\ qrCode' \in 0..issued'
    BY <1>1 DEF FirstCode, NewCode
  <2>2. shown' \in 0..issued'
    BY <1>1, <2>1 DEF FirstCode
  <2> QED
    BY <1>1, <2>1, <2>2 DEF FirstCode, NewCode
<1>2. CASE Display
  BY <1>2 DEF Display, worldVars
<1>3. CASE Ask
  BY <1>3 DEF Ask, worldVars
<1>4. CASE Answer
  BY <1>4 DEF Answer, worldVars, Holds
<1>5. CASE KeepPolling
  BY <1>5 DEF KeepPolling, worldVars
<1>6. CASE Confirmed \/ GiveUp \/ Canceled
  BY <1>6 DEF Confirmed, GiveUp, Canceled, worldVars
<1>7. CASE Replace
  BY <1>7 DEF Replace, worldVars
<1>8. CASE Refresh
  <2>1. issued' = issued + 1 /\ issued' \in 0..MaxCodes /\ qrCode' \in 0..issued'
    BY <1>8 DEF Refresh, NewCode
  <2>2. shown' \in 0..issued'
    BY <1>8, <2>1 DEF Refresh
  <2>3. refreshCount' \in 0..MaxRefreshCount
    BY <1>8 DEF Refresh, NextCount, Left
  <2> QED
    BY <1>8, <2>1, <2>2, <2>3 DEF Refresh, NewCode
<1>9. CASE Fails \/ TimesOut \/ Interrupted
  BY <1>9 DEF Fails, TimesOut, Interrupted, worldVars
<1>10. CASE Ages
  BY <1>10 DEF Ages, worldVars
<1>11. CASE World
  BY <1>11 DEF World, PersonScans, PersonConfirms, PersonCancels, ServerExpires, Moves,
               flowVars
<1>12. CASE UNCHANGED vars
  BY <1>12 DEF vars, flowVars, worldVars
<1> QED
  BY <1>1, <1>2, <1>3, <1>4, <1>5, <1>6, <1>7, <1>8, <1>9, <1>10, <1>11, <1>12
  DEF Next, Flow

\* The count of refreshes follows the codes.
LEMMA StepFlow == Inv /\ [Next]_vars => FlowPart'
<1> SUFFICES ASSUME Inv, [Next]_vars PROVE FlowPart'
  OBVIOUS
<1> USE LoginAssumption
    DEF Inv, TypeOK, FlowPart, Counted, Start, Returned, UsedUp, Left, Holds, Bounded,
        NoCode, Goto, Return
<1>1. CASE FirstCode
  BY <1>1 DEF FirstCode, NewCode
<1>2. CASE Display \/ Ask \/ Answer \/ KeepPolling
  BY <1>2 DEF Display, Ask, Answer, KeepPolling, worldVars
<1>3. CASE Confirmed \/ Canceled
  BY <1>3 DEF Confirmed, Canceled, worldVars
<1>4. CASE GiveUp
  BY <1>4 DEF GiveUp, Exhausted, worldVars
<1>5. CASE Replace
  BY <1>5 DEF Replace, Exhausted, worldVars
<1>6. CASE Refresh
  BY <1>6 DEF Refresh, NewCode, NextCount
<1>7. CASE Fails \/ TimesOut \/ Interrupted
  BY <1>7 DEF Fails, TimesOut, Interrupted, worldVars
<1>8. CASE Ages
  BY <1>8 DEF Ages, worldVars
<1>9. CASE World
  BY <1>9 DEF World, PersonScans, PersonConfirms, PersonCancels, ServerExpires, Moves,
              flowVars
<1>10. CASE UNCHANGED vars
  BY <1>10 DEF vars, flowVars, worldVars
<1> QED
  BY <1>1, <1>2, <1>3, <1>4, <1>5, <1>6, <1>7, <1>8, <1>9, <1>10 DEF Next, Flow

\* Statuses only move forward, and the flow knows the final ones.
LEMMA StepScan == Inv /\ [Next]_vars => ScanPart'
<1> SUFFICES ASSUME Inv, [Next]_vars PROVE ScanPart'
  OBVIOUS
<1> USE LoginAssumption
    DEF Inv, TypeOK, Statuses, Codes, ScanPart, Touched, FinalAnswer, Outcome, NoCode,
        Goto, Return, Returned, Holds
<1>1. CASE FirstCode \/ Refresh
  BY <1>1 DEF FirstCode, Refresh, NewCode
<1>2. CASE Display
  BY <1>2 DEF Display, worldVars, Start
<1>3. CASE Ask \/ Answer \/ KeepPolling \/ Replace
  BY <1>3 DEF Ask, Answer, KeepPolling, Replace, worldVars
<1>4. CASE Confirmed
  BY <1>4 DEF Confirmed, Completing, worldVars
<1>5. CASE GiveUp \/ Canceled
  BY <1>5 DEF GiveUp, Canceled, worldVars
<1>6. CASE Fails \/ TimesOut \/ Interrupted
  BY <1>6 DEF Fails, TimesOut, Interrupted, worldVars
<1>7. CASE Ages
  BY <1>7 DEF Ages, worldVars
<1>8. CASE World
  <2>1. PICK k \in 1..MaxCodes :
             \/ k = shown /\ (Moves(k, {"wait"}, "scaned")
                   \/ Moves(k, {"scaned"}, "confirmed") \/ Moves(k, {"scaned"}, "canceled"))
             \/ Moves(k, {"wait", "scaned"}, "expired")
    BY <1>8 DEF World, PersonScans, PersonConfirms, PersonCancels, ServerExpires, Moves
  <2> QED
    BY <2>1 DEF Moves, flowVars
<1>9. CASE UNCHANGED vars
  BY <1>9 DEF vars, flowVars, worldVars
<1> QED
  BY <1>1, <1>2, <1>3, <1>4, <1>5, <1>6, <1>7, <1>8, <1>9 DEF Next, Flow

LEMMA Invariance == Spec => []Inv
<1>1. Inv /\ [Next]_vars => Inv'
  BY StepType, StepFlow, StepScan DEF Inv, FlowPart, ScanPart
<1> QED
  BY InitInv, <1>1, PTL DEF Spec

-----------------------------------------------------------------------------
\* The variables keep their types, and the limit of refreshes is kept, for
\* every limit.
THEOREM TypeCorrect == Spec => []TypeOK
<1>1. Inv => TypeOK
  BY DEF Inv
<1> QED
  BY Invariance, <1>1, PTL

\* A login asks for at most MaxRefreshCount + 1 codes and gives up only after
\* the last one.
THEOREM Rationed == Spec => []CodesAreRationed
<1>1. Inv => CodesAreRationed
  BY LoginAssumption
  DEF Inv, TypeOK, CodesAreRationed, Counted, Start, Returned, UsedUp, Bounded
<1> QED
  BY Invariance, <1>1, PTL

\* A login succeeds or is cancelled only as the person did on their phone.
THEOREM Earned == Spec => []OutcomeIsEarned
<1>1. Inv => OutcomeIsEarned
  BY LoginAssumption DEF Inv, TypeOK, OutcomeIsEarned, Outcome, Touched, Codes, NoCode
<1> QED
  BY Invariance, <1>1, PTL

-----------------------------------------------------------------------------
(* FileTokenStore                                                          *)

StoreInv == StoreTypeOK /\ OneWriter

\* The types and the one writer, together.
LEMMA StoreInvariant == StoreSpec => []StoreInv
<1> USE StoreAssumption DEF StoreInv, StoreTypeOK, OneWriter, Unlocked, Returns
<1>1. StoreInit => StoreInv
  BY DEF StoreInit
<1>2. StoreInv /\ [StoreNext]_storeVars => StoreInv'
  <2> SUFFICES ASSUME StoreInv, [StoreNext]_storeVars PROVE StoreInv'
    OBVIOUS
  <2>1. ASSUME NEW p \in Procs, NEW t \in Tokens, Truncate(p, t) PROVE StoreInv'
    BY <2>1 DEF Truncate
  <2>2. ASSUME NEW p \in Procs, Load(p) PROVE StoreInv'
    BY <2>2 DEF Load
  <2>3. ASSUME NEW p \in Procs, Delete(p) PROVE StoreInv'
    BY <2>3 DEF Delete
  <2>4. ASSUME NEW p \in Procs, StoreFails(p) PROVE StoreInv'
    BY <2>4 DEF StoreFails
  <2>5. ASSUME NEW p \in Procs, Write(p) PROVE StoreInv'
    BY <2>5 DEF Write
  <2>6. ASSUME NEW p \in Procs, WriteFails(p) PROVE StoreInv'
    BY <2>6 DEF WriteFails
  <2>7. CASE Crash
    BY <2>7 DEF Crash
  <2>8. CASE UNCHANGED storeVars
    BY <2>8 DEF storeVars
  <2> QED
    BY <2>1, <2>2, <2>3, <2>4, <2>5, <2>6, <2>7, <2>8 DEF StoreNext
<1> QED
  BY <1>1, <1>2, PTL DEF StoreSpec

\* The variables keep their types.
THEOREM StoreTypeCorrect == StoreSpec => []StoreTypeOK
BY StoreInvariant, PTL DEF StoreInv

\* One goroutine at most saves, and nobody else sees the file meanwhile.
THEOREM OneWriterHolds == StoreSpec => []OneWriter
BY StoreInvariant, PTL DEF StoreInv

\* A store implements the register: a step of Save that truncates the file is none
\* of the register, the write is its Save.
THEOREM StoreIsRegister == StoreSpec => IsRegister
<1> USE StoreAssumption DEF Returns, Register!Return
<1>1. StoreInit => Register!Init
  BY DEF StoreInit, Register!Init
<1>2. StoreInv /\ [StoreNext]_storeVars => [Register!Next]_Register!vars
  <2> SUFFICES ASSUME StoreInv, [StoreNext]_storeVars PROVE [Register!Next]_Register!vars
    OBVIOUS
  <2> USE DEF Register!Next, Register!vars
  <2>0. Unlocked => before = file
    BY DEF StoreInv, OneWriter
  <2>1. ASSUME NEW p \in Procs, NEW t \in Tokens, Truncate(p, t)
        PROVE  UNCHANGED Register!vars
    BY <2>1, <2>0 DEF Truncate
  <2>2. ASSUME NEW p \in Procs, Load(p) PROVE Register!Load(p)
    BY <2>2, <2>0 DEF Load, Register!Load
  <2>3. ASSUME NEW p \in Procs, Delete(p) PROVE Register!Delete(p)
    BY <2>3 DEF Delete, Register!Delete
  <2>4. ASSUME NEW p \in Procs, StoreFails(p) PROVE Register!DeleteFails(p)
    BY <2>4 DEF StoreFails, Register!DeleteFails
  <2>5. ASSUME NEW p \in Procs, Write(p) PROVE \E t \in Tokens : Register!Save(p, t)
    BY <2>5 DEF Write, Register!Save, StoreInv, StoreTypeOK
  <2>6. ASSUME NEW p \in Procs, WriteFails(p) PROVE Register!SaveFails(p)
    BY <2>6 DEF WriteFails, Register!SaveFails
  <2>7. CASE Crash
    <3>1. file \in {before, Damaged}
      BY DEF StoreInv, OneWriter
    <3> QED
      BY <2>7, <3>1 DEF Crash, Register!Crash
  <2>8. CASE UNCHANGED storeVars
    BY <2>8 DEF storeVars
  <2> QED
    BY <2>1, <2>2, <2>3, <2>4, <2>5, <2>6, <2>7, <2>8 DEF StoreNext
<1> QED
  BY <1>1, <1>2, StoreInvariant, PTL DEF StoreSpec, IsRegister, Register!Spec
=============================================================================
