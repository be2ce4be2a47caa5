---------------------------- MODULE TokenRegister ----------------------------
(***************************************************************************)
(* What a token store promises for one account (TokenStore in              *)
(* src/login/store.go): a register whose operations take effect at once.   *)
(* A save or delete that fails says so.  Only a save that fails, or a crash,   *)
(* can leave the register damaged, and only the next save or delete        *)
(* repairs it.                                                             *)
(***************************************************************************)
CONSTANTS Procs,    \* goroutines
          Tokens,
          Absent,   \* no token
          Damaged   \* something that is no token

VARIABLES value,    \* what the register holds
          result    \* [Procs -> what the last operation of p returned]

vars == <<value, result>>

Init ==
    /\ value \in Tokens \cup {Absent}
    /\ result = [p \in Procs |-> "none"]

Return(p, r) == result' = [result EXCEPT ![p] = r]

Save(p, t) == value' = t /\ Return(p, "saved")

Delete(p) == value' = Absent /\ Return(p, "deleted")

Load(p) ==
    /\ Return(p, IF value = Damaged THEN "error" ELSE value)
    /\ UNCHANGED value

SaveFails(p) == value' \in {value, Damaged} /\ Return(p, "failed")

DeleteFails(p) == UNCHANGED value /\ Return(p, "failed")

\* The program starts again.
Crash ==
    /\ value' \in {value, Damaged}
    /\ result' = [p \in Procs |-> "none"]

Next ==
    \/ \E p \in Procs, t \in Tokens : Save(p, t)
    \/ \E p \in Procs : Delete(p) \/ Load(p) \/ SaveFails(p) \/ DeleteFails(p)
    \/ Crash

Spec == Init /\ [][Next]_vars
=============================================================================
