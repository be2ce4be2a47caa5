---------------------------- MODULE FileTokenStore ----------------------------
(***************************************************************************)
(* The token file of one account (FileTokenStore in src/login/store.go).   *)
(* Save truncates the file and then writes it; in between it holds no      *)
(* token, and a write that fails or a crash leaves it so.  The store is    *)
(* under a sync.RWMutex, which a crash frees; one store object writes the  *)
(* file, which can be read when it exists.  It implements TokenRegister.   *)
(***************************************************************************)
CONSTANTS Procs, Tokens, Absent, Damaged   \* see TokenRegister

ASSUME StoreAssumption == Absent \notin Tokens /\ Damaged \notin Tokens /\ Absent # Damaged

VARIABLES
    file,      \* what a reader of the file would find
    writing,   \* [Procs -> the token p is writing, or Absent]
    results,    \* [Procs -> what the last operation of p returned]
    before,    \* history: what the file held before the save in progress
    saved      \* history: a token was saved and has not been deleted since

storeVars == <<file, writing, results, before, saved>>

StoreInit ==
    /\ file \in Tokens \cup {Absent}
    /\ writing = [p \in Procs |-> Absent]
    /\ results = [p \in Procs |-> "none"]
    /\ before = file
    /\ saved = FALSE

\* Nobody writes.  Readers take the lock and give it back within one step.
Unlocked == \A p \in Procs : writing[p] = Absent

Returns(p, r) == results' = [results EXCEPT ![p] = r]

\* A reader does not take the lock.
LoadUnlocked(p) ==
    /\ writing[p] = Absent
    /\ Returns(p, IF file = Damaged THEN "error" ELSE file)
    /\ UNCHANGED <<file, writing, before, saved>>

Load(p) ==
    /\ Unlocked
    /\ Returns(p, IF file = Damaged THEN "error" ELSE file)
    /\ UNCHANGED <<file, writing, before, saved>>

Delete(p) ==
    /\ Unlocked
    /\ file' = Absent /\ before' = Absent
    /\ saved' = FALSE
    /\ Returns(p, "deleted")
    /\ UNCHANGED writing

\* The file cannot be removed, or opened for writing: it stays as it is.
StoreFails(p) ==
    /\ Unlocked
    /\ Returns(p, "failed")
    /\ UNCHANGED <<file, writing, before, saved>>

\* Save locks the store and opens the file, which truncates it.
Truncate(p, t) ==
    /\ Unlocked
    /\ writing' = [writing EXCEPT ![p] = t]
    /\ before' = file /\ file' = Damaged
    /\ UNCHANGED <<results, saved>>

Write(p) ==
    /\ writing[p] # Absent
    /\ file' = writing[p] /\ before' = file'
    /\ writing' = [writing EXCEPT ![p] = Absent]
    /\ saved' = TRUE
    /\ Returns(p, "saved")

WriteFails(p) ==
    /\ writing[p] # Absent
    /\ file' = Damaged /\ before' = file'
    /\ writing' = [writing EXCEPT ![p] = Absent]
    /\ Returns(p, "failed")
    /\ UNCHANGED saved

\* The process ends, and another one opens the store.
Crash ==
    /\ writing' = [p \in Procs |-> Absent]
    /\ results' = [p \in Procs |-> "none"]
    /\ before' = file
    /\ UNCHANGED <<file, saved>>

StoreNext ==
    \/ \E p \in Procs, t \in Tokens : Truncate(p, t)
    \/ \E p \in Procs : Load(p) \/ Delete(p) \/ StoreFails(p) \/ Write(p) \/ WriteFails(p)
    \/ Crash

StoreSpec == StoreInit /\ [][StoreNext]_storeVars

-----------------------------------------------------------------------------
(* Properties                                                              *)

\* The variables keep their types.
StoreTypeOK ==
    /\ file \in Tokens \cup {Absent, Damaged} /\ before \in Tokens \cup {Absent, Damaged}
    /\ writing \in [Procs -> Tokens \cup {Absent}]
    /\ results \in [Procs -> Tokens \cup {Absent, "none", "saved", "deleted", "error",
                                        "failed"}]
    /\ saved \in BOOLEAN

\* One goroutine at most is in a save, and a file that nobody saves is as the last
\* operation left it.
OneWriter ==
    /\ \A p, q \in Procs : writing[p] # Absent /\ writing[q] # Absent => p = q
    /\ file = IF Unlocked THEN before ELSE Damaged

\* A save in progress has not happened yet.
Register == INSTANCE TokenRegister WITH value <- before, result <- results

\* Goroutines that share a store see a register: no load returns half a token or
\* an error because of a save in progress.
IsRegister == Register!Spec

\* Once a token is saved the store has one, the old or the new, until it is
\* deleted: a save that fails or is cut short by a crash does not lose it.
SavedTokenSurvives == saved /\ Unlocked => file \in Tokens
=============================================================================
