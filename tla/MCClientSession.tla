--------------------------- MODULE MCClientSession ---------------------------
(* Instance of ClientSession for TLC.                                      *)
EXTENDS ClientSession

\* The goal of a goroutine is not read between its operations, nor the cursor
\* outside Run, before they are set again.
LiveGoal == [p \in Procs |-> IF pc[p] \in {"idle", "loop"} THEN "run" ELSE goal[p]]
LiveCursor == IF pc[Loop] = "idle" THEN None ELSE cursor

\* What steps and the properties of the run depend on: not authToken and
\* reported, which no step reads.
View ==
    <<keepsTokens, loggedIn, currentUser, apiToken, store, contexts, paused, serverVars,
      pc, LiveGoal, tok, user, sent, LiveCursor, cleared, ended, refused, crossed, overlap>>
=============================================================================
