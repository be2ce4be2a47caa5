--------------------------- MODULE MCMessageService ---------------------------
(* Instance of MessageService for TLC.                                       *)
EXTENDS MessageService

\* An operation that has failed, or returned, sends nothing any more: what it
\* carried is not read before it is set again, and what was served to one that
\* has failed is not either.
Over(p) == doing[p] \in {"failed", "returned", "run"}
LiveCarried == [p \in Procs |-> IF Over(p) THEN NoSession ELSE carried[p]]
LiveMoved == [p \in Procs |-> moved[p] /\ ~Over(p)]
LiveServed == [p \in Procs |-> IF err[p] # NoError THEN {} ELSE served[p]]

View ==
    <<sessionVars, op, stage, doing, err, LiveCarried, LiveServed, LiveMoved, slipped>>
=============================================================================
