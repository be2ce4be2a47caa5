---------------------------- MODULE MCMessageLoop ----------------------------
(* Instance of MessageLoop for TLC.                                        *)
EXTENDS MessageLoop
=============================================================================
