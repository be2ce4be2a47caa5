------------------------- MODULE MCEventDispatcher --------------------------
(* Instance of EventDispatcher for TLC.                                    *)
EXTENDS EventDispatcher
=============================================================================
