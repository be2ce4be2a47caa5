------------------------- MODULE MCClientLifecycle --------------------------
(* Instance of ClientLifecycle for TLC.                                    *)
EXTENDS ClientLifecycle
=============================================================================
