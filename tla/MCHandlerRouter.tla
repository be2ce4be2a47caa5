---------------------------- MODULE MCHandlerRouter ----------------------------
(* Instance of HandlerRouter for TLC.                                       *)
EXTENDS HandlerRouter, TLC

Symmetry == Permutations(ItemKinds) \cup Permutations(Handlers)
=============================================================================
