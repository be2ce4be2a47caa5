---------------------------- MODULE MCMediaTransfer ----------------------------
(* Instances of MediaTransfer for TLC.                                      *)
EXTENDS MediaTransfer, TLC

Symmetry == Permutations(Uploads)
=============================================================================
