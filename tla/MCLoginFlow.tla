----------------------------- MODULE MCLoginFlow -----------------------------
(* Instance of LoginFlow for TLC.                                          *)
EXTENDS LoginFlow
=============================================================================
