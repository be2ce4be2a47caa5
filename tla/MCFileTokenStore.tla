--------------------------- MODULE MCFileTokenStore ---------------------------
(* Instance of FileTokenStore for TLC.                                     *)
EXTENDS FileTokenStore
=============================================================================
