---------------------------- MODULE MCPollBackoff ----------------------------
(* Instance of PollBackoff for TLC.                                        *)
EXTENDS PollBackoff
=============================================================================
