---------------------------- MODULE MCLogoutPlugin ----------------------------
(* Instance of LogoutPlugin for TLC: the plugins of the example, and a second *)
(* LogoutPlugin.                                                              *)
EXTENDS LogoutPlugin

CONSTANTS own, command, reply, logout, logout2

MCPlugins == {own, command, reply, logout, logout2}
MCName == [p \in MCPlugins |-> IF p = logout2 THEN logout ELSE p]
MCKind == [p \in MCPlugins |-> CASE p = command -> "command"
                                 [] p = reply   -> "reply"
                                 [] p = own     -> "other"
                                 [] OTHER       -> "logout"]
MCConfigured == {<<own>>, <<command, reply, logout>>}
=============================================================================
