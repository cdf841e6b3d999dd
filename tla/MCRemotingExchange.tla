------------------------- MODULE MCRemotingExchange -------------------------
(***************************************************************************)
(* An instance of RemotingExchange.                                          *)
(***************************************************************************)
EXTENDS RemotingExchange

EveryKind == {"simple", "message", "flex", "unnamed", "ping", "command"}
=============================================================================
