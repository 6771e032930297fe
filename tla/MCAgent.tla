------------------------------- MODULE MCAgent -------------------------------
(***************************************************************************)
(* AgentLink with two commands at a time: one holds the reader up, and the *)
(* order to restart waits behind it.                                       *)
(***************************************************************************)
EXTENDS AgentLink
=============================================================================
