---------------------------- MODULE MCAgentDiag ----------------------------
(***************************************************************************)
(* AgentDiag with three Pods and two workers: more jobs than workers and   *)
(* than the channel has room for.                                          *)
(***************************************************************************)
EXTENDS AgentDiag

CONSTANTS p1, p2, p3
=============================================================================
