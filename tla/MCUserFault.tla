---------------------------- MODULE MCUserFault ----------------------------
(* The states in which nothing has spoilt the upcall: the properties of    *)
(* the run say nothing of the others.                                      *)
EXTENDS UserFault

NotSpoilt == spoilt = {}
=============================================================================
