---------------------------- MODULE MCSimulator ----------------------------
(* Inputs of a simulation for TLC.                                         *)
EXTENDS Simulator

FewGoods == 0 .. 3
Requests == BoundedSeq(0 .. 2, 2)
=============================================================================
