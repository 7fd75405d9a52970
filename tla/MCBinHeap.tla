----------------------------- MODULE MCBinHeap -----------------------------
(* Keys and increments for TLC, the symmetry of memory, and the states on  *)
(* which the next option depends (nothing reads the last one).             *)
EXTENDS BinHeap

Keys == -1 .. 2
Increments == {-1, 2}

NodeSymmetry == Permutations(Node)

Memory == <<root, node>>
=============================================================================
