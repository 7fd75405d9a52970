------------------------------ MODULE MCPmap ------------------------------
EXTENDS Pmap

(* Pages and processors are interchangeable: page_init() may put the pages *)
(* on the list in any order.                                               *)
Symmetry == Permutations(PAGE) \cup Permutations(CPU)

ReadOrWrite == {{"P", "U"}, {"P", "U", "W"}}
WithIllegal == ReadOrWrite \cup {{"P", "U", "PWT"}, {"P", "U", "SIGN"}}
=============================================================================
