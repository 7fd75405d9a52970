---------------------------- MODULE KernelLock ----------------------------
(***************************************************************************)
(* What the big kernel lock promises (kern/spinlock.h): it has at most one *)
(* owner, is taken only when it has none, and is released by its owner.    *)
(* Module Smp implements it.                                               *)
(***************************************************************************)
CONSTANTS CPU, NULL

VARIABLE owner

Init == owner = NULL

lock_kernel(c)   == owner = NULL /\ owner' = c
unlock_kernel(c) == owner = c /\ owner' = NULL

Next == \E c \in CPU : lock_kernel(c) \/ unlock_kernel(c)

Spec == Init /\ [][Next]_owner
=============================================================================
