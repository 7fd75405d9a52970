-------------------------------- MODULE Tlb --------------------------------
(***************************************************************************)
(* The translations that the processors of module Pmap cache while the     *)
(* programs run.  tlb_invalidate() reaches the TLB of the CPU it runs on,  *)
(* and every return to a program, env_run() and sched_halt() load cr3,     *)
(* which empties that TLB anyway; nothing reaches the TLB of another CPU.  *)
(***************************************************************************)
EXTENDS Pmap

VARIABLE tlb      \* translations each CPU has cached

(* The program on CPU c touches a page, and the MMU caches where it is.    *)
Access(c, va) ==
    /\ curenv[c] # NULL /\ (freeing # NULL => c # freeing.cpu)
    /\ LET pte == page_lookup(Mem, env_pgdir[curenv[c]], va) IN
       /\ pte # NULL
       /\ tlb' = [tlb EXCEPT ![c] = {t \in @ : t.va # va} \cup {[va |-> va, pg |-> pte.pg]}]
    /\ \A t \in tlb[c] : t.va # va
    /\ UNCHANGED vars

(* A handler of CPU c, or the rest of env_free() on it.                    *)
Lcr3(c) == tlb' = [tlb EXCEPT ![c] = {}]

TrapOn(c) ==
    /\ ret # "PANIC"
    /\ \/ freeing = NULL /\ UNCHANGED freeing /\ Handler(c)
       \/ freeing = NULL /\ \E e \in ENVS : sys_env_destroy(c, e)
       \/ freeing # NULL /\ freeing.cpu = c /\ env_free
    /\ spoilt' = (spoilt \/ Damaged')
    /\ Lcr3(c)

TlbSpec ==
    /\ Init /\ tlb = [c \in CPU |-> {}]
    /\ [][\E c \in CPU : TrapOn(c) \/ \E va \in VA : Access(c, va)]_<<vars, tlb>>

(* page_remove(): "The TLB must be invalidated if you remove an entry from *)
(* the page table."  A CPU uses only translations that the page tables of  *)
(* its environment hold.                                                   *)
TlbFresh ==
    \A c \in CPU : \A t \in tlb[c] :
       /\ curenv[c] # NULL
       /\ Mapping(Mem, env_pgdir, curenv[c], t.va) # NULL
       /\ Mapping(Mem, env_pgdir, curenv[c], t.va).pg = t.pg
=============================================================================
