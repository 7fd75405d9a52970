------------------------------- MODULE Fork -------------------------------
(***************************************************************************)
(* Copy-on-write fork in user space (JOS lib/fork.c, lib/pgfault.c): the   *)
(* loop over the address space, the two mappings of duppage(), and the     *)
(* page fault handler, as the system calls and memory accesses they make,  *)
(* interleaved with those of every other environment.                      *)
(*                                                                         *)
(* The calls into the kernel are those of module Pmap.  The pages of page  *)
(* tables are not counted: where a table is missing it may or may not be   *)
(* had.  A program is single-threaded: while it is in fork() it     *)
(* writes only its stack, which every function call does.                  *)
(***************************************************************************)
EXTENDS Naturals

CONSTANTS
    ENVS,      \* the environments there ever are: no identifier is used twice
    FIRST,     \* the environment that runs at first
    NPAGES,    \* physical pages
    NDATA,     \* writable pages of data
    Value,     \* contents of a page, with 0
    NULL

PAGE == 1 .. NPAGES

(* Mappings: the page, whether it is writable, whether it is copy-on-write *)
PTE == [pg : PAGE, w : BOOLEAN, cow : BOOLEAN]

ASSUME ForkAssumption ==
    /\ FIRST \in ENVS /\ NPAGES \in Nat /\ NDATA \in Nat \ {0} /\ 0 \in Value
    /\ NULL \notin ENVS \cup Value \cup PTE

(* Virtual pages in the order fork() visits them; UXSTACK it skips.        *)
PFTEMP  == 0
DATA    == 1 .. NDATA
STACK   == NDATA + 1
UXSTACK == NDATA + 2
VA      == PFTEMP .. UXSTACK
WVA     == DATA \cup {STACK}     \* what a program writes

VARIABLES
    pte,      \* uvpt of each environment: NULL or [pg, w, cow]
    mem,      \* contents of the physical pages
    pc,       \* where each environment is in fork()
    newenv,   \* its local variables there: new_env, va and flag
    at, flag,
    handler,  \* where it is in pgfault(), "none" outside
    addr      \* the address that faulted

forkvars == <<pc, newenv, at, flag>>
vars == <<pte, mem, forkvars, handler, addr>>

Entry(pg, w, cow) == [pg |-> pg, w |-> w, cow |-> cow]
Unmapped == [va \in VA |-> NULL]

References(pg) == {x \in ENVS \X VA : pte[x[1]][x[2]] # NULL /\ pte[x[1]][x[2]].pg = pg}
FreePages == {pg \in PAGE : References(pg) = {}}

(* UTEMP, the program and the stacks lie in page tables of their own.      *)
Region(va) == CASE va = PFTEMP -> {PFTEMP} [] va \in DATA -> DATA [] OTHER -> {STACK, UXSTACK}
NoTable(e, va) == \A wa \in Region(va) : pte[e][wa] = NULL

Init ==
    /\ NPAGES >= NDATA + 2
    /\ pte = [e \in ENVS |-> IF e = FIRST THEN [va \in VA |-> IF va = PFTEMP THEN NULL ELSE Entry(va, TRUE, FALSE)]
                                          ELSE Unmapped]
    /\ mem = [pg \in PAGE |-> 0]
    /\ pc = [e \in ENVS |-> IF e = FIRST THEN "run" ELSE "new"]
    /\ newenv = [e \in ENVS |-> NULL]
    /\ at = [e \in ENVS |-> 0]
    /\ flag = [e \in ENVS |-> FALSE]
    /\ handler = [e \in ENVS |-> "none"]
    /\ addr = [e \in ENVS |-> STACK]

InFork == {"loop", "map1", "map2", "uxstack", "status"}
Executing(e) == pc[e] \in InFork \cup {"run"}
User(e) == Executing(e) /\ handler[e] = "none"     \* not in pgfault()

-----------------------------------------------------------------------------
(* System calls.                                                           *)

(* panic() in the library: the environment does nothing more.              *)
Panic(e) ==
    /\ pc' = [pc EXCEPT ![e] = "panic"]
    /\ handler' = [handler EXCEPT ![e] = "none"]

(* sys_page_alloc() of va in f; the page may not come from the mapping it  *)
(* replaces.  Which of the free pages is first in the list plays no part.  *)
sys_page_alloc(f, va) ==
    LET pg == CHOOSE p \in FreePages : TRUE IN
    /\ FreePages # {}
    /\ pte' = [pte EXCEPT ![f][va] = Entry(pg, TRUE, FALSE)]
    /\ mem' = [mem EXCEPT ![pg] = 0]

sys_page_map(s, d, va, entry) == pte' = [pte EXCEPT ![d][va] = entry]

-----------------------------------------------------------------------------
(* Page faults: pgfault().                                                 *)

(* An instruction of e writes v at va, or faults.                          *)
PageFault(e, va) ==
    IF pte[e][va].cow
    THEN /\ handler' = [handler EXCEPT ![e] = "alloc"]
         /\ addr' = [addr EXCEPT ![e] = va]
         /\ UNCHANGED <<pte, mem, forkvars>>
    ELSE Panic(e) /\ UNCHANGED <<pte, mem, newenv, at, flag, addr>>

Write(e, va, v) ==
    /\ User(e)
    /\ va \in IF pc[e] = "run" THEN WVA ELSE {STACK}
    /\ IF pte[e][va].w
       THEN mem' = [mem EXCEPT ![pte[e][va].pg] = v] /\ UNCHANGED <<pte, forkvars, handler, addr>>
       ELSE PageFault(e, va)

HandlerStep(e, from, to) ==
    handler[e] = from /\ handler' = [handler EXCEPT ![e] = to]

(* Mutant (CopyPrivate): keeps the page that PFTEMP has from last time.    *)
Mut_AllocOnce(e) ==
    /\ HandlerStep(e, "alloc", "copy")
    /\ IF pte[e][PFTEMP] = NULL THEN sys_page_alloc(e, PFTEMP) ELSE UNCHANGED <<pte, mem>>
    /\ UNCHANGED <<forkvars, addr>>

HandlerAlloc(e) ==
    \/ /\ HandlerStep(e, "alloc", "copy")
       /\ sys_page_alloc(e, PFTEMP)
       /\ UNCHANGED <<forkvars, addr>>
    \/ /\ handler[e] = "alloc"
       /\ FreePages = {} \/ NoTable(e, PFTEMP)
       /\ Panic(e)
       /\ UNCHANGED <<pte, mem, newenv, at, flag, addr>>

HandlerCopy(e) ==
    /\ HandlerStep(e, "copy", "map")
    /\ mem' = [mem EXCEPT ![pte[e][PFTEMP].pg] = mem[pte[e][addr[e]].pg]]
    /\ UNCHANGED <<pte, forkvars, addr>>

(* PFTEMP stays mapped.                                                    *)
HandlerMap(e) ==
    /\ HandlerStep(e, "map", "none")
    /\ sys_page_map(e, e, addr[e], Entry(pte[e][PFTEMP].pg, TRUE, FALSE))
    /\ addr' = [addr EXCEPT ![e] = STACK]
    /\ UNCHANGED <<mem, forkvars>>

pgfault(e) == HandlerAlloc(e) \/ HandlerCopy(e) \/ HandlerMap(e)

-----------------------------------------------------------------------------
(* fork().                                                                 *)

sys_exofork(e) ==
    /\ User(e) /\ pc[e] = "run"
    /\ \E child \in ENVS :
        /\ pc[child] = "new"
        /\ pc' = [pc EXCEPT ![e] = "loop", ![child] = "embryo"]
        /\ newenv' = [newenv EXCEPT ![e] = child]
    /\ UNCHANGED <<pte, mem, at, flag, handler, addr>>

NextPage(e) ==
    at' = [at EXCEPT ![e] = @ + 1] /\ UNCHANGED <<pte, mem, pc, newenv, flag, handler, addr>>

LeaveLoop(e) ==
    pc' = [pc EXCEPT ![e] = "uxstack"] /\ UNCHANGED <<pte, mem, newenv, at, flag, handler, addr>>

(* duppage() reads the permissions of the page.                            *)
ReadFlag(e) ==
    /\ flag' = [flag EXCEPT ![e] = pte[e][at[e]].w]
    /\ pc' = [pc EXCEPT ![e] = "map1"]
    /\ UNCHANGED <<pte, mem, newenv, at, handler, addr>>

(* The loop of fork(), and the call of duppage(), which writes the stack   *)
(* and so may fault before duppage() reads the permissions.                *)
Loop(e) ==
    /\ User(e) /\ pc[e] = "loop"
    /\ IF at[e] = UXSTACK THEN LeaveLoop(e)
       ELSE IF pte[e][at[e]] = NULL THEN NextPage(e)
       ELSE IF ~pte[e][STACK].w THEN PageFault(e, STACK)
       ELSE ReadFlag(e)

(* duppage()'s first call: the child gets the page.  It is copy-on-write   *)
(* only if it was writable: duppage() tests its own new permissions, not   *)
(* the old ones, for PTE_COW.                                              *)
Map1(e) ==
    /\ User(e) /\ pc[e] = "map1"
    /\ sys_page_map(e, newenv[e], at[e], Entry(pte[e][at[e]].pg, FALSE, flag[e]))
    /\ IF flag[e] THEN pc' = [pc EXCEPT ![e] = "map2"] /\ UNCHANGED at
                  ELSE pc' = [pc EXCEPT ![e] = "loop"] /\ at' = [at EXCEPT ![e] = @ + 1]
    /\ UNCHANGED <<mem, newenv, flag, handler, addr>>

(* It panics when the child gets no page table: the child keeps what it    *)
(* has and never runs.                                                     *)
Map1Fails(e) ==
    /\ User(e) /\ pc[e] = "map1" /\ NoTable(newenv[e], at[e])
    /\ Panic(e)
    /\ UNCHANGED <<pte, mem, newenv, at, flag, addr>>

(* Mutant (ImplementsPrivate): leaves the parent's own mapping writable.   *)
Mut_ParentWritable(e) ==
    /\ User(e) /\ pc[e] = "map2"
    /\ pc' = [pc EXCEPT ![e] = "loop"]
    /\ at' = [at EXCEPT ![e] = @ + 1]
    /\ UNCHANGED <<pte, mem, newenv, flag, handler, addr>>

(* Its second call: the parent's own mapping becomes copy-on-write.  It    *)
(* does not fail, for both have the page and so the page table.            *)
Map2(e) ==
    /\ User(e) /\ pc[e] = "map2"
    /\ sys_page_map(newenv[e], e, at[e], Entry(pte[newenv[e]][at[e]].pg, FALSE, TRUE))
    /\ pc' = [pc EXCEPT ![e] = "loop"]
    /\ at' = [at EXCEPT ![e] = @ + 1]
    /\ UNCHANGED <<mem, newenv, flag, handler, addr>>

AllocStack(e) ==
    /\ User(e) /\ pc[e] = "uxstack"
    /\ \/ /\ sys_page_alloc(newenv[e], UXSTACK)
          /\ pc' = [pc EXCEPT ![e] = "status"]
          /\ UNCHANGED <<newenv, at, flag, handler, addr>>
       \/ /\ FreePages = {}
          /\ Panic(e)
          /\ UNCHANGED <<pte, mem, newenv, at, flag, addr>>

(* sys_env_set_status(): parent and child return from fork().              *)
SetStatus(e) ==
    /\ User(e) /\ pc[e] = "status"
    /\ pc' = [pc EXCEPT ![e] = "run", ![newenv[e]] = "run"]
    /\ newenv' = [newenv EXCEPT ![e] = NULL]
    /\ at' = [at EXCEPT ![e] = PFTEMP]
    /\ flag' = [flag EXCEPT ![e] = FALSE]
    /\ UNCHANGED <<pte, mem, handler, addr>>

fork(e) ==
    \/ sys_exofork(e) \/ Loop(e) \/ Map1(e) \/ Map1Fails(e) \/ Map2(e)
    \/ AllocStack(e) \/ SetStatus(e)

(* exit(), outside fork() and pgfault().                                   *)
Exit(e) ==
    /\ User(e) /\ pc[e] = "run"
    /\ pte' = [pte EXCEPT ![e] = Unmapped]
    /\ pc' = [pc EXCEPT ![e] = "exited"]
    /\ UNCHANGED <<mem, newenv, at, flag, handler, addr>>

Next == \E e \in ENVS :
    \/ \E va \in WVA, v \in Value : Write(e, va, v)
    \/ pgfault(e) \/ fork(e) \/ Exit(e)

Spec == Init /\ [][Next]_vars

-----------------------------------------------------------------------------
(* Properties.                                                             *)

TypeOK ==
    /\ pte \in [ENVS -> [VA -> {NULL} \cup PTE]]
    /\ mem \in [PAGE -> Value]
    /\ pc \in [ENVS -> InFork \cup {"new", "embryo", "run", "panic", "exited"}]
    /\ newenv \in [ENVS -> ENVS \cup {NULL}]
    /\ at \in [ENVS -> VA] /\ flag \in [ENVS -> BOOLEAN]
    /\ handler \in [ENVS -> {"none", "alloc", "copy", "map"}]
    /\ addr \in [ENVS -> WVA]

(* A page that two executing environments see is writable by neither, save *)
(* through PFTEMP: a missed remapping would let one write into the other's *)
(* memory.  PFTEMP is an exception because pgfault() leaves it mapped when *)
(* the stack faults in the middle of fork(), which is past PFTEMP then.    *)
SharedNotWritable ==
    \A e, f \in ENVS, va \in WVA, wa \in VA :
        /\ e # f /\ Executing(e) /\ Executing(f)
        /\ pte[e][va] # NULL /\ pte[f][wa] # NULL /\ pte[e][va].pg = pte[f][wa].pg
        => ~pte[e][va].w

(* pgfault() never unmaps PFTEMP, fork() copies that mapping too, and yet  *)
(* the page it copies into is always one that nobody else maps.            *)
CopyPrivate ==
    \A e \in ENVS : handler[e] \in {"copy", "map"} =>
        References(pte[e][PFTEMP].pg) = {<<e, PFTEMP>>}

(* No page is written, by a program or by pgfault() through PFTEMP, while  *)
(* another environment maps it (duppage(), pgfault()).                     *)
SharingSafe == SharedNotWritable /\ CopyPrivate

(* What a program sees at va, from when its copy of that page is finished. *)
Copied(e, va) ==
    /\ pte[e][va] # NULL
    /\ pc[e] = "embryo" => \E p \in ENVS : pc[p] \in InFork \cup {"panic"} /\ newenv[p] = e /\ va < at[p]

image ==
    [e \in ENVS |-> [va \in WVA |-> IF Copied(e, va) THEN mem[pte[e][va].pg] ELSE NULL]]

Private == INSTANCE PrivateMemory WITH ADDR <- WVA, forking <- newenv

(* fork() with shared pages implements private memory: a write is seen by  *)
(* the environment that made it and by no other, and a child has a copy of *)
(* every page of its parent's when it starts, however faults, forks, exits *)
(* and failures interleave.                                                *)
ImplementsPrivate == Private!Spec

(* "If the page is writable or copy-on-write, the new mapping must be      *)
(* created copy-on-write" (lib/fork.c:62-63): a child can write what its   *)
(* parent can.                                                             *)
ChildCanWrite ==
    \A e \in ENVS, va \in WVA : pc[e] = "run" => pte[e][va].w \/ pte[e][va].cow
=============================================================================
