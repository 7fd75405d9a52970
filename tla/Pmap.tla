------------------------------ MODULE Pmap ------------------------------
(***************************************************************************)
(* Physical pages and address spaces (JOS kern/pmap.c), with the code that *)
(* builds and tears down address spaces (kern/env.c) and the system calls  *)
(* that map pages (kern/syscall.c).                                        *)
(*                                                                         *)
(* Page directories and page tables are themselves pages: pd[p] and pt[p]  *)
(* are the entries page p holds when it is used as one or the other.  A    *)
(* handler runs under the kernel lock (module Smp) and is one action, save *)
(* env_free(), whose loops go step by step with the lock held; calls into  *)
(* pmap.c are operators from one memory, a record, to the next.            *)
(***************************************************************************)
EXTENDS Integers, SequencesExt, FiniteSetsExt

CONSTANTS
    PAGE,     \* physical pages that page_init() puts on the free list
    ENVS,     \* slots of envs[]
    FIRST,    \* the environment the kernel creates at boot
    CPU,
    NPD,      \* entries of a page directory below UTOP
    NPT,      \* entries of a page table
    REFMOD,   \* pp_ref counts modulo this (2^16)
    PERMS,    \* permissions programs ask for, sets of the bits of WEIGHT
    NULL

VARIABLES
    pp_ref, page_free_list,   \* pages[]
    pd, pt,                   \* contents of pages used as directories, tables
    env_pgdir, env_parent,    \* envs[]
    curenv,                   \* of each CPU, and the address space it loaded
    freeing,                  \* env_free() under way: who frees what, up to where
    ret,                      \* result of the last system call, or "PANIC"
    spoilt                    \* the page tables have been Damaged (history)

memvars == <<pp_ref, page_free_list, pd, pt>>
envvars == <<env_pgdir, env_parent>>
vars == <<memvars, envvars, curenv, freeing, ret, spoilt>>

Dir   == 0 .. NPD - 1        \* indices of a page directory
Table == 0 .. NPT - 1        \* and of a page table
VA    == Dir \X Table        \* pages of virtual memory below UTOP
PDX(va) == va[1]
PTX(va) == va[2]

(* The permission bits, with PTE_AVAIL as one bit, PTE_PWT for the others  *)
(* up to bit 30, and the sign of an int.                                   *)
WEIGHT == [P |-> 1, W |-> 2, U |-> 4, PWT |-> 8, AVAIL |-> 512, SIGN |-> -2147483647 - 1]
PTE_SYSCALL == {"P", "W", "U", "AVAIL"}
Value(perm) == FoldSet(LAMBDA b, v : WEIGHT[b] + v, 0, perm)

Incr(r) == IF r = REFMOD - 1 THEN 0 ELSE r + 1    \* the unsigned pp_ref
Decr(r) == IF r = 0 THEN REFMOD - 1 ELSE r - 1

(* An entry of a directory or a table: NULL when PTE_P is not set.  Its pg *)
(* is NULL when the address in it is past the end of memory.               *)
Entry == [pg : PAGE \cup {NULL}, perm : SUBSET DOMAIN WEIGHT]
Pte == {NULL} \cup Entry
NoEntries(index) == [i \in index |-> NULL]

(* How far env_free() is: CPU cpu frees env and is at entry j of table i.  *)
Freeing == [cpu : CPU, env : ENVS, i : 0 .. NPD, j : 0 .. NPT]

ASSUME PmapAssumption ==
    /\ FIRST \in ENVS /\ PERMS \subseteq SUBSET DOMAIN WEIGHT
    /\ NULL \notin PAGE \cup ENVS \cup Entry \cup Freeing
    /\ NPD \in Nat \ {0} /\ NPT \in Nat \ {0} /\ REFMOD \in Nat \ {0, 1}
    /\ IsFiniteSet(PAGE) /\ IsFiniteSet(ENVS)

-----------------------------------------------------------------------------
(* The page allocator.                                                     *)

Mem == [ref |-> pp_ref, free |-> page_free_list, pd |-> pd, pt |-> pt]

Commit(m) == pp_ref' = m.ref /\ page_free_list' = m.free /\ pd' = m.pd /\ pt' = m.pt

(* page_alloc(ALLOC_ZERO) returns the head of the list, and this memory.   *)
page_alloc(m) ==
    LET p == Head(m.free) IN
    [m EXCEPT !.free = Tail(@), !.pd[p] = NoEntries(Dir), !.pt[p] = NoEntries(Table)]

page_free(m, p) == [m EXCEPT !.free = <<p>> \o @]

page_decref(m, p) ==
    LET m1 == [m EXCEPT !.ref[p] = Decr(@)] IN
    IF m1.ref[p] = 0 THEN page_free(m1, p) ELSE m1

-----------------------------------------------------------------------------
(* Page tables.                                                            *)

(* pgdir_walk() with create fails when there is no page for a page table.  *)
NoTable(m, dir, va) == m.pd[dir][PDX(va)] = NULL /\ m.free = <<>>

pgdir_walk(m, dir, va) ==
    IF m.pd[dir][PDX(va)] # NULL THEN m
    ELSE LET p == Head(m.free) IN
         [page_alloc(m) EXCEPT !.ref[p] = Incr(@),
                               !.pd[dir][PDX(va)] = [pg |-> p, perm |-> {"P"}]]

(* The walk down to va takes the address of the page table with KADDR(),   *)
(* which panics for one that is past the end of memory.                    *)
Astray(m, dir, va) == m.pd[dir][PDX(va)] # NULL /\ m.pd[dir][PDX(va)].pg = NULL

page_lookup(m, dir, va) ==
    LET pde == m.pd[dir][PDX(va)] IN
    IF pde = NULL \/ Astray(m, dir, va) THEN NULL ELSE m.pt[pde.pg][PTX(va)]

page_remove(m, dir, va) ==
    LET pte == page_lookup(m, dir, va) IN
    IF pte = NULL THEN m
    ELSE page_decref([m EXCEPT !.pt[m.pd[dir][PDX(va)].pg][PTX(va)] = NULL], pte.pg)

(* page_insert() takes a page back from the free list when removing the    *)
(* old mapping has just freed it.                                          *)
(* Mutant (FreeIffUnreferenced): does not.                                 *)
Mut_NoUnlink(list, p) == list

Unlink(list, p) ==
    IF p \notin ToSet(list) THEN list
    ELSE LET k == CHOOSE i \in DOMAIN list : list[i] = p
         IN  [i \in 1 .. Len(list) - 1 |-> IF i < k THEN list[i] ELSE list[i + 1]]

(* The permissions are OR-ed into the entries, over their addresses too:   *)
(* bit 31 makes any address one of 2GB or more, where there is no memory.  *)
Entitle(p, perm, full) ==
    [pg |-> IF "SIGN" \in full THEN NULL ELSE p, perm |-> perm \cup full]

page_insert(m, dir, p, va, perm) ==
    LET full == perm \cup {"P"}
        m1 == page_remove(m, dir, va)
        m2 == [m1 EXCEPT !.free = Unlink(@, p)]
        m3 == pgdir_walk(m2, dir, va)
    IN IF NoTable(m2, dir, va) THEN [ok |-> FALSE, mem |-> m2]
       ELSE [ok  |-> TRUE,
             mem |-> [m3 EXCEPT !.ref[p] = Incr(@),
                                !.pt[m3.pd[dir][PDX(va)].pg][PTX(va)] = Entitle(p, {}, full),
                                !.pd[dir][PDX(va)] = Entitle(@.pg, @.perm, full)]]

-----------------------------------------------------------------------------
(* New address spaces.                                                     *)

(* Mutant (TablesPrivate): copies the first environment's directory in     *)
(* place of kern_pgdir.                                                    *)
Mut_CopyDirectory(m) ==
    LET p == Head(m.free)
        from == env_pgdir[FIRST] IN
    [page_alloc(m) EXCEPT !.ref[p] = Incr(@),
                          !.pd[p] = IF from = NULL THEN @ ELSE m.pd[from]]

env_setup_vm(m) ==
    LET p == Head(m.free) IN [page_alloc(m) EXCEPT !.ref[p] = Incr(@)]

-----------------------------------------------------------------------------
(* System calls.                                                           *)

Live(e) == env_pgdir[e] # NULL
Loaded(e) == \E c \in CPU : curenv[c] = e

(* envid2env() with checkperm: oneself or a child.                         *)
MayChange(e, f) == Live(f) /\ (f = e \/ env_parent[f] = e)

Init ==
    \E root \in PAGE :
        /\ page_free_list \in SetToSeqs(PAGE \ {root})
        /\ pp_ref = [p \in PAGE |-> IF p = root THEN 1 ELSE 0]
        /\ pd = [p \in PAGE |-> NoEntries(Dir)]
        /\ pt = [p \in PAGE |-> NoEntries(Table)]
        /\ env_pgdir = [e \in ENVS |-> IF e = FIRST THEN root ELSE NULL]
        /\ env_parent = [e \in ENVS |-> NULL]
        /\ curenv = [c \in CPU |-> NULL]
        /\ freeing = NULL
        /\ ret = "OK"
        /\ spoilt = FALSE

Return(r) == ret' = r /\ UNCHANGED curenv

Fail(r) == Return(r) /\ UNCHANGED <<memvars, envvars>>

(* The kernel stops; what it had changed by then nobody sees.              *)
Panic == Fail("PANIC")

(* sched_yield(): env_run(e), or sched_halt() for e = NULL.                *)
sched_yield(c, e) ==
    /\ e # curenv[c]
    /\ e # NULL => Live(e) /\ ~Loaded(e)
    /\ curenv' = [curenv EXCEPT ![c] = e]
    /\ UNCHANGED <<memvars, envvars, ret>>

sys_exofork(c, child) ==
    /\ curenv[c] # NULL /\ ~Live(child)
    /\ IF page_free_list = <<>> THEN Fail("E_NO_MEM")
       ELSE /\ Commit(env_setup_vm(Mem))
            /\ env_pgdir' = [env_pgdir EXCEPT ![child] = Head(page_free_list)]
            /\ env_parent' = [env_parent EXCEPT ![child] = curenv[c]]
            /\ Return("OK")

(* Bits outside PTE_SYSCALL, in an int: a negative one passes the test.    *)
OtherBits(perm) == Value(perm \cup PTE_SYSCALL) > Value(PTE_SYSCALL)

(* Misaligned addresses and those above UTOP are rejected and not listed.  *)
sys_page_alloc(c, e, va, perm) ==
    LET p == Head(page_free_list)
        r == page_insert(page_alloc(Mem), env_pgdir[e], p, va, perm) IN
    /\ curenv[c] # NULL /\ MayChange(curenv[c], e)
    /\ IF Value(perm \cap PTE_SYSCALL) < Value({"U", "P"}) \/ OtherBits(perm) THEN Fail("E_INVAL")
       ELSE IF page_free_list = <<>> THEN Fail("E_NO_MEM")
       ELSE IF Astray(Mem, env_pgdir[e], va) THEN Panic
       ELSE /\ Commit(IF r.ok THEN r.mem ELSE page_free(r.mem, p))
            /\ Return(IF r.ok THEN "OK" ELSE "E_NO_MEM")
            /\ UNCHANGED envvars

(* sys_page_map() and sys_ipc_try_send() refuse a page that is not mapped, *)
(* improper permissions, and write access to a page that is read-only.     *)
(* Mutant (NoWriteGained): forgets the last.                               *)
Mut_AnyAccess(pte, perm) == pte # NULL /\ {"P", "U"} \subseteq perm /\ ~OtherBits(perm)

MayShare(pte, perm) ==
    /\ pte # NULL
    /\ {"P", "U"} \subseteq perm /\ ~OtherBits(perm)
    /\ "W" \in perm => "W" \in pte.perm

(* Mutant (FailureChangesNothing): unmaps the destination before it checks *)
(* the source.                                                             *)
Mut_UnmapFirst(s, sva, d, dva, perm) ==
    LET pte == page_lookup(Mem, env_pgdir[s], sva)
        m == page_remove(Mem, env_pgdir[d], dva)
        r == page_insert(m, env_pgdir[d], pte.pg, dva, perm) IN
    IF Astray(Mem, env_pgdir[s], sva) \/ Astray(Mem, env_pgdir[d], dva) THEN Panic
    ELSE IF ~MayShare(pte, perm) THEN Commit(m) /\ Return("E_INVAL") /\ UNCHANGED envvars
    ELSE /\ Commit(r.mem)
         /\ Return(IF r.ok THEN "OK" ELSE "E_NO_MEM")
         /\ UNCHANGED envvars

(* Maps the page at sva in s at dva in d.                                  *)
Share(s, sva, d, dva, perm) ==
    LET pte == page_lookup(Mem, env_pgdir[s], sva)
        r == page_insert(Mem, env_pgdir[d], pte.pg, dva, perm) IN
    IF Astray(Mem, env_pgdir[s], sva) THEN Panic
    ELSE IF ~MayShare(pte, perm) THEN Fail("E_INVAL")
    ELSE IF Astray(Mem, env_pgdir[d], dva) THEN Panic
    ELSE /\ Commit(r.mem)
         /\ Return(IF r.ok THEN "OK" ELSE "E_NO_MEM")
         /\ UNCHANGED envvars

sys_page_map(c, s, sva, d, dva, perm) ==
    /\ curenv[c] # NULL /\ MayChange(curenv[c], s) /\ MayChange(curenv[c], d)
    /\ Share(s, sva, d, dva, perm)

(* The page transfer of sys_ipc_try_send(), whose perm is unsigned.  The   *)
(* receiver is blocked, so no CPU has its address space loaded (module     *)
(* Env).                                                                   *)
sys_ipc_try_send(c, d, sva, dva, perm) ==
    /\ curenv[c] # NULL /\ Live(d) /\ ~Loaded(d)
    /\ IF ~perm \subseteq PTE_SYSCALL THEN Fail("E_INVAL") ELSE Share(curenv[c], sva, d, dva, perm)

sys_page_unmap(c, e, va) ==
    /\ curenv[c] # NULL /\ MayChange(curenv[c], e)
    /\ IF Astray(Mem, env_pgdir[e], va) THEN Panic
       ELSE Commit(page_remove(Mem, env_pgdir[e], va)) /\ Return("OK") /\ UNCHANGED envvars

-----------------------------------------------------------------------------
(* env_free() of the current environment (its exit, or its trap as a       *)
(* zombie) or of a child that runs nowhere.  The lock is held from the     *)
(* call to the end; i and j are its pdeno and pteno.                       *)
sys_env_destroy(c, e) ==
    /\ curenv[c] # NULL /\ MayChange(curenv[c], e)
    /\ e = curenv[c] \/ ~Loaded(e)
    /\ freeing' = [cpu |-> c, env |-> e, i |-> 0, j |-> 0]
    /\ ret' = "OK"
    /\ UNCHANGED <<memvars, envvars, curenv>>

FreeStep(m) ==
    /\ Commit(m)
    /\ UNCHANGED <<envvars, curenv, ret>>

UnmapPage(dir, i, j) ==
    /\ i < NPD /\ pd[dir][i] # NULL /\ j < NPT
    /\ IF Astray(Mem, dir, <<i, j>>) THEN Panic /\ UNCHANGED freeing
       ELSE /\ FreeStep(page_remove(Mem, dir, <<i, j>>))
            /\ freeing' = [freeing EXCEPT !.j = j + 1]

FreeTable(dir, i, j) ==
    /\ i < NPD /\ pd[dir][i] # NULL /\ j = NPT
    /\ FreeStep(page_decref([Mem EXCEPT !.pd[dir][i] = NULL], pd[dir][i].pg))
    /\ freeing' = [freeing EXCEPT !.i = i + 1, !.j = 0]

SkipTable(dir, i) ==
    /\ i < NPD /\ pd[dir][i] = NULL
    /\ FreeStep(Mem)
    /\ freeing' = [freeing EXCEPT !.i = i + 1]

(* The id of e dies with it, so its children have no parent.               *)
FreeDirectory(c, e, i) ==
    /\ i = NPD
    /\ Commit(page_decref(Mem, env_pgdir[e]))
    /\ env_pgdir' = [env_pgdir EXCEPT ![e] = NULL]
    /\ env_parent' = [f \in ENVS |-> IF f = e \/ env_parent[f] = e THEN NULL ELSE env_parent[f]]
    /\ curenv' = [curenv EXCEPT ![c] = IF e = @ THEN NULL ELSE @]
    /\ freeing' = NULL
    /\ UNCHANGED ret

env_free ==
    /\ freeing # NULL
    /\ LET dir == env_pgdir[freeing.env] i == freeing.i j == freeing.j IN
       \/ UnmapPage(dir, i, j) \/ FreeTable(dir, i, j) \/ SkipTable(dir, i)
       \/ FreeDirectory(freeing.cpu, freeing.env, i)

-----------------------------------------------------------------------------
Handler(c) ==
    \/ \E e \in ENVS \cup {NULL} : sched_yield(c, e)
    \/ \E e \in ENVS : sys_exofork(c, e)
    \/ \E e \in ENVS, va \in VA :
         sys_page_unmap(c, e, va) \/ \E perm \in PERMS : sys_page_alloc(c, e, va, perm)
    \/ \E d \in ENVS, sva, dva \in VA, perm \in PERMS :
         \/ sys_ipc_try_send(c, d, sva, dva, perm)
         \/ \E s \in ENVS : sys_page_map(c, s, sva, d, dva, perm)

(* The pointers to a page, in memory m with page directories g: envs[],    *)
(* entries of directories, entries of tables.                              *)
DirRefs(g, p) == {e \in ENVS : g[e] = p}

Pde(m, g, e, i) == IF g[e] = NULL THEN NULL ELSE m.pd[g[e]][i]

TableRefs(m, g, p) ==
    {x \in ENVS \X Dir : Pde(m, g, x[1], x[2]) # NULL /\ Pde(m, g, x[1], x[2]).pg = p}

Mapping(m, g, e, va) == IF g[e] = NULL THEN NULL ELSE page_lookup(m, g[e], va)

UserRefs(m, g, p) ==
    {x \in ENVS \X VA : Mapping(m, g, x[1], x[2]) # NULL /\ Mapping(m, g, x[1], x[2]).pg = p}

References(m, g, p) ==
    Cardinality(DirRefs(g, p)) + Cardinality(TableRefs(m, g, p)) + Cardinality(UserRefs(m, g, p))

(* The page tables are damaged when an entry names a page past the end of  *)
(* memory, or more pointers lead to a page than pp_ref can count.          *)
NoWrap == \A p \in PAGE : References(Mem, env_pgdir, p) < REFMOD

NoneAstray ==
    \A p \in PAGE : /\ \A i \in Dir   : pd[p][i] # NULL => pd[p][i].pg # NULL
                    /\ \A j \in Table : pt[p][j] # NULL => pt[p][j].pg # NULL

Damaged == ~NoWrap \/ ~NoneAstray

Step ==
    \/ freeing = NULL /\ UNCHANGED freeing /\ \E c \in CPU : Handler(c)
    \/ freeing = NULL /\ \E c \in CPU, e \in ENVS : sys_env_destroy(c, e)
    \/ env_free

Next == ret # "PANIC" /\ Step /\ spoilt' = (spoilt \/ Damaged')

Spec == Init /\ [][Next]_vars

-----------------------------------------------------------------------------
(* Properties.                                                             *)

TypeOK ==
    /\ pp_ref \in [PAGE -> 0 .. REFMOD - 1]
    /\ page_free_list \in Seq(PAGE)
    /\ pd \in [PAGE -> [Dir -> Pte]]
    /\ pt \in [PAGE -> [Table -> Pte]]
    /\ env_pgdir \in [ENVS -> PAGE \cup {NULL}]
    /\ env_parent \in [ENVS -> ENVS \cup {NULL}]
    /\ curenv \in [CPU -> ENVS \cup {NULL}]
    /\ freeing \in {NULL} \cup Freeing
    /\ ret \in {"OK", "E_INVAL", "E_NO_MEM", "PANIC"} /\ spoilt \in BOOLEAN

(* pp_ref counts the pointers to a page (inc/memlayout.h: "the count of    *)
(* pointers (usually in page table entries) to this page").                *)
RefCountExact == \A p \in PAGE : pp_ref[p] = References(Mem, env_pgdir, p)

(* The free list holds the unreferenced pages, each once: no page is lost, *)
(* and none is handed out while someone still maps it.                     *)
FreeIffUnreferenced ==
    /\ \A i, j \in DOMAIN page_free_list : page_free_list[i] = page_free_list[j] => i = j
    /\ \A p \in PAGE : p \in ToSet(page_free_list) <=> References(Mem, env_pgdir, p) = 0

(* Until the page tables are damaged, both: the allocator knows who uses a *)
(* page, and nobody uses one that it may hand out, whatever mix of maps,   *)
(* remaps at the same address, failed inserts, sends and exits led here    *)
(* (page_insert(), page_remove(), page_decref()).                          *)
CountsExact == ~spoilt => RefCountExact /\ FreeIffUnreferenced

(* Until then a page that serves as a page directory or a page table also  *)
(* serves nothing else: no program can map it, and no two address spaces   *)
(* share it.                                                               *)
TablesPrivate ==
    ~spoilt => \A p \in PAGE : DirRefs(env_pgdir, p) # {} \/ TableRefs(Mem, env_pgdir, p) # {}
                               => References(Mem, env_pgdir, p) = 1

(* A system call that fails has changed nothing: no mapping, no reference, *)
(* no free page, not even where it is on the list.                         *)
FailureChangesNothing ==
    [][ret' \in {"E_INVAL", "E_NO_MEM"} /\ ~spoilt' => UNCHANGED <<memvars, envvars>>]_vars

Mapped(p) == UserRefs(Mem, env_pgdir, p) # {}

Writable(p) ==
    \E x \in UserRefs(Mem, env_pgdir, p) : "W" \in Mapping(Mem, env_pgdir, x[1], x[2]).perm

(* A page that every program may only read stays so as long as any of them *)
(* maps it: no chain of maps and sends makes it writable.                  *)
NoWriteGained ==
    [][\A p \in PAGE : Mapped(p) /\ ~Writable(p) /\ Mapped(p)' /\ ~spoilt' => ~Writable(p)']_vars

(* "-E_INVAL if perm is inappropriate": a program's mappings have no bits  *)
(* outside PTE_SYSCALL (sys_page_alloc(): "no other bits may be set").     *)
OnlySyscallBits == \A p \in PAGE, j \in Table : pt[p][j] # NULL => pt[p][j].perm \subseteq PTE_SYSCALL
=============================================================================
