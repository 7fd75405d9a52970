------------------------------- MODULE Env -------------------------------
(***************************************************************************)
(* Environments, the scheduler and the system calls that act on them       *)
(* (JOS kern/env.c, kern/sched.c, kern/trap.c, kern/syscall.c).            *)
(*                                                                         *)
(* Every trap handler runs from lock_kernel() to unlock_kernel() under the *)
(* big kernel lock, so each action here is one whole handler: the trap     *)
(* prologue, the dispatched call, and the env_run(), sched_yield() or      *)
(* monitor() it ends in.  Module Smp models the lock itself and the   *)
(* instructions outside it.                                                *)
(*                                                                         *)
(* Abstractions.  An envid is the pair <<generation, slot>> (env.h packs   *)
(* it in an int: a uniqueifier above ENVX); the NENV slots and MAXGEN      *)
(* generations are small.  Address spaces are modelled by whose page       *)
(* directory a CPU has loaded; page contents, permissions and the failure  *)
(* causes of the page system calls are in module Pmap.                     *)
(***************************************************************************)
EXTENDS Integers, Sequences, FiniteSets

CONSTANTS
    CPU,        \* the processors found by mp_init()
    BSP,        \* the one that runs i386_init()
    NENV,       \* number of slots in envs[]
    NCREATE,    \* how many environments ENV_CREATE may make at boot
    MAXGEN,     \* largest generation before env_id wraps
    Value,      \* values sent by IPC
    NULL        \* a null pointer, and the envid 0

Slot  == 0 .. NENV - 1
EnvId == (0 .. MAXGEN) \X Slot

ASSUME ConstAssumption ==
    /\ BSP \in CPU
    /\ NENV \in Nat \ {0}
    /\ NCREATE \subseteq 0 .. NENV
    /\ MAXGEN \in Nat \ {0}
    /\ Value # {}
    /\ NULL \notin Slot /\ NULL \notin EnvId

Status  == {"FREE", "DYING", "RUNNABLE", "RUNNING", "NOT_RUNNABLE"}
CpuMode == {"boot", "user", "halted", "monitor", "panic"}

VARIABLES
    env_status, env_id, env_parent_id,
    env_pgdir,        \* env_pgdir[e]: the slot has a page directory
    env_runs,         \* 0 until the environment is first run, then 1
    env_free_list,    \* the list through env_link, head first
    env_ipc_recving,
    env_ipc_dstva,    \* TRUE when the receiver asked for a page (dstva < UTOP)
    env_ipc_value, env_ipc_from,
    env_ipc_perm,     \* TRUE when a page came with the value
    curenv,           \* thiscpu->cpu_env
    cr3,              \* the env whose page directory is loaded, NULL for kern_pgdir
    cpu               \* where each CPU is between two handlers

ipc  == <<env_ipc_recving, env_ipc_dstva, env_ipc_value, env_ipc_from, env_ipc_perm>>
envs == <<env_status, env_id, env_parent_id, env_pgdir, env_runs, env_free_list>>
cpus == <<curenv, cr3, cpu>>
vars == <<envs, ipc, cpus>>

-----------------------------------------------------------------------------
(* Boot: env_init() links the slots in order, ENV_CREATE takes the first n *)
(* of them, and the boot CPU still holds the kernel lock.                  *)

Created(n) ==
    /\ env_status = [e \in Slot |-> IF e < n THEN "RUNNABLE" ELSE "FREE"]
    /\ env_id = [e \in Slot |-> <<IF e < n THEN 1 ELSE 0, e>>]
    /\ env_parent_id = [e \in Slot |-> NULL]
    /\ env_pgdir = [e \in Slot |-> e < n]
    /\ env_runs = [e \in Slot |-> 0]
    /\ env_free_list = [i \in 1 .. NENV - n |-> n + i - 1]
    /\ env_ipc_recving = [e \in Slot |-> FALSE]
    /\ env_ipc_dstva = [e \in Slot |-> FALSE]
    /\ env_ipc_value = [e \in Slot |-> CHOOSE v \in Value : TRUE]
    /\ env_ipc_from = [e \in Slot |-> NULL]
    /\ env_ipc_perm = [e \in Slot |-> FALSE]
    /\ curenv = [c \in CPU |-> NULL]
    /\ cr3 = [c \in CPU |-> NULL]
    /\ cpu = [c \in CPU |-> "boot"]

Init == \E n \in NCREATE : Created(n)

-----------------------------------------------------------------------------
(* How a handler ends.  st and cur are env_status and curenv as the        *)
(* handler leaves them; env_pgdir' and env_id' are already determined.     *)

(* A CPU that panics or enters the monitor never releases the lock, so     *)
(* what it wrote before is never read again.                               *)
Panic(c) ==
    /\ cpu' = [cpu EXCEPT ![c] = "panic"]
    /\ UNCHANGED <<env_status, env_runs, curenv, cr3>>

(* env_runs++ for the slots in S; the count of a slot without environment, *)
(* which env_alloc() clears before anything reads it, is kept 0.           *)
CountRun(S) ==
    env_runs' = [e \in Slot |-> IF ~env_pgdir'[e] THEN 0
                               ELSE IF e \in S THEN 1 ELSE env_runs[e]]

env_run(c, e, st, cur) ==
    /\ env_pgdir'[e]          \* else PADDR(NULL) panics
    /\ LET st1 == [s \in Slot |-> IF s = cur /\ st[s] = "RUNNING"
                                  THEN "RUNNABLE" ELSE st[s]]
       IN  env_status' = [st1 EXCEPT ![e] = "RUNNING"]
    /\ CountRun({e})
    /\ curenv' = [curenv EXCEPT ![c] = e]
    /\ cr3' = [cr3 EXCEPT ![c] = env_id'[e]]
    /\ cpu' = [cpu EXCEPT ![c] = "user"]

(* The wrong variants marked "Mutant" are used by no definition: each is a *)
(* bug that the property it names must catch.                              *)

(* Slots after cur in circular order; slot 0 comes first when cur = NULL.  *)
ScanPosition(cur, e) ==
    LET start == IF cur = NULL THEN 0 ELSE cur + 1
    IN  IF e >= start THEN e - start ELSE e + NENV - start

(* Mutant (OneCpuPerEnv): picks environments running on other CPUs.        *)
Mut_RunnableOrRunning(st) == {e \in Slot : st[e] \in {"RUNNABLE", "RUNNING"}}

(* Mutant (ReadyRuns): the scan stops one slot early.                      *)
Mut_ShortScan(st) == {e \in 0 .. NENV - 2 : st[e] = "RUNNABLE"}

Runnable(st) == {e \in Slot : st[e] = "RUNNABLE"}

FirstAfter(cur, S) ==
    {e \in S : \A f \in S : ScanPosition(cur, e) <= ScanPosition(cur, f)}

AnyActive(st) == \E e \in Slot : st[e] \in {"RUNNABLE", "RUNNING"}

sched_halt(c, st, cur) ==
    LET new == IF AnyActive(st) THEN NULL ELSE cur
    IN  /\ env_status' = st
        /\ CountRun({})
        /\ curenv' = [curenv EXCEPT ![c] = new]
        /\ cr3' = [cr3 EXCEPT ![c] = IF new = NULL THEN NULL ELSE @]
        /\ cpu' = [cpu EXCEPT ![c] = IF AnyActive(st) THEN "halted" ELSE "monitor"]

sched_yield(c, st, cur) ==
    LET ready == Runnable(st)
        same  == {e \in Slot : e = cur /\ st[e] = "RUNNING"}
        next  == IF ready # {} THEN FirstAfter(cur, ready) ELSE same
    IN  \/ \E e \in next : env_run(c, e, st, cur)
        \/ (\E e \in next : ~env_pgdir'[e]) /\ Panic(c)
        \/ ready = {} /\ same = {} /\ sched_halt(c, st, cur)

(* The end of trap(): resume the current environment if that makes sense.  *)
trap_return(c, st) ==
    IF st[curenv[c]] = "RUNNING"
    THEN \/ env_run(c, curenv[c], st, curenv[c])
         \/ ~env_pgdir'[curenv[c]] /\ Panic(c)
    ELSE sched_yield(c, st, curenv[c])

-----------------------------------------------------------------------------
(* Lookup and release of environments.                                     *)

(* Mutant (ControlledByParentOrSelf): ignores checkperm.                   *)
Mut_NoPermCheck(c, envid, checkperm) ==
    IF envid = NULL THEN {curenv[c]}
    ELSE {e \in Slot : env_id[e] = envid /\ env_status[e] # "FREE"}

(* The slots an envid passed by CPU c names: at most one, none on          *)
(* -E_BAD_ENV.  The envid 0 is curenv, with no check at all.               *)
envid2env(c, envid, checkperm) ==
    IF envid = NULL THEN {curenv[c]}
    ELSE {e \in Slot : /\ env_id[e] = envid
                       /\ env_status[e] # "FREE"
                       /\ checkperm => \/ e = curenv[c]
                                       \/ env_parent_id[e] = env_id[curenv[c]]}

(* Put slot e back on the free list; its ipc fields and id stay.           *)
env_free(e) ==
    /\ env_pgdir' = [env_pgdir EXCEPT ![e] = FALSE]
    /\ env_free_list' = <<e>> \o env_free_list
    /\ UNCHANGED <<env_id, env_parent_id, ipc>>

Freed(e) == [env_status EXCEPT ![e] = "FREE"]

(* Mutant (LiveAddressSpace, NoPanic): frees at once an environment that   *)
(* another CPU is running.                                                 *)
Mut_DestroyRunning(c, e) ==
    IF env_pgdir[e]
    THEN /\ env_free(e)
         /\ IF curenv[c] = e THEN sched_yield(c, Freed(e), NULL)
                             ELSE trap_return(c, Freed(e))
    ELSE /\ UNCHANGED <<env_id, env_parent_id, env_pgdir, env_free_list, ipc>>
         /\ Panic(c)

env_destroy(c, e) ==
    IF env_status[e] = "RUNNING" /\ curenv[c] # e
    THEN /\ UNCHANGED <<env_id, env_parent_id, env_pgdir, env_free_list, ipc>>
         /\ trap_return(c, [env_status EXCEPT ![e] = "DYING"])
    ELSE IF env_pgdir[e]
    THEN /\ env_free(e)
         /\ IF curenv[c] = e THEN sched_yield(c, Freed(e), NULL)
                             ELSE trap_return(c, Freed(e))
    ELSE /\ UNCHANGED <<env_id, env_parent_id, env_pgdir, env_free_list, ipc>>
         /\ Panic(c)          \* env_free() walks a null page directory

-----------------------------------------------------------------------------
(* Entering the kernel.                                                    *)

KernelUnlocked == \A c \in CPU : cpu[c] \notin {"monitor", "panic"}

(* Mutant (ZombieFreedOrStopped): trap() does not look for a zombie.       *)
Mut_NoZombieCheck(c) == KernelUnlocked /\ cpu[c] = "user"

(* Trapped from user mode: the environment is not a zombie.                *)
Trapped(c) ==
    /\ KernelUnlocked
    /\ cpu[c] = "user"
    /\ env_status[curenv[c]] # "DYING"

(* i386_init() and mp_main() end in sched_yield(); the boot CPU, which has *)
(* held the lock since before it started the others, is first.             *)
Boot(c) ==
    /\ KernelUnlocked
    /\ cpu[c] = "boot"
    /\ c # BSP => cpu[BSP] # "boot"
    /\ UNCHANGED <<env_id, env_parent_id, env_pgdir, env_free_list, ipc>>
    /\ sched_yield(c, env_status, NULL)

(* Any trap of a zombie: trap() frees it and schedules another.            *)
Zombie(c) ==
    /\ KernelUnlocked
    /\ cpu[c] = "user"
    /\ env_status[curenv[c]] = "DYING"
    /\ env_free(curenv[c])
    /\ sched_yield(c, Freed(curenv[c]), NULL)

(* The clock interrupt of a running CPU, and sys_yield().                  *)
TimerOrYield(c) ==
    /\ Trapped(c)
    /\ UNCHANGED <<env_id, env_parent_id, env_pgdir, env_free_list, ipc>>
    /\ sched_yield(c, env_status, curenv[c])

(* The clock interrupt that wakes a CPU from sched_halt().                 *)
HaltedTimer(c) ==
    /\ KernelUnlocked
    /\ cpu[c] = "halted"
    /\ UNCHANGED <<env_id, env_parent_id, env_pgdir, env_free_list, ipc>>
    /\ sched_yield(c, env_status, NULL)

(* trap_dispatch() has no case for the keyboard or serial line: in a       *)
(* halted CPU, which is in kernel mode, their interrupt is a panic.        *)
HaltedDevice(c) ==
    /\ KernelUnlocked
    /\ cpu[c] = "halted"
    /\ UNCHANGED <<env_id, env_parent_id, env_pgdir, env_free_list, ipc>>
    /\ Panic(c)

(* A trap whose handler changes nothing here: a system call that fails or  *)
(* only reads, a spurious interrupt, a page fault the upcall handles.      *)
Return(c) ==
    /\ Trapped(c)
    /\ UNCHANGED <<env_id, env_parent_id, env_pgdir, env_free_list, ipc>>
    /\ trap_return(c, env_status)

(* An unexpected trap, a page fault without handler or a bad pointer given *)
(* to a system call destroys the environment that trapped.                 *)
Fault(c) ==
    /\ Trapped(c)
    /\ env_destroy(c, curenv[c])

(* int3, where the user library's panic() ends: monitor() runs inside the  *)
(* handler, with the lock.                                                 *)
Breakpoint(c) ==
    /\ Trapped(c)
    /\ cpu' = [cpu EXCEPT ![c] = "monitor"]
    /\ UNCHANGED <<envs, ipc, curenv, cr3>>

(* The one command that makes monitor() return is a dump in an unknown     *)
(* mode.  The handler of int3 then goes on; sched_halt(), which is in the  *)
(* monitor because nothing is active, enters it again.                     *)
MonitorExit(c) ==
    /\ cpu[c] = "monitor"
    /\ AnyActive(env_status)
    /\ UNCHANGED <<env_id, env_parent_id, env_pgdir, env_free_list, ipc>>
    /\ trap_return(c, env_status)

-----------------------------------------------------------------------------
(* System calls.                                                           *)

NextGeneration(e) == IF env_id[e][1] = MAXGEN THEN 1 ELSE env_id[e][1] + 1

(* Mutant (FreeListExact): the allocation is not committed.                *)
Mut_NoCommit(e, parent_id) ==
    /\ env_free_list # <<>> /\ e = Head(env_free_list)
    /\ env_id' = [env_id EXCEPT ![e] = <<NextGeneration(e), e>>]
    /\ env_parent_id' = [env_parent_id EXCEPT ![e] = parent_id]
    /\ env_pgdir' = [env_pgdir EXCEPT ![e] = TRUE]
    /\ env_ipc_recving' = [env_ipc_recving EXCEPT ![e] = FALSE]
    /\ UNCHANGED <<env_free_list, env_ipc_dstva, env_ipc_value, env_ipc_from, env_ipc_perm>>

(* Mutant (BlockedIffReceiving): the last owner's receive is still pending. *)
Mut_KeepRecving(e, parent_id) ==
    /\ env_free_list # <<>> /\ e = Head(env_free_list)
    /\ env_free_list' = Tail(env_free_list)
    /\ env_id' = [env_id EXCEPT ![e] = <<NextGeneration(e), e>>]
    /\ env_parent_id' = [env_parent_id EXCEPT ![e] = parent_id]
    /\ env_pgdir' = [env_pgdir EXCEPT ![e] = TRUE]
    /\ UNCHANGED ipc

env_alloc(e, parent_id) ==
    /\ env_free_list # <<>> /\ e = Head(env_free_list)
    /\ env_free_list' = Tail(env_free_list)
    /\ env_id' = [env_id EXCEPT ![e] = <<NextGeneration(e), e>>]
    /\ env_parent_id' = [env_parent_id EXCEPT ![e] = parent_id]
    /\ env_pgdir' = [env_pgdir EXCEPT ![e] = TRUE]
    /\ env_ipc_recving' = [env_ipc_recving EXCEPT ![e] = FALSE]
    /\ UNCHANGED <<env_ipc_dstva, env_ipc_value, env_ipc_from, env_ipc_perm>>

sys_exofork(c) ==
    /\ Trapped(c)
    /\ \E e \in Slot :
          /\ env_alloc(e, env_id[curenv[c]])
          /\ trap_return(c, [env_status EXCEPT ![e] = "NOT_RUNNABLE"])

sys_env_set_status(c, e, status) ==
    /\ Trapped(c)
    /\ status \in {"RUNNABLE", "NOT_RUNNABLE"}
    /\ UNCHANGED <<env_id, env_parent_id, env_pgdir, env_free_list, ipc>>
    /\ trap_return(c, [env_status EXCEPT ![e] = status])

sys_env_destroy(c, e) ==
    /\ Trapped(c)
    /\ env_destroy(c, e)

(* Mutant (WokenBySender): env_ipc_from is not updated.                    *)
Mut_NoFrom(c, e, value, srcva, ok) ==
    /\ Trapped(c)
    /\ env_ipc_recving[e]
    /\ env_ipc_value' = [env_ipc_value EXCEPT ![e] = value]
    /\ env_ipc_perm' = [env_ipc_perm EXCEPT ![e] = FALSE]
    /\ env_ipc_recving' = [env_ipc_recving EXCEPT ![e] = FALSE]
    /\ UNCHANGED <<env_id, env_parent_id, env_pgdir, env_free_list>>
    /\ UNCHANGED <<env_ipc_dstva, env_ipc_from>>
    /\ trap_return(c, [env_status EXCEPT ![e] = "RUNNABLE"])

(* Mutant (SendEnds): the receiver is not made RUNNABLE.                   *)
Mut_NoWake(c, e, value, srcva, ok) ==
    /\ Trapped(c)
    /\ env_ipc_recving[e]
    /\ env_ipc_value' = [env_ipc_value EXCEPT ![e] = value]
    /\ env_ipc_perm' = [env_ipc_perm EXCEPT ![e] = FALSE]
    /\ env_ipc_recving' = [env_ipc_recving EXCEPT ![e] = FALSE]
    /\ env_ipc_from' = [env_ipc_from EXCEPT ![e] = env_id[curenv[c]]]
    /\ UNCHANGED <<env_id, env_parent_id, env_pgdir, env_free_list, env_ipc_dstva>>
    /\ trap_return(c, env_status)

(* page: both sides named an address below UTOP; ok: the checks on the     *)
(* sender's address and permission and page_insert() all succeed.          *)
sys_ipc_try_send(c, e, value, srcva, ok) ==
    LET page == env_ipc_dstva[e] /\ srcva
        sent == page => ok
    IN  /\ Trapped(c)
        /\ env_ipc_recving[e]
        /\ env_ipc_value' = [env_ipc_value EXCEPT ![e] = value]
        /\ env_ipc_perm' = [env_ipc_perm EXCEPT ![e] = page /\ ok]
        /\ env_ipc_recving' = [env_ipc_recving EXCEPT ![e] = ~sent]
        /\ env_ipc_from' = [env_ipc_from EXCEPT ![e] = IF sent THEN env_id[curenv[c]] ELSE @]
        /\ UNCHANGED <<env_id, env_parent_id, env_pgdir, env_free_list, env_ipc_dstva>>
        /\ trap_return(c, IF sent THEN [env_status EXCEPT ![e] = "RUNNABLE"] ELSE env_status)

sys_ipc_recv(c, dstva) ==
    LET e == curenv[c]
    IN  /\ Trapped(c)
        /\ env_ipc_recving' = [env_ipc_recving EXCEPT ![e] = TRUE]
        /\ env_ipc_dstva' = [env_ipc_dstva EXCEPT ![e] = dstva]
        /\ UNCHANGED <<env_ipc_value, env_ipc_from, env_ipc_perm>>
        /\ UNCHANGED <<env_id, env_parent_id, env_pgdir, env_free_list>>
        /\ sched_yield(c, [env_status EXCEPT ![e] = "NOT_RUNNABLE"], e)

-----------------------------------------------------------------------------
(* What programs do.                                                       *)

Interrupt(c) == Boot(c) \/ Zombie(c) \/ TimerOrYield(c) \/ HaltedTimer(c)

Send(c) ==
    /\ Trapped(c)
    /\ \E envid \in EnvId, value \in Value, srcva, ok \in BOOLEAN :
       \E e \in envid2env(c, envid, FALSE) : sys_ipc_try_send(c, e, value, srcva, ok)

Recv(c) == \E dstva \in BOOLEAN : sys_ipc_recv(c, dstva)

SetStatus(c) ==
    /\ Trapped(c)
    /\ \E envid \in EnvId \cup {NULL}, status \in Status : \E e \in envid2env(c, envid, TRUE) :
          sys_env_set_status(c, e, status)

Destroy(c) ==
    /\ Trapped(c)
    /\ \E envid \in EnvId \cup {NULL} : \E e \in envid2env(c, envid, TRUE) :
          sys_env_destroy(c, e)

(* Every trap and every boot step of CPU c, whatever the programs do.      *)
Handler(c) ==
    \/ Interrupt(c) \/ HaltedDevice(c) \/ Breakpoint(c) \/ MonitorExit(c)
    \/ Return(c) \/ Fault(c)
    \/ sys_exofork(c) \/ SetStatus(c) \/ Destroy(c) \/ Send(c) \/ Recv(c)

AnyNext == \E c \in CPU : Handler(c)

AnySpec == Init /\ [][AnyNext]_vars

(* Programs as those of user/ and lib/: set_status makes a child runnable  *)
(* once, after the fork that left it NOT_RUNNABLE and never run            *)
(* (lib/fork.c, user/dumbfork.c); a child is destroyed once (user/spin.c)  *)
(* or destroys itself (lib/exit.c); no panic() and no keyboard.            *)
LibSetStatus(c) ==
    /\ Trapped(c)
    /\ \E envid \in EnvId : \E e \in envid2env(c, envid, TRUE) :
       /\ env_status[e] = "NOT_RUNNABLE" /\ env_runs[e] = 0
       /\ sys_env_set_status(c, e, "RUNNABLE")

LibDestroy(c) ==
    /\ Trapped(c)
    /\ \E envid \in EnvId \cup {NULL} : \E e \in envid2env(c, envid, TRUE) :
       /\ env_status[e] # "DYING"
       /\ sys_env_destroy(c, e)

LibNext == \E c \in CPU :
    \/ Interrupt(c) \/ Return(c) \/ Fault(c)
    \/ sys_exofork(c) \/ LibSetStatus(c) \/ LibDestroy(c) \/ Send(c) \/ Recv(c)

LibSpec == Init /\ [][LibNext]_vars

(* Every CPU keeps taking clock interrupts (lapic_init() makes the timer   *)
(* periodic), keeps getting the kernel lock, and finishes booting.         *)
Fairness == \A c \in CPU : WF_vars(Interrupt(c))

-----------------------------------------------------------------------------
(* Properties.                                                             *)

TypeOK ==
    /\ env_status \in [Slot -> Status]
    /\ env_id \in [Slot -> EnvId]
    /\ env_parent_id \in [Slot -> EnvId \cup {NULL}]
    /\ env_pgdir \in [Slot -> BOOLEAN]
    /\ env_runs \in [Slot -> {0, 1}]
    /\ env_free_list \in Seq(Slot)
    /\ env_ipc_recving \in [Slot -> BOOLEAN]
    /\ env_ipc_dstva \in [Slot -> BOOLEAN]
    /\ env_ipc_value \in [Slot -> Value]
    /\ env_ipc_from \in [Slot -> EnvId \cup {NULL}]
    /\ env_ipc_perm \in [Slot -> BOOLEAN]
    /\ curenv \in [CPU -> Slot \cup {NULL}]
    /\ cr3 \in [CPU -> EnvId \cup {NULL}]
    /\ cpu \in [CPU -> CpuMode]

(* An environment executes on at most one CPU at a time, and its status    *)
(* says so: it is RUNNING or DYING exactly while some CPU executes it      *)
(* ("never choose an environment that's currently running on another CPU", *)
(* sched.c).                                                               *)
OnCpu(e) == {c \in CPU : cpu[c] = "user" /\ curenv[c] = e}

OneCpuPerEnv ==
    /\ \A c, d \in CPU :
          cpu[c] = "user" /\ cpu[d] = "user" /\ curenv[c] = curenv[d] => c = d
    /\ \A e \in Slot :
          env_status[e] \in {"RUNNING", "DYING"} <=> OnCpu(e) # {}

(* The free list holds every FREE slot once and nothing else: no slot is   *)
(* leaked, handed out twice or freed twice by env_alloc() and env_free(),  *)
(* also when a parent and a CPU that runs the child both destroy it.       *)
FreeListExact ==
    /\ \A i, j \in DOMAIN env_free_list :
          env_free_list[i] = env_free_list[j] => i = j
    /\ \A e \in Slot : env_status[e] = "FREE" <=>
          \E i \in DOMAIN env_free_list : env_free_list[i] = e

(* A CPU in user mode runs on the page directory of the environment the    *)
(* kernel takes it to be running, in the same incarnation of its slot, and *)
(* that directory has not been freed by another CPU.                       *)
LiveAddressSpace ==
    \A c \in CPU : cpu[c] = "user" =>
       /\ curenv[c] # NULL
       /\ cr3[c] = env_id[curenv[c]]
       /\ env_pgdir[curenv[c]]

(* An environment that has run is off the run queue exactly while it waits *)
(* in sys_ipc_recv(): no wakeup is lost, and no send can reach one that    *)
(* runs, is ready, is a zombie, or was forked into the slot of a receiver  *)
(* that died waiting.                                                      *)
BlockedIffReceiving ==
    \A e \in Slot : env_status[e] # "FREE" =>
       (env_ipc_recving[e] <=> env_status[e] = "NOT_RUNNABLE" /\ env_runs[e] = 1)

(* No PADDR() of a null page directory and no second env_free() of a slot: *)
(* the kernel never panics while the keyboard is left alone.               *)
NoPanic == \A c \in CPU : cpu[c] # "panic"

(* Only an environment itself and its parent control it: the trap that     *)
(* starts it, stops it or ends it is one of the CPU that runs it or its    *)
(* parent, unless it delivers a message.  A stale or foreign envid has no  *)
(* power, also when the victim runs on another CPU meanwhile.              *)
RunState(status) == IF status = "RUNNING" THEN "RUNNABLE" ELSE status

ControlledByParentOrSelf ==
    [][\A c \in CPU, e \in Slot :
         /\ env_status[e] \notin {"FREE", "DYING"}
         /\ RunState(env_status'[e]) # RunState(env_status[e])
         /\ ~(env_ipc_recving[e] /\ ~env_ipc_recving'[e])
         /\ Handler(c)
         => cpu[c] = "user" /\ (curenv[c] = e \/ env_parent_id[e] = env_id[curenv[c]])]_vars

(* "Never choose an environment that's currently running on another CPU"   *)
(* (sched.c:26-27): violated when a parent sets the status of a child that *)
(* runs.                                                                   *)
RunsOnce ==
    \A c, d \in CPU :
       cpu[c] = "user" /\ cpu[d] = "user" /\ curenv[c] = curenv[d] => c = d

(* "A zombie environment will be freed the next time it traps to the       *)
(* kernel" (env.c:511-512): violated when its parent destroys it again,    *)
(* which frees it under the CPU that runs it.                              *)
ZombieFreedByItsTrap ==
    [][\A c \in CPU, e \in Slot :
         env_status[e] = "DYING" /\ env_status'[e] = "FREE" /\ Handler(c)
         => cpu[c] = "user" /\ curenv[c] = e]_vars

(* A blocked receiver wakes only with a message: it becomes ready in the   *)
(* step that clears env_ipc_recving and names the sender, which runs.      *)
WokenBySender ==
    [][\A e \in Slot :
         env_ipc_recving[e] /\ env_status[e] = "NOT_RUNNABLE"
         /\ env_status'[e] \in {"RUNNABLE", "RUNNING"}
         => /\ ~env_ipc_recving'[e]
            /\ \E c \in CPU : cpu[c] = "user" /\ env_ipc_from'[e] = env_id[curenv[c]]]_vars

(* Round-robin order starves nobody: every ready environment gets a CPU,   *)
(* unless environments exit for ever (sched_yield() restarts at slot 0     *)
(* after an exit) or the kernel has gone into the monitor.                 *)
Exit == \E e \in Slot : env_status[e] # "FREE" /\ env_status'[e] = "FREE"

ReadyRuns ==
    []<><<Exit>>_vars
    \/ \A e \in Slot : env_status[e] = "RUNNABLE" ~> env_status[e] # "RUNNABLE" \/ ~KernelUnlocked

(* A zombie is freed, unless the kernel has gone into the monitor.         *)
ZombieFreedOrStopped ==
    \A e \in Slot : env_status[e] = "DYING" ~> env_status[e] = "FREE" \/ ~KernelUnlocked
=============================================================================
