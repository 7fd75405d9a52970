------------------------------- MODULE Smp -------------------------------
(***************************************************************************)
(* The processors: how they boot, take and release the big kernel lock,    *)
(* and enter and leave the kernel (JOS kern/spinlock.c, kern/init.c,       *)
(* kern/mpentry.S, and the ends of trap(), env_run() and sched_halt()).    *)
(*                                                                         *)
(* One action is one access to memory that another CPU may also access.    *)
(* What a handler decides under the lock is module Env; here it resumes    *)
(* an environment no other CPU has (Env!OneCpuPerEnv), halts, panics or    *)
(* stops in the monitor.                                                   *)
(***************************************************************************)
EXTENDS Naturals

CONSTANTS
    CPU,     \* cpus[]
    BSP,     \* the boot processor
    ENVS,    \* environments
    NULL     \* a null pointer

ASSUME SmpAssumption == BSP \in CPU /\ NULL \notin CPU /\ NULL \notin ENVS /\ ENVS # {}

VARIABLES
    pc,               \* what each CPU does next
    after,            \* where it goes on after spin_lock() or spin_unlock()
    from_user,        \* tf->tf_cs of its last trap: from user mode?
    locked, lk_cpu,   \* kernel_lock
    cpu_status,
    panicstr,         \* TRUE once some CPU has called panic()
    mpentry_kstack,   \* whose stack the next AP will take
    kstack,           \* whose stack each CPU runs on
    curenv,
    env_tf,           \* saved registers of each environment
    regs,             \* registers of each CPU in user mode
    progress          \* how far each environment has really come (history)

lockvars == <<locked, lk_cpu>>
bootvars == <<mpentry_kstack, kstack>>
envvars  == <<curenv, env_tf, regs, progress>>
vars == <<pc, after, from_user, lockvars, cpu_status, panicstr, bootvars, envvars>>

Acquiring == {"check", "check_cpu", "xchg"}
Releasing == {"release", "release_cpu", "clear", "unlock"}
Running   == {"own", "boot_aps", "wait_ap", "entered", "save", "handler", "monitor"}
Outside   == {"off", "mpentry", "mp_main", "i386_init", "user", "trap", "status",
              "pop_tf", "hlt", "dead", "lock_panic"}

(* A step of an environment moves its registers on, modulo 2.              *)
Advance(v) == 1 - v

-----------------------------------------------------------------------------

Init ==
    /\ pc = [c \in CPU |-> IF c = BSP THEN "i386_init" ELSE "off"]
    /\ after = [c \in CPU |-> "handler"]
    /\ from_user = [c \in CPU |-> FALSE]
    /\ locked = 0 /\ lk_cpu = NULL
    /\ cpu_status = [c \in CPU |-> IF c = BSP THEN "STARTED" ELSE "UNUSED"]
    /\ panicstr = FALSE
    /\ mpentry_kstack = NULL
    /\ kstack = [c \in CPU |-> IF c = BSP THEN BSP ELSE NULL]
    /\ curenv = [c \in CPU |-> NULL]
    /\ env_tf = [e \in ENVS |-> 0]
    /\ regs = [c \in CPU |-> 0]
    /\ progress = [e \in ENVS |-> 0]

Goto(c, l) == pc' = [pc EXCEPT ![c] = l]

lock_kernel(c, l) ==
    /\ Goto(c, "check")
    /\ after' = [after EXCEPT ![c] = l]

unlock_kernel(c, l) ==
    /\ Goto(c, "release")
    /\ after' = [after EXCEPT ![c] = l]

-----------------------------------------------------------------------------
(* spin_lock() and spin_unlock(), with DEBUG_SPINLOCK.                     *)

(* holding(): two loads without the lock, and lk->cpu only if lk->locked   *)
(* was set; another CPU may take or release the lock in between.  The      *)
(* answer is yes or no, where the caller goes on.                          *)
load_locked(c, set, no) ==
    /\ Goto(c, IF locked = 1 THEN set ELSE no)
    /\ UNCHANGED <<after, from_user, lockvars, cpu_status, panicstr, bootvars, envvars>>

load_cpu(c, yes, no) ==
    /\ Goto(c, IF lk_cpu = c THEN yes ELSE no)
    /\ UNCHANGED <<after, from_user, lockvars, cpu_status, panicstr, bootvars, envvars>>

Check(c) ==
    \/ pc[c] = "check" /\ load_locked(c, "check_cpu", "xchg")
    \/ pc[c] = "check_cpu" /\ load_cpu(c, "lock_panic", "xchg")

Xchg(c) ==
    /\ pc[c] = "xchg"
    /\ locked = 0
    /\ locked' = 1
    /\ Goto(c, "own")
    /\ UNCHANGED <<after, from_user, lk_cpu, cpu_status, panicstr, bootvars, envvars>>

Own(c) ==
    /\ pc[c] = "own"
    /\ lk_cpu' = c
    /\ Goto(c, after[c])
    /\ UNCHANGED <<after, from_user, locked, cpu_status, panicstr, bootvars, envvars>>

Release(c) ==
    \/ pc[c] = "release" /\ load_locked(c, "release_cpu", "lock_panic")
    \/ pc[c] = "release_cpu" /\ load_cpu(c, "clear", "lock_panic")

(* Mutant (LockTakenOnce): the name of the last holder stays in lk->cpu,   *)
(* where it reads it when the next holder has not yet put its own.         *)
Mut_KeepCpu(c) ==
    /\ pc[c] = "clear"
    /\ Goto(c, "unlock")
    /\ UNCHANGED <<after, from_user, lockvars, cpu_status, panicstr, bootvars, envvars>>

Clear(c) ==
    /\ pc[c] = "clear"
    /\ lk_cpu' = NULL
    /\ Goto(c, "unlock")
    /\ UNCHANGED <<after, from_user, locked, cpu_status, panicstr, bootvars, envvars>>

Unlock(c) ==
    /\ pc[c] = "unlock"
    /\ locked' = 0
    /\ Goto(c, after[c])
    /\ UNCHANGED <<after, from_user, lk_cpu, cpu_status, panicstr, bootvars, envvars>>

Spinlock(c) == Check(c) \/ Xchg(c) \/ Own(c) \/ Release(c) \/ Clear(c) \/ Unlock(c)

-----------------------------------------------------------------------------
(* Boot.                                                                   *)

(* i386_init() takes the lock before it wakes the other processors.        *)
i386_init(c) ==
    /\ pc[c] = "i386_init"
    /\ lock_kernel(c, "boot_aps")
    /\ UNCHANGED <<from_user, lockvars, cpu_status, panicstr, bootvars, envvars>>

(* boot_aps() starts one AP at a time; when none is left, i386_init()      *)
(* creates the first environments and calls sched_yield().                 *)
boot_aps(c) ==
    /\ pc[c] = "boot_aps"
    /\ \/ \E ap \in CPU : /\ pc[ap] = "off"
                          /\ mpentry_kstack' = ap
                          /\ pc' = [pc EXCEPT ![c] = "wait_ap", ![ap] = "mpentry"]
       \/ /\ \A ap \in CPU : pc[ap] # "off"
          /\ Goto(c, "handler")
          /\ UNCHANGED mpentry_kstack
    /\ UNCHANGED <<after, from_user, lockvars, cpu_status, panicstr, kstack, envvars>>

(* Mutant (OwnStack): does not wait for the AP it has just started.        *)
Mut_NoWait(c) ==
    /\ pc[c] = "wait_ap"
    /\ Goto(c, "boot_aps")
    /\ UNCHANGED <<after, from_user, lockvars, cpu_status, panicstr, bootvars, envvars>>

(* while (c->cpu_status != CPU_STARTED) ; for the AP just started, the one *)
(* mpentry_kstack belongs to.                                              *)
wait_ap(c) ==
    /\ pc[c] = "wait_ap"
    /\ cpu_status[mpentry_kstack] = "STARTED"
    /\ Goto(c, "boot_aps")
    /\ UNCHANGED <<after, from_user, lockvars, cpu_status, panicstr, bootvars, envvars>>

mpentry(c) ==
    /\ pc[c] = "mpentry"
    /\ kstack' = [kstack EXCEPT ![c] = mpentry_kstack]
    /\ Goto(c, "mp_main")
    /\ UNCHANGED <<after, from_user, lockvars, cpu_status, panicstr, mpentry_kstack, envvars>>

(* Mutant (BootCompletes): takes the lock before it reports CPU_STARTED,   *)
(* and so waits for the boot CPU, which waits for it.                      *)
Mut_LockThenStart(c) ==
    /\ pc[c] = "mp_main"
    /\ lock_kernel(c, "handler")
    /\ UNCHANGED <<from_user, lockvars, cpu_status, panicstr, bootvars, envvars>>

mp_main(c) ==
    /\ pc[c] = "mp_main"
    /\ cpu_status' = [cpu_status EXCEPT ![c] = "STARTED"]
    /\ lock_kernel(c, "handler")
    /\ UNCHANGED <<from_user, lockvars, panicstr, bootvars, envvars>>

Boot(c) == i386_init(c) \/ boot_aps(c) \/ wait_ap(c) \/ mpentry(c) \/ mp_main(c)

-----------------------------------------------------------------------------
(* Entering the kernel: trap().                                            *)

UserStep(c) ==
    /\ pc[c] = "user"
    /\ regs' = [regs EXCEPT ![c] = Advance(@)]
    /\ progress' = [progress EXCEPT ![curenv[c]] = Advance(@)]
    /\ UNCHANGED <<pc, after, from_user, lockvars, cpu_status, panicstr, bootvars, curenv, env_tf>>

(* An exception, interrupt or system call in user mode, or an interrupt of *)
(* a halted CPU.                                                           *)
TrapEntry(c) ==
    /\ pc[c] \in {"user", "hlt"}
    /\ from_user' = [from_user EXCEPT ![c] = pc[c] = "user"]
    /\ Goto(c, "trap")
    /\ UNCHANGED <<after, lockvars, cpu_status, panicstr, bootvars, envvars>>

(* "Halt the CPU if some other CPU has called panic()": interrupts are off *)
(* here, so the CPU never comes back.                                      *)
CheckPanic(c) ==
    /\ pc[c] = "trap"
    /\ Goto(c, IF panicstr THEN "dead" ELSE "status")
    /\ UNCHANGED <<after, from_user, lockvars, cpu_status, panicstr, bootvars, envvars>>

(* Mutant (HaltedFromKernel): reads cpu_status without writing it back.    *)
Mut_ReadStatus(c) ==
    /\ pc[c] = "status"
    /\ IF cpu_status[c] = "HALTED" THEN lock_kernel(c, "entered")
                                   ELSE Goto(c, "entered") /\ UNCHANGED after
    /\ UNCHANGED <<from_user, lockvars, cpu_status, panicstr, bootvars, envvars>>

XchgStatus(c) ==
    /\ pc[c] = "status"
    /\ cpu_status' = [cpu_status EXCEPT ![c] = "STARTED"]
    /\ IF cpu_status[c] = "HALTED" THEN lock_kernel(c, "entered")
                                   ELSE Goto(c, "entered") /\ UNCHANGED after
    /\ UNCHANGED <<from_user, lockvars, panicstr, bootvars, envvars>>

(* Mutant (MutualExclusion, ImplementsLock): forgets lock_kernel() for a trap from user mode.    *)
Mut_NoLockFromUser(c) ==
    /\ pc[c] = "entered"
    /\ Goto(c, IF from_user[c] THEN "save" ELSE "handler")
    /\ UNCHANGED <<after, from_user, lockvars, cpu_status, panicstr, bootvars, envvars>>

Entered(c) ==
    /\ pc[c] = "entered"
    /\ IF from_user[c] THEN lock_kernel(c, "save")
                       ELSE Goto(c, "handler") /\ UNCHANGED after
    /\ UNCHANGED <<from_user, lockvars, cpu_status, panicstr, bootvars, envvars>>

(* curenv->env_tf = *tf                                                    *)
Save(c) ==
    /\ pc[c] = "save"
    /\ env_tf' = [env_tf EXCEPT ![curenv[c]] = regs[c]]
    /\ Goto(c, "handler")
    /\ UNCHANGED <<after, from_user, lockvars, cpu_status, panicstr, bootvars,
                   curenv, regs, progress>>

(* curenv was destroyed while it ran: it is freed, and the next environment *)
(* in its slot starts from a frame of its own.                             *)
Zombie(c) ==
    /\ pc[c] = "save"
    /\ curenv' = [curenv EXCEPT ![c] = NULL]
    /\ env_tf' = [env_tf EXCEPT ![curenv[c]] = 0]
    /\ progress' = [progress EXCEPT ![curenv[c]] = 0]
    /\ Goto(c, "handler")
    /\ UNCHANGED <<after, from_user, lockvars, cpu_status, panicstr, bootvars, regs>>

Trap(c) ==
    TrapEntry(c) \/ CheckPanic(c) \/ XchgStatus(c) \/ Entered(c) \/ Save(c) \/ Zombie(c)

-----------------------------------------------------------------------------
(* Leaving it.                                                             *)

(* Mutant (ResumeExact): runs an environment that another CPU is running.  *)
Mut_RunAny(c) ==
    /\ pc[c] = "handler"
    /\ \E e \in ENVS : curenv' = [curenv EXCEPT ![c] = e]
    /\ unlock_kernel(c, "pop_tf")
    /\ UNCHANGED <<from_user, lockvars, cpu_status, panicstr, bootvars, env_tf, regs, progress>>

env_run(c) ==
    /\ pc[c] = "handler"
    /\ \E e \in ENVS : /\ \A d \in CPU \ {c} : curenv[d] # e
                       /\ curenv' = [curenv EXCEPT ![c] = e]
    /\ unlock_kernel(c, "pop_tf")
    /\ UNCHANGED <<from_user, lockvars, cpu_status, panicstr, bootvars, env_tf, regs, progress>>

sched_halt(c) ==
    /\ pc[c] = "handler"
    /\ curenv' = [curenv EXCEPT ![c] = NULL]
    /\ cpu_status' = [cpu_status EXCEPT ![c] = "HALTED"]
    /\ unlock_kernel(c, "hlt")
    /\ UNCHANGED <<from_user, lockvars, panicstr, bootvars, env_tf, regs, progress>>

(* sched_halt() with nothing to run, or panic(): monitor() for ever, with  *)
(* the lock.                                                               *)
Stop(c) ==
    /\ pc[c] = "handler"
    /\ panicstr' \in {panicstr, TRUE}
    /\ Goto(c, "monitor")
    /\ UNCHANGED <<after, from_user, lockvars, cpu_status, bootvars, envvars>>

(* env_pop_tf() reads the frame of curenv after the lock is released.      *)
env_pop_tf(c) ==
    /\ pc[c] = "pop_tf"
    /\ regs' = [regs EXCEPT ![c] = env_tf[curenv[c]]]
    /\ Goto(c, "user")
    /\ UNCHANGED <<after, from_user, lockvars, cpu_status, panicstr, bootvars,
                   curenv, env_tf, progress>>

Leave(c) == env_run(c) \/ sched_halt(c) \/ env_pop_tf(c)

Next == \E c \in CPU :
    Spinlock(c) \/ Boot(c) \/ UserStep(c) \/ Trap(c) \/ Leave(c) \/ Stop(c)

Spec == Init /\ [][Next]_vars

(* Every CPU executes its instructions.  Nothing makes spin_lock() fair:   *)
(* Xchg is only weakly fair, and a CPU may lose every race for the lock.   *)
FairSpec == Spec /\ \A c \in CPU : WF_vars(Spinlock(c) \/ Boot(c))

-----------------------------------------------------------------------------
(* Properties.                                                             *)

TypeOK ==
    /\ pc \in [CPU -> Acquiring \cup Releasing \cup Running \cup Outside]
    /\ after \in [CPU -> {"boot_aps", "handler", "entered", "save", "pop_tf", "hlt"}]
    /\ from_user \in [CPU -> BOOLEAN]
    /\ locked \in {0, 1} /\ lk_cpu \in CPU \cup {NULL}
    /\ cpu_status \in [CPU -> {"UNUSED", "STARTED", "HALTED"}]
    /\ panicstr \in BOOLEAN
    /\ mpentry_kstack \in CPU \cup {NULL}
    /\ kstack \in [CPU -> CPU \cup {NULL}]
    /\ curenv \in [CPU -> ENVS \cup {NULL}]
    /\ env_tf \in [ENVS -> {0, 1}] /\ regs \in [CPU -> {0, 1}]
    /\ progress \in [ENVS -> {0, 1}]

(* The lock is held from the exchange that takes it to the one that gives  *)
(* it back; "entered" is in the kernel with the lock only for a CPU that   *)
(* was halted, and without it for a trap from user mode.                   *)
Holds(c) ==
    \/ pc[c] \in (Running \ {"entered"}) \cup Releasing
    \/ pc[c] = "entered" /\ ~from_user[c]

(* No two CPUs are in the kernel at once: every handler of module Env runs *)
(* alone, from the exchange that takes the lock to the one that frees it.  *)
MutualExclusion == \A c, d \in CPU : Holds(c) /\ Holds(d) => c = d

(* The debugging panics of spin_lock() ("already holding") and             *)
(* spin_unlock() ("cannot release") never happen: holding() reads the two   *)
(* words of the lock one after the other, without owning it, and is still  *)
(* right on every CPU whoever takes or releases it in between.             *)
NoLockPanic == \A c \in CPU : pc[c] # "lock_panic"

(* A CPU marked CPU_HALTED is on its way to hlt or woken from it: its next *)
(* trap comes from the kernel, so trap() takes the lock exactly once.      *)
HaltedFromKernel ==
    \A c \in CPU : cpu_status[c] = "HALTED" =>
       \/ pc[c] \in Releasing /\ after[c] = "hlt"
       \/ pc[c] \in {"hlt", "dead"}
       \/ pc[c] \in {"trap", "status"} /\ ~from_user[c]

(* Every way into the kernel takes the lock exactly once, and every way    *)
(* out gives it back once: guided by cpu_status and by who traps, no CPU   *)
(* panics on a lock it holds or has not got (trap(), sched_halt()).        *)
LockTakenOnce == NoLockPanic /\ HaltedFromKernel

(* An environment resumes exactly where it was stopped, although its frame *)
(* is read after the lock is released: no CPU runs with another one's or   *)
(* an older frame.                                                         *)
ResumeExact == \A c \in CPU : pc[c] = "user" => regs[c] = progress[curenv[c]]

(* Every AP starts on its own kernel stack, though all read theirs from    *)
(* the one variable mpentry_kstack.                                        *)
OwnStack == \A c \in CPU : kstack[c] \in {c, NULL}

(* Boot never hangs: an AP can report CPU_STARTED while the boot CPU holds *)
(* the lock, and cannot become CPU_HALTED before the boot CPU has seen it. *)
BootCompletes == <>(\A c \in CPU : cpu_status[c] # "UNUSED")
                 /\ <>(pc[BSP] = "handler")

(* The owner as KernelLock sees it.                                        *)
Owner == IF locked = 0 THEN NULL ELSE CHOOSE c \in CPU : Holds(c)

Lock == INSTANCE KernelLock WITH owner <- Owner

(* The processors implement the lock KernelLock specifies.                 *)
ImplementsLock == Lock!Spec
=============================================================================
