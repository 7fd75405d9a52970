---------------------------- MODULE SmpProofs ----------------------------
(***************************************************************************)
(* Safety of module Smp for every number of processors and environments,   *)
(* and that it implements KernelLock.                                      *)
(*                                                                         *)
(* The invariant has four parts: what each CPU knows of itself, who has    *)
(* the lock, which frame is whose, and how far the boot has come.          *)
(***************************************************************************)
EXTENDS Smp, TLAPS

(* On its way to hlt, halted, or woken and not yet past xchg().            *)
HaltPath(c) ==
    \/ pc[c] \in Releasing /\ after[c] = "hlt"
    \/ pc[c] = "hlt"
    \/ pc[c] \in {"trap", "status", "dead"} /\ ~from_user[c]

Getting(c) == pc[c] \in Acquiring \cup {"own"}

CpuInv == \A c \in CPU :
    /\ Getting(c) => after[c] \in {"boot_aps", "handler", "entered", "save"}
    /\ Getting(c) /\ after[c] = "entered" => ~from_user[c]
    /\ pc[c] \in Releasing => after[c] \in {"pop_tf", "hlt"}
    /\ cpu_status[c] = "HALTED" <=> HaltPath(c)
    /\ pc[c] \in {"off", "mpentry"} => cpu_status[c] = "UNUSED"

LockInv ==
    /\ MutualExclusion
    /\ locked = 1 <=> \E c \in CPU : Holds(c)
    /\ \A c \in CPU : lk_cpu = c <=> Holds(c) /\ pc[c] \notin {"own", "unlock"}

(* The registers of c are those of its environment: it runs, or is on its  *)
(* way to save them.                                                       *)
Live(c) ==
    \/ pc[c] \in {"user", "save"}
    \/ pc[c] \in {"trap", "status", "entered", "dead"} /\ from_user[c]
    \/ Getting(c) /\ after[c] = "save"

Resuming(c) ==
    \/ pc[c] = "pop_tf"
    \/ pc[c] \in Releasing /\ after[c] = "pop_tf"

FrameInv ==
    /\ \A c, d \in CPU : curenv[c] # NULL /\ curenv[c] = curenv[d] => c = d
    /\ \A c \in CPU : Live(c) \/ Resuming(c) => curenv[c] # NULL
    /\ \A c \in CPU : Live(c) => regs[c] = progress[curenv[c]]
    /\ \A e \in ENVS : env_tf[e] = progress[e] \/ \E c \in CPU : Live(c) /\ curenv[c] = e

BootInv ==
    /\ OwnStack
    /\ \A c \in CPU : /\ pc[c] \in {"i386_init", "boot_aps", "wait_ap"} => c = BSP
                      /\ Getting(c) /\ after[c] = "boot_aps" => c = BSP
    /\ pc[BSP] = "wait_ap" => mpentry_kstack # NULL
    /\ \A c \in CPU : pc[c] = "mpentry" => mpentry_kstack = c /\ pc[BSP] = "wait_ap"

IInv == TypeOK /\ NoLockPanic /\ CpuInv /\ LockInv /\ FrameInv /\ BootInv

(* A CPU that waits for the lock finds somebody else in lk->cpu, whatever  *)
(* happened since it read lk->locked, and one that releases it finds       *)
(* itself.                                                                 *)
LEMMA HoldingExact ==
    ASSUME IInv, NEW c \in CPU
    PROVE  /\ pc[c] = "check_cpu" => lk_cpu # c
           /\ pc[c] = "release" => locked = 1
           /\ pc[c] = "release_cpu" => lk_cpu = c
BY DEF IInv, LockInv, Holds, Acquiring, Releasing, Running

(* So each check goes on to its second load or is passed.                  *)
LEMMA CheckPasses ==
    ASSUME IInv, NEW c \in CPU, Check(c)
    PROVE  \E l \in {"check_cpu", "xchg"} :
              pc[c] \in {"check", "check_cpu"} /\ pc' = [pc EXCEPT ![c] = l]
BY HoldingExact DEF Check, load_locked, load_cpu, Goto

LEMMA ReleasePasses ==
    ASSUME IInv, NEW c \in CPU, Release(c)
    PROVE  \E l \in {"release_cpu", "clear"} :
              pc[c] \in {"release", "release_cpu"} /\ pc' = [pc EXCEPT ![c] = l]
BY HoldingExact DEF Release, load_locked, load_cpu, Goto

-----------------------------------------------------------------------------
(* The lock.                                                               *)

LEMMA SpinlockInv ==
    ASSUME IInv, SmpAssumption, NEW c \in CPU, Spinlock(c)
    PROVE  IInv'
<1> USE DEF Goto
<1>1. CASE Check(c)
  <2>1. \E l \in {"check_cpu", "xchg"} :
           pc[c] \in {"check", "check_cpu"} /\ pc' = [pc EXCEPT ![c] = l]
    BY <1>1, CheckPasses
  <2>2. TypeOK' /\ NoLockPanic'
    BY <1>1, <2>1 DEF IInv, TypeOK, NoLockPanic, Check, load_locked, load_cpu, lockvars, bootvars, envvars, Acquiring
  <2>3. CpuInv'
    BY <1>1, <2>1 DEF IInv, TypeOK, CpuInv, Getting, HaltPath, Check, load_locked, load_cpu, lockvars, bootvars,
                      envvars, Acquiring, Releasing
  <2>4. \A d \in CPU : Holds(d)' <=> Holds(d)
    BY <1>1, <2>1 DEF IInv, TypeOK, Holds, Check, load_locked, load_cpu, lockvars, bootvars, envvars, Acquiring,
                      Releasing, Running
  <2>5. LockInv'
    BY <1>1, <2>1, <2>4 DEF IInv, TypeOK, LockInv, MutualExclusion, Check, load_locked, load_cpu, lockvars
  <2>6. FrameInv' /\ BootInv'
    BY <1>1, <2>1 DEF IInv, TypeOK, FrameInv, BootInv, OwnStack, Live, Resuming, Getting, Check, load_locked, load_cpu,
                      lockvars, bootvars, envvars, Acquiring, Releasing
  <2> QED BY <2>2, <2>3, <2>5, <2>6 DEF IInv
<1>2. CASE Xchg(c)
  <2>1. TypeOK' /\ NoLockPanic' /\ CpuInv'
    BY <1>2 DEF IInv, TypeOK, NoLockPanic, CpuInv, Getting, HaltPath, Xchg, lockvars, bootvars,
                envvars, Acquiring, Releasing, Running
  <2>2. \A d \in CPU : Holds(d)' <=> d = c
    BY <1>2 DEF IInv, TypeOK, LockInv, Holds, Xchg, Acquiring, Releasing, Running
  <2>3. LockInv'
    BY <1>2, <2>2 DEF IInv, TypeOK, LockInv, MutualExclusion, Holds, Xchg, Running
  <2>4. FrameInv' /\ BootInv'
    BY <1>2 DEF IInv, TypeOK, FrameInv, BootInv, OwnStack, Live, Resuming, Getting, Xchg,
                lockvars, bootvars, envvars, Acquiring, Releasing
  <2> QED BY <2>1, <2>3, <2>4 DEF IInv
<1>3. CASE Own(c)
  <2>1. TypeOK' /\ NoLockPanic' /\ CpuInv'
    BY <1>3 DEF IInv, TypeOK, NoLockPanic, CpuInv, Getting, HaltPath, Own, lockvars, bootvars,
                envvars, Acquiring, Releasing, Running
  <2>2. \A d \in CPU : Holds(d)' <=> Holds(d)
    BY <1>3 DEF IInv, TypeOK, CpuInv, Getting, Holds, Own, Acquiring, Releasing, Running
  <2>3. \A d \in CPU : Holds(d) <=> d = c
    BY <1>3 DEF IInv, LockInv, MutualExclusion, Holds, Own, Running
  <2>4. LockInv'
    BY <1>3, <2>2, <2>3 DEF IInv, TypeOK, CpuInv, Getting, LockInv, MutualExclusion, Own
  <2>5. FrameInv' /\ BootInv'
    BY <1>3 DEF IInv, TypeOK, CpuInv, FrameInv, BootInv, OwnStack, Live, Resuming, Getting, Own,
                lockvars, bootvars, envvars, Acquiring, Releasing
  <2> QED BY <2>1, <2>4, <2>5 DEF IInv
<1>4. CASE Release(c)
  <2>1. \E l \in {"release_cpu", "clear"} :
           pc[c] \in {"release", "release_cpu"} /\ pc' = [pc EXCEPT ![c] = l]
    BY <1>4, ReleasePasses
  <2>2. TypeOK' /\ NoLockPanic' /\ CpuInv'
    BY <1>4, <2>1 DEF IInv, TypeOK, NoLockPanic, CpuInv, Getting, HaltPath, Release, load_locked, load_cpu, lockvars,
                      bootvars, envvars, Acquiring, Releasing, Running
  <2>3. \A d \in CPU : Holds(d)' <=> Holds(d)
    BY <1>4, <2>1 DEF IInv, TypeOK, Holds, Release, load_locked, load_cpu, Releasing, Running
  <2>4. LockInv'
    BY <1>4, <2>1, <2>3 DEF IInv, TypeOK, LockInv, MutualExclusion, Release, load_locked, load_cpu, lockvars
  <2>5. FrameInv' /\ BootInv'
    BY <1>4, <2>1 DEF IInv, TypeOK, FrameInv, BootInv, OwnStack, Live, Resuming, Getting,
                      Release, load_locked, load_cpu, lockvars, bootvars, envvars, Acquiring, Releasing
  <2> QED BY <2>2, <2>4, <2>5 DEF IInv
<1>5. CASE Clear(c)
  <2>1. TypeOK' /\ NoLockPanic' /\ CpuInv'
    BY <1>5 DEF IInv, TypeOK, NoLockPanic, CpuInv, Getting, HaltPath, Clear, lockvars, bootvars,
                envvars, Acquiring, Releasing, Running
  <2>2. \A d \in CPU : Holds(d)' <=> Holds(d)
    BY <1>5 DEF IInv, TypeOK, Holds, Clear, Releasing, Running
  <2>3. \A d \in CPU : Holds(d) <=> d = c
    BY <1>5 DEF IInv, LockInv, MutualExclusion, Holds, Clear, Releasing, Running
  <2>4. LockInv'
    BY <1>5, <2>2, <2>3 DEF SmpAssumption, IInv, TypeOK, LockInv, MutualExclusion, Clear
  <2>5. FrameInv' /\ BootInv'
    BY <1>5 DEF IInv, TypeOK, FrameInv, BootInv, OwnStack, Live, Resuming, Getting, Clear,
                lockvars, bootvars, envvars, Acquiring, Releasing
  <2> QED BY <2>1, <2>4, <2>5 DEF IInv
<1>6. CASE Unlock(c)
  <2>1. TypeOK' /\ NoLockPanic' /\ CpuInv'
    BY <1>6 DEF IInv, TypeOK, NoLockPanic, CpuInv, Getting, HaltPath, Unlock, lockvars, bootvars,
                envvars, Acquiring, Releasing, Running, Outside
  <2>2. \A d \in CPU : Holds(d) <=> d = c
    BY <1>6 DEF IInv, LockInv, MutualExclusion, Holds, Unlock, Releasing, Running
  <2>3. \A d \in CPU : ~Holds(d)'
    BY <1>6, <2>2 DEF IInv, TypeOK, CpuInv, Holds, Unlock, Releasing, Running
  <2>4. LockInv'
    BY <1>6, <2>2, <2>3 DEF IInv, TypeOK, LockInv, MutualExclusion, Unlock
  <2>5. FrameInv' /\ BootInv'
    BY <1>6 DEF IInv, TypeOK, CpuInv, FrameInv, BootInv, OwnStack, Live, Resuming, Getting,
                Unlock, lockvars, bootvars, envvars, Acquiring, Releasing
  <2> QED BY <2>1, <2>4, <2>5 DEF IInv
<1> QED BY <1>1, <1>2, <1>3, <1>4, <1>5, <1>6 DEF Spinlock

-----------------------------------------------------------------------------
(* The steps that neither take the lock nor give it back leave who has it  *)
(* as it was.                                                              *)

LEMMA SameHolders ==
    ASSUME LockInv, UNCHANGED lockvars,
           \A d \in CPU : Holds(d)' <=> Holds(d),
           \A d \in CPU : Holds(d) => (pc'[d] \in {"own", "unlock"} <=> pc[d] \in {"own", "unlock"})
    PROVE  LockInv'
BY DEF LockInv, MutualExclusion, lockvars

LEMMA BootStepInv ==
    ASSUME IInv, SmpAssumption, NEW c \in CPU, Boot(c)
    PROVE  IInv'
<1> USE DEF Goto, lock_kernel
<1>1. CASE i386_init(c)
  <2>1. TypeOK' /\ NoLockPanic' /\ CpuInv'
    BY <1>1 DEF IInv, TypeOK, NoLockPanic, CpuInv, Getting, HaltPath, i386_init, lockvars,
                bootvars, envvars, Acquiring, Releasing, Running, Outside
  <2>2. LockInv'
    BY <1>1, SameHolders DEF IInv, TypeOK, Holds, i386_init, Acquiring, Releasing, Running
  <2>3. FrameInv' /\ BootInv'
    BY <1>1 DEF IInv, TypeOK, FrameInv, BootInv, OwnStack, Live, Resuming, Getting, i386_init,
                lockvars, bootvars, envvars, Acquiring, Releasing
  <2> QED BY <2>1, <2>2, <2>3 DEF IInv
<1>2. ASSUME pc[c] = "boot_aps", NEW ap \in CPU, pc[ap] = "off", mpentry_kstack' = ap,
             pc' = [pc EXCEPT ![c] = "wait_ap", ![ap] = "mpentry"],
             UNCHANGED <<after, from_user, lockvars, cpu_status, panicstr, kstack, envvars>>
      PROVE  IInv'
  <2>1. TypeOK' /\ NoLockPanic' /\ CpuInv'
    BY <1>2 DEF IInv, TypeOK, NoLockPanic, CpuInv, Getting, HaltPath, lockvars, envvars,
                Acquiring, Releasing, Running, Outside
  <2>2. LockInv'
    BY <1>2, SameHolders DEF IInv, TypeOK, Holds, Releasing, Running
  <2>3. FrameInv'
    BY <1>2 DEF IInv, TypeOK, FrameInv, Live, Resuming, Getting, envvars, Acquiring, Releasing
  <2>4. BootInv'
    BY <1>2 DEF IInv, TypeOK, SmpAssumption, BootInv, OwnStack, Getting, Acquiring
  <2> QED BY <2>1, <2>2, <2>3, <2>4 DEF IInv
<1>3. ASSUME pc[c] = "boot_aps", Goto(c, "handler"), UNCHANGED mpentry_kstack,
             UNCHANGED <<after, from_user, lockvars, cpu_status, panicstr, kstack, envvars>>
      PROVE  IInv'
  <2>1. TypeOK' /\ NoLockPanic' /\ CpuInv'
    BY <1>3 DEF IInv, TypeOK, NoLockPanic, CpuInv, Getting, HaltPath, lockvars, envvars,
                Acquiring, Releasing, Running
  <2>2. LockInv'
    BY <1>3, SameHolders DEF IInv, TypeOK, Holds, Releasing, Running
  <2>3. FrameInv' /\ BootInv'
    BY <1>3 DEF IInv, TypeOK, FrameInv, BootInv, OwnStack, Live, Resuming, Getting, envvars,
                Acquiring, Releasing
  <2> QED BY <2>1, <2>2, <2>3 DEF IInv
<1>4. CASE wait_ap(c)
  <2>1. TypeOK' /\ NoLockPanic' /\ CpuInv'
    BY <1>4 DEF IInv, TypeOK, NoLockPanic, CpuInv, Getting, HaltPath, wait_ap, lockvars,
                bootvars, envvars, Acquiring, Releasing, Running
  <2>2. LockInv'
    BY <1>4, SameHolders DEF IInv, TypeOK, Holds, wait_ap, Releasing, Running
  <2>3. FrameInv'
    BY <1>4 DEF IInv, TypeOK, FrameInv, Live, Resuming, Getting, wait_ap, envvars, Acquiring,
                Releasing
  <2>4. \A d \in CPU : pc[d] # "mpentry"
    BY <1>4 DEF IInv, BootInv, CpuInv, wait_ap
  <2>5. BootInv'
    BY <1>4, <2>4 DEF IInv, TypeOK, SmpAssumption, BootInv, OwnStack, Getting, wait_ap, bootvars,
                      Acquiring
  <2> QED BY <2>1, <2>2, <2>3, <2>5 DEF IInv
<1>5. CASE mpentry(c)
  <2>1. TypeOK' /\ NoLockPanic' /\ CpuInv'
    BY <1>5 DEF IInv, TypeOK, NoLockPanic, CpuInv, Getting, HaltPath, mpentry, lockvars, envvars,
                Acquiring, Releasing, Running, Outside
  <2>2. LockInv'
    BY <1>5, SameHolders DEF IInv, TypeOK, Holds, mpentry, Releasing, Running
  <2>3. FrameInv' /\ BootInv'
    BY <1>5 DEF IInv, TypeOK, FrameInv, BootInv, OwnStack, Live, Resuming, Getting, mpentry,
                envvars, Acquiring, Releasing
  <2> QED BY <2>1, <2>2, <2>3 DEF IInv
<1>6. CASE mp_main(c)
  <2>1. TypeOK' /\ NoLockPanic' /\ CpuInv'
    BY <1>6 DEF IInv, TypeOK, NoLockPanic, CpuInv, Getting, HaltPath, mp_main, lockvars,
                bootvars, envvars, Acquiring, Releasing, Running, Outside
  <2>2. LockInv'
    BY <1>6, SameHolders DEF IInv, TypeOK, Holds, mp_main, Acquiring, Releasing, Running
  <2>3. FrameInv' /\ BootInv'
    BY <1>6 DEF IInv, TypeOK, FrameInv, BootInv, OwnStack, Live, Resuming, Getting, mp_main,
                bootvars, envvars, Acquiring, Releasing
  <2> QED BY <2>1, <2>2, <2>3 DEF IInv
<1>7. CASE boot_aps(c)
  BY <1>2, <1>3, <1>7 DEF boot_aps
<1> QED BY <1>1, <1>4, <1>5, <1>6, <1>7 DEF Boot

-----------------------------------------------------------------------------
(* User mode, and the way into the kernel.                                 *)

LEMMA UserStepInv ==
    ASSUME IInv, SmpAssumption, NEW c \in CPU, UserStep(c)
    PROVE  IInv'
<1>1. curenv[c] \in ENVS
  BY DEF IInv, TypeOK, FrameInv, Live, UserStep
<1>2. TypeOK' /\ NoLockPanic' /\ CpuInv' /\ LockInv' /\ BootInv'
  BY <1>1 DEF IInv, TypeOK, NoLockPanic, CpuInv, LockInv, MutualExclusion, Holds, BootInv, OwnStack,
              Getting, HaltPath, UserStep, Advance, lockvars, bootvars
<1>3. FrameInv'
  BY <1>1 DEF IInv, TypeOK, FrameInv, Live, Resuming, Getting, UserStep, Advance
<1> QED BY <1>2, <1>3 DEF IInv

LEMMA TrapInv ==
    ASSUME IInv, SmpAssumption, NEW c \in CPU, Trap(c)
    PROVE  IInv'
<1> USE DEF Goto, lock_kernel
<1>1. CASE TrapEntry(c)
  <2>1. TypeOK' /\ NoLockPanic' /\ CpuInv'
    BY <1>1 DEF IInv, TypeOK, NoLockPanic, CpuInv, Getting, HaltPath, TrapEntry, lockvars,
                bootvars, envvars, Acquiring, Releasing, Running, Outside
  <2>2. LockInv'
    BY <1>1, SameHolders DEF IInv, TypeOK, Holds, TrapEntry, Releasing, Running
  <2>3. \A d \in CPU : (Live(d)' <=> Live(d)) /\ (Resuming(d)' <=> Resuming(d))
    <3>1. \A d \in CPU \ {c} : pc'[d] = pc[d] /\ from_user'[d] = from_user[d] /\ after'[d] = after[d]
      BY <1>1 DEF IInv, TypeOK, TrapEntry
    <3>2. pc'[c] = "trap" /\ pc[c] \in {"user", "hlt"} /\ (from_user'[c] <=> pc[c] = "user")
      BY <1>1 DEF IInv, TypeOK, TrapEntry
    <3> QED BY <3>1, <3>2 DEF Live, Resuming, Getting, Acquiring, Releasing
  <2>5. FrameInv'
    BY <1>1, <2>3 DEF IInv, FrameInv, TrapEntry, envvars
  <2>4. BootInv'
    BY <1>1 DEF IInv, TypeOK, BootInv, OwnStack, Getting, TrapEntry, bootvars, Acquiring
  <2> QED BY <2>1, <2>2, <2>4, <2>5 DEF IInv
<1>2. CASE CheckPanic(c)
  <2>1. TypeOK' /\ NoLockPanic' /\ CpuInv'
    BY <1>2 DEF IInv, TypeOK, NoLockPanic, CpuInv, Getting, HaltPath, CheckPanic, lockvars,
                bootvars, envvars, Acquiring, Releasing, Running, Outside
  <2>2. LockInv'
    BY <1>2, SameHolders DEF IInv, TypeOK, Holds, CheckPanic, Releasing, Running
  <2>3. FrameInv' /\ BootInv'
    BY <1>2 DEF IInv, TypeOK, FrameInv, BootInv, OwnStack, Live, Resuming, Getting, CheckPanic,
                bootvars, envvars, Acquiring, Releasing
  <2> QED BY <2>1, <2>2, <2>3 DEF IInv
<1>3. CASE XchgStatus(c)
  <2>1. from_user[c] <=> cpu_status[c] # "HALTED"
    BY <1>3 DEF IInv, CpuInv, TypeOK, HaltPath, XchgStatus, Releasing
  <2>2. TypeOK' /\ NoLockPanic' /\ CpuInv'
    BY <1>3, <2>1 DEF IInv, TypeOK, NoLockPanic, CpuInv, Getting, HaltPath, XchgStatus, lockvars,
                      bootvars, envvars, Acquiring, Releasing, Running, Outside
  <2>3. LockInv'
    BY <1>3, <2>1, SameHolders DEF IInv, TypeOK, Holds, XchgStatus, Acquiring, Releasing, Running
  <2>4. FrameInv' /\ BootInv'
    BY <1>3, <2>1 DEF IInv, TypeOK, FrameInv, BootInv, OwnStack, Live, Resuming, Getting,
                      XchgStatus, bootvars, envvars, Acquiring, Releasing
  <2> QED BY <2>2, <2>3, <2>4 DEF IInv
<1>4. CASE Entered(c)
  <2>1. TypeOK' /\ NoLockPanic' /\ CpuInv'
    BY <1>4 DEF IInv, TypeOK, NoLockPanic, CpuInv, Getting, HaltPath, Entered, lockvars,
                bootvars, envvars, Acquiring, Releasing, Running
  <2>2. LockInv'
    BY <1>4, SameHolders DEF IInv, TypeOK, Holds, Entered, Acquiring, Releasing, Running
  <2>3. FrameInv' /\ BootInv'
    BY <1>4 DEF IInv, TypeOK, FrameInv, BootInv, OwnStack, Live, Resuming, Getting, Entered,
                bootvars, envvars, Acquiring, Releasing
  <2> QED BY <2>1, <2>2, <2>3 DEF IInv
<1>5. CASE Save(c) \/ Zombie(c)
  <2>1. curenv[c] \in ENVS /\ pc[c] = "save" /\ pc' = [pc EXCEPT ![c] = "handler"]
    BY <1>5 DEF IInv, TypeOK, FrameInv, Live, Save, Zombie
  <2>2. TypeOK' /\ NoLockPanic' /\ CpuInv'
    BY <1>5, <2>1 DEF IInv, TypeOK, NoLockPanic, CpuInv, Getting, HaltPath, Save, Zombie,
                      lockvars, bootvars, Acquiring, Releasing, Running
  <2>3. LockInv'
    BY <1>5, <2>1, SameHolders DEF IInv, TypeOK, Holds, Save, Zombie, Releasing, Running
  <2>4. ASSUME Save(c) PROVE FrameInv'
    BY <2>1, <2>4 DEF IInv, TypeOK, FrameInv, Live, Resuming, Getting, Save, Acquiring, Releasing
  <2>5. ASSUME Zombie(c) PROVE FrameInv'
    BY <2>1, <2>5 DEF IInv, TypeOK, FrameInv, Live, Resuming, Getting, Zombie, Acquiring, Releasing
  <2>6. BootInv'
    BY <1>5, <2>1 DEF IInv, TypeOK, BootInv, OwnStack, Getting, Save, Zombie, bootvars, Acquiring
  <2> QED BY <1>5, <2>2, <2>3, <2>4, <2>5, <2>6 DEF IInv
<1> QED BY <1>1, <1>2, <1>3, <1>4, <1>5 DEF Trap

-----------------------------------------------------------------------------
(* The ways out of it.                                                     *)

LEMMA LeaveInv ==
    ASSUME IInv, SmpAssumption, NEW c \in CPU, Leave(c) \/ Stop(c)
    PROVE  IInv'
<1> USE DEF Goto, unlock_kernel
<1>1. CASE env_run(c)
  <2>1. TypeOK' /\ NoLockPanic' /\ CpuInv'
    BY <1>1 DEF IInv, TypeOK, NoLockPanic, CpuInv, Getting, HaltPath, env_run, lockvars,
                bootvars, Acquiring, Releasing, Running
  <2>2. LockInv'
    BY <1>1, SameHolders DEF IInv, TypeOK, Holds, env_run, Releasing, Running
  <2>3. FrameInv' /\ BootInv'
    BY <1>1 DEF SmpAssumption, IInv, TypeOK, FrameInv, BootInv, OwnStack, Live, Resuming,
                Getting, env_run, bootvars, Acquiring, Releasing
  <2> QED BY <2>1, <2>2, <2>3 DEF IInv
<1>2. CASE sched_halt(c)
  <2>1. TypeOK' /\ NoLockPanic' /\ CpuInv'
    BY <1>2 DEF IInv, TypeOK, NoLockPanic, CpuInv, Getting, HaltPath, sched_halt, lockvars,
                bootvars, Acquiring, Releasing, Running
  <2>2. LockInv'
    BY <1>2, SameHolders DEF IInv, TypeOK, Holds, sched_halt, Releasing, Running
  <2>3. FrameInv' /\ BootInv'
    BY <1>2 DEF SmpAssumption, IInv, TypeOK, FrameInv, BootInv, OwnStack, Live, Resuming,
                Getting, sched_halt, bootvars, Acquiring, Releasing
  <2> QED BY <2>1, <2>2, <2>3 DEF IInv
<1>3. CASE env_pop_tf(c)
  <2>1. curenv[c] \in ENVS
    BY <1>3 DEF IInv, TypeOK, FrameInv, Resuming, env_pop_tf
  <2>2. TypeOK' /\ NoLockPanic' /\ CpuInv'
    BY <1>3, <2>1 DEF IInv, TypeOK, NoLockPanic, CpuInv, Getting, HaltPath, env_pop_tf, lockvars,
                      bootvars, Acquiring, Releasing, Outside
  <2>3. LockInv'
    BY <1>3, SameHolders DEF IInv, TypeOK, Holds, env_pop_tf, Releasing, Running
  <2>4. FrameInv' /\ BootInv'
    BY <1>3, <2>1 DEF IInv, TypeOK, FrameInv, BootInv, OwnStack, Live, Resuming, Getting,
                      env_pop_tf, bootvars, Acquiring, Releasing
  <2> QED BY <2>2, <2>3, <2>4 DEF IInv
<1>4. CASE Stop(c)
  <2>1. TypeOK' /\ NoLockPanic' /\ CpuInv'
    BY <1>4 DEF IInv, TypeOK, NoLockPanic, CpuInv, Getting, HaltPath, Stop, lockvars, bootvars,
                envvars, Acquiring, Releasing, Running
  <2>2. LockInv'
    BY <1>4, SameHolders DEF IInv, TypeOK, Holds, Stop, Releasing, Running
  <2>3. FrameInv' /\ BootInv'
    BY <1>4 DEF IInv, TypeOK, FrameInv, BootInv, OwnStack, Live, Resuming, Getting, Stop,
                bootvars, envvars, Acquiring, Releasing
  <2> QED BY <2>1, <2>2, <2>3 DEF IInv
<1> QED BY <1>1, <1>2, <1>3, <1>4 DEF Leave

-----------------------------------------------------------------------------
(* The theorems.                                                           *)

LEMMA InitInv == SmpAssumption /\ Init => IInv
<1> SUFFICES ASSUME SmpAssumption, Init PROVE IInv
  OBVIOUS
<1>1. TypeOK /\ NoLockPanic
  BY DEF SmpAssumption, Init, TypeOK, NoLockPanic, Running, Outside
<1>2. \A c \in CPU : pc[c] \in {"i386_init",
"off"} /\ cpu_status[c] # "HALTED" /\ (pc[c] = "i386_init" <=> c = BSP)
  BY DEF Init
<1>3. CpuInv
  BY <1>2 DEF Init, CpuInv, Getting, HaltPath, Acquiring, Releasing
<1>4. LockInv
  BY <1>2 DEF SmpAssumption, Init, LockInv, MutualExclusion, Holds, Running, Releasing
<1>5. FrameInv
  BY <1>2 DEF Init, FrameInv, Live, Resuming, Getting, Acquiring, Releasing
<1>6. BootInv
  BY <1>2 DEF SmpAssumption, Init, BootInv, OwnStack, Getting, Acquiring
<1> QED BY <1>1, <1>3, <1>4, <1>5, <1>6 DEF IInv

(* The invariant holds in every reachable state, whoever takes the lock    *)
(* next and however slow each CPU is.                                      *)
THEOREM Invariance == Spec => []IInv
<1> USE SmpAssumption
<1>1. IInv /\ [Next]_vars => IInv'
  <2> SUFFICES ASSUME IInv, [Next]_vars PROVE IInv'
    OBVIOUS
  <2>1. CASE UNCHANGED vars
    BY <2>1 DEF IInv, TypeOK, NoLockPanic, CpuInv, LockInv, MutualExclusion, Holds,
                FrameInv, BootInv,
                OwnStack, Live, Resuming, Getting, HaltPath, vars, lockvars, bootvars, envvars
  <2>2. CASE Next
    BY <2>2, SpinlockInv, BootStepInv, UserStepInv, TrapInv, LeaveInv DEF Next
  <2> QED BY <2>1, <2>2
<1> QED BY InitInv, <1>1, PTL DEF Spec

(* Every variable of the processors keeps its type.                        *)
THEOREM TypeCorrect == Spec => []TypeOK
<1>1. IInv => TypeOK
  BY DEF IInv
<1> QED BY Invariance, <1>1, PTL

(* At most one CPU is inside the kernel (kern/spinlock.c).                 *)
THEOREM MutualExclusionTheorem == Spec => []MutualExclusion
<1>1. IInv => MutualExclusion
  BY DEF IInv, LockInv
<1> QED BY Invariance, <1>1, PTL

(* spin_lock() and spin_unlock() never panic: a CPU marked CPU_HALTED traps *)
(* next from the kernel, so trap() takes the lock exactly once on every    *)
(* way into the kernel, and only the holder releases it.                   *)
THEOREM LockTakenOnceTheorem == Spec => []LockTakenOnce
<1>1. IInv => NoLockPanic
  BY DEF IInv
<1>2. IInv => HaltedFromKernel
  BY DEF IInv, CpuInv, HaltPath, HaltedFromKernel
<1>3. IInv => LockTakenOnce
  BY <1>1, <1>2 DEF LockTakenOnce
<1> QED BY Invariance, <1>3, PTL

(* Every environment resumes with the registers it was stopped with, on    *)
(* whichever CPU, although its frame is read outside the lock.             *)
THEOREM ResumeTheorem == Spec => []ResumeExact
<1>1. IInv => ResumeExact
  BY DEF IInv, FrameInv, Live, ResumeExact
<1> QED BY Invariance, <1>1, PTL

(* Every AP starts on its own kernel stack.                                *)
THEOREM OwnStackTheorem == Spec => []OwnStack
<1>1. IInv => OwnStack
  BY DEF IInv, BootInv
<1> QED BY Invariance, <1>1, PTL

-----------------------------------------------------------------------------
(* The refinement.                                                         *)

LEMMA OwnerIsHolder ==
    ASSUME IInv
    PROVE  /\ \A c \in CPU : Holds(c) => Owner = c
           /\ (\A c \in CPU : ~Holds(c)) => Owner = NULL
<1>1. locked \in {0, 1} /\ (locked = 1 <=> \E c \in CPU : Holds(c))
  BY DEF IInv, TypeOK, LockInv
<1>2. ASSUME NEW c \in CPU, Holds(c) PROVE Owner = c
  <2>1. \A d \in CPU : Holds(d) => d = c
    BY <1>2 DEF IInv, LockInv, MutualExclusion
  <2> QED BY <1>1, <1>2, <2>1 DEF Owner
<1> QED BY <1>1, <1>2 DEF Owner

(* A step other than the exchange that takes the lock and the one that     *)
(* frees it changes no holder.                                             *)
LEMMA HoldersStable ==
    ASSUME IInv, [Next]_vars, \A c \in CPU : ~Xchg(c) /\ ~Unlock(c)
    PROVE  \A d \in CPU : Holds(d)' <=> Holds(d)
<1> USE DEF Goto, lock_kernel, unlock_kernel
<1>1. CASE UNCHANGED vars
  BY <1>1 DEF Holds, vars
<1>2. ASSUME NEW c \in CPU, Spinlock(c) PROVE \A d \in CPU : Holds(d)' <=> Holds(d)
  <2>1. CASE Check(c)
    BY <2>1, CheckPasses DEF IInv, TypeOK, Holds, Check, load_locked, load_cpu, Running, Releasing
  <2>2. CASE Own(c)
    BY <2>2 DEF IInv, TypeOK, CpuInv, Getting, Holds, Own, Acquiring, Running, Releasing
  <2>3. CASE Release(c)
    BY <2>3, ReleasePasses DEF IInv, TypeOK, Holds, Release, load_locked, load_cpu, Running, Releasing
  <2>4. CASE Clear(c)
    BY <2>4 DEF IInv, TypeOK, Holds, Clear, Running, Releasing
  <2> QED BY <1>2, <2>1, <2>2, <2>3, <2>4 DEF Spinlock
<1>3. ASSUME NEW c \in CPU, Boot(c) \/ UserStep(c) PROVE \A d \in CPU : Holds(d)' <=> Holds(d)
  BY <1>3 DEF IInv, TypeOK, Holds, Boot, UserStep, i386_init, boot_aps, wait_ap, mpentry,
              mp_main, Acquiring, Running, Releasing
<1>4. ASSUME NEW c \in CPU, Trap(c) PROVE \A d \in CPU : Holds(d)' <=> Holds(d)
  <2>1. CASE XchgStatus(c)
    <3>1. from_user[c] <=> cpu_status[c] # "HALTED"
      BY <2>1 DEF IInv, CpuInv, TypeOK, HaltPath, XchgStatus, Releasing
    <3> QED BY <2>1, <3>1 DEF IInv, TypeOK, Holds, XchgStatus, Acquiring, Running, Releasing
  <2>2. CASE Entered(c)
    BY <2>2 DEF IInv, TypeOK, Holds, Entered, Acquiring, Running, Releasing
  <2>3. CASE TrapEntry(c) \/ CheckPanic(c) \/ Save(c) \/ Zombie(c)
    BY <2>3 DEF IInv, TypeOK, Holds, TrapEntry, CheckPanic, Save, Zombie, Running, Releasing
  <2> QED BY <1>4, <2>1, <2>2, <2>3 DEF Trap
<1>5. ASSUME NEW c \in CPU, Leave(c) \/ Stop(c) PROVE \A d \in CPU : Holds(d)' <=> Holds(d)
  <2>1. CASE Leave(c)
    BY <2>1 DEF IInv, TypeOK, Holds, Leave, env_run, sched_halt, env_pop_tf, Running, Releasing
  <2>2. CASE Stop(c)
    BY <2>2 DEF IInv, TypeOK, Holds, Stop, env_run, sched_halt, env_pop_tf, Running, Releasing
  <2> QED BY <1>5, <2>1, <2>2
<1> QED BY <1>1, <1>2, <1>3, <1>4, <1>5 DEF Next

(* The processors implement KernelLock: at most one owner, taken only when *)
(* free, released by its owner.                                            *)
THEOREM LockTheorem == Spec => ImplementsLock
<1> USE SmpAssumption
<1>1. Init => Lock!Init
  BY DEF Init, Lock!Init, Owner
<1>2. ASSUME IInv, IInv', [Next]_vars PROVE [Lock!Next]_Owner
  <2>1. ASSUME NEW c \in CPU, Xchg(c) PROVE Lock!lock_kernel(c)
    <3>1. Owner = NULL
      BY <2>1 DEF Xchg, Owner
    <3>2. Holds(c)'
      BY <1>2, <2>1 DEF IInv, TypeOK, Xchg, Goto, Holds, Running
    <3>3. Owner' = c
      <4>1. locked' = 1
        BY <2>1 DEF Xchg
      <4>2. \A d \in CPU : Holds(d)' => d = c
        BY <1>2, <3>2 DEF IInv, LockInv, MutualExclusion
      <4> QED BY <3>2, <4>1, <4>2 DEF Owner
    <3> QED BY <3>1, <3>3 DEF Lock!lock_kernel
  <2>2. ASSUME NEW c \in CPU, Unlock(c) PROVE Lock!unlock_kernel(c)
    <3>1. Holds(c)
      BY <2>2 DEF Unlock, Holds, Releasing
    <3>2. Owner' = NULL
      BY <2>2 DEF Unlock, Owner
    <3> QED BY <1>2, <3>1, <3>2, OwnerIsHolder DEF Lock!unlock_kernel
  <2>3. ASSUME \A c \in CPU : ~Xchg(c) /\ ~Unlock(c) PROVE UNCHANGED Owner
    <3>1. \A d \in CPU : Holds(d)' <=> Holds(d)
      BY <1>2, <2>3, HoldersStable
    <3>2. locked' = locked
      BY <1>2, <3>1 DEF IInv, TypeOK, LockInv
    <3>3. CASE locked = 0
      BY <3>2, <3>3 DEF Owner
    <3>4. CASE locked = 1
      <4>1. PICK c \in CPU : Holds(c)
        BY <1>2, <3>4 DEF IInv, LockInv
      <4>2. Owner = c
        BY <1>2, <4>1, OwnerIsHolder
      <4>3. \A d \in CPU : Holds(d)' => d = c
        BY <1>2, <3>1, <4>1 DEF IInv, LockInv, MutualExclusion
      <4>4. Owner' = c
        BY <3>1, <3>2, <3>4, <4>1, <4>3 DEF Owner
      <4> QED BY <4>2, <4>4
    <3> QED BY <1>2, <3>3, <3>4 DEF IInv, TypeOK
  <2> QED BY <2>1, <2>2, <2>3 DEF Lock!Next
<1> QED BY <1>1, <1>2, Invariance, PTL DEF Spec, Lock!Spec, ImplementsLock
=============================================================================
