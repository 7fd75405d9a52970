----------------------------- MODULE EnvProofs -----------------------------
(***************************************************************************)
(* Proofs about the environments, for every number of CPUs, slots,         *)
(* generations and values: the kernel of module Env (first part), the IPC  *)
(* library of module Ipc on it (second), and the programs that run on the  *)
(* library, the sieve of primes above all (third).                         *)
(***************************************************************************)
EXTENDS Ipc, TLAPS

-----------------------------------------------------------------------------
(***************************************************************************)
(* Safety of module Env for every number of CPUs, slots, generations and   *)
(* values: the invariants of LibSpec that TLC checks on small instances.   *)
(*                                                                         *)
(* Every handler ends in env_run(), sched_yield() or a halt.  Mid is what  *)
(* a handler has established when it gets there, about the status st and   *)
(* the environment cur it leaves; the lemmas on the ends turn Mid into the *)
(* invariant of the next state, so that each action only owes Mid.         *)
(***************************************************************************)

(* A slot has a page directory exactly while it is allocated.              *)
PgdirExact == \A e \in Slot : env_pgdir[e] <=> env_status[e] # "FREE"

(* Only environments that have run are RUNNING, and a slot without page    *)
(* directory has not run.                                                  *)
RunsExact ==
    /\ \A e \in Slot : env_status[e] = "RUNNING" => env_runs[e] = 1
    /\ \A e \in Slot : ~env_pgdir[e] => env_runs[e] = 0

IInv ==
    /\ TypeOK
    /\ OneCpuPerEnv
    /\ FreeListExact
    /\ LiveAddressSpace
    /\ PgdirExact
    /\ RunsExact
    /\ BlockedIffReceiving
    /\ NoPanic

FreeList(st, list) ==
    /\ \A i, j \in DOMAIN list : list[i] = list[j] => i = j
    /\ \A e \in Slot : st[e] = "FREE" <=> \E i \in DOMAIN list : list[i] = e

OtherTypes ==
    /\ env_id \in [Slot -> EnvId]
    /\ env_parent_id \in [Slot -> EnvId \cup {NULL}]
    /\ env_pgdir \in [Slot -> BOOLEAN]
    /\ env_free_list \in Seq(Slot)
    /\ env_ipc_recving \in [Slot -> BOOLEAN]
    /\ env_ipc_dstva \in [Slot -> BOOLEAN]
    /\ env_ipc_value \in [Slot -> Value]
    /\ env_ipc_from \in [Slot -> EnvId \cup {NULL}]
    /\ env_ipc_perm \in [Slot -> BOOLEAN]

OnOther(c, e) == \E d \in CPU : d # c /\ cpu[d] = "user" /\ curenv[d] = e

(* What a handler of CPU c owes when it ends with statuses st and current  *)
(* environment cur.                                                        *)
Mid(c, st, cur) ==
    /\ OtherTypes'
    /\ st \in [Slot -> Status]
    /\ cur \in Slot \cup {NULL}
    /\ FreeList(st, env_free_list')
    /\ \A e \in Slot : env_pgdir'[e] <=> st[e] # "FREE"
    /\ \A d \in CPU \ {c} : cpu[d] = "user" =>
          /\ curenv[d] # cur
          /\ st[curenv[d]] \in {"RUNNING", "DYING"}
          /\ env_id'[curenv[d]] = env_id[curenv[d]]
    /\ \A e \in Slot : st[e] \in {"RUNNING", "DYING"} => e = cur \/ OnOther(c, e)
    /\ cur # NULL => st[cur] # "DYING"
    /\ \A e \in Slot : st[e] = "RUNNING" => env_runs[e] = 1
    /\ \A e \in Slot : st[e] # "FREE" =>
          (env_ipc_recving'[e] <=> st[e] = "NOT_RUNNABLE" /\ env_runs[e] = 1)

-----------------------------------------------------------------------------
(* The free list.                                                          *)

(* Taking the head of a list that holds exactly the FREE slots leaves one  *)
(* that holds the others.                                                  *)
LEMMA FreeListTail ==
    ASSUME NEW list \in Seq(Slot), list # <<>>, NEW st, NEW st1, FreeList(st, list),
           \A e \in Slot \ {Head(list)} : st1[e] = "FREE" <=> st[e] = "FREE",
           st1[Head(list)] # "FREE"
    PROVE  FreeList(st1, Tail(list)) /\ Tail(list) \in Seq(Slot) /\ Head(list) \in Slot
<1>1. /\ Tail(list) \in Seq(Slot) /\ Head(list) = list[1] /\ list[1] \in Slot
      /\ Len(list) \in Nat \ {0} /\ Len(Tail(list)) = Len(list) - 1
      /\ \A i \in 1 .. Len(list) - 1 : Tail(list)[i] = list[i + 1]
      /\ DOMAIN list = 1 .. Len(list) /\ DOMAIN Tail(list) = 1 .. Len(list) - 1
  OBVIOUS
<1>2. \A i, j \in DOMAIN Tail(list) : Tail(list)[i] = Tail(list)[j] => i = j
  BY <1>1 DEF FreeList
<1>3. ASSUME NEW e \in Slot
      PROVE  st1[e] = "FREE" <=> \E i \in DOMAIN Tail(list) : Tail(list)[i] = e
  <2>1. CASE e = Head(list)
    BY <1>1, <2>1 DEF FreeList
  <2>2. CASE e # Head(list)
    <3>1. st1[e] = "FREE" <=> \E i \in DOMAIN list : list[i] = e
      BY <2>2 DEF FreeList
    <3>2. ASSUME NEW i \in DOMAIN list, list[i] = e PROVE i - 1 \in DOMAIN Tail(list) /\ Tail(list)[i - 1] = e
      BY <1>1, <2>2, <3>2
    <3>3. ASSUME NEW i \in DOMAIN Tail(list), Tail(list)[i] = e PROVE i + 1 \in DOMAIN list /\ list[i + 1] = e
      BY <1>1, <3>3
    <3> QED BY <3>1, <3>2, <3>3
  <2> QED BY <2>1, <2>2
<1> QED BY <1>1, <1>2, <1>3 DEF FreeList

(* Pushing a slot that was not FREE keeps the list exact.                  *)
LEMMA FreeListPush ==
    ASSUME NEW list \in Seq(Slot), NEW st, NEW st1, NEW x \in Slot, FreeList(st, list),
           \A e \in Slot \ {x} : st1[e] = "FREE" <=> st[e] = "FREE",
           st[x] # "FREE", st1[x] = "FREE"
    PROVE  FreeList(st1, <<x>> \o list) /\ <<x>> \o list \in Seq(Slot)
<1> DEFINE new == <<x>> \o list
<1>1. /\ new \in Seq(Slot) /\ Len(new) = Len(list) + 1 /\ Len(list) \in Nat
      /\ new[1] = x /\ \A i \in 2 .. Len(list) + 1 : new[i] = list[i - 1]
      /\ DOMAIN list = 1 .. Len(list) /\ DOMAIN new = 1 .. Len(list) + 1
  OBVIOUS
<1>2. \A i \in DOMAIN list : list[i] # x
  BY DEF FreeList
<1> HIDE DEF new
<1>3. \A i, j \in DOMAIN new : new[i] = new[j] => i = j
  <2> SUFFICES ASSUME NEW i \in DOMAIN new, NEW j \in DOMAIN new, new[i] = new[j] PROVE i = j
    OBVIOUS
  <2>1. i \in Int /\ j \in Int /\ (i = 1 \/ i - 1 \in DOMAIN list) /\ (j = 1 \/ j - 1 \in DOMAIN list)
    BY <1>1
  <2>2. (i # 1 => new[i] = list[i - 1]) /\ (j # 1 => new[j] = list[j - 1])
    BY <1>1
  <2>3. i # 1 /\ j # 1 => i - 1 = j - 1
    BY <2>1, <2>2 DEF FreeList
  <2> QED BY <1>1, <1>2, <2>1, <2>2, <2>3
<1>4. ASSUME NEW e \in Slot
      PROVE  st1[e] = "FREE" <=> \E i \in DOMAIN new : new[i] = e
  <2>1. CASE e = x
    BY <1>1, <2>1
  <2>2. CASE e # x
    <3>1. st1[e] = "FREE" <=> \E i \in DOMAIN list : list[i] = e
      BY <2>2 DEF FreeList
    <3>2. ASSUME NEW i \in DOMAIN list, list[i] = e PROVE i + 1 \in DOMAIN new /\ new[i + 1] = e
      BY <1>1, <3>2
    <3>3. ASSUME NEW i \in DOMAIN new, new[i] = e PROVE i - 1 \in DOMAIN list /\ list[i - 1] = e
      BY <1>1, <2>2, <3>3
    <3> QED BY <3>1, <3>2, <3>3
  <2> QED BY <2>1, <2>2
<1> QED BY <1>1, <1>3, <1>4 DEF FreeList, new

-----------------------------------------------------------------------------
(* The ends of a handler.                                                  *)

(* What holds between two actions of everything but the CPU that traps.    *)
LEMMA EnvRunEnds ==
    ASSUME IInv, NEW c \in CPU, NEW st, NEW cur, NEW e \in Slot,
           Mid(c, st, cur), env_run(c, e, st, cur),
           st[e] = "RUNNABLE" \/ (e = cur /\ st[e] = "RUNNING")
    PROVE  IInv'
<1> DEFINE st1 == [s \in Slot |-> IF s = cur /\ st[s] = "RUNNING" THEN "RUNNABLE" ELSE st[s]]
<1>1. /\ env_status' = [st1 EXCEPT ![e] = "RUNNING"]
      /\ env_pgdir'[e]
      /\ env_runs' = [s \in Slot |-> IF ~env_pgdir'[s] THEN 0
                                    ELSE IF s \in {e} THEN 1 ELSE env_runs[s]]
      /\ curenv' = [curenv EXCEPT ![c] = e]
      /\ cr3' = [cr3 EXCEPT ![c] = env_id'[e]]
      /\ cpu' = [cpu EXCEPT ![c] = "user"]
  BY DEF env_run, CountRun
<1>2. st1 \in [Slot -> Status] /\ env_status' \in [Slot -> Status]
  BY <1>1 DEF Mid, Status
<1>3. /\ env_status'[e] = "RUNNING"
      /\ \A s \in Slot \ {e} : env_status'[s] = st1[s]
      /\ \A s \in Slot : env_status'[s] = "FREE" <=> st[s] = "FREE"
      /\ \A s \in Slot \ {e} : env_status'[s] = "NOT_RUNNABLE" <=> st[s] = "NOT_RUNNABLE"
      /\ \A s \in Slot \ {e, cur} : env_status'[s] = st[s]
      /\ cur # e /\ cur # NULL => env_status'[cur] \notin {"RUNNING", "DYING"}
  BY <1>1, <1>2 DEF Mid, Status
<1> HIDE DEF st1
<1>4. /\ curenv \in [CPU -> Slot \cup {NULL}] /\ cr3 \in [CPU -> EnvId \cup {NULL}]
      /\ cpu \in [CPU -> CpuMode] /\ env_runs \in [Slot -> {0, 1}]
      /\ NULL \notin Slot
  BY ConstAssumption DEF IInv, TypeOK
<1>5. /\ curenv'[c] = e /\ cpu'[c] = "user" /\ cr3'[c] = env_id'[e]
      /\ \A d \in CPU \ {c} : curenv'[d] = curenv[d] /\ cpu'[d] = cpu[d] /\ cr3'[d] = cr3[d]
  BY <1>1, <1>4
<1>6. TypeOK'
  <2>1. OtherTypes'
    BY DEF Mid
  <2>2. env_runs' \in [Slot -> {0, 1}] /\ curenv' \in [CPU -> Slot \cup {NULL}] /\ cpu' \in [CPU -> CpuMode]
    BY <1>1, <1>4 DEF CpuMode
  <2>3. cr3' \in [CPU -> EnvId \cup {NULL}]
    BY <1>1, <1>4, <2>1 DEF OtherTypes
  <2> QED BY <1>2, <2>1, <2>2, <2>3 DEF TypeOK, OtherTypes
<1>7. \A d \in CPU \ {c} : cpu[d] = "user" => curenv[d] \in Slot /\ curenv[d] # e /\ curenv[d] # cur
  BY <1>4 DEF Mid, IInv, LiveAddressSpace
<1>8. OneCpuPerEnv'
  <2>1. ASSUME NEW a \in CPU, NEW b \in CPU, cpu'[a] = "user", cpu'[b] = "user", curenv'[a] = curenv'[b]
        PROVE  a = b
    BY <1>5, <1>7, <2>1 DEF IInv, OneCpuPerEnv
  <2>2. ASSUME NEW s \in Slot
        PROVE  env_status'[s] \in {"RUNNING", "DYING"} <=> \E d \in CPU : cpu'[d] = "user" /\ curenv'[d] = s
    <3>1. CASE s = e
      BY <1>3, <1>5, <3>1
    <3>2. CASE s # e /\ s = cur
      BY <1>3, <1>4, <1>5, <1>7, <3>2
    <3>3. CASE s # e /\ s # cur
      BY <1>3, <1>5, <1>7, <3>3 DEF Mid, OnOther
    <3> QED BY <3>1, <3>2, <3>3
  <2> QED BY <2>1, <2>2 DEF OneCpuPerEnv, OnCpu
<1>9. FreeListExact' /\ PgdirExact'
  BY <1>3 DEF Mid, FreeList, FreeListExact, PgdirExact
<1>10. LiveAddressSpace'
  <2>1. ASSUME NEW d \in CPU \ {c}, cpu'[d] = "user"
        PROVE  curenv'[d] # NULL /\ cr3'[d] = env_id'[curenv'[d]] /\ env_pgdir'[curenv'[d]]
    BY <1>5, <1>7, <2>1 DEF IInv, LiveAddressSpace, Mid
  <2> QED BY <1>1, <1>4, <1>5, <2>1 DEF LiveAddressSpace
<1>11. RunsExact'
  BY <1>1, <1>2, <1>3, <1>9 DEF RunsExact, Mid, PgdirExact, st1
<1>12. BlockedIffReceiving'
  <2>1. ASSUME NEW s \in Slot, env_status'[s] # "FREE"
        PROVE  env_ipc_recving'[s] <=> env_status'[s] = "NOT_RUNNABLE" /\ env_runs'[s] = 1
    <3>1. CASE s = e
      BY <1>3, <3>1 DEF Mid
    <3>2. CASE s # e
      BY <1>1, <1>3, <2>1, <3>2 DEF Mid
    <3> QED BY <3>1, <3>2
  <2> QED BY <2>1 DEF BlockedIffReceiving
<1>13. NoPanic'
  BY <1>5 DEF IInv, NoPanic
<1> QED BY <1>6, <1>8, <1>9, <1>10, <1>11, <1>12, <1>13 DEF IInv

(* A halted CPU, or one that stays in the monitor, leaves the other CPUs'  *)
(* environments as they were and runs none itself.                         *)
LEMMA HaltEnds ==
    ASSUME IInv, NEW c \in CPU, NEW st, NEW cur,
           Mid(c, st, cur), sched_halt(c, st, cur),
           cur # NULL => st[cur] # "RUNNING"
    PROVE  IInv'
<1>1. /\ env_status' = st
      /\ env_runs' = [s \in Slot |-> IF ~env_pgdir'[s] THEN 0
                                    ELSE IF s \in {} THEN 1 ELSE env_runs[s]]
      /\ curenv' = [curenv EXCEPT ![c] = NULL] \/ curenv' = [curenv EXCEPT ![c] = cur]
      /\ cr3' = [cr3 EXCEPT ![c] = NULL] \/ cr3' = [cr3 EXCEPT ![c] = cr3[c]]
      /\ cpu' = [cpu EXCEPT ![c] = "halted"] \/ cpu' = [cpu EXCEPT ![c] = "monitor"]
  BY DEF sched_halt, CountRun
<1>2. /\ curenv \in [CPU -> Slot \cup {NULL}] /\ cr3 \in [CPU -> EnvId \cup {NULL}]
      /\ cpu \in [CPU -> CpuMode] /\ env_runs \in [Slot -> {0, 1}]
      /\ NULL \notin Slot
  BY ConstAssumption DEF IInv, TypeOK
<1>3. /\ cpu'[c] \notin {"user", "panic"}
      /\ \A d \in CPU \ {c} : curenv'[d] = curenv[d] /\ cpu'[d] = cpu[d] /\ cr3'[d] = cr3[d]
  BY <1>1, <1>2
<1>4. TypeOK'
  <2>1. OtherTypes' /\ st \in [Slot -> Status] /\ cur \in Slot \cup {NULL}
    BY DEF Mid
  <2>2. env_runs' \in [Slot -> {0, 1}] /\ cpu' \in [CPU -> CpuMode]
    BY <1>1, <1>2 DEF CpuMode
  <2>3. curenv' \in [CPU -> Slot \cup {NULL}] /\ cr3' \in [CPU -> EnvId \cup {NULL}]
    BY <1>1, <1>2, <2>1
  <2> QED BY <1>1, <2>1, <2>2, <2>3 DEF TypeOK, OtherTypes
<1>5. \A d \in CPU \ {c} : cpu[d] = "user" => curenv[d] \in Slot
  BY <1>2 DEF IInv, LiveAddressSpace
<1>6. OneCpuPerEnv'
  <2>1. ASSUME NEW a \in CPU, NEW b \in CPU, cpu'[a] = "user", cpu'[b] = "user", curenv'[a] = curenv'[b]
        PROVE  a = b
    BY <1>3, <2>1 DEF IInv, OneCpuPerEnv
  <2>2. ASSUME NEW s \in Slot
        PROVE  env_status'[s] \in {"RUNNING", "DYING"} <=> \E d \in CPU : cpu'[d] = "user" /\ curenv'[d] = s
    BY <1>1, <1>2, <1>3 DEF Mid, OnOther
  <2> QED BY <2>1, <2>2 DEF OneCpuPerEnv, OnCpu
<1>7. FreeListExact' /\ PgdirExact'
  BY <1>1 DEF Mid, FreeList, FreeListExact, PgdirExact
<1>8. LiveAddressSpace'
  BY <1>1, <1>3, <1>5 DEF IInv, LiveAddressSpace, Mid
<1>9. RunsExact'
  BY <1>1, <1>7 DEF RunsExact, Mid, PgdirExact
<1>10. BlockedIffReceiving'
  BY <1>1, <1>7 DEF BlockedIffReceiving, Mid, PgdirExact
<1>11. NoPanic'
  BY <1>3 DEF IInv, NoPanic
<1> QED BY <1>4, <1>6, <1>7, <1>8, <1>9, <1>10, <1>11 DEF IInv

LEMMA YieldEnds ==
    ASSUME IInv, NEW c \in CPU, NEW st, NEW cur,
           Mid(c, st, cur), sched_yield(c, st, cur)
    PROVE  IInv'
<1> DEFINE ready == Runnable(st)
           same  == {e \in Slot : e = cur /\ st[e] = "RUNNING"}
           next  == IF ready # {} THEN FirstAfter(cur, ready) ELSE same
<1>1. \A e \in next : e \in Slot /\ (st[e] = "RUNNABLE" \/ (e = cur /\ st[e] = "RUNNING"))
  BY DEF Runnable, FirstAfter
<1>2. \A e \in next : env_pgdir'[e]
  BY <1>1 DEF Mid
<1>3. CASE \E e \in next : env_run(c, e, st, cur)
  BY <1>1, <1>3, EnvRunEnds
<1>4. CASE ready = {} /\ same = {} /\ sched_halt(c, st, cur)
  <2>1. cur # NULL => st[cur] # "RUNNING"
    BY <1>4 DEF Mid
  <2> QED BY <1>4, <2>1, HaltEnds
<1> QED BY <1>2, <1>3, <1>4 DEF sched_yield

LEMMA ReturnEnds ==
    ASSUME IInv, NEW c \in CPU, cpu[c] = "user", NEW st,
           Mid(c, st, curenv[c]), trap_return(c, st)
    PROVE  IInv'
<1>1. curenv[c] \in Slot
  BY DEF IInv, TypeOK, LiveAddressSpace
<1>2. CASE st[curenv[c]] = "RUNNING"
  <2>1. env_pgdir'[curenv[c]]
    BY <1>1, <1>2 DEF Mid
  <2>2. env_run(c, curenv[c], st, curenv[c])
    BY <1>2, <2>1 DEF trap_return
  <2> QED BY <1>1, <1>2, <2>2, EnvRunEnds
<1>3. CASE st[curenv[c]] # "RUNNING"
  BY <1>3, YieldEnds DEF trap_return
<1> QED BY <1>2, <1>3

-----------------------------------------------------------------------------
(* The initial state.                                                      *)

LEMMA InitInv == Init => IInv
<1> SUFFICES ASSUME NEW n \in NCREATE, Created(n) PROVE IInv
  BY DEF Init
<1>0. n \in 0 .. NENV
  BY ConstAssumption
<1> USE ConstAssumption, <1>0
<1>1. TypeOK
  <2>1. env_status \in [Slot -> Status] /\ cpu \in [CPU -> CpuMode]
    BY DEF Created, Status, CpuMode
  <2>2. env_id \in [Slot -> EnvId]
    BY DEF Created, EnvId, Slot
  <2>3. env_free_list \in Seq(Slot)
    BY DEF Created, Slot
  <2>4. env_ipc_value \in [Slot -> Value]
    BY DEF Created
  <2> QED BY <2>1, <2>2, <2>3, <2>4 DEF Created, TypeOK
<1>2. FreeListExact
  BY DEF Created, FreeListExact, Slot
<1>3. OneCpuPerEnv /\ LiveAddressSpace /\ NoPanic
  BY DEF Created, OneCpuPerEnv, OnCpu, LiveAddressSpace, NoPanic
<1>4. PgdirExact /\ RunsExact /\ BlockedIffReceiving
  BY DEF Created, PgdirExact, RunsExact, BlockedIffReceiving
<1> QED BY <1>1, <1>2, <1>3, <1>4 DEF IInv

-----------------------------------------------------------------------------
(* What each action owes.                                                  *)

(* The invariant, read at a CPU that has trapped from an environment.      *)
LEMMA UserFacts ==
    ASSUME IInv, NEW c \in CPU, cpu[c] = "user"
    PROVE  /\ curenv[c] \in Slot
           /\ env_status[curenv[c]] \in {"RUNNING", "DYING"}
           /\ env_pgdir[curenv[c]]
           /\ \A d \in CPU \ {c} : cpu[d] = "user" => curenv[d] \in Slot /\ curenv[d] # curenv[c]
<1>1. \A d \in CPU : cpu[d] = "user" => curenv[d] \in Slot
  BY DEF IInv, TypeOK, LiveAddressSpace
<1> QED BY <1>1 DEF IInv, OneCpuPerEnv, OnCpu, LiveAddressSpace

(* A handler that has changed nothing may resume its environment, yield,   *)
(* or yield from no environment (boot and halted CPUs).                    *)
LEMMA MidSame ==
    ASSUME IInv, NEW c \in CPU, NEW cur,
           UNCHANGED <<env_id, env_parent_id, env_pgdir, env_free_list, ipc>>,
           \/ cpu[c] = "user" /\ env_status[curenv[c]] # "DYING" /\ cur = curenv[c]
           \/ cpu[c] # "user" /\ cur = NULL
    PROVE  Mid(c, env_status, cur)
<1>1. /\ \A d \in CPU : cpu[d] = "user" => /\ curenv[d] \in Slot
                                          /\ env_status[curenv[d]] \in {"RUNNING", "DYING"}
      /\ NULL \notin Slot
  BY UserFacts, ConstAssumption
<1>2. OtherTypes'
  BY DEF IInv, TypeOK, OtherTypes, ipc
<1>3. env_status \in [Slot -> Status] /\ cur \in Slot \cup {NULL}
  BY <1>1 DEF IInv, TypeOK
<1>4. FreeList(env_status, env_free_list') /\ \A e \in Slot : env_pgdir'[e] <=> env_status[e] # "FREE"
  BY DEF IInv, FreeListExact, FreeList, PgdirExact
<1>5. \A d \in CPU \ {c} : cpu[d] = "user" =>
         /\ curenv[d] # cur
         /\ env_status[curenv[d]] \in {"RUNNING", "DYING"}
         /\ env_id'[curenv[d]] = env_id[curenv[d]]
  BY <1>1 DEF IInv, OneCpuPerEnv
<1>6. \A e \in Slot : env_status[e] \in {"RUNNING", "DYING"} => e = cur \/ OnOther(c, e)
  BY DEF IInv, OneCpuPerEnv, OnCpu, OnOther
<1>7. /\ cur # NULL => env_status[cur] # "DYING"
      /\ \A e \in Slot : env_status[e] = "RUNNING" => env_runs[e] = 1
  BY DEF IInv, RunsExact
<1>8. \A e \in Slot : env_status[e] # "FREE" =>
         (env_ipc_recving'[e] <=> env_status[e] = "NOT_RUNNABLE" /\ env_runs[e] = 1)
  BY DEF IInv, BlockedIffReceiving, ipc
<1> QED BY <1>2, <1>3, <1>4, <1>5, <1>6, <1>7, <1>8 DEF Mid

(* Freeing the current environment (an exit, or a zombie's trap).          *)
LEMMA MidFreeCurrent ==
    ASSUME IInv, NEW c \in CPU, cpu[c] = "user", env_free(curenv[c])
    PROVE  Mid(c, Freed(curenv[c]), NULL)
<1> DEFINE x == curenv[c]
           st == Freed(x)
<1>1. /\ x \in Slot /\ env_status[x] \in {"RUNNING", "DYING"}
      /\ \A d \in CPU \ {c} : cpu[d] = "user" => /\ curenv[d] \in Slot /\ curenv[d] # x
                                                /\ env_status[curenv[d]] \in {"RUNNING", "DYING"}
      /\ NULL \notin Slot
  BY UserFacts, ConstAssumption
<1>2. /\ st \in [Slot -> Status] /\ st[x] = "FREE"
      /\ \A e \in Slot \ {x} : st[e] = env_status[e]
  BY <1>1 DEF IInv, TypeOK, Freed, Status
<1>3. FreeList(st, env_free_list') /\ env_free_list' \in Seq(Slot)
  <2>1. FreeList(env_status, env_free_list) /\ env_free_list \in Seq(Slot)
    BY DEF IInv, TypeOK, FreeListExact, FreeList
  <2>2. env_free_list' = <<x>> \o env_free_list
    BY DEF env_free
  <2> HIDE DEF st
  <2> QED BY <1>1, <1>2, <2>1, <2>2, FreeListPush
<1>4. \A e \in Slot : env_pgdir'[e] <=> st[e] # "FREE"
  BY <1>1, <1>2 DEF IInv, TypeOK, PgdirExact, env_free
<1>5. OtherTypes'
  BY <1>1, <1>3 DEF IInv, TypeOK, OtherTypes, env_free, ipc
<1> HIDE DEF st
<1>6. \A e \in Slot : st[e] \in {"RUNNING", "DYING"} => e = NULL \/ OnOther(c, e)
  BY <1>1, <1>2 DEF IInv, OneCpuPerEnv, OnCpu, OnOther
<1>7. \A e \in Slot : st[e] = "RUNNING" => env_runs[e] = 1
  BY <1>2 DEF IInv, RunsExact
<1>8. \A e \in Slot : st[e] # "FREE" =>
         (env_ipc_recving'[e] <=> st[e] = "NOT_RUNNABLE" /\ env_runs[e] = 1)
  BY <1>2 DEF IInv, BlockedIffReceiving, env_free, ipc
<1>9. \A d \in CPU \ {c} : cpu[d] = "user" =>
         /\ curenv[d] # NULL
         /\ st[curenv[d]] \in {"RUNNING", "DYING"}
         /\ env_id'[curenv[d]] = env_id[curenv[d]]
  BY <1>1, <1>2 DEF env_free
<1>10. Mid(c, st, NULL)
  BY <1>2, <1>3, <1>4, <1>5, <1>6, <1>7, <1>8, <1>9 DEF Mid
<1> QED BY <1>10 DEF st

(* A handler that changes the status of one slot x and goes on in its own  *)
(* environment.                                                            *)
LEMMA MidChange ==
    ASSUME IInv, NEW c \in CPU, cpu[c] = "user", env_status[curenv[c]] # "DYING",
           NEW x \in Slot, NEW v \in Status, OtherTypes',
           FreeList([env_status EXCEPT ![x] = v], env_free_list'),
           \A e \in Slot : env_pgdir'[e] <=> IF e = x THEN v # "FREE" ELSE env_pgdir[e],
           \A e \in Slot \ {x} : env_id'[e] = env_id[e],
           x = curenv[c] \/ env_status[x] \in {"RUNNING", "DYING"} => env_id'[x] = env_id[x],
           \/ v \in {"RUNNABLE", "NOT_RUNNABLE", "FREE"}
              /\ (x = curenv[c] \/ env_status[x] \notin {"RUNNING", "DYING"})
           \/ v = "DYING" /\ env_status[x] = "RUNNING" /\ x # curenv[c],
           \A e \in Slot \ {x} : env_ipc_recving'[e] = env_ipc_recving[e],
           v # "FREE" => (env_ipc_recving'[x] <=> v = "NOT_RUNNABLE" /\ env_runs[x] = 1)
    PROVE  Mid(c, [env_status EXCEPT ![x] = v], curenv[c])
<1> DEFINE st == [env_status EXCEPT ![x] = v]
           cur == curenv[c]
<1>1. /\ cur \in Slot /\ env_status[cur] = "RUNNING"
      /\ \A d \in CPU \ {c} : cpu[d] = "user" => /\ curenv[d] \in Slot /\ curenv[d] # cur
                                                /\ env_status[curenv[d]] \in {"RUNNING", "DYING"}
  BY UserFacts
<1>2. /\ st \in [Slot -> Status] /\ st[x] = v
      /\ \A e \in Slot \ {x} : st[e] = env_status[e]
  BY DEF IInv, TypeOK
<1>3. FreeList(st, env_free_list')
  OBVIOUS
<1> HIDE DEF st
<1>4. \A e \in Slot : env_pgdir'[e] <=> st[e] # "FREE"
  BY <1>2 DEF IInv, PgdirExact
<1>5. \A d \in CPU \ {c} : cpu[d] = "user" =>
         /\ curenv[d] # cur
         /\ st[curenv[d]] \in {"RUNNING", "DYING"}
         /\ env_id'[curenv[d]] = env_id[curenv[d]]
  BY <1>1, <1>2
<1>6. \A e \in Slot : st[e] \in {"RUNNING", "DYING"} => e = cur \/ OnOther(c, e)
  BY <1>2 DEF IInv, OneCpuPerEnv, OnCpu, OnOther
<1>7. /\ cur # NULL => st[cur] # "DYING"
      /\ \A e \in Slot : st[e] = "RUNNING" => env_runs[e] = 1
  BY <1>1, <1>2 DEF IInv, RunsExact
<1>8. \A e \in Slot : st[e] # "FREE" =>
         (env_ipc_recving'[e] <=> st[e] = "NOT_RUNNABLE" /\ env_runs[e] = 1)
  BY <1>2 DEF IInv, BlockedIffReceiving
<1>9. Mid(c, st, cur)
  BY <1>1, <1>2, <1>3, <1>4, <1>5, <1>6, <1>7, <1>8 DEF Mid
<1> QED BY <1>9 DEF st

(* Statuses other than FREE may change without touching the free list.     *)
LEMMA FreeListSame ==
    ASSUME IInv, NEW x \in Slot, NEW v \in Status, v # "FREE", env_status[x] # "FREE",
           env_free_list' = env_free_list
    PROVE  FreeList([env_status EXCEPT ![x] = v], env_free_list')
<1>1. \A e \in Slot : [env_status EXCEPT ![x] = v][e] = "FREE" <=> env_status[e] = "FREE"
  BY DEF IInv, TypeOK
<1> QED BY <1>1 DEF IInv, FreeListExact, FreeList

LEMMA OtherTypesSame ==
    ASSUME IInv, UNCHANGED <<env_id, env_parent_id, env_pgdir, env_free_list, ipc>>
    PROVE  OtherTypes'
BY DEF IInv, TypeOK, OtherTypes, ipc

-----------------------------------------------------------------------------
(* The actions of LibNext.                                                 *)

LEMMA InterruptInv == ASSUME IInv, NEW c \in CPU, Interrupt(c) PROVE IInv'
<1>1. CASE Boot(c)
  BY <1>1, MidSame, YieldEnds DEF Boot
<1>2. CASE Zombie(c)
  BY <1>2, MidFreeCurrent, YieldEnds DEF Zombie
<1>3. CASE TimerOrYield(c)
  BY <1>3, MidSame, YieldEnds DEF TimerOrYield, Trapped
<1>4. CASE HaltedTimer(c)
  BY <1>4, MidSame, YieldEnds DEF HaltedTimer
<1> QED BY <1>1, <1>2, <1>3, <1>4 DEF Interrupt

LEMMA ReturnInv == ASSUME IInv, NEW c \in CPU, Return(c) PROVE IInv'
BY MidSame, ReturnEnds DEF Return, Trapped

(* env_destroy() of an environment that is not already a zombie: the three *)
(* ways are a zombie made, a child freed, and an exit.                     *)
LEMMA DestroyInv ==
    ASSUME IInv, NEW c \in CPU, Trapped(c), NEW e \in Slot,
           env_status[e] \notin {"FREE", "DYING"}, env_destroy(c, e)
    PROVE  IInv'
<1>1. /\ cpu[c] = "user" /\ env_status[curenv[c]] # "DYING" /\ curenv[c] \in Slot
      /\ env_status[curenv[c]] = "RUNNING" /\ env_pgdir[e]
  BY UserFacts DEF Trapped, IInv, PgdirExact
<1>2. CASE env_status[e] = "RUNNING" /\ curenv[c] # e
  <2>1. /\ UNCHANGED <<env_id, env_parent_id, env_pgdir, env_free_list, ipc>>
        /\ trap_return(c, [env_status EXCEPT ![e] = "DYING"])
    BY <1>2 DEF env_destroy
  <2>2. FreeList([env_status EXCEPT ![e] = "DYING"], env_free_list')
    BY <1>2, <2>1, FreeListSame DEF Status
  <2>3. env_ipc_recving' = env_ipc_recving /\ ~env_ipc_recving[e]
    BY <1>2, <2>1 DEF ipc, IInv, BlockedIffReceiving
  <2>4. \A s \in Slot : env_pgdir'[s] <=> IF s = e THEN "DYING" # "FREE" ELSE env_pgdir[s]
    BY <1>1, <2>1
  <2>5. OtherTypes' /\ env_id' = env_id /\ "DYING" \in Status
    BY <2>1, OtherTypesSame DEF Status
  <2>6. Mid(c, [env_status EXCEPT ![e] = "DYING"], curenv[c])
    BY <1>1, <1>2, <2>2, <2>3, <2>4, <2>5, MidChange
  <2> QED BY <1>1, <2>1, <2>6, ReturnEnds
<1>3. CASE curenv[c] = e
  <2>1. env_free(e) /\ sched_yield(c, Freed(e), NULL)
    BY <1>1, <1>3 DEF env_destroy
  <2> QED BY <1>1, <1>3, <2>1, MidFreeCurrent, YieldEnds
<1>4. CASE env_status[e] # "RUNNING" /\ curenv[c] # e
  <2>1. env_free(e) /\ trap_return(c, [env_status EXCEPT ![e] = "FREE"])
    BY <1>1, <1>4 DEF env_destroy, Freed
  <2>2. FreeList([env_status EXCEPT ![e] = "FREE"], env_free_list') /\ env_free_list' \in Seq(Slot)
    <3> DEFINE st == [env_status EXCEPT ![e] = "FREE"]
    <3>1. FreeList(env_status, env_free_list) /\ env_free_list \in Seq(Slot)
      BY DEF IInv, TypeOK, FreeListExact, FreeList
    <3>2. env_free_list' = <<e>> \o env_free_list
      BY <2>1 DEF env_free
    <3>3. st[e] = "FREE" /\ \A s \in Slot \ {e} : st[s] = env_status[s]
      BY DEF IInv, TypeOK
    <3> HIDE DEF st
    <3>4. FreeList(st, env_free_list') /\ env_free_list' \in Seq(Slot)
      BY <3>1, <3>2, <3>3, FreeListPush
    <3> QED BY <3>4 DEF st
  <2>3. /\ env_pgdir' = [env_pgdir EXCEPT ![e] = FALSE] /\ env_pgdir \in [Slot -> BOOLEAN]
        /\ UNCHANGED <<env_id, env_parent_id, ipc>>
    BY <2>1 DEF env_free, IInv, TypeOK
  <2>4. OtherTypes' /\ env_ipc_recving' = env_ipc_recving
    BY <2>2, <2>3 DEF IInv, TypeOK, OtherTypes, ipc
  <2>5. \A s \in Slot : env_pgdir'[s] <=> IF s = e THEN "FREE" # "FREE" ELSE env_pgdir[s]
    BY <2>3
  <2>6. "FREE" \in Status /\ env_status[e] \notin {"RUNNING", "DYING"}
    BY <1>4 DEF Status
  <2>7. Mid(c, [env_status EXCEPT ![e] = "FREE"], curenv[c])
    BY <1>1, <2>2, <2>3, <2>4, <2>5, <2>6, MidChange
  <2> QED BY <1>1, <2>1, <2>7, ReturnEnds
<1> QED BY <1>2, <1>3, <1>4

LEMMA FaultInv == ASSUME IInv, NEW c \in CPU, Fault(c) PROVE IInv'
<1>1. Trapped(c) /\ curenv[c] \in Slot /\ env_status[curenv[c]] \notin {"FREE", "DYING"}
  BY UserFacts DEF Fault, Trapped
<1> QED BY <1>1, DestroyInv DEF Fault

LEMMA LibDestroyInv == ASSUME IInv, NEW c \in CPU, LibDestroy(c) PROVE IInv'
<1>1. PICK envid \in EnvId \cup {NULL} : \E e \in envid2env(c, envid, TRUE) :
         env_status[e] # "DYING" /\ sys_env_destroy(c, e)
  BY DEF LibDestroy
<1>2. PICK e \in envid2env(c, envid, TRUE) : env_status[e] # "DYING" /\ sys_env_destroy(c, e)
  BY <1>1
<1>3. Trapped(c) /\ curenv[c] \in Slot /\ env_status[curenv[c]] \notin {"FREE", "DYING"}
  BY UserFacts DEF LibDestroy, Trapped
<1>4. e \in Slot /\ env_status[e] # "FREE"
  BY <1>2, <1>3 DEF envid2env
<1> QED BY <1>2, <1>3, <1>4, DestroyInv DEF sys_env_destroy

LEMMA LibSetStatusInv == ASSUME IInv, NEW c \in CPU, LibSetStatus(c) PROVE IInv'
<1>0. PICK envid \in EnvId : \E e \in envid2env(c, envid, TRUE) :
         env_status[e] = "NOT_RUNNABLE" /\ env_runs[e] = 0 /\ sys_env_set_status(c, e, "RUNNABLE")
  BY DEF LibSetStatus
<1>1. PICK e \in envid2env(c, envid, TRUE) :
         env_status[e] = "NOT_RUNNABLE" /\ env_runs[e] = 0 /\ sys_env_set_status(c, e, "RUNNABLE")
  BY <1>0
<1>2. /\ cpu[c] = "user" /\ env_status[curenv[c]] = "RUNNING" /\ curenv[c] \in Slot
      /\ UNCHANGED <<env_id, env_parent_id, env_pgdir, env_free_list, ipc>>
      /\ trap_return(c, [env_status EXCEPT ![e] = "RUNNABLE"])
  BY <1>1, UserFacts DEF sys_env_set_status, Trapped
<1>3. e \in Slot
  BY <1>1, <1>2 DEF envid2env
<1>4. FreeList([env_status EXCEPT ![e] = "RUNNABLE"], env_free_list')
  BY <1>1, <1>2, <1>3, FreeListSame DEF Status
<1>5. env_ipc_recving' = env_ipc_recving /\ ~env_ipc_recving[e] /\ env_pgdir[e]
  BY <1>1, <1>2, <1>3 DEF ipc, IInv, BlockedIffReceiving, PgdirExact
<1>6. OtherTypes' /\ "RUNNABLE" \in Status
  BY <1>2, OtherTypesSame DEF Status
<1>7. Mid(c, [env_status EXCEPT ![e] = "RUNNABLE"], curenv[c])
  BY <1>1, <1>2, <1>3, <1>4, <1>5, <1>6, MidChange
<1> QED BY <1>2, <1>7, ReturnEnds

LEMMA ExoforkInv == ASSUME IInv, NEW c \in CPU, sys_exofork(c) PROVE IInv'
<1>1. PICK e \in Slot : /\ env_alloc(e, env_id[curenv[c]])
                        /\ trap_return(c, [env_status EXCEPT ![e] = "NOT_RUNNABLE"])
  BY DEF sys_exofork
<1> DEFINE st == [env_status EXCEPT ![e] = "NOT_RUNNABLE"]
<1>2. /\ cpu[c] = "user" /\ env_status[curenv[c]] = "RUNNING" /\ curenv[c] \in Slot
  BY UserFacts DEF sys_exofork, Trapped
<1>3. FreeList(env_status, env_free_list) /\ env_free_list \in Seq(Slot) /\ env_free_list # <<>>
      /\ e = Head(env_free_list) /\ env_free_list' = Tail(env_free_list)
  BY <1>1 DEF IInv, TypeOK, FreeListExact, FreeList, env_alloc
<1>4. st[e] = "NOT_RUNNABLE" /\ \A s \in Slot \ {e} : st[s] = env_status[s]
  BY DEF IInv, TypeOK
<1> HIDE DEF st
<1>5. FreeList(st, env_free_list') /\ env_free_list' \in Seq(Slot)
  BY <1>3, <1>4, FreeListTail
<1>6. env_status[e] = "FREE" /\ ~env_pgdir[e] /\ env_runs[e] = 0
  <2>1. 1 \in DOMAIN env_free_list /\ env_free_list[1] = e
    BY <1>3
  <2> QED BY <1>3, <2>1 DEF FreeList, IInv, PgdirExact, RunsExact
<1>7. NextGeneration(e) \in 0 .. MAXGEN
  <2>1. env_id[e] \in (0 .. MAXGEN) \X Slot
    BY DEF IInv, TypeOK, EnvId
  <2>2. env_id[e][1] \in 0 .. MAXGEN
    BY <2>1
  <2> QED BY <2>2, ConstAssumption DEF NextGeneration
<1>8. /\ env_id' = [env_id EXCEPT ![e] = <<NextGeneration(e), e>>]
      /\ env_parent_id' = [env_parent_id EXCEPT ![e] = env_id[curenv[c]]]
      /\ env_pgdir' = [env_pgdir EXCEPT ![e] = TRUE]
      /\ env_ipc_recving' = [env_ipc_recving EXCEPT ![e] = FALSE]
      /\ UNCHANGED <<env_ipc_dstva, env_ipc_value, env_ipc_from, env_ipc_perm>>
  BY <1>1 DEF env_alloc
<1>9. /\ env_id \in [Slot -> EnvId] /\ env_pgdir \in [Slot -> BOOLEAN]
      /\ env_parent_id \in [Slot -> EnvId \cup {NULL}]
      /\ env_ipc_recving \in [Slot -> BOOLEAN]
  BY DEF IInv, TypeOK
<1>10. OtherTypes'
  <2>1. env_id' \in [Slot -> EnvId]
    <3>1. <<NextGeneration(e), e>> \in EnvId
      BY <1>7 DEF EnvId
    <3> QED BY <1>8, <1>9, <3>1
  <2>2. env_parent_id' \in [Slot -> EnvId \cup {NULL}]
    BY <1>2, <1>8, <1>9
  <2> QED BY <1>5, <1>8, <1>9, <2>1, <2>2 DEF IInv, TypeOK, OtherTypes
<1>11. /\ \A s \in Slot \ {e} : env_id'[s] = env_id[s] /\ env_ipc_recving'[s] = env_ipc_recving[s]
       /\ ~env_ipc_recving'[e]
       /\ \A s \in Slot : env_pgdir'[s] <=> IF s = e THEN "NOT_RUNNABLE" # "FREE" ELSE env_pgdir[s]
       /\ "NOT_RUNNABLE" \in Status
  BY <1>8, <1>9 DEF Status
<1>12. Mid(c, [env_status EXCEPT ![e] = "NOT_RUNNABLE"], curenv[c])
  <2>1. FreeList([env_status EXCEPT ![e] = "NOT_RUNNABLE"], env_free_list')
    BY <1>5 DEF st
  <2> QED BY <1>2, <1>6, <1>10, <1>11, <2>1, MidChange
<1> QED BY <1>1, <1>2, <1>12, ReturnEnds

(* A send either wakes its receiver or, failing on the page, changes       *)
(* nothing Mid speaks of.                                                  *)
LEMMA SendInv == ASSUME IInv, NEW c \in CPU, Send(c) PROVE IInv'
<1>1. PICK envid \in EnvId, value \in Value, srcva \in BOOLEAN, ok \in BOOLEAN :
         \E e \in envid2env(c, envid, FALSE) : sys_ipc_try_send(c, e, value, srcva, ok)
  BY DEF Send
<1>2. PICK e \in envid2env(c, envid, FALSE) : sys_ipc_try_send(c, e, value, srcva, ok)
  BY <1>1
<1> DEFINE delivered == (env_ipc_dstva[e] /\ srcva) => ok
<1>3. /\ cpu[c] = "user" /\ env_status[curenv[c]] = "RUNNING" /\ curenv[c] \in Slot
  BY UserFacts DEF Send, Trapped
<1>4. e \in Slot /\ env_status[e] # "FREE" /\ env_ipc_recving[e] /\ delivered \in BOOLEAN
  <2>1. envid # NULL
    BY <1>1, ConstAssumption
  <2>2. e \in Slot /\ env_status[e] # "FREE"
    BY <1>2, <2>1 DEF envid2env
  <2>3. env_ipc_recving[e]
    BY <1>2 DEF sys_ipc_try_send
  <2> QED BY <2>2, <2>3
<1>5. /\ env_status[e] = "NOT_RUNNABLE" /\ env_runs[e] = 1 /\ env_pgdir[e]
  BY <1>4 DEF IInv, BlockedIffReceiving, PgdirExact
<1>6. /\ env_ipc_value' = [env_ipc_value EXCEPT ![e] = value]
      /\ env_ipc_perm' = [env_ipc_perm EXCEPT ![e] = env_ipc_dstva[e] /\ srcva /\ ok]
      /\ env_ipc_recving' = [env_ipc_recving EXCEPT ![e] = ~delivered]
      /\ env_ipc_from' = [env_ipc_from EXCEPT ![e] = IF delivered THEN env_id[curenv[c]] ELSE @]
      /\ UNCHANGED <<env_id, env_parent_id, env_pgdir, env_free_list, env_ipc_dstva>>
      /\ trap_return(c, IF delivered THEN [env_status EXCEPT ![e] = "RUNNABLE"] ELSE env_status)
  BY <1>2 DEF sys_ipc_try_send
<1>7. /\ env_ipc_recving'[e] = ~delivered
      /\ \A s \in Slot \ {e} : env_ipc_recving'[s] = env_ipc_recving[s]
  BY <1>4, <1>6 DEF IInv, TypeOK
<1>8. OtherTypes'
  <2>1. env_ipc_value' \in [Slot -> Value] /\ env_ipc_recving' \in [Slot -> BOOLEAN]
    BY <1>4, <1>6 DEF IInv, TypeOK
  <2>2. env_ipc_perm' \in [Slot -> BOOLEAN]
    BY <1>4, <1>6 DEF IInv, TypeOK
  <2>3. env_ipc_from' \in [Slot -> EnvId \cup {NULL}]
    BY <1>3, <1>4, <1>6 DEF IInv, TypeOK
  <2> QED BY <1>6, <2>1, <2>2, <2>3 DEF IInv, TypeOK, OtherTypes
<1> HIDE DEF delivered
<1>9. CASE delivered
  <2>1. FreeList([env_status EXCEPT ![e] = "RUNNABLE"], env_free_list') /\ "RUNNABLE" \in Status
    BY <1>4, <1>6, FreeListSame DEF Status
  <2>2. Mid(c, [env_status EXCEPT ![e] = "RUNNABLE"], curenv[c])
    BY <1>3, <1>4, <1>5, <1>6, <1>7, <1>8, <1>9, <2>1, MidChange
  <2> QED BY <1>3, <1>6, <1>9, <2>2, ReturnEnds
<1>10. CASE ~delivered
  <2>1. /\ [env_status EXCEPT ![e] = "NOT_RUNNABLE"] = env_status /\ "NOT_RUNNABLE" \in Status
    BY <1>4, <1>5 DEF IInv, TypeOK, Status
  <2>2. FreeList([env_status EXCEPT ![e] = "NOT_RUNNABLE"], env_free_list')
    BY <1>4, <1>6, <2>1, FreeListSame
  <2>3. Mid(c, [env_status EXCEPT ![e] = "NOT_RUNNABLE"], curenv[c])
    BY <1>3, <1>4, <1>5, <1>6, <1>7, <1>8, <1>10, <2>1, <2>2, MidChange
  <2> QED BY <1>3, <1>6, <1>10, <2>1, <2>3, ReturnEnds
<1> QED BY <1>9, <1>10

LEMMA RecvInv == ASSUME IInv, NEW c \in CPU, Recv(c) PROVE IInv'
<1>1. PICK dstva \in BOOLEAN : sys_ipc_recv(c, dstva)
  BY DEF Recv
<1> DEFINE e == curenv[c]
<1>2. /\ cpu[c] = "user" /\ env_status[e] = "RUNNING" /\ e \in Slot /\ env_pgdir[e]
  BY <1>1, UserFacts DEF sys_ipc_recv, Trapped
<1>3. /\ env_ipc_recving' = [env_ipc_recving EXCEPT ![e] = TRUE]
      /\ env_ipc_dstva' = [env_ipc_dstva EXCEPT ![e] = dstva]
      /\ UNCHANGED <<env_ipc_value, env_ipc_from, env_ipc_perm>>
      /\ UNCHANGED <<env_id, env_parent_id, env_pgdir, env_free_list>>
      /\ sched_yield(c, [env_status EXCEPT ![e] = "NOT_RUNNABLE"], e)
  BY <1>1 DEF sys_ipc_recv
<1> HIDE DEF e
<1>4. FreeList([env_status EXCEPT ![e] = "NOT_RUNNABLE"], env_free_list') /\ "NOT_RUNNABLE" \in Status
  BY <1>2, <1>3, FreeListSame DEF Status
<1>5. /\ env_ipc_recving'[e] /\ env_runs[e] = 1
      /\ \A s \in Slot \ {e} : env_ipc_recving'[s] = env_ipc_recving[s]
  BY <1>2, <1>3 DEF IInv, TypeOK, RunsExact
<1>6. OtherTypes'
  BY <1>2, <1>3 DEF IInv, TypeOK, OtherTypes
<1>7. Mid(c, [env_status EXCEPT ![e] = "NOT_RUNNABLE"], e)
  BY <1>2, <1>3, <1>4, <1>5, <1>6, MidChange DEF e
<1> QED BY <1>3, <1>7, YieldEnds

-----------------------------------------------------------------------------
(* The theorems.                                                           *)

LEMMA NextInv == IInv /\ [LibNext]_vars => IInv'
<1> SUFFICES ASSUME IInv, [LibNext]_vars PROVE IInv'
  OBVIOUS
<1>1. CASE UNCHANGED vars
  BY <1>1 DEF vars, envs, ipc, cpus, IInv, TypeOK, OneCpuPerEnv, OnCpu, FreeListExact,
              LiveAddressSpace, PgdirExact, RunsExact, BlockedIffReceiving, NoPanic
<1>2. ASSUME NEW c \in CPU,
             \/ Interrupt(c) \/ Return(c) \/ Fault(c)
             \/ sys_exofork(c) \/ LibSetStatus(c) \/ LibDestroy(c) \/ Send(c) \/ Recv(c)
      PROVE  IInv'
  BY <1>2, InterruptInv, ReturnInv, FaultInv, ExoforkInv, LibSetStatusInv, LibDestroyInv,
     SendInv, RecvInv
<1> QED BY <1>1, <1>2 DEF LibNext

(* The inductive invariant holds of every behaviour of library programs.   *)
THEOREM Invariance == LibSpec => []IInv
BY InitInv, NextInv, PTL DEF LibSpec

(* The variables keep their types.                                         *)
THEOREM TypeCorrect == LibSpec => []TypeOK
<1>1. IInv => TypeOK
  BY DEF IInv
<1> QED BY <1>1, Invariance, PTL

(* No environment runs on two CPUs, and its status says where it runs      *)
(* (sched_yield(), env_run(), env_destroy()).                              *)
THEOREM OneCpu == LibSpec => []OneCpuPerEnv
<1>1. IInv => OneCpuPerEnv
  BY DEF IInv
<1> QED BY <1>1, Invariance, PTL

(* env_free_list is exactly the FREE slots, each once (env_alloc(),        *)
(* env_free()).                                                            *)
THEOREM FreeListTheorem == LibSpec => []FreeListExact
<1>1. IInv => FreeListExact
  BY DEF IInv
<1> QED BY <1>1, Invariance, PTL

(* A CPU in user mode never executes on a freed or reused page directory   *)
(* (env_free(), env_run()).                                                *)
THEOREM AddressSpaceTheorem == LibSpec => []LiveAddressSpace
<1>1. IInv => LiveAddressSpace
  BY DEF IInv
<1> QED BY <1>1, Invariance, PTL

(* Off the run queue exactly while receiving: no lost wakeup, no stray     *)
(* delivery (sys_ipc_recv(), sys_ipc_try_send(), env_alloc()).             *)
THEOREM ReceiveTheorem == LibSpec => []BlockedIffReceiving
<1>1. IInv => BlockedIffReceiving
  BY DEF IInv
<1> QED BY <1>1, Invariance, PTL

(* The kernel does not panic (the PADDR() checks of env_run()).            *)
THEOREM NoPanicTheorem == LibSpec => []NoPanic
<1>1. IInv => NoPanic
  BY DEF IInv
<1> QED BY <1>1, Invariance, PTL
-----------------------------------------------------------------------------
(* The action properties.  The end of a handler only moves environments    *)
(* between RUNNABLE and RUNNING, so what it kills or wakes it has killed   *)
(* or woken in the statuses st it hands to its end.                        *)

Active == {"RUNNABLE", "RUNNING"}

Ends(st) ==
    \/ env_status' = env_status
    \/ \A s \in Slot : env_status'[s] = st[s] \/ (env_status'[s] \in Active /\ st[s] \in Active)

LEMMA YieldStatus ==
    ASSUME NEW c \in CPU, NEW st \in [Slot -> Status], NEW cur, sched_yield(c, st, cur)
    PROVE  Ends(st)
<1> DEFINE ready == Runnable(st)
           same  == {e \in Slot : e = cur /\ st[e] = "RUNNING"}
           next  == IF ready # {} THEN FirstAfter(cur, ready) ELSE same
<1>1. ASSUME NEW e \in next, env_run(c, e, st, cur) PROVE Ends(st)
  <2>1. e \in Slot /\ st[e] \in Active
    BY DEF Runnable, FirstAfter, Active
  <2> QED BY <1>1, <2>1 DEF env_run, Ends, Active
<1>2. CASE Panic(c)
  BY <1>2 DEF Panic, Ends
<1>3. CASE sched_halt(c, st, cur)
  BY <1>3 DEF sched_halt, Ends
<1> QED BY <1>1, <1>2, <1>3 DEF sched_yield

LEMMA ReturnStatus ==
    ASSUME NEW c \in CPU, NEW st \in [Slot -> Status], trap_return(c, st)
    PROVE  Ends(st)
<1>1. CASE st[curenv[c]] = "RUNNING" /\ env_run(c, curenv[c], st, curenv[c])
  BY <1>1 DEF env_run, Ends, Active
<1>2. CASE Panic(c)
  BY <1>2 DEF Panic, Ends
<1>3. CASE sched_yield(c, st, curenv[c])
  BY <1>3, YieldStatus
<1> QED BY <1>1, <1>2, <1>3 DEF trap_return

Woken(e) == env_status[e] = "NOT_RUNNABLE" /\ env_status'[e] \in Active
Controlled(e) ==
    /\ env_status[e] \notin {"FREE", "DYING"}
    /\ RunState(env_status'[e]) # RunState(env_status[e])

(* A change of one status, seen through the end of the handler.            *)
LEMMA OneChange ==
    ASSUME IInv, NEW x \in Slot, NEW v \in Status, Ends([env_status EXCEPT ![x] = v]),
           NEW e \in Slot
    PROVE  (Controlled(e) => e = x) /\ (Woken(e) => e = x /\ v \in Active)
<1> DEFINE st == [env_status EXCEPT ![x] = v]
<1>1. st[x] = v /\ \A s \in Slot \ {x} : st[s] = env_status[s]
  BY DEF IInv, TypeOK
<1>2. Ends(st)
  OBVIOUS
<1> HIDE DEF st
<1> QED BY <1>1, <1>2 DEF Ends, Active, Controlled, Woken, RunState

(* No change at all is a change of one status to itself.                   *)
LEMMA NoChange ==
    ASSUME IInv, Ends(env_status), NEW e \in Slot
    PROVE  ~Controlled(e) /\ ~Woken(e)
BY DEF Ends, Active, Controlled, Woken, RunState

LEMMA StatusType == ASSUME IInv, NEW x \in Slot, NEW v \in Status
                    PROVE  [env_status EXCEPT ![x] = v] \in [Slot -> Status]
BY DEF IInv, TypeOK

(* env_destroy() of x stops x only and wakes nobody.                       *)
LEMMA DestroyStatus ==
    ASSUME IInv, NEW c \in CPU, Trapped(c), NEW x \in Slot, env_destroy(c, x), NEW e \in Slot
    PROVE  (Controlled(e) => e = x) /\ ~Woken(e)
<1>1. "FREE" \in Status /\ "DYING" \in Status /\ "FREE" \notin Active /\ "DYING" \notin Active
  BY DEF Status, Active
<1>2. CASE trap_return(c, [env_status EXCEPT ![x] = "DYING"])
  <2>1. Ends([env_status EXCEPT ![x] = "DYING"])
    BY <1>1, <1>2, StatusType, ReturnStatus
  <2> QED BY <1>1, <2>1, OneChange
<1>3. CASE trap_return(c, Freed(x)) \/ \E cur : sched_yield(c, Freed(x), cur)
  <2>1. Ends([env_status EXCEPT ![x] = "FREE"])
    BY <1>1, <1>3, StatusType, ReturnStatus, YieldStatus DEF Freed
  <2> QED BY <1>1, <2>1, OneChange
<1>4. CASE Panic(c)
  BY <1>4 DEF Panic, Controlled, Woken, Active
<1> QED BY <1>2, <1>3, <1>4 DEF env_destroy

(* What each action may start, stop or wake.                               *)
LEMMA InterruptStatus ==
    ASSUME IInv, NEW c \in CPU, Interrupt(c), NEW e \in Slot PROVE ~Controlled(e) /\ ~Woken(e)
<1>1. CASE \E cur : sched_yield(c, env_status, cur)
  <2>1. Ends(env_status)
    BY <1>1, YieldStatus DEF IInv, TypeOK
  <2> QED BY <2>1, NoChange
<1>2. CASE Zombie(c)
  <2>1. curenv[c] \in Slot /\ "FREE" \in Status /\ env_status[curenv[c]] = "DYING"
    BY <1>2, UserFacts DEF Zombie, Status
  <2>2. Ends([env_status EXCEPT ![curenv[c]] = "FREE"])
    BY <1>2, <2>1, StatusType, YieldStatus DEF Zombie, Freed
  <2>3. Controlled(e) => e = curenv[c]
    BY <2>1, <2>2, OneChange
  <2>4. Woken(e) => "FREE" \in Active
    BY <2>1, <2>2, OneChange
  <2> QED BY <2>1, <2>3, <2>4 DEF Controlled, Active
<1> QED BY <1>1, <1>2 DEF Interrupt, Boot, TimerOrYield, HaltedTimer

LEMMA UnchangedStatus ==
    ASSUME IInv, NEW c \in CPU, NEW e \in Slot,
           Return(c) \/ MonitorExit(c) \/ HaltedDevice(c) \/ Breakpoint(c)
    PROVE  ~Controlled(e) /\ ~Woken(e)
<1>1. CASE trap_return(c, env_status)
  <2>1. Ends(env_status)
    BY <1>1, ReturnStatus DEF IInv, TypeOK
  <2> QED BY <2>1, NoChange
<1>2. CASE env_status' = env_status
  BY <1>2, NoChange DEF Ends
<1> QED BY <1>1, <1>2 DEF Return, MonitorExit, HaltedDevice, Breakpoint, Panic, envs

LEMMA FaultStatus ==
    ASSUME IInv, NEW c \in CPU, Fault(c), NEW e \in Slot
    PROVE  cpu[c] = "user" /\ (Controlled(e) => e = curenv[c]) /\ ~Woken(e)
BY UserFacts, DestroyStatus DEF Fault, Trapped

LEMMA DestroyControls ==
    ASSUME IInv, NEW c \in CPU, Destroy(c), NEW e \in Slot
    PROVE  /\ cpu[c] = "user" /\ ~Woken(e)
           /\ Controlled(e) => e = curenv[c] \/ env_parent_id[e] = env_id[curenv[c]]
<1>1. PICK envid \in EnvId \cup {NULL} : \E x \in envid2env(c, envid, TRUE) : sys_env_destroy(c, x)
  BY DEF Destroy
<1>2. PICK x \in envid2env(c, envid, TRUE) : sys_env_destroy(c, x)
  BY <1>1
<1>3. cpu[c] = "user" /\ curenv[c] \in Slot
  BY UserFacts DEF Destroy, Trapped
<1>4. x \in Slot /\ (x = curenv[c] \/ env_parent_id[x] = env_id[curenv[c]])
  BY <1>2, <1>3 DEF envid2env
<1> QED BY <1>2, <1>3, <1>4, DestroyStatus DEF sys_env_destroy

LEMMA ExoforkStatus ==
    ASSUME IInv, NEW c \in CPU, sys_exofork(c), NEW e \in Slot PROVE ~Controlled(e) /\ ~Woken(e)
<1>1. PICK x \in Slot : /\ trap_return(c, [env_status EXCEPT ![x] = "NOT_RUNNABLE"])
                        /\ env_free_list # <<>> /\ x = Head(env_free_list)
  BY DEF sys_exofork, env_alloc
<1>2. "NOT_RUNNABLE" \in Status /\ "NOT_RUNNABLE" \notin Active
  BY DEF Status, Active
<1>3. env_status[x] = "FREE"
  <2>1. 1 \in DOMAIN env_free_list /\ env_free_list[1] = x
    BY <1>1 DEF IInv, TypeOK
  <2> QED BY <2>1 DEF IInv, FreeListExact
<1>4. Ends([env_status EXCEPT ![x] = "NOT_RUNNABLE"])
  BY <1>1, <1>2, StatusType, ReturnStatus
<1>5. (Controlled(e) => e = x) /\ ~Woken(e)
  BY <1>2, <1>4, OneChange
<1> QED BY <1>3, <1>5 DEF Controlled

LEMMA SetStatusControls ==
    ASSUME IInv, NEW c \in CPU, SetStatus(c), NEW e \in Slot
    PROVE  /\ cpu[c] = "user"
           /\ Controlled(e) => e = curenv[c] \/ env_parent_id[e] = env_id[curenv[c]]
<1>1. PICK envid \in EnvId \cup {NULL}, v \in Status :
         \E x \in envid2env(c, envid, TRUE) : sys_env_set_status(c, x, v)
  BY DEF SetStatus
<1>2. PICK x \in envid2env(c, envid, TRUE) : sys_env_set_status(c, x, v)
  BY <1>1
<1>3. cpu[c] = "user" /\ curenv[c] \in Slot
  BY UserFacts DEF SetStatus, Trapped
<1>4. x \in Slot /\ (x = curenv[c] \/ env_parent_id[x] = env_id[curenv[c]])
  BY <1>2, <1>3 DEF envid2env
<1>5. Ends([env_status EXCEPT ![x] = v])
  BY <1>2, <1>4, StatusType, ReturnStatus DEF sys_env_set_status
<1> QED BY <1>3, <1>4, <1>5, OneChange

LEMMA LibSetStatusWakes ==
    ASSUME IInv, NEW c \in CPU, LibSetStatus(c), NEW e \in Slot
    PROVE  Woken(e) => env_runs[e] = 0
<1>1. PICK envid \in EnvId : \E x \in envid2env(c, envid, TRUE) :
         env_runs[x] = 0 /\ sys_env_set_status(c, x, "RUNNABLE")
  BY DEF LibSetStatus
<1>2. PICK x \in envid2env(c, envid, TRUE) : env_runs[x] = 0 /\ sys_env_set_status(c, x, "RUNNABLE")
  BY <1>1
<1>3. curenv[c] \in Slot /\ "RUNNABLE" \in Status
  BY UserFacts DEF LibSetStatus, Trapped, Status
<1>4. x \in Slot
  BY <1>2, <1>3 DEF envid2env
<1>5. Ends([env_status EXCEPT ![x] = "RUNNABLE"])
  BY <1>2, <1>3, <1>4, StatusType, ReturnStatus DEF sys_env_set_status
<1> QED BY <1>2, <1>3, <1>4, <1>5, OneChange

LEMMA SendStatus ==
    ASSUME IInv, NEW c \in CPU, Send(c), NEW e \in Slot
    PROVE  /\ cpu[c] = "user"
           /\ Controlled(e) => env_ipc_recving[e] /\ ~env_ipc_recving'[e]
           /\ Woken(e) => ~env_ipc_recving'[e] /\ env_ipc_from'[e] = env_id[curenv[c]]
<1>1. PICK envid \in EnvId, value \in Value, srcva \in BOOLEAN, ok \in BOOLEAN :
         \E x \in envid2env(c, envid, FALSE) : sys_ipc_try_send(c, x, value, srcva, ok)
  BY DEF Send
<1>2. PICK x \in envid2env(c, envid, FALSE) : sys_ipc_try_send(c, x, value, srcva, ok)
  BY <1>1
<1> DEFINE delivered == (env_ipc_dstva[x] /\ srcva) => ok
<1>3. cpu[c] = "user" /\ curenv[c] \in Slot /\ "RUNNABLE" \in Status
  BY UserFacts DEF Send, Trapped, Status
<1>4. x \in Slot
  BY <1>1, <1>2, <1>3, ConstAssumption DEF envid2env
<1>5. /\ env_ipc_recving[x]
      /\ env_ipc_recving' = [env_ipc_recving EXCEPT ![x] = ~delivered]
      /\ env_ipc_from' = [env_ipc_from EXCEPT ![x] = IF delivered THEN env_id[curenv[c]] ELSE @]
      /\ trap_return(c, IF delivered THEN [env_status EXCEPT ![x] = "RUNNABLE"] ELSE env_status)
  BY <1>2 DEF sys_ipc_try_send
<1> HIDE DEF delivered
<1>6. CASE delivered
  <2>1. Ends([env_status EXCEPT ![x] = "RUNNABLE"])
    BY <1>3, <1>4, <1>5, <1>6, StatusType, ReturnStatus
  <2>2. ~env_ipc_recving'[x] /\ env_ipc_from'[x] = env_id[curenv[c]]
    BY <1>4, <1>5, <1>6 DEF IInv, TypeOK
  <2> QED BY <1>3, <1>4, <1>5, <2>1, <2>2, OneChange
<1>7. CASE ~delivered
  <2>1. Ends(env_status)
    BY <1>3, <1>5, <1>7, ReturnStatus DEF IInv, TypeOK
  <2> QED BY <1>3, <2>1, NoChange
<1> QED BY <1>6, <1>7

LEMMA RecvStatus ==
    ASSUME IInv, NEW c \in CPU, Recv(c), NEW e \in Slot
    PROVE  cpu[c] = "user" /\ (Controlled(e) => e = curenv[c]) /\ ~Woken(e)
<1>1. cpu[c] = "user" /\ curenv[c] \in Slot
  BY UserFacts DEF Recv, sys_ipc_recv, Trapped
<1>2. "NOT_RUNNABLE" \in Status /\ "NOT_RUNNABLE" \notin Active
  BY DEF Status, Active
<1>3. sched_yield(c, [env_status EXCEPT ![curenv[c]] = "NOT_RUNNABLE"], curenv[c])
  BY DEF Recv, sys_ipc_recv
<1>4. Ends([env_status EXCEPT ![curenv[c]] = "NOT_RUNNABLE"])
  BY <1>1, <1>2, <1>3, StatusType, YieldStatus
<1> QED BY <1>1, <1>2, <1>4, OneChange

LEMMA ControlStep ==
    ASSUME IInv, NEW c \in CPU, Handler(c), NEW e \in Slot, Controlled(e),
           ~(env_ipc_recving[e] /\ ~env_ipc_recving'[e])
    PROVE  cpu[c] = "user" /\ (curenv[c] = e \/ env_parent_id[e] = env_id[curenv[c]])
<1>1. Fault(c) \/ SetStatus(c) \/ Destroy(c) \/ Recv(c)
  BY InterruptStatus, UnchangedStatus, ExoforkStatus, SendStatus DEF Handler
<1> QED BY <1>1, FaultStatus, SetStatusControls, DestroyControls, RecvStatus

LEMMA WakeStep ==
    ASSUME IInv, LibNext, NEW e \in Slot, env_ipc_recving[e], Woken(e)
    PROVE  /\ ~env_ipc_recving'[e]
           /\ \E c \in CPU : cpu[c] = "user" /\ env_ipc_from'[e] = env_id[curenv[c]]
<1>1. PICK c \in CPU : \/ Interrupt(c) \/ Return(c) \/ Fault(c)
                       \/ sys_exofork(c) \/ LibSetStatus(c) \/ LibDestroy(c) \/ Send(c) \/ Recv(c)
  BY DEF LibNext
<1>2. ~LibSetStatus(c)
  <2>1. env_runs[e] = 1
    BY DEF IInv, BlockedIffReceiving, Woken
  <2> QED BY <2>1, LibSetStatusWakes
<1>3. ~LibDestroy(c)
  BY DestroyControls DEF LibDestroy, Destroy
<1>4. Send(c)
  BY <1>1, <1>2, <1>3, InterruptStatus, UnchangedStatus, FaultStatus, ExoforkStatus, RecvStatus
<1> QED BY <1>4, SendStatus

(* Under programs as those of user/ and lib/, each trap that starts, stops *)
(* or ends an environment without a message is one of its own CPU or of    *)
(* its parent's: envid2env() with checkperm, the reuse of slots and the    *)
(* zombie states of env_destroy() let no stale or foreign envid through.   *)
THEOREM ControlTheorem == LibSpec => ControlledByParentOrSelf
<1>1. IInv /\ [LibNext]_vars =>
      [\A c \in CPU, e \in Slot :
         /\ env_status[e] \notin {"FREE", "DYING"}
         /\ RunState(env_status'[e]) # RunState(env_status[e])
         /\ ~(env_ipc_recving[e] /\ ~env_ipc_recving'[e])
         /\ Handler(c)
         => cpu[c] = "user" /\ (curenv[c] = e \/ env_parent_id[e] = env_id[curenv[c]])]_vars
  BY ControlStep DEF Controlled
<1> QED BY <1>1, Invariance, PTL DEF LibSpec, ControlledByParentOrSelf

(* A blocked receiver becomes ready only in the sys_ipc_try_send() that    *)
(* delivers to it and names its sender.                                    *)
THEOREM WakeTheorem == LibSpec => WokenBySender
<1>1. IInv /\ [LibNext]_vars =>
      [\A e \in Slot :
         env_ipc_recving[e] /\ env_status[e] = "NOT_RUNNABLE"
         /\ env_status'[e] \in {"RUNNABLE", "RUNNING"}
         => /\ ~env_ipc_recving'[e]
            /\ \E c \in CPU : cpu[c] = "user" /\ env_ipc_from'[e] = env_id[curenv[c]]]_vars
  BY WakeStep DEF Woken, Active
<1> QED BY <1>1, Invariance, PTL DEF LibSpec, WokenBySender

-----------------------------------------------------------------------------
(***************************************************************************)
(* The user IPC library delivers every message once and in order, for      *)
(* every number of CPUs, environments, generations and values, and its     *)
(* programs keep to the calls under which the first part shows that the    *)
(* kernel is right.                                                        *)
(*                                                                         *)
(* A program that panics stops the kernel in its monitor; other CPUs then  *)
(* go on in user mode until they trap.  IInv, the kernel's invariant,      *)
(* holds until then, and Stopped of it after.                              *)
(***************************************************************************)

(* What remains of IInv in a kernel that has stopped.                      *)
Stopped ==
    /\ TypeOK /\ FreeListExact /\ LiveAddressSpace /\ BlockedIffReceiving /\ NoPanic
    /\ \A c \in CPU : cpu[c] = "user" => env_status[curenv[c]] \in {"RUNNING", "DYING"}

KInv == Stopped /\ (KernelUnlocked => IInv)

(* The places of a program at which it is in each call, with the variables *)
(* it uses there: it never sends a number above the last.                  *)
ForkPlaces == {"primes", "top", "pingpong"}
SendPlaces == {"feed", "filter", "ping", "sender"}
RecvPlaces == {"top", "filter", "ping", "collect"}
Place      == ForkPlaces \cup SendPlaces \cup RecvPlaces \cup {"idle"}

Locals == [at : Place, pc : Pc, p : Nat, i : Nat, id : EnvId \cup {NULL},
           who : EnvId \cup {NULL}, last : 2 .. LAST]

InCall(s) ==
    /\ s.pc \in {"fork", "start"} => s.at \in ForkPlaces /\ (s.at = "pingpong" => s.i = 0)
    /\ s.pc \in {"send", "yield"} => s.at \in SendPlaces /\ s.i <= s.last
    /\ s.pc \in {"recv", "from", "value"} => s.at \in RecvPlaces
    /\ s.pc = "start" => s.id \in EnvId

Program == {s \in Locals : InCall(s)}

(* All the programs of a run share the last number.                        *)
ProgramsOK ==
    /\ prog \in [Slot -> Program]
    /\ \A e, f \in Slot : prog[e].last = prog[f].last

HistoryOK ==
    /\ sent \in [EnvId \X EnvId -> Seq(Value)]
    /\ got \in [EnvId \X EnvId -> Seq(Value)]

(* An envid names its slot; nobody is killed by another.                   *)
Slots == \A e \in Slot : env_id[e][2] = e /\ env_status[e] # "DYING"

(* A child that p is about to start has not run.                           *)
Child(p, e) ==
    /\ env_id[e] = prog[p].id /\ env_parent_id[e] = env_id[p]
    /\ env_status[e] = "NOT_RUNNABLE" /\ ~env_ipc_recving[e]

Starting ==
    \A p \in Slot : prog[p].pc = "start" =>
       env_status[p] \in Active /\ \E e \in Slot : Child(p, e)

(* An environment is receiving only in ipc_recv().                         *)
Waiting == {"from", "value"}

Receiving ==
    \A e \in Slot :
       /\ env_status[e] # "FREE" /\ env_ipc_recving[e] => prog[e].pc = "from"
       /\ prog[e].pc \in Waiting => env_status[e] # "FREE"
       /\ prog[e].pc = "value" => ~env_ipc_recving[e]

(* A message has been delivered to e which ipc_recv() has yet to return;   *)
(* it is the only one from its sender that has not been returned.          *)
Pending(e) == prog[e].pc \in Waiting /\ ~env_ipc_recving[e]
From(e)    == IF prog[e].pc = "value" THEN prog[e].who ELSE env_ipc_from[e]

Carries(e, from, to) == Pending(e) /\ From(e) = from /\ env_id[e] = to

Delivery ==
    /\ \A e \in Slot : Pending(e) => From(e) \in EnvId /\ env_ipc_value[e] <= prog[e].last
    /\ \A from, to \in EnvId : \A e \in Slot :
          Carries(e, from, to) => sent[<<from, to>>] = Append(got[<<from, to>>], env_ipc_value[e])
    /\ \A from, to \in EnvId :
          (\A e \in Slot : ~Carries(e, from, to)) => sent[<<from, to>>] = got[<<from, to>>]

UInv == ProgramsOK /\ HistoryOK /\ Slots /\ Starting /\ Receiving /\ Delivery

-----------------------------------------------------------------------------
(* The programs.                                                           *)

LEMMA Numbers == LAST \in Nat /\ LAST >= 2 /\ Value = 0 .. LAST /\ Value \subseteq Nat
BY IpcAssumption

LEMMA Assign ==
    ASSUME NEW s \in Locals, NEW n \in Nat
    PROVE  /\ [s EXCEPT !.i = n] \in Locals /\ [s EXCEPT !.i = n].i = n
           /\ [s EXCEPT !.i = n].last = s.last
           /\ [s EXCEPT !.p = n] \in Locals /\ [s EXCEPT !.p = n].last = s.last
BY DEF Locals

LEMMA AssignId ==
    ASSUME NEW s \in Locals, NEW id \in EnvId \cup {NULL}
    PROVE  /\ [s EXCEPT !.id = id] \in Locals /\ [s EXCEPT !.id = id].i = s.i
           /\ [s EXCEPT !.id = id].last = s.last
BY DEF Locals

LEMMA Call ==
    ASSUME NEW s \in Locals, NEW at \in Place, NEW pc \in {"idle", "fork", "send", "recv", "exit"},
           pc = "fork" => at \in ForkPlaces \ {"pingpong"},
           pc = "send" => at \in SendPlaces /\ s.i <= s.last,
           pc = "recv" => at \in RecvPlaces
    PROVE  call(s, at, pc) \in Program /\ call(s, at, pc).last = s.last /\ call(s, at, pc).pc = pc
<1>1. /\ call(s, at, pc) \in Locals /\ call(s, at, pc).at = at /\ call(s, at, pc).pc = pc
      /\ call(s, at, pc).i = s.i /\ call(s, at, pc).last = s.last
  BY DEF call, Locals, Pc
<1>2. InCall(call(s, at, pc))
  BY <1>1 DEF InCall
<1>. QED
  BY <1>1, <1>2 DEF Program

(* What a program becomes: of the same run, at one of these calls.         *)
Becomes(s, t, pcs) == t \in Program /\ t.last = s.last /\ t.pc \in pcs

LEMMA ForkPrograms ==
    ASSUME NEW s \in Program, s.pc \in {"fork", "start"}, NEW child \in BOOLEAN
    PROVE  Becomes(s, AfterFork(s, child), {"send", "recv"})
<1>1. s \in Locals /\ s.at \in ForkPlaces /\ (s.at = "pingpong" => s.i = 0)
  BY DEF Program, InCall
<1>2. s.last \in Int /\ s.last >= 2
  BY <1>1 DEF Locals
<1>3. CASE s.at = "primes"
  <2>1. Becomes(s, call(s, "top", "recv"), {"recv"})
    BY <1>1, Call DEF Becomes, RecvPlaces, Place
  <2>2. Becomes(s, call([s EXCEPT !.i = 2], "feed", "send"), {"send"})
    <3>. DEFINE t == [s EXCEPT !.i = 2]
    <3>1. t \in Locals /\ t.i <= t.last /\ t.last = s.last
      BY <1>1, <1>2, Assign
    <3>. HIDE DEF t
    <3>2. Becomes(s, call(t, "feed", "send"), {"send"})
      BY <3>1, Call DEF Becomes, SendPlaces, Place
    <3>. QED
      BY <3>2 DEF t
  <2>. QED
    BY <1>3, <2>1, <2>2 DEF Becomes, AfterFork
<1>4. CASE s.at = "top"
  <2>1. Becomes(s, call(s, "top", "recv"), {"recv"}) /\ Becomes(s, call(s, "filter", "recv"), {"recv"})
    BY <1>1, Call DEF Becomes, RecvPlaces, Place
  <2>. QED
    BY <1>4, <2>1 DEF Becomes, AfterFork
<1>5. CASE s.at = "pingpong"
  <2>1. Becomes(s, call(s, "ping", "recv"), {"recv"}) /\ Becomes(s, call(s, "ping", "send"), {"send"})
    BY <1>1, <1>2, <1>5, Call DEF Becomes, SendPlaces, RecvPlaces, Place
  <2>. QED
    BY <1>5, <2>1 DEF Becomes, AfterFork
<1>. QED
  BY <1>1, <1>3, <1>4, <1>5 DEF ForkPlaces

LEMMA SendPrograms ==
    ASSUME NEW s \in Program, s.pc = "send"
    PROVE  Becomes(s, AfterSend(s), {"idle", "send", "recv", "exit"})
<1>1. s \in Locals /\ s.at \in SendPlaces /\ s.i <= s.last
  BY DEF Program, InCall
<1>2. s.last \in Int /\ s.i \in Nat
  BY <1>1 DEF Locals
<1>3. Becomes(s, call(s, "feed", "idle"), {"idle"}) /\ Becomes(s, call(s, "ping", "exit"), {"exit"})
      /\ Becomes(s, call(s, "sender", "send"), {"send"})
  BY <1>1, Call DEF Becomes, SendPlaces, Place
<1>4. Becomes(s, call(s, "filter", "recv"), {"recv"}) /\ Becomes(s, call(s, "ping", "recv"), {"recv"})
  BY <1>1, Call DEF Becomes, RecvPlaces, Place
<1>5. s.i # s.last => Becomes(s, call([s EXCEPT !.i = s.i + 1], "feed", "send"), {"send"})
  <2>1. s.i + 1 \in Nat /\ (s.i # s.last => s.i + 1 <= s.last)
    BY <1>1, <1>2
  <2>. DEFINE t == [s EXCEPT !.i = s.i + 1]
  <2>2. t \in Locals /\ t.last = s.last /\ t.i = s.i + 1
    BY <1>1, <2>1, Assign
  <2>. HIDE DEF t
  <2>3. s.i # s.last => Becomes(s, call(t, "feed", "send"), {"send"})
    BY <2>1, <2>2, Call DEF Becomes, SendPlaces, Place
  <2>. QED
    BY <2>3 DEF t
<1>. QED
  BY <1>1, <1>3, <1>4, <1>5 DEF Becomes, AfterSend, SendPlaces

LEMMA RecvPrograms ==
    ASSUME NEW s \in Program, s.pc = "value", NEW value \in Value, value <= s.last
    PROVE  Becomes(s, AfterRecv(s, value), {"fork", "send", "recv", "exit"})
<1>1. s \in Locals /\ s.at \in RecvPlaces
  BY DEF Program, InCall
<1>2. s.last \in Int /\ s.i \in Nat /\ s.who \in EnvId \cup {NULL} /\ value \in Nat
  BY <1>1, Numbers DEF Locals
<1>3. CASE s.at = "top"
  <2>1. Becomes(s, call([s EXCEPT !.p = value], "top", "fork"), {"fork"})
    <3>. DEFINE t == [s EXCEPT !.p = value]
    <3>1. t \in Locals /\ t.last = s.last
      BY <1>1, <1>2, Assign
    <3>. HIDE DEF t
    <3>2. Becomes(s, call(t, "top", "fork"), {"fork"})
      BY <3>1, Call DEF Becomes, ForkPlaces, Place
    <3>. QED
      BY <3>2 DEF t
  <2>. QED
    BY <1>3, <2>1 DEF Becomes, AfterRecv
<1>4. CASE s.at = "filter"
  <2>. DEFINE t == [s EXCEPT !.i = value]
  <2>1. t \in Locals /\ t.i <= t.last /\ t.last = s.last
    BY <1>1, <1>2, Assign
  <2>. HIDE DEF t
  <2>2. Becomes(s, call(t, "filter", "send"), {"send"}) /\ Becomes(s, call(t, "filter", "recv"), {"recv"})
    BY <2>1, Call DEF Becomes, SendPlaces, RecvPlaces, Place
  <2>. QED
    BY <1>4, <2>2 DEF Becomes, AfterRecv, t
<1>5. CASE s.at = "ping"
  <2>1. Becomes(s, call(s, "ping", "exit"), {"exit"})
    BY <1>1, Call DEF Becomes, Place, SendPlaces
  <2>2. value # s.last => Becomes(s, call([s EXCEPT !.i = value + 1, !.id = s.who], "ping", "send"), {"send"})
    <3>1. value + 1 \in Nat /\ (value # s.last => value + 1 <= s.last)
      BY <1>2
    <3>. DEFINE u == [s EXCEPT !.i = value + 1]  t == [u EXCEPT !.id = s.who]
    <3>2. u \in Locals /\ u.last = s.last /\ u.i = value + 1
      BY <1>1, <3>1, Assign
    <3>. HIDE DEF u
    <3>3. t \in Locals /\ t.last = s.last /\ t.i = value + 1
      BY <1>2, <3>2, AssignId
    <3>. HIDE DEF t
    <3>4. value # s.last => Becomes(s, call(t, "ping", "send"), {"send"})
      BY <3>1, <3>3, Call DEF Becomes, SendPlaces, Place
    <3>. QED
      BY <3>4 DEF t, u
  <2>. QED
    BY <1>5, <2>1, <2>2 DEF Becomes, AfterRecv
<1>6. CASE s.at = "collect"
  <2>1. Becomes(s, call(s, "collect", "recv"), {"recv"})
    BY <1>1, Call DEF Becomes, Place, RecvPlaces
  <2>. QED
    BY <1>6, <2>1 DEF Becomes, AfterRecv
<1>. QED
  BY <1>1, <1>3, <1>4, <1>5, <1>6 DEF RecvPlaces

-----------------------------------------------------------------------------
(* What the kernel does in a step.                                         *)

(* The end of a handler that does not panic: statuses st, but for who is   *)
(* RUNNABLE and who RUNNING.                                               *)
Settled(st) ==
    \A s \in Slot : env_status'[s] = st[s] \/ (env_status'[s] \in Active /\ st[s] \in Active)

LEMMA YieldSettles ==
    ASSUME TypeOK, NoPanic', NEW c \in CPU, NEW st \in [Slot -> Status], NEW cur,
           sched_yield(c, st, cur)
    PROVE  Settled(st)
<1>. DEFINE ready == Runnable(st)
            same  == {e \in Slot : e = cur /\ st[e] = "RUNNING"}
            next  == IF ready # {} THEN FirstAfter(cur, ready) ELSE same
<1>1. ASSUME NEW e \in next, env_run(c, e, st, cur) PROVE Settled(st)
  <2>1. e \in Slot /\ st[e] \in Active
    BY DEF Runnable, FirstAfter, Active
  <2>. QED
    BY <1>1, <2>1 DEF env_run, Settled, Active
<1>2. ~Panic(c)
  BY DEF Panic, NoPanic, TypeOK
<1>3. CASE sched_halt(c, st, cur)
  BY <1>3 DEF sched_halt, Settled
<1>. QED
  BY <1>1, <1>2, <1>3 DEF sched_yield

LEMMA ReturnSettles ==
    ASSUME TypeOK, NoPanic', NEW c \in CPU, curenv[c] \in Slot, NEW st \in [Slot -> Status],
           trap_return(c, st)
    PROVE  Settled(st)
<1>1. CASE st[curenv[c]] = "RUNNING" /\ env_run(c, curenv[c], st, curenv[c])
  BY <1>1 DEF env_run, Settled, Active
<1>2. ~Panic(c)
  BY DEF Panic, NoPanic, TypeOK
<1>3. CASE sched_yield(c, st, curenv[c])
  BY <1>3, YieldSettles
<1>. QED
  BY <1>1, <1>2, <1>3 DEF trap_return

LEMMA Running ==
    ASSUME IInv, UInv, NEW c \in CPU, Trapped(c)
    PROVE  /\ curenv[c] \in Slot /\ env_status[curenv[c]] = "RUNNING"
           /\ ~env_ipc_recving[curenv[c]] /\ prog[curenv[c]] \in Program
<1>1. curenv[c] \in Slot /\ env_status[curenv[c]] = "RUNNING"
  BY UserFacts DEF Trapped
<1>2. ~env_ipc_recving[curenv[c]]
  BY <1>1 DEF IInv, BlockedIffReceiving
<1>. QED
  BY <1>1, <1>2 DEF UInv, ProgramsOK

(* The programs take the steps that the first part allows them.            *)
LEMMA StartLib ==
    ASSUME IInv, UInv, NEW c \in CPU, Start(c)
    PROVE  LibSetStatus(c)
<1>. DEFINE p == curenv[c]
<1>1. Trapped(c) /\ p \in Slot /\ prog[p].pc = "start" /\ prog[p] \in Program
  BY Running DEF Start, At
<1>2. PICK e \in envid2env(c, prog[p].id, TRUE) : sys_env_set_status(c, e, "RUNNABLE")
  BY DEF Start
<1>3. PICK x \in Slot : Child(p, x)
  BY <1>1 DEF UInv, Starting
<1>4. prog[p].id \in EnvId /\ prog[p].id # NULL
  BY <1>1, ConstAssumption DEF Program, InCall
<1>5. e \in Slot /\ env_id[e] = env_id[x] /\ env_status[e] # "FREE"
  BY <1>3, <1>4 DEF envid2env, Child
<1>6. e = x
  BY <1>5 DEF UInv, Slots
<1>7. env_status[e] = "NOT_RUNNABLE" /\ env_runs[e] = 0
  <2>1. env_status[e] = "NOT_RUNNABLE" /\ ~env_ipc_recving[e] /\ env_runs[e] \in {0, 1}
    BY <1>3, <1>6 DEF Child, IInv, TypeOK
  <2>. QED
    BY <1>5, <2>1 DEF IInv, BlockedIffReceiving
<1>. QED
  BY <1>1, <1>2, <1>4, <1>7 DEF LibSetStatus

(* What is sent reaches an environment in sys_ipc_recv().                  *)
LEMMA SendTarget ==
    ASSUME IInv, UInv, NEW c \in CPU, At(c, "send"),
           send_error(c, prog[curenv[c]]) = "NONE",
           NEW e \in envid2env(c, prog[curenv[c]].id, FALSE)
    PROVE  /\ e \in Slot /\ env_id[e] = prog[curenv[c]].id /\ prog[curenv[c]].id \in EnvId
           /\ env_status[e] = "NOT_RUNNABLE" /\ env_ipc_recving[e] /\ prog[e].pc = "from"
           /\ e # curenv[c]
<1>. DEFINE s == prog[curenv[c]]
<1>1. Trapped(c) /\ curenv[c] \in Slot /\ ~env_ipc_recving[curenv[c]] /\ s \in Program
  BY Running DEF At
<1>2. \E x \in envid2env(c, s.id, FALSE) : env_ipc_recving[x]
  BY DEF send_error
<1>3. s.id # NULL
  BY <1>1, <1>2 DEF envid2env
<1>4. s.id \in EnvId
  BY <1>1, <1>3 DEF Program, Locals
<1>5. envid2env(c, s.id, FALSE) = {x \in Slot : env_id[x] = s.id /\ env_status[x] # "FREE"}
  BY <1>3 DEF envid2env
<1>6. PICK x \in Slot : env_id[x] = s.id /\ env_status[x] # "FREE" /\ env_ipc_recving[x]
  BY <1>2, <1>5
<1>7. e \in Slot /\ env_id[e] = s.id
  BY <1>5
<1>8. e = x
  BY <1>6, <1>7 DEF UInv, Slots
<1>9. env_status[e] = "NOT_RUNNABLE"
  BY <1>6, <1>8 DEF IInv, BlockedIffReceiving
<1>10. prog[e].pc = "from"
  BY <1>6, <1>8 DEF UInv, Receiving
<1>. QED
  BY <1>1, <1>4, <1>6, <1>7, <1>8, <1>9, <1>10

LEMMA SendLib ==
    ASSUME IInv, UInv, NEW c \in CPU, TrySend(c)
    PROVE  Send(c) \/ Return(c)
<1>. DEFINE s == prog[curenv[c]]
<1>1. IF send_error(c, s) = "NONE"
      THEN \E e \in envid2env(c, s.id, FALSE) : sys_ipc_try_send(c, e, s.i, FALSE, FALSE)
      ELSE Return(c)
  BY DEF TrySend
<1>2. At(c, "send") /\ Trapped(c) /\ s \in Program
  BY Running DEF TrySend, At
<1>3. ASSUME send_error(c, s) = "NONE" PROVE Send(c)
  <2>1. PICK e \in envid2env(c, s.id, FALSE) : sys_ipc_try_send(c, e, s.i, FALSE, FALSE)
    BY <1>1, <1>3
  <2>2. s.id \in EnvId
    BY <1>2, <1>3, <2>1, SendTarget
  <2>3. s.i \in Value
    <3>1. s.i \in Nat /\ s.last \in 2 .. LAST /\ s.i <= s.last
      BY <1>2 DEF Program, InCall, Locals, At
    <3>. QED
      BY <3>1, Numbers
  <2>. QED
    BY <1>2, <2>1, <2>2, <2>3 DEF Send
<1>. QED
  BY <1>1, <1>3

Step(c) == UserStep(c) \/ (Interrupt(c) /\ UNCHANGED user)

LEMMA KernelStep ==
    ASSUME IInv, UInv, NEW c \in CPU, Step(c), ~panic(c)
    PROVE  [LibNext]_vars
<1>1. CASE Fork(c)
  BY <1>1 DEF Fork, LibNext
<1>2. CASE ForkFails(c)
  BY <1>2 DEF ForkFails, LibNext
<1>3. CASE Start(c)
  BY <1>3, StartLib DEF LibNext
<1>4. CASE TrySend(c)
  BY <1>4, SendLib DEF LibNext
<1>5. CASE SendYield(c)
  BY <1>5 DEF SendYield, LibNext, Interrupt
<1>6. CASE ipc_recv(c)
  BY <1>6 DEF ipc_recv, LibNext, Recv
<1>7. CASE ReadFrom(c) \/ ReadValue(c)
  BY <1>7 DEF ReadFrom, ReadValue
<1>8. CASE exit(c)
  BY <1>8 DEF exit, LibNext, Fault, At
<1>9. CASE Interrupt(c)
  BY <1>9 DEF LibNext
<1>. QED
  BY <1>1, <1>2, <1>3, <1>4, <1>5, <1>6, <1>7, <1>8, <1>9 DEF Step, UserStep

LEMMA KernelInv ==
    ASSUME KInv, UInv, NEW c \in CPU, Step(c)
    PROVE  KInv'
<1>1. CASE ReadFrom(c) \/ ReadValue(c)
  <2>1. UNCHANGED vars
    BY <1>1 DEF ReadFrom, ReadValue
  <2>2. Stopped' <=> Stopped
    BY <2>1 DEF vars, envs, ipc, cpus, Stopped, TypeOK, FreeListExact, LiveAddressSpace, BlockedIffReceiving, NoPanic
  <2>3. KernelUnlocked' <=> KernelUnlocked
    BY <2>1 DEF vars, cpus, KernelUnlocked
  <2>4. IInv => IInv'
    BY <2>1, NextInv
  <2>. QED
    BY <2>2, <2>3, <2>4 DEF KInv
<1>2. CASE ~(ReadFrom(c) \/ ReadValue(c))
  <2>1. KernelUnlocked
    BY <1>2 DEF Step, UserStep, Fork, ForkFails, Start, TrySend, SendYield, ipc_recv, exit, panic, At,
                Trapped, Interrupt, Boot, Zombie, TimerOrYield, HaltedTimer
  <2>2. IInv
    BY <2>1 DEF KInv
  <2>3. CASE panic(c)
    <3>1. /\ cpu' = [cpu EXCEPT ![c] = "monitor"] /\ cpu \in [CPU -> CpuMode]
          /\ UNCHANGED <<envs, ipc, curenv, cr3>>
      BY <2>3, <2>2 DEF panic, Breakpoint, IInv, TypeOK
    <3>2. ~KernelUnlocked'
      BY <3>1 DEF KernelUnlocked
    <3>3. cpu' \in [CPU -> CpuMode] /\ \A d \in CPU : cpu'[d] = cpu[d] \/ cpu'[d] = "monitor"
      BY <3>1 DEF CpuMode
    <3>4. UNCHANGED <<envs, ipc, curenv, cr3>>
      BY <3>1
    <3>5. Stopped'
      BY <3>3, <3>4 DEF KInv, Stopped, envs, ipc, TypeOK, FreeListExact, LiveAddressSpace, BlockedIffReceiving, NoPanic
    <3>. QED
      BY <3>2, <3>5 DEF KInv
  <2>4. CASE ~panic(c)
    <3>1. IInv'
      BY <2>2, <2>4, KernelStep, NextInv
    <3>2. Stopped'
      BY <3>1 DEF IInv, Stopped, OneCpuPerEnv, OnCpu, TypeOK, LiveAddressSpace
    <3>. QED
      BY <3>1, <3>2 DEF KInv
  <2>. QED
    BY <2>3, <2>4
<1>. QED
  BY <1>1, <1>2

-----------------------------------------------------------------------------
(* The histories and the mailboxes.                                        *)

(* Mailboxes that are as full as before leave what is due as it was.       *)
LEMMA SameDelivery ==
    ASSUME Delivery, UNCHANGED <<sent, got>>,
           \A e \in Slot : Pending(e)' <=> Pending(e),
           \A e \in Slot : Pending(e) => /\ From(e)' = From(e) /\ env_id'[e] = env_id[e]
                                         /\ env_ipc_value'[e] = env_ipc_value[e]
                                         /\ prog'[e].last = prog[e].last
    PROVE  Delivery'
<1>1. ASSUME NEW e \in Slot, NEW from, NEW to
      PROVE  Carries(e, from, to)' <=> Carries(e, from, to)
  BY DEF Carries
<1>2. \A e \in Slot : Pending(e)' => From(e)' \in EnvId /\ env_ipc_value'[e] <= prog'[e].last
  BY DEF Delivery
<1>3. ASSUME NEW from \in EnvId, NEW to \in EnvId, NEW e \in Slot, Carries(e, from, to)'
      PROVE  sent'[<<from, to>>] = Append(got'[<<from, to>>], env_ipc_value'[e])
  BY <1>1, <1>3 DEF Delivery, Carries
<1>4. ASSUME NEW from \in EnvId, NEW to \in EnvId, \A e \in Slot : ~Carries(e, from, to)'
      PROVE  sent'[<<from, to>>] = got'[<<from, to>>]
  BY <1>1, <1>4 DEF Delivery
<1>. QED
  BY <1>2, <1>3, <1>4 DEF Delivery

(* The program of slot e goes on as s, and no other does.                  *)
Moved(e, s) ==
    prog' \in [Slot -> Program] /\ prog'[e] = s /\ \A x \in Slot \ {e} : prog'[x] = prog[x]

(* A step in which only the program of slot e, which is in no receive, and *)
(* the statuses change: e may exit, and wake a child of its own.           *)
LEMMA OwnStep ==
    ASSUME UInv, NEW e \in Slot, NEW s \in Program,
           Moved(e, s), s.last = prog[e].last,
           prog[e].pc \notin Waiting, s.pc \notin Waiting \cup {"start"}, env_status[e] # "FREE",
           UNCHANGED <<env_id, env_parent_id, env_ipc_recving, env_ipc_from, sent, got>>,
           \A x \in Slot : ~env_ipc_recving[x] => env_ipc_value'[x] = env_ipc_value[x],
           \A x \in Slot : env_status'[x] # "DYING",
           \A x \in Slot \ {e} : /\ env_status'[x] = "FREE" <=> env_status[x] = "FREE"
                                 /\ env_status[x] \in Active => env_status'[x] \in Active,
           \A x \in Slot : env_status[x] = "NOT_RUNNABLE" =>
              env_status'[x] = "NOT_RUNNABLE" \/ env_parent_id[x] = env_id[e]
    PROVE  UInv'
<1>1. e \in Slot
  OBVIOUS
<1>2. prog'[e] = s /\ \A x \in Slot \ {e} : prog'[x] = prog[x]
  BY DEF Moved
<1>3. prog' \in [Slot -> Program]
  BY DEF Moved
<1>4. \A x \in Slot : prog'[x].last = prog[x].last
  BY <1>2
<1>5. ProgramsOK'
  BY <1>3, <1>4 DEF UInv, ProgramsOK
<1>6. HistoryOK' /\ Slots'
  BY DEF UInv, HistoryOK, Slots
<1>7. Starting'
  <2>. SUFFICES ASSUME NEW p \in Slot, prog'[p].pc = "start"
                PROVE  env_status'[p] \in Active /\ \E x \in Slot : Child(p, x)'
    BY DEF Starting
  <2>1. p # e /\ prog'[p] = prog[p]
    BY <1>2
  <2>2. env_status[p] \in Active /\ \E x \in Slot : Child(p, x)
    BY <2>1 DEF UInv, Starting
  <2>3. PICK x \in Slot : Child(p, x)
    BY <2>2
  <2>4. env_id[p] # env_id[e]
    BY <2>1 DEF UInv, Slots
  <2>5. env_status'[x] = "NOT_RUNNABLE"
    BY <2>3, <2>4 DEF Child
  <2>6. env_status'[p] \in Active
    BY <2>1, <2>2
  <2>7. Child(p, x)'
    BY <2>1, <2>3, <2>5 DEF Child
  <2>. QED
    BY <2>6, <2>7
<1>8. Receiving'
  <2>1. ~env_ipc_recving[e]
    BY DEF UInv, Receiving, Waiting
  <2>2. ASSUME NEW x \in Slot
        PROVE  /\ env_status'[x] # "FREE" /\ env_ipc_recving'[x] => prog'[x].pc = "from"
               /\ prog'[x].pc \in Waiting => env_status'[x] # "FREE"
               /\ prog'[x].pc = "value" => ~env_ipc_recving'[x]
    <3>1. CASE x = e
      BY <1>2, <2>1, <3>1 DEF Waiting
    <3>2. CASE x # e
      <4>1. prog'[x] = prog[x] /\ (env_status'[x] = "FREE" <=> env_status[x] = "FREE")
        BY <1>2, <3>2
      <4>. QED
        BY <4>1 DEF UInv, Receiving
    <3>. QED
      BY <3>1, <3>2
  <2>. QED
    BY <2>2 DEF Receiving
<1>9. Delivery'
  <2>1. ASSUME NEW x \in Slot
        PROVE  /\ Pending(x)' <=> Pending(x)
               /\ Pending(x) => /\ From(x)' = From(x) /\ env_id'[x] = env_id[x]
                                /\ env_ipc_value'[x] = env_ipc_value[x]
                                /\ prog'[x].last = prog[x].last
    BY <1>2 DEF Pending, From
  <2>. QED
    BY <2>1, SameDelivery DEF UInv
<1>. QED
  BY <1>5, <1>6, <1>7, <1>8, <1>9 DEF UInv

(* A step that only moves environments between RUNNABLE and RUNNING.       *)
LEMMA StillStep ==
    ASSUME UInv, Settled(env_status),
           UNCHANGED <<env_id, env_parent_id, env_ipc_recving, env_ipc_from, env_ipc_value, user>>
    PROVE  UInv'
<1>1. UNCHANGED <<prog, sent, got>>
  BY DEF user
<1>2. \A x \in Slot : /\ env_status[x] \in Active => env_status'[x] \in Active
                      /\ env_status'[x] = "FREE" <=> env_status[x] = "FREE"
                      /\ env_status'[x] = "DYING" <=> env_status[x] = "DYING"
                      /\ env_status'[x] = "NOT_RUNNABLE" <=> env_status[x] = "NOT_RUNNABLE"
  BY DEF Settled, Active
<1>3. ProgramsOK' /\ HistoryOK' /\ Slots'
  BY <1>1, <1>2 DEF UInv, ProgramsOK, HistoryOK, Slots
<1>4. Starting'
  BY <1>1, <1>2 DEF UInv, Starting, Child
<1>5. Receiving'
  BY <1>1, <1>2 DEF UInv, Receiving
<1>6. Delivery'
  <2>1. ASSUME NEW x \in Slot
        PROVE  /\ Pending(x)' <=> Pending(x)
               /\ Pending(x) => /\ From(x)' = From(x) /\ env_id'[x] = env_id[x]
                                /\ env_ipc_value'[x] = env_ipc_value[x]
                                /\ prog'[x].last = prog[x].last
    BY <1>1 DEF Pending, From
  <2>. QED
    BY <1>1, <2>1, SameDelivery DEF UInv
<1>. QED
  BY <1>3, <1>4, <1>5, <1>6 DEF UInv

LEMMA InterruptKeeps ==
    ASSUME IInv, NoPanic', UInv, NEW c \in CPU, Interrupt(c), UNCHANGED user
    PROVE  UInv'
<1>1. ~Zombie(c)
  BY UserFacts DEF Zombie, UInv, Slots
<1>2. /\ UNCHANGED <<env_id, env_parent_id, env_pgdir, env_free_list, ipc>>
      /\ \E cur : sched_yield(c, env_status, cur)
  BY <1>1 DEF Interrupt, Boot, TimerOrYield, HaltedTimer
<1>3. Settled(env_status)
  BY <1>2, YieldSettles DEF IInv, TypeOK
<1>. QED
  BY <1>2, <1>3, StillStep DEF ipc

LEMMA Moves ==
    ASSUME UInv, NEW e \in Slot, NEW s \in Program, become(e, s)
    PROVE  Moved(e, s)
BY DEF UInv, ProgramsOK, become, Moved

(* A program that returns from a call which changed nothing.               *)
LEMMA QuietStep ==
    ASSUME UInv, NEW e \in Slot, NEW s \in Program, env_status[e] = "RUNNING", become(e, s),
           s.last = prog[e].last, prog[e].pc \notin Waiting, s.pc \notin Waiting \cup {"start"},
           Settled(env_status),
           UNCHANGED <<env_id, env_parent_id, env_ipc_recving, env_ipc_from, sent, got>>,
           \A x \in Slot : ~env_ipc_recving[x] => env_ipc_value'[x] = env_ipc_value[x]
    PROVE  UInv'
<1>1. Moved(e, s)
  BY Moves
<1>2. \A x \in Slot : /\ env_status'[x] # "DYING"
                      /\ env_status'[x] = "FREE" <=> env_status[x] = "FREE"
                      /\ env_status[x] \in Active => env_status'[x] \in Active
                      /\ env_status[x] = "NOT_RUNNABLE" => env_status'[x] = "NOT_RUNNABLE"
  BY DEF Settled, Active, UInv, Slots
<1>. QED
  BY <1>1, <1>2, OwnStep

LEMMA Panics ==
    ASSUME NEW s \in Program
    PROVE  /\ [s EXCEPT !.pc = "panic"] \in Program /\ [s EXCEPT !.pc = "panic"].pc = "panic"
           /\ [s EXCEPT !.pc = "panic"].last = s.last
BY DEF Program, Locals, InCall, Pc

LEMMA ForkFailsKeeps ==
    ASSUME IInv, NoPanic', UInv, NEW c \in CPU, ForkFails(c)
    PROVE  UInv'
<1>1. curenv[c] \in Slot /\ env_status[curenv[c]] = "RUNNING" /\ prog[curenv[c]] \in Program
  BY Running DEF ForkFails, At
<1>2. prog[curenv[c]].pc = "fork"
  BY DEF ForkFails, At
<1>3. PICK s : s = [prog[curenv[c]] EXCEPT !.pc = "panic"]
  OBVIOUS
<1>4. s \in Program /\ s.pc = "panic" /\ s.last = prog[curenv[c]].last
  BY <1>1, <1>3, Panics
<1>5. become(curenv[c], s) /\ Return(c) /\ UNCHANGED <<sent, got>>
  BY <1>3 DEF ForkFails
<1>6. trap_return(c, env_status) /\ UNCHANGED <<env_id, env_parent_id, ipc>>
  BY <1>5 DEF Return
<1>7. Settled(env_status)
  BY <1>1, <1>6, ReturnSettles DEF IInv, TypeOK
<1>8. UNCHANGED <<env_id, env_parent_id, env_ipc_recving, env_ipc_from, env_ipc_value, sent, got>>
  BY <1>5, <1>6 DEF ipc
<1>. QED
  BY <1>1, <1>2, <1>4, <1>5, <1>7, <1>8, QuietStep DEF Waiting

LEMMA SendYieldKeeps ==
    ASSUME IInv, NoPanic', UInv, NEW c \in CPU, SendYield(c)
    PROVE  UInv'
<1>1. curenv[c] \in Slot /\ env_status[curenv[c]] = "RUNNING" /\ prog[curenv[c]] \in Program
  BY Running DEF SendYield, At
<1>2. prog[curenv[c]].pc = "yield"
  BY DEF SendYield, At
<1>3. PICK s : s = [prog[curenv[c]] EXCEPT !.pc = "send"]
  OBVIOUS
<1>4. s \in Program /\ s.pc = "send" /\ s.last = prog[curenv[c]].last
  BY <1>1, <1>2, <1>3 DEF Program, Locals, InCall, Pc
<1>5. become(curenv[c], s) /\ TimerOrYield(c) /\ UNCHANGED <<sent, got>>
  BY <1>3 DEF SendYield
<1>6. sched_yield(c, env_status, curenv[c]) /\ UNCHANGED <<env_id, env_parent_id, ipc>>
  BY <1>5 DEF TimerOrYield
<1>7. Settled(env_status)
  BY <1>6, YieldSettles DEF IInv, TypeOK
<1>8. UNCHANGED <<env_id, env_parent_id, env_ipc_recving, env_ipc_from, env_ipc_value, sent, got>>
  BY <1>5, <1>6 DEF ipc
<1>. QED
  BY <1>1, <1>2, <1>4, <1>5, <1>7, <1>8, QuietStep DEF Waiting

LEMMA StartKeeps ==
    ASSUME IInv, NoPanic', UInv, NEW c \in CPU, Start(c)
    PROVE  UInv'
<1>. DEFINE e == curenv[c]
<1>1. e \in Slot /\ env_status[e] = "RUNNING" /\ prog[e] \in Program /\ prog[e].pc = "start"
  BY Running DEF Start, At
<1>2. PICK s : s = AfterFork(prog[e], FALSE)
  OBVIOUS
<1>3. s \in Program /\ s.last = prog[e].last /\ s.pc \in {"send", "recv"}
  BY <1>1, <1>2, ForkPrograms DEF Becomes
<1>4. become(e, s) /\ UNCHANGED <<sent, got>>
  BY <1>2 DEF Start
<1>5. PICK x \in envid2env(c, prog[e].id, TRUE) : sys_env_set_status(c, x, "RUNNABLE")
  BY DEF Start
<1>6. PICK y \in Slot : Child(e, y)
  BY <1>1 DEF UInv, Starting
<1>7. prog[e].id # NULL
  BY <1>1, ConstAssumption DEF Program, InCall
<1>8. x = y
  BY <1>6, <1>7 DEF envid2env, Child, UInv, Slots
<1>9. /\ x \in Slot /\ env_status[x] = "NOT_RUNNABLE" /\ env_parent_id[x] = env_id[e] /\ x # e
  BY <1>1, <1>6, <1>8 DEF Child
<1>10. /\ trap_return(c, [env_status EXCEPT ![x] = "RUNNABLE"])
       /\ UNCHANGED <<env_id, env_parent_id, ipc>>
  BY <1>5 DEF sys_env_set_status
<1>11. PICK st : st = [env_status EXCEPT ![x] = "RUNNABLE"]
  OBVIOUS
<1>12. /\ st \in [Slot -> Status] /\ st[x] = "RUNNABLE" /\ \A y1 \in Slot \ {x} : st[y1] = env_status[y1]
  BY <1>9, <1>11 DEF IInv, TypeOK, Status
<1>13. trap_return(c, st)
  BY <1>10, <1>11
<1>14. Settled(st)
  BY <1>1, <1>12, <1>13, ReturnSettles DEF IInv
<1>15. \A z \in Slot \ {x} : /\ env_status'[z] # "DYING"
                             /\ env_status'[z] = "FREE" <=> env_status[z] = "FREE"
                             /\ env_status[z] \in Active => env_status'[z] \in Active
                             /\ env_status[z] = "NOT_RUNNABLE" => env_status'[z] = "NOT_RUNNABLE"
  BY <1>12, <1>14 DEF Settled, Active, UInv, Slots
<1>16. env_status'[x] \in Active
  BY <1>9, <1>12, <1>14 DEF Settled, Active
<1>17. Moved(e, s)
  BY <1>1, <1>3, <1>4, Moves
<1>18. /\ UNCHANGED <<env_id, env_parent_id, env_ipc_recving, env_ipc_from, sent, got>>
       /\ UNCHANGED env_ipc_value
  BY <1>4, <1>10 DEF ipc
<1>19. prog[e].pc \notin Waiting /\ s.pc \notin Waiting \cup {"start"}
  BY <1>1, <1>3 DEF Waiting
<1>20. \A z \in Slot : /\ env_status'[z] # "DYING"
                       /\ env_status'[z] = "FREE" <=> env_status[z] = "FREE"
                       /\ env_status[z] \in Active => env_status'[z] \in Active
                       /\ env_status[z] = "NOT_RUNNABLE" =>
                             env_status'[z] = "NOT_RUNNABLE" \/ env_parent_id[z] = env_id[e]
  BY <1>9, <1>15, <1>16 DEF Active
<1>. QED
  BY <1>1, <1>3, <1>17, <1>18, <1>19, <1>20, OwnStep

LEMMA ExitKeeps ==
    ASSUME IInv, NoPanic', UInv, NEW c \in CPU, exit(c)
    PROVE  UInv'
<1>. DEFINE e == curenv[c]
<1>1. e \in Slot /\ env_status[e] = "RUNNING" /\ prog[e] \in Program /\ prog[e].pc = "exit"
  BY Running DEF exit, At
<1>2. env_pgdir[e]
  BY <1>1 DEF IInv, PgdirExact
<1>3. env_free(e) /\ sched_yield(c, Freed(e), NULL) /\ UNCHANGED user
  BY <1>1, <1>2 DEF exit, env_destroy
<1>4. PICK st : st = Freed(e)
  OBVIOUS
<1>5. /\ st \in [Slot -> Status] /\ st[e] = "FREE" /\ \A x \in Slot \ {e} : st[x] = env_status[x]
  BY <1>1, <1>4 DEF IInv, TypeOK, Status, Freed
<1>6. sched_yield(c, st, NULL)
  BY <1>3, <1>4
<1>7. Settled(st)
  BY <1>5, <1>6, YieldSettles DEF IInv
<1>8. \A x \in Slot \ {e} : /\ env_status'[x] # "DYING"
                            /\ env_status'[x] = "FREE" <=> env_status[x] = "FREE"
                            /\ env_status[x] \in Active => env_status'[x] \in Active
                            /\ env_status[x] = "NOT_RUNNABLE" => env_status'[x] = "NOT_RUNNABLE"
  BY <1>5, <1>7 DEF Settled, Active, UInv, Slots
<1>9. env_status'[e] = "FREE"
  BY <1>1, <1>5, <1>7 DEF Settled, Active
<1>10. UNCHANGED <<env_id, env_parent_id, ipc, user>>
  BY <1>3 DEF env_free
<1>11. UNCHANGED <<env_id, env_parent_id, env_ipc_recving, env_ipc_from, sent, got, env_ipc_value, prog>>
  BY <1>10 DEF ipc, user
<1>12. Moved(e, prog[e])
  BY <1>11 DEF UInv, ProgramsOK, Moved
<1>13. prog[e].pc \notin Waiting \cup {"start"} /\ prog[e].last = prog[e].last /\ env_status[e] # "FREE"
  BY <1>1 DEF Waiting
<1>14. \A x \in Slot : /\ env_status'[x] # "DYING"
                       /\ env_status[x] = "NOT_RUNNABLE" =>
                             env_status'[x] = "NOT_RUNNABLE" \/ env_parent_id[x] = env_id[e]
  BY <1>1, <1>8, <1>9
<1>. QED
  BY <1>1, <1>8, <1>11, <1>12, <1>13, <1>14, OwnStep

(* ipc_send() when nothing is delivered: it tries again, or panics.        *)
LEMMA UnsentKeeps ==
    ASSUME IInv, NoPanic', UInv, NEW c \in CPU, At(c, "send"), NEW error,
           error # "NONE", Return(c), ipc_send(c, prog[curenv[c]], error), UNCHANGED got
    PROVE  UInv'
<1>. DEFINE p == curenv[c]
<1>1. p \in Slot /\ env_status[p] = "RUNNING" /\ prog[p] \in Program /\ prog[p].pc = "send"
  BY Running DEF At
<1>2. PICK s \in Program : become(p, s) /\ s.last = prog[p].last /\ s.pc \in {"yield", "panic"}
  <2>1. CASE error = "NOT_RECV"
    <3>1. PICK s : s = [prog[p] EXCEPT !.pc = "yield"]
      OBVIOUS
    <3>2. s \in Program /\ s.pc = "yield" /\ s.last = prog[p].last
      BY <1>1, <3>1 DEF Program, Locals, InCall, Pc
    <3>3. become(p, s)
      BY <2>1, <3>1 DEF ipc_send
    <3>. QED
      BY <3>2, <3>3
  <2>2. CASE error # "NOT_RECV"
    <3>1. PICK s : s = [prog[p] EXCEPT !.pc = "panic"]
      OBVIOUS
    <3>2. s \in Program /\ s.pc = "panic" /\ s.last = prog[p].last
      BY <1>1, <3>1, Panics
    <3>3. become(p, s)
      BY <2>2, <3>1 DEF ipc_send
    <3>. QED
      BY <3>2, <3>3
  <2>. QED
    BY <2>1, <2>2
<1>3. UNCHANGED <<sent, got>>
  BY DEF ipc_send
<1>4. /\ UNCHANGED <<env_id, env_parent_id, env_ipc_recving, env_ipc_from, env_ipc_value>>
      /\ trap_return(c, env_status)
  BY DEF Return, ipc
<1>5. Settled(env_status)
  BY <1>1, <1>4, ReturnSettles DEF IInv, TypeOK
<1>6. prog[p].pc \notin Waiting /\ s.pc \notin Waiting \cup {"start"}
  BY <1>1, <1>2 DEF Waiting
<1>. QED
  BY <1>1, <1>2, <1>3, <1>4, <1>5, <1>6, QuietStep

LEMMA MovedPrograms ==
    ASSUME UInv, NEW e \in Slot, NEW s \in Program, Moved(e, s), s.last = prog[e].last
    PROVE  ProgramsOK' /\ \A x \in Slot : prog'[x].last = prog[x].last
<1>1. \A x \in Slot : prog'[x].last = prog[x].last
  BY DEF Moved
<1>. QED
  BY <1>1 DEF UInv, ProgramsOK, Moved

(* ipc_send() when the message is delivered: it fills a mailbox that was   *)
(* empty, so that everything sent before has been received.                *)
LEMMA SentKeeps ==
    ASSUME IInv, NoPanic', UInv, NEW c \in CPU, At(c, "send"),
           send_error(c, prog[curenv[c]]) = "NONE",
           NEW r \in envid2env(c, prog[curenv[c]].id, FALSE),
           sys_ipc_try_send(c, r, prog[curenv[c]].i, FALSE, FALSE),
           ipc_send(c, prog[curenv[c]], "NONE"), UNCHANGED got
    PROVE  UInv'
<1>. DEFINE p == curenv[c]
            value == prog[p].i
<1>1. /\ p \in Slot /\ env_status[p] = "RUNNING" /\ prog[p] \in Program /\ prog[p].pc = "send"
      /\ env_id[p] \in EnvId
  BY Running DEF At, IInv, TypeOK
<1>2. /\ r \in Slot /\ env_id[r] = prog[p].id /\ env_id[r] \in EnvId /\ env_ipc_recving[r]
      /\ prog[r].pc = "from" /\ env_status[r] = "NOT_RUNNABLE" /\ r # p
  BY SendTarget
<1>3. value \in Value /\ value <= prog[p].last
  <2>1. value \in Nat /\ prog[p].last \in 2 .. LAST /\ value <= prog[p].last
    BY <1>1 DEF Program, InCall, Locals
  <2>. QED
    BY <2>1, Numbers
<1>5. /\ env_ipc_recving' = [env_ipc_recving EXCEPT ![r] = FALSE]
      /\ env_ipc_from' = [env_ipc_from EXCEPT ![r] = env_id[p]]
      /\ env_ipc_value' = [env_ipc_value EXCEPT ![r] = value]
      /\ trap_return(c, [env_status EXCEPT ![r] = "RUNNABLE"])
      /\ UNCHANGED <<env_id, env_parent_id>>
  BY DEF sys_ipc_try_send
<1>6. UNCHANGED <<env_id, env_parent_id, got>>
  BY <1>5
<1>7. /\ ~env_ipc_recving'[r] /\ env_ipc_from'[r] = env_id[p] /\ env_ipc_value'[r] = value
      /\ \A x \in Slot \ {r} : /\ env_ipc_recving'[x] = env_ipc_recving[x]
                               /\ env_ipc_from'[x] = env_ipc_from[x]
                               /\ env_ipc_value'[x] = env_ipc_value[x]
  BY <1>2, <1>5 DEF IInv, TypeOK
<1>8. PICK st : st = [env_status EXCEPT ![r] = "RUNNABLE"]
  OBVIOUS
<1>9. st \in [Slot -> Status] /\ st[r] = "RUNNABLE" /\ \A x \in Slot \ {r} : st[x] = env_status[x]
  BY <1>2, <1>8 DEF IInv, TypeOK, Status
<1>10. trap_return(c, st)
  BY <1>5, <1>8
<1>11. Settled(st)
  BY <1>1, <1>9, <1>10, ReturnSettles DEF IInv
<1>12. \A x \in Slot \ {r} : /\ env_status'[x] # "DYING"
                             /\ env_status'[x] = "FREE" <=> env_status[x] = "FREE"
                             /\ env_status[x] \in Active => env_status'[x] \in Active
                             /\ env_status[x] = "NOT_RUNNABLE" => env_status'[x] = "NOT_RUNNABLE"
  BY <1>9, <1>11 DEF Settled, Active, UInv, Slots
<1>13. env_status'[r] # "DYING" /\ env_status'[r] # "FREE"
  BY <1>2, <1>9, <1>11 DEF Settled, Active
<1>14. PICK s : s = AfterSend(prog[p])
  OBVIOUS
<1>15. s \in Program /\ s.last = prog[p].last /\ s.pc \in {"idle", "send", "recv", "exit"}
  BY <1>1, <1>14, SendPrograms DEF Becomes
<1>16. Moved(p, s)
  <2>1. become(p, s)
    BY <1>14 DEF ipc_send
  <2>. QED
    BY <1>1, <1>15, <2>1, Moves
<1>17. prog'[p] = s /\ \A x \in Slot \ {p} : prog'[x] = prog[x]
  BY <1>16 DEF Moved
<1>18. ProgramsOK' /\ \A x \in Slot : prog'[x].last = prog[x].last
  BY <1>1, <1>15, <1>16, MovedPrograms
<1>19. sent' = [sent EXCEPT ![<<env_id[p], env_id[r]>>] = Append(@, value)]
  BY <1>2 DEF ipc_send, log
<1>20. <<env_id[p], env_id[r]>> \in EnvId \X EnvId
  BY <1>1, <1>2
<1>21. /\ sent'[<<env_id[p], env_id[r]>>] = Append(sent[<<env_id[p], env_id[r]>>], value)
       /\ \A pair \in EnvId \X EnvId : pair # <<env_id[p], env_id[r]>> => sent'[pair] = sent[pair]
  BY <1>19, <1>20 DEF UInv, HistoryOK
<1>22. HistoryOK'
  <2>1. sent[<<env_id[p], env_id[r]>>] \in Seq(Value)
    BY <1>20 DEF UInv, HistoryOK
  <2>2. Append(sent[<<env_id[p], env_id[r]>>], value) \in Seq(Value)
    BY <1>3, <2>1
  <2>3. sent' \in [EnvId \X EnvId -> Seq(Value)]
    BY <1>19, <1>20, <2>2 DEF UInv, HistoryOK
  <2>. QED
    BY <1>6, <2>3 DEF UInv, HistoryOK
<1>23. Slots'
  BY <1>6, <1>12, <1>13 DEF UInv, Slots
<1>24. Starting'
  <2>. SUFFICES ASSUME NEW q \in Slot, prog'[q].pc = "start"
                PROVE  env_status'[q] \in Active /\ \E x \in Slot : Child(q, x)'
    BY DEF Starting
  <2>1. q # p /\ q # r /\ prog'[q] = prog[q]
    BY <1>1, <1>2, <1>15, <1>17
  <2>2. env_status[q] \in Active /\ \E x \in Slot : Child(q, x)
    BY <2>1 DEF UInv, Starting
  <2>3. PICK x \in Slot : Child(q, x)
    BY <2>2
  <2>4. x # r
    BY <1>2, <2>3 DEF Child
  <2>5. Child(q, x)'
    BY <1>6, <1>7, <1>12, <2>1, <2>3, <2>4 DEF Child
  <2>. QED
    BY <1>12, <2>1, <2>2, <2>5
<1>25. Receiving'
  <2>1. ASSUME NEW x \in Slot
        PROVE  /\ env_status'[x] # "FREE" /\ env_ipc_recving'[x] => prog'[x].pc = "from"
               /\ prog'[x].pc \in Waiting => env_status'[x] # "FREE"
               /\ prog'[x].pc = "value" => ~env_ipc_recving'[x]
    <3>1. CASE x = r
      BY <1>2, <1>7, <1>13, <3>1
    <3>2. CASE x = p
      <4>1. ~env_ipc_recving'[x] /\ prog'[x].pc \notin Waiting
        BY <1>1, <1>2, <1>7, <1>15, <1>17, <3>2, Running DEF At, Waiting
      <4>. QED
        BY <4>1
    <3>3. CASE x # r /\ x # p
      BY <1>7, <1>12, <1>17, <3>3 DEF UInv, Receiving
    <3>. QED
      BY <3>1, <3>2, <3>3
  <2>. QED
    BY <2>1 DEF Receiving
<1>26. Delivery'
  <2>1. /\ Pending(r)' /\ ~Pending(r) /\ From(r)' = env_id[p]
        /\ \A x \in Slot : x = p => ~Pending(x)' /\ ~Pending(x)
    BY <1>1, <1>2, <1>7, <1>15, <1>17 DEF Pending, From, Waiting
  <2>2. ASSUME NEW x \in Slot \ {r}
        PROVE  /\ Pending(x)' <=> Pending(x)
               /\ Pending(x) => From(x)' = From(x) /\ env_ipc_value'[x] = env_ipc_value[x]
    <3>1. CASE x = p
      BY <2>1, <3>1
    <3>2. CASE x # p
      BY <1>7, <1>17, <3>2 DEF Pending, From
    <3>. QED
      BY <3>1, <3>2
  <2>3. \A x \in Slot \ {r} : env_id[x] # env_id[r]
    BY <1>2 DEF UInv, Slots
  <2>4. ASSUME NEW x \in Slot, Pending(x)'
        PROVE  From(x)' \in EnvId /\ env_ipc_value'[x] <= prog'[x].last
    <3>1. CASE x = r
      BY <1>1, <1>2, <1>3, <1>7, <1>18, <2>1, <3>1 DEF UInv, ProgramsOK
    <3>2. CASE x # r
      BY <1>18, <2>2, <2>4, <3>2 DEF UInv, Delivery
    <3>. QED
      BY <3>1, <3>2
  <2>5. ASSUME NEW from \in EnvId, NEW to \in EnvId, NEW x \in Slot, Carries(x, from, to)'
        PROVE  sent'[<<from, to>>] = Append(got'[<<from, to>>], env_ipc_value'[x])
    <3>1. CASE x = r
      <4>1. from = env_id[p] /\ to = env_id[r]
        BY <1>6, <2>1, <2>5, <3>1 DEF Carries
      <4>2. \A y \in Slot : ~Carries(y, from, to)
        BY <2>1, <2>3, <4>1 DEF Carries
      <4>3. sent[<<from, to>>] = got[<<from, to>>]
        BY <4>2 DEF UInv, Delivery
      <4>. QED
        BY <1>6, <1>7, <1>21, <3>1, <4>1, <4>3
    <3>2. CASE x # r
      <4>1. Carries(x, from, to) /\ to # env_id[r] /\ env_ipc_value'[x] = env_ipc_value[x]
        BY <1>6, <2>2, <2>3, <2>5, <3>2 DEF Carries
      <4>2. sent[<<from, to>>] = Append(got[<<from, to>>], env_ipc_value[x])
        BY <4>1 DEF UInv, Delivery
      <4>3. <<from, to>> \in EnvId \X EnvId /\ <<from, to>> # <<env_id[p], env_id[r]>>
        BY <4>1
      <4>. QED
        BY <1>6, <1>21, <4>1, <4>2, <4>3
    <3>. QED
      BY <3>1, <3>2
  <2>6. ASSUME NEW from \in EnvId, NEW to \in EnvId, \A x \in Slot : ~Carries(x, from, to)'
        PROVE  sent'[<<from, to>>] = got'[<<from, to>>]
    <3>1. ~(from = env_id[p] /\ to = env_id[r])
      BY <1>2, <1>6, <2>1, <2>6 DEF Carries
    <3>2. \A x \in Slot : ~Carries(x, from, to)
      BY <1>6, <2>1, <2>2, <2>6 DEF Carries
    <3>3. sent[<<from, to>>] = got[<<from, to>>]
      BY <3>2 DEF UInv, Delivery
    <3>4. <<from, to>> \in EnvId \X EnvId /\ <<from, to>> # <<env_id[p], env_id[r]>>
      BY <3>1
    <3>. QED
      BY <1>6, <1>21, <3>3, <3>4
  <2>. QED
    BY <2>4, <2>5, <2>6 DEF Delivery
<1>. QED
  BY <1>18, <1>22, <1>23, <1>24, <1>25, <1>26 DEF UInv

LEMMA TrySendKeeps ==
    ASSUME IInv, NoPanic', UInv, NEW c \in CPU, TrySend(c)
    PROVE  UInv'
<1>. DEFINE s == prog[curenv[c]]
<1>1. /\ IF send_error(c, s) = "NONE"
         THEN \E e \in envid2env(c, s.id, FALSE) : sys_ipc_try_send(c, e, s.i, FALSE, FALSE)
         ELSE Return(c)
      /\ ipc_send(c, s, send_error(c, s))
  BY DEF TrySend
<1>2. At(c, "send") /\ UNCHANGED got
  BY DEF TrySend
<1>3. CASE send_error(c, s) = "NONE"
  <2>1. PICK e \in envid2env(c, s.id, FALSE) : sys_ipc_try_send(c, e, s.i, FALSE, FALSE)
    BY <1>1, <1>3
  <2>2. ipc_send(c, s, "NONE")
    BY <1>1, <1>3
  <2>. QED
    BY <1>2, <1>3, <2>1, <2>2, SentKeeps
<1>4. CASE send_error(c, s) # "NONE"
  <2>1. PICK error : error = send_error(c, s)
    OBVIOUS
  <2>2. error # "NONE" /\ ipc_send(c, s, error) /\ Return(c)
    BY <1>1, <1>4, <2>1
  <2>. QED
    BY <1>2, <2>2, UnsentKeeps
<1>. QED
  BY <1>3, <1>4

LEMMA RecvKeeps ==
    ASSUME IInv, NoPanic', UInv, NEW c \in CPU, ipc_recv(c)
    PROVE  UInv'
<1>0. PICK e : e = curenv[c]
  OBVIOUS
<1>1. e \in Slot /\ env_status[e] = "RUNNING" /\ prog[e] \in Program /\ prog[e].pc = "recv"
  BY <1>0, Running DEF ipc_recv, At
<1>2. PICK s : s = [prog[e] EXCEPT !.pc = "from"]
  OBVIOUS
<1>3. s \in Program /\ s.pc = "from" /\ s.last = prog[e].last
  BY <1>1, <1>2 DEF Program, Locals, InCall, Pc
<1>4. become(e, s) /\ UNCHANGED <<sent, got>>
  BY <1>0, <1>2 DEF ipc_recv
<1>5. Moved(e, s)
  BY <1>1, <1>3, <1>4, Moves
<1>6. prog'[e] = s /\ \A x \in Slot \ {e} : prog'[x] = prog[x]
  BY <1>5 DEF Moved
<1>7. /\ UNCHANGED <<env_id, env_parent_id, env_ipc_value, env_ipc_from>>
      /\ env_ipc_recving' = [env_ipc_recving EXCEPT ![e] = TRUE]
      /\ sched_yield(c, [env_status EXCEPT ![e] = "NOT_RUNNABLE"], e)
  BY <1>0 DEF ipc_recv, sys_ipc_recv
<1>8. env_ipc_recving'[e] /\ \A x \in Slot \ {e} : env_ipc_recving'[x] = env_ipc_recving[x]
  BY <1>1, <1>7 DEF IInv, TypeOK
<1>9. PICK st : st = [env_status EXCEPT ![e] = "NOT_RUNNABLE"]
  OBVIOUS
<1>10. st \in [Slot -> Status] /\ st[e] = "NOT_RUNNABLE" /\ \A x \in Slot \ {e} : st[x] = env_status[x]
  BY <1>1, <1>9 DEF IInv, TypeOK, Status
<1>11. sched_yield(c, st, e)
  BY <1>7, <1>9
<1>12. Settled(st)
  BY <1>10, <1>11, YieldSettles DEF IInv
<1>13. \A x \in Slot \ {e} : /\ env_status'[x] # "DYING"
                             /\ env_status'[x] = "FREE" <=> env_status[x] = "FREE"
                             /\ env_status[x] \in Active => env_status'[x] \in Active
                             /\ env_status[x] = "NOT_RUNNABLE" => env_status'[x] = "NOT_RUNNABLE"
  BY <1>10, <1>12 DEF Settled, Active, UInv, Slots
<1>14. env_status'[e] = "NOT_RUNNABLE"
  BY <1>1, <1>10, <1>12 DEF Settled, Active
<1>15. UNCHANGED <<env_id, env_parent_id, env_ipc_value, env_ipc_from, sent, got>>
  BY <1>4, <1>7
<1>16. ProgramsOK' /\ \A x \in Slot : prog'[x].last = prog[x].last
  BY <1>1, <1>3, <1>5, MovedPrograms
<1>17. HistoryOK' /\ Slots'
  BY <1>13, <1>14, <1>15 DEF UInv, HistoryOK, Slots
<1>18. Starting'
  <2>. SUFFICES ASSUME NEW q \in Slot, prog'[q].pc = "start"
                PROVE  env_status'[q] \in Active /\ \E x \in Slot : Child(q, x)'
    BY DEF Starting
  <2>1. q # e /\ prog'[q] = prog[q]
    BY <1>3, <1>6
  <2>2. env_status[q] \in Active /\ \E x \in Slot : Child(q, x)
    BY <2>1 DEF UInv, Starting
  <2>3. PICK x \in Slot : Child(q, x)
    BY <2>2
  <2>4. x # e
    BY <1>1, <2>3 DEF Child
  <2>5. Child(q, x)'
    BY <1>8, <1>13, <1>15, <2>1, <2>3, <2>4 DEF Child
  <2>. QED
    BY <1>13, <2>1, <2>2, <2>5
<1>19. Receiving'
  <2>1. ASSUME NEW x \in Slot
        PROVE  /\ env_status'[x] # "FREE" /\ env_ipc_recving'[x] => prog'[x].pc = "from"
               /\ prog'[x].pc \in Waiting => env_status'[x] # "FREE"
               /\ prog'[x].pc = "value" => ~env_ipc_recving'[x]
    <3>1. CASE x = e
      BY <1>3, <1>6, <1>14, <3>1
    <3>2. CASE x # e
      BY <1>6, <1>8, <1>13, <3>2 DEF UInv, Receiving
    <3>. QED
      BY <3>1, <3>2
  <2>. QED
    BY <2>1 DEF Receiving
<1>20. Delivery'
  <2>1. ASSUME NEW x \in Slot
        PROVE  /\ Pending(x)' <=> Pending(x)
               /\ Pending(x) => /\ From(x)' = From(x) /\ env_id'[x] = env_id[x]
                                /\ env_ipc_value'[x] = env_ipc_value[x]
                                /\ prog'[x].last = prog[x].last
    <3>1. CASE x = e
      <4>1. ~Pending(x)' /\ ~Pending(x)
        BY <1>1, <1>8, <3>1 DEF Pending, Waiting
      <4>. QED
        BY <4>1
    <3>2. CASE x # e
      BY <1>6, <1>8, <1>15, <3>2 DEF Pending, From
    <3>. QED
      BY <3>1, <3>2
  <2>. QED
    BY <1>15, <2>1, SameDelivery DEF UInv
<1>. QED
  BY <1>16, <1>17, <1>18, <1>19, <1>20 DEF UInv

LEMMA Reading ==
    ASSUME Stopped, UInv, NEW c \in CPU, cpu[c] = "user", prog[curenv[c]].pc \in Waiting
    PROVE  /\ curenv[c] \in Slot /\ Pending(curenv[c]) /\ env_status[curenv[c]] = "RUNNING"
           /\ From(curenv[c]) \in EnvId /\ env_ipc_value[curenv[c]] <= prog[curenv[c]].last
           /\ env_ipc_value[curenv[c]] \in Value
<1>1. curenv[c] \in Slot
  BY DEF Stopped, LiveAddressSpace, TypeOK
<1>2. env_status[curenv[c]] = "RUNNING"
  BY <1>1 DEF Stopped, UInv, Slots
<1>3. ~env_ipc_recving[curenv[c]]
  BY <1>1, <1>2 DEF Stopped, BlockedIffReceiving
<1>4. Pending(curenv[c])
  BY <1>3 DEF Pending
<1>. QED
  BY <1>1, <1>2, <1>4 DEF UInv, Delivery, Stopped, TypeOK

LEMMA ReadFromKeeps ==
    ASSUME Stopped, UInv, NEW c \in CPU, ReadFrom(c)
    PROVE  UInv'
<1>0. PICK e : e = curenv[c]
  OBVIOUS
<1>1. /\ e \in Slot /\ Pending(e) /\ From(e) \in EnvId /\ prog[e].pc = "from"
      /\ env_status[e] = "RUNNING"
  BY <1>0, Reading DEF ReadFrom, Waiting
<1>2. PICK s : s = [prog[e] EXCEPT !.pc = "value", !.who = env_ipc_from[e]]
  OBVIOUS
<1>3. prog[e] \in Program /\ env_ipc_from[e] = From(e)
  BY <1>1 DEF UInv, ProgramsOK, From
<1>4. s \in Program /\ s.pc = "value" /\ s.last = prog[e].last /\ s.who = From(e)
  BY <1>1, <1>2, <1>3 DEF Program, Locals, InCall, Pc
<1>5. become(e, s) /\ UNCHANGED <<vars, sent, got>>
  BY <1>0, <1>2 DEF ReadFrom
<1>6. Moved(e, s)
  BY <1>1, <1>4, <1>5, Moves
<1>7. prog'[e] = s /\ \A x \in Slot \ {e} : prog'[x] = prog[x]
  BY <1>6 DEF Moved
<1>8. UNCHANGED <<env_status, env_id, env_parent_id, env_ipc_recving, env_ipc_value, env_ipc_from, sent, got>>
  BY <1>5 DEF vars, envs, ipc
<1>9. ProgramsOK' /\ \A x \in Slot : prog'[x].last = prog[x].last
  BY <1>1, <1>4, <1>6, MovedPrograms
<1>10. HistoryOK' /\ Slots'
  BY <1>8 DEF UInv, HistoryOK, Slots
<1>11. Starting'
  <2>1. ASSUME NEW q \in Slot, prog'[q].pc = "start"
        PROVE  env_status'[q] \in Active /\ \E x \in Slot : Child(q, x)'
    <3>1. q # e /\ prog'[q] = prog[q]
      BY <1>4, <1>7, <2>1
    <3>2. env_status[q] \in Active /\ \E x \in Slot : Child(q, x)
      BY <2>1, <3>1 DEF UInv, Starting
    <3>. QED
      BY <1>8, <3>1, <3>2 DEF Child
  <2>. QED
    BY <2>1 DEF Starting
<1>12. Receiving'
  <2>1. ASSUME NEW x \in Slot
        PROVE  /\ env_status'[x] # "FREE" /\ env_ipc_recving'[x] => prog'[x].pc = "from"
               /\ prog'[x].pc \in Waiting => env_status'[x] # "FREE"
               /\ prog'[x].pc = "value" => ~env_ipc_recving'[x]
    <3>1. CASE x = e
      BY <1>1, <1>4, <1>7, <1>8, <3>1 DEF Pending
    <3>2. CASE x # e
      BY <1>7, <1>8, <3>2 DEF UInv, Receiving
    <3>. QED
      BY <3>1, <3>2
  <2>. QED
    BY <2>1 DEF Receiving
<1>13. Delivery'
  <2>1. ASSUME NEW x \in Slot
        PROVE  /\ Pending(x)' <=> Pending(x)
               /\ Pending(x) => /\ From(x)' = From(x) /\ env_id'[x] = env_id[x]
                                /\ env_ipc_value'[x] = env_ipc_value[x]
                                /\ prog'[x].last = prog[x].last
    <3>1. CASE x = e
      <4>1. Pending(x)' /\ Pending(x) /\ From(x)' = From(x)
        BY <1>1, <1>4, <1>7, <1>8, <3>1 DEF Pending, From, Waiting
      <4>. QED
        BY <1>8, <1>9, <4>1
    <3>2. CASE x # e
      BY <1>7, <1>8, <3>2 DEF Pending, From
    <3>. QED
      BY <3>1, <3>2
  <2>. QED
    BY <1>8, <2>1, SameDelivery DEF UInv
<1>. QED
  BY <1>9, <1>10, <1>11, <1>12, <1>13 DEF UInv

(* ipc_recv() returns: the mailbox is empty, and all that was sent has     *)
(* been received.                                                          *)
LEMMA ReadValueKeeps ==
    ASSUME Stopped, UInv, NEW c \in CPU, ReadValue(c)
    PROVE  UInv'
<1>0. PICK e, value : e = curenv[c] /\ value = env_ipc_value[e]
  OBVIOUS
<1>1. /\ e \in Slot /\ Pending(e) /\ From(e) \in EnvId /\ prog[e].pc = "value"
      /\ env_status[e] = "RUNNING" /\ value \in Value /\ value <= prog[e].last
  BY <1>0, Reading DEF ReadValue, Waiting
<1>2. PICK s : s = AfterRecv(prog[e], value)
  OBVIOUS
<1>3. prog[e] \in Program /\ prog[e].who = From(e) /\ env_id[e] \in EnvId /\ ~env_ipc_recving[e]
  BY <1>1 DEF UInv, ProgramsOK, From, Stopped, TypeOK, Pending
<1>4. s \in Program /\ s.last = prog[e].last /\ s.pc \in {"fork", "send", "recv", "exit"}
  BY <1>1, <1>2, <1>3, RecvPrograms DEF Becomes
<1>5. become(e, s) /\ UNCHANGED vars
  BY <1>0, <1>2, <1>3 DEF ReadValue
<1>6. Moved(e, s)
  BY <1>1, <1>4, <1>5, Moves
<1>7. prog'[e] = s /\ \A x \in Slot \ {e} : prog'[x] = prog[x]
  BY <1>6 DEF Moved
<1>8. UNCHANGED <<env_status, env_id, env_parent_id, env_ipc_recving, env_ipc_value, env_ipc_from>>
  BY <1>5 DEF vars, envs, ipc
<1>9. ProgramsOK' /\ \A x \in Slot : prog'[x].last = prog[x].last
  BY <1>1, <1>4, <1>6, MovedPrograms
<1>10. PICK pair : pair = <<From(e), env_id[e]>>
  OBVIOUS
<1>11. pair \in EnvId \X EnvId
  BY <1>1, <1>3, <1>10
<1>12. PICK s1, g1 \in Seq(Value) :
          /\ s1 = g1 /\ sent' = [sent EXCEPT ![pair] = s1] /\ got' = [got EXCEPT ![pair] = g1]
  <2>1. sent[pair] \in Seq(Value) /\ got[pair] \in Seq(Value) /\ <<>> \in Seq(Value)
    BY <1>11 DEF UInv, HistoryOK
  <2>2. sent[pair] = Append(got[pair], value)
    <3>1. Carries(e, From(e), env_id[e])
      BY <1>1 DEF Carries
    <3>. QED
      BY <1>0, <1>1, <1>3, <1>10, <3>1 DEF UInv, Delivery
  <2>3. PICK all \in BOOLEAN :
           /\ sent' = [sent EXCEPT ![pair] = IF all THEN <<>> ELSE sent[pair]]
           /\ got' = [got EXCEPT ![pair] = IF all THEN <<>> ELSE Append(got[pair], value)]
    BY <1>0, <1>3, <1>10 DEF ReadValue
  <2>. QED
    BY <2>1, <2>2, <2>3
<1>13. /\ HistoryOK' /\ sent'[pair] = got'[pair]
       /\ \A other \in EnvId \X EnvId :
             other # pair => sent'[other] = sent[other] /\ got'[other] = got[other]
  BY <1>11, <1>12 DEF UInv, HistoryOK
<1>14. Slots'
  BY <1>8 DEF UInv, Slots
<1>15. Starting'
  <2>1. ASSUME NEW q \in Slot, prog'[q].pc = "start"
        PROVE  env_status'[q] \in Active /\ \E x \in Slot : Child(q, x)'
    <3>1. q # e /\ prog'[q] = prog[q]
      BY <1>4, <1>7, <2>1
    <3>2. env_status[q] \in Active /\ \E x \in Slot : Child(q, x)
      BY <2>1, <3>1 DEF UInv, Starting
    <3>. QED
      BY <1>8, <3>1, <3>2 DEF Child
  <2>. QED
    BY <2>1 DEF Starting
<1>16. Receiving'
  <2>1. ASSUME NEW x \in Slot
        PROVE  /\ env_status'[x] # "FREE" /\ env_ipc_recving'[x] => prog'[x].pc = "from"
               /\ prog'[x].pc \in Waiting => env_status'[x] # "FREE"
               /\ prog'[x].pc = "value" => ~env_ipc_recving'[x]
    <3>1. CASE x = e
      BY <1>1, <1>3, <1>4, <1>7, <1>8, <3>1 DEF Waiting
    <3>2. CASE x # e
      BY <1>7, <1>8, <3>2 DEF UInv, Receiving
    <3>. QED
      BY <3>1, <3>2
  <2>. QED
    BY <2>1 DEF Receiving
<1>17. Delivery'
  <2>1. ~Pending(e)'
    BY <1>4, <1>7 DEF Pending, Waiting
  <2>2. ASSUME NEW x \in Slot \ {e}
        PROVE  (Pending(x)' <=> Pending(x)) /\ From(x)' = From(x)
    BY <1>7, <1>8 DEF Pending, From
  <2>3. ASSUME NEW x \in Slot, Pending(x)'
        PROVE  From(x)' \in EnvId /\ env_ipc_value'[x] <= prog'[x].last
    BY <1>8, <1>9, <2>1, <2>2, <2>3 DEF UInv, Delivery
  <2>4. ASSUME NEW from \in EnvId, NEW to \in EnvId, NEW x \in Slot, Carries(x, from, to)'
        PROVE  sent'[<<from, to>>] = Append(got'[<<from, to>>], env_ipc_value'[x])
    <3>1. x # e /\ Carries(x, from, to)
      BY <1>8, <2>1, <2>2, <2>4 DEF Carries
    <3>2. env_id[x] # env_id[e]
      BY <1>1, <3>1 DEF UInv, Slots
    <3>3. <<from, to>> # pair /\ <<from, to>> \in EnvId \X EnvId
      BY <1>10, <3>1, <3>2 DEF Carries
    <3>4. sent[<<from, to>>] = Append(got[<<from, to>>], env_ipc_value[x])
      BY <3>1 DEF UInv, Delivery
    <3>. QED
      BY <1>8, <1>13, <3>3, <3>4
  <2>5. ASSUME NEW from \in EnvId, NEW to \in EnvId, \A x \in Slot : ~Carries(x, from, to)'
        PROVE  sent'[<<from, to>>] = got'[<<from, to>>]
    <3>1. CASE from = From(e) /\ to = env_id[e]
      BY <1>10, <1>13, <3>1
    <3>2. CASE ~(from = From(e) /\ to = env_id[e])
      <4>1. \A x \in Slot : ~Carries(x, from, to)
        BY <1>8, <2>2, <2>5, <3>2 DEF Carries
      <4>2. sent[<<from, to>>] = got[<<from, to>>]
        BY <4>1 DEF UInv, Delivery
      <4>3. <<from, to>> # pair /\ <<from, to>> \in EnvId \X EnvId
        BY <1>10, <3>2
      <4>. QED
        BY <1>8, <1>13, <4>2, <4>3
    <3>. QED
      BY <3>1, <3>2
  <2>. QED
    BY <2>3, <2>4, <2>5 DEF Delivery
<1>. QED
  BY <1>9, <1>13, <1>14, <1>15, <1>16, <1>17 DEF UInv

LEMMA ForkKeeps ==
    ASSUME IInv, NoPanic', UInv, NEW c \in CPU, Fork(c)
    PROVE  UInv'
<1>0. PICK p, y : p = curenv[c] /\ y = Head(env_free_list)
  OBVIOUS
<1>1. /\ p \in Slot /\ env_status[p] = "RUNNING" /\ prog[p] \in Program /\ prog[p].pc = "fork"
      /\ env_id[p] \in EnvId /\ ~env_ipc_recving[p]
  BY <1>0, Running DEF Fork, At, IInv, TypeOK
<1>2. PICK x \in Slot : /\ env_alloc(x, env_id[p])
                        /\ trap_return(c, [env_status EXCEPT ![x] = "NOT_RUNNABLE"])
  BY <1>0 DEF Fork, sys_exofork
<1>3. x = y /\ env_status[x] = "FREE" /\ x # p
  <2>1. env_free_list # <<>> /\ x = Head(env_free_list)
    BY <1>2 DEF env_alloc
  <2>2. env_free_list \in Seq(Slot)
    BY DEF IInv, TypeOK
  <2>3. 1 \in DOMAIN env_free_list /\ env_free_list[1] = x
    BY <2>1, <2>2
  <2>4. env_status[x] = "FREE"
    BY <2>3 DEF IInv, FreeListExact
  <2>. QED
    BY <1>0, <1>1, <2>1, <2>4
<1>4. /\ env_id' = [env_id EXCEPT ![x] = <<NextGeneration(x), x>>]
      /\ env_parent_id' = [env_parent_id EXCEPT ![x] = env_id[p]]
      /\ env_ipc_recving' = [env_ipc_recving EXCEPT ![x] = FALSE]
      /\ UNCHANGED <<env_ipc_value, env_ipc_from>>
  BY <1>2 DEF env_alloc
<1>5. NextGeneration(x) \in 0 .. MAXGEN
  <2>1. env_id[x][1] \in 0 .. MAXGEN
    BY DEF IInv, TypeOK, EnvId
  <2>. QED
    BY <2>1, ConstAssumption DEF NextGeneration
<1>6. /\ env_id'[x] \in EnvId /\ env_id'[x][2] = x /\ env_parent_id'[x] = env_id[p]
      /\ ~env_ipc_recving'[x]
      /\ \A z \in Slot \ {x} : /\ env_id'[z] = env_id[z] /\ env_parent_id'[z] = env_parent_id[z]
                               /\ env_ipc_recving'[z] = env_ipc_recving[z]
  BY <1>4, <1>5 DEF IInv, TypeOK, EnvId
<1>7. UNCHANGED <<env_ipc_value, env_ipc_from, sent, got>>
  BY <1>4 DEF Fork
<1>8. PICK st : st = [env_status EXCEPT ![x] = "NOT_RUNNABLE"]
  OBVIOUS
<1>9. st \in [Slot -> Status] /\ st[x] = "NOT_RUNNABLE" /\ \A z \in Slot \ {x} : st[z] = env_status[z]
  BY <1>8 DEF IInv, TypeOK, Status
<1>10. trap_return(c, st)
  BY <1>2, <1>8
<1>11. Settled(st)
  BY <1>0, <1>1, <1>9, <1>10, ReturnSettles DEF IInv
<1>12. \A z \in Slot \ {x} : /\ env_status'[z] # "DYING"
                             /\ env_status'[z] = "FREE" <=> env_status[z] = "FREE"
                             /\ env_status[z] \in Active => env_status'[z] \in Active
                             /\ env_status[z] = "NOT_RUNNABLE" => env_status'[z] = "NOT_RUNNABLE"
  BY <1>9, <1>11 DEF Settled, Active, UInv, Slots
<1>13. env_status'[x] = "NOT_RUNNABLE"
  BY <1>9, <1>11 DEF Settled, Active
<1>14. PICK s, t : /\ s = AfterFork(prog[p], TRUE)
                   /\ t = [prog[p] EXCEPT !.pc = "start", !.id = env_id'[x]]
  OBVIOUS
<1>15. s \in Program /\ s.last = prog[p].last /\ s.pc \in {"fork", "send", "recv"}
  BY <1>1, <1>14, ForkPrograms DEF Becomes
<1>16. t \in Program /\ t.last = prog[p].last /\ t.pc = "start" /\ t.id = env_id'[x]
  BY <1>1, <1>6, <1>14 DEF Program, Locals, InCall, Pc
<1>17. /\ prog' \in [Slot -> Program] /\ prog'[p] = t /\ prog'[x] = s
       /\ \A z \in Slot \ {p, x} : prog'[z] = prog[z]
  <2>1. prog' = [prog EXCEPT ![p].pc = "start", ![p].id = env_id'[y],
                             ![y] = AfterFork(prog[p], TRUE)]
    BY <1>0 DEF Fork
  <2>2. prog' = [[prog EXCEPT ![p] = t] EXCEPT ![x] = s]
    BY <1>1, <1>3, <1>14, <2>1 DEF UInv, ProgramsOK
  <2>. QED
    BY <1>1, <1>3, <1>15, <1>16, <2>2 DEF UInv, ProgramsOK
<1>18. ProgramsOK'
  <2>1. \A z \in Slot : prog'[z].last = prog[p].last
    BY <1>1, <1>15, <1>16, <1>17 DEF UInv, ProgramsOK
  <2>. QED
    BY <1>17, <2>1 DEF ProgramsOK
<1>19. HistoryOK' /\ Slots'
  BY <1>6, <1>7, <1>12, <1>13 DEF UInv, HistoryOK, Slots
<1>20. Starting'
  <2>1. ASSUME NEW q \in Slot, prog'[q].pc = "start"
        PROVE  env_status'[q] \in Active /\ \E z \in Slot : Child(q, z)'
    <3>1. CASE q = p
      <4>1. Child(q, x)'
        BY <1>3, <1>1, <1>6, <1>13, <1>16, <1>17, <3>1 DEF Child
      <4>2. env_status'[q] \in Active
        BY <1>1, <1>3, <1>12, <3>1 DEF Active
      <4>. QED
        BY <4>1, <4>2
    <3>2. CASE q # p
      <4>1. q # x /\ prog'[q] = prog[q]
        BY <1>15, <1>17, <2>1, <3>2
      <4>2. env_status[q] \in Active /\ \E z \in Slot : Child(q, z)
        BY <2>1, <4>1 DEF UInv, Starting
      <4>3. PICK z \in Slot : Child(q, z)
        BY <4>2
      <4>4. z # x
        BY <1>3, <4>3 DEF Child
      <4>5. Child(q, z)'
        BY <1>6, <1>12, <4>1, <4>3, <4>4 DEF Child
      <4>. QED
        BY <1>12, <4>1, <4>2, <4>5
    <3>. QED
      BY <3>1, <3>2
  <2>. QED
    BY <2>1 DEF Starting
<1>21. \A z \in {p, x} : prog[z].pc \notin Waiting /\ prog'[z].pc \notin Waiting
  BY <1>1, <1>3, <1>15, <1>16, <1>17 DEF UInv, Receiving, Waiting
<1>22. Receiving'
  <2>1. ASSUME NEW z \in Slot
        PROVE  /\ env_status'[z] # "FREE" /\ env_ipc_recving'[z] => prog'[z].pc = "from"
               /\ prog'[z].pc \in Waiting => env_status'[z] # "FREE"
               /\ prog'[z].pc = "value" => ~env_ipc_recving'[z]
    <3>1. CASE z \in {p, x}
      <4>1. ~env_ipc_recving'[z]
        BY <1>1, <1>3, <1>6, <3>1
      <4>. QED
        BY <1>21, <3>1, <4>1
    <3>2. CASE z \notin {p, x}
      BY <1>6, <1>12, <1>17, <3>2 DEF UInv, Receiving
    <3>. QED
      BY <3>1, <3>2
  <2>. QED
    BY <2>1 DEF Receiving
<1>23. Delivery'
  <2>1. ASSUME NEW z \in Slot
        PROVE  /\ Pending(z)' <=> Pending(z)
               /\ Pending(z) => /\ From(z)' = From(z) /\ env_id'[z] = env_id[z]
                                /\ env_ipc_value'[z] = env_ipc_value[z]
                                /\ prog'[z].last = prog[z].last
    <3>1. CASE z \in {p, x}
      <4>1. ~Pending(z)' /\ ~Pending(z)
        BY <1>21, <3>1 DEF Pending
      <4>. QED
        BY <4>1
    <3>2. CASE z \notin {p, x}
      BY <1>6, <1>7, <1>17, <3>2 DEF Pending, From
    <3>. QED
      BY <3>1, <3>2
  <2>. QED
    BY <1>7, <2>1, SameDelivery DEF UInv
<1>. QED
  BY <1>18, <1>19, <1>20, <1>22, <1>23 DEF UInv

-----------------------------------------------------------------------------
(* The invariant, and what follows from it.                                *)

LEMMA UserInit == IpcInit => KInv /\ UInv
<1>. SUFFICES ASSUME IpcInit PROVE KInv /\ UInv
  OBVIOUS
<1>1. IInv
  BY InitInv DEF IpcInit
<1>2. KInv
  BY <1>1 DEF KInv, IInv, Stopped, OneCpuPerEnv, OnCpu, TypeOK, LiveAddressSpace
<1>3. PICK program \in Programs, last \in 2 .. LAST :
         /\ program = "fairness" => 1 \in Slot
         /\ prog = [e \in Slot |-> Begin(program, e, last)]
  BY DEF IpcInit
<1>4. ASSUME NEW e \in Slot
      PROVE  Begin(program, e, last) \in Program /\ Begin(program, e, last).last = last
             /\ Begin(program, e, last).pc \notin {"start", "from", "value"}
  <2>. DEFINE s == [at |-> program, pc |-> "fork", p |-> 0, i |-> 0, id |-> NULL, who |-> NULL,
                    last |-> last]
  <2>1. 0 \in Nat /\ {"fork", "idle", "recv", "send"} \subseteq Pc /\ last >= 0
    BY DEF Pc
  <2>2. CASE program # "fairness"
    BY <1>3, <2>1, <2>2, IpcAssumption
    DEF Begin, Program, Locals, InCall, Place, ForkPlaces
  <2>3. CASE program = "fairness"
    <3>1. env_id[1] \in EnvId
      <4>1. 1 \in Slot
        BY <1>3, <2>3
      <4>. QED
        BY <1>1, <4>1 DEF IInv, TypeOK
    <3>. DEFINE t == [s EXCEPT !.id = env_id[1]]
    <3>2. /\ call(s, "idle", "idle") \in Program /\ call(s, "collect", "recv") \in Program
          /\ call(t, "sender", "send") \in Program
      BY <2>1, <3>1 DEF call, Program, Locals, InCall, Place, SendPlaces, RecvPlaces
    <3>3. /\ call(s, "idle", "idle").last = last /\ call(s, "collect", "recv").last = last
          /\ call(t, "sender", "send").last = last
          /\ call(s, "idle", "idle").pc = "idle" /\ call(s, "collect", "recv").pc = "recv"
          /\ call(t, "sender", "send").pc = "send"
      BY DEF call
    <3>. QED
      BY <2>3, <3>2, <3>3 DEF Begin
  <2>. QED
    BY <2>2, <2>3
<1>7. ProgramsOK /\ \A e \in Slot : prog[e].pc \notin {"start", "from", "value"}
  BY <1>3, <1>4 DEF ProgramsOK
<1>8. sent = [pair \in EnvId \X EnvId |-> <<>>] /\ got = sent
  BY DEF IpcInit
<1>9. HistoryOK
  <2>1. <<>> \in Seq(Value)
    OBVIOUS
  <2>. QED
    BY <1>8, <2>1 DEF HistoryOK
<1>10. /\ \A e \in Slot : env_ipc_recving[e] = FALSE
       /\ \A e \in Slot : env_status[e] \in {"RUNNABLE", "FREE"} /\ env_id[e][2] = e
  BY DEF IpcInit, Init, Created
<1>11. Slots /\ Starting /\ Receiving
  BY <1>7, <1>10 DEF Slots, Starting, Receiving, Waiting
<1>12. Delivery
  BY <1>7, <1>8 DEF Delivery, Carries, Pending, Waiting
<1>. QED
  BY <1>2, <1>7, <1>9, <1>11, <1>12 DEF UInv

LEMMA UserNext == KInv /\ UInv /\ [IpcNext]_ivars => (KInv /\ UInv)'
<1>. SUFFICES ASSUME KInv, UInv, [IpcNext]_ivars PROVE KInv' /\ UInv'
  OBVIOUS
<1>1. CASE UNCHANGED ivars
  <2>1. UNCHANGED vars /\ UNCHANGED user
    BY <1>1 DEF ivars
  <2>2. KInv'
    <3>1. Stopped' /\ (KernelUnlocked' <=> KernelUnlocked)
      BY <2>1 DEF KInv, vars, envs, ipc, cpus, Stopped, TypeOK, FreeListExact, LiveAddressSpace,
                  BlockedIffReceiving, NoPanic, KernelUnlocked
    <3>2. IInv => IInv'
      BY <2>1, NextInv
    <3>. QED
      BY <3>1, <3>2 DEF KInv
  <2>3. UInv'
    <3>1. Settled(env_status)
      BY <2>1 DEF Settled, vars, envs
    <3>2. UNCHANGED <<env_id, env_parent_id, env_ipc_recving, env_ipc_from, env_ipc_value, user>>
      BY <2>1 DEF vars, envs, ipc
    <3>. QED
      BY <3>1, <3>2, StillStep
  <2>. QED
    BY <2>2, <2>3
<1>2. ASSUME NEW c \in CPU, Step(c) PROVE KInv' /\ UInv'
  <2>1. KInv'
    BY <1>2, KernelInv
  <2>2. NoPanic' /\ Stopped
    BY <2>1 DEF KInv, Stopped
  <2>3. CASE ReadFrom(c) \/ ReadValue(c)
    BY <2>1, <2>2, <2>3, ReadFromKeeps, ReadValueKeeps
  <2>4. CASE ~(ReadFrom(c) \/ ReadValue(c))
    <3>1. KernelUnlocked
      BY <1>2, <2>4 DEF Step, UserStep, Fork, ForkFails, Start, TrySend, SendYield, ipc_recv, exit,
                        panic, At, Trapped, Interrupt, Boot, Zombie, TimerOrYield, HaltedTimer
    <3>2. IInv
      BY <3>1 DEF KInv
    <3>3. CASE panic(c)
      <4>1. UNCHANGED <<envs, ipc, user>>
        BY <3>3 DEF panic, Breakpoint
      <4>2. Settled(env_status)
        BY <4>1 DEF Settled, envs
      <4>3. UNCHANGED <<env_id, env_parent_id, env_ipc_recving, env_ipc_from, env_ipc_value, user>>
        BY <4>1 DEF envs, ipc
      <4>. QED
        BY <2>1, <4>2, <4>3, StillStep
    <3>4. CASE Interrupt(c) /\ UNCHANGED user
      BY <2>1, <2>2, <3>2, <3>4, InterruptKeeps
    <3>. QED
      BY <1>2, <2>1, <2>2, <2>4, <3>2, <3>3, <3>4, ForkKeeps, ForkFailsKeeps, StartKeeps,
         TrySendKeeps, SendYieldKeeps, RecvKeeps, ExitKeeps DEF Step, UserStep
  <2>. QED
    BY <2>1, <2>3, <2>4
<1>. QED
  BY <1>1, <1>2 DEF IpcNext, Step

(* The invariant of the programs and of the kernel under them.             *)
THEOREM IpcInvariance == IpcSpec => [](KInv /\ UInv)
BY UserInit, UserNext, PTL DEF IpcSpec

(* Each message is received once, in the order sent (ipc_send() and        *)
(* ipc_recv(), lib/ipc.c), whatever is sent, by how many.                  *)
THEOREM DeliveryTheorem == IpcSpec => []InOrderOnce
<1>1. UInv => InOrderOnce
  <2>. SUFFICES ASSUME UInv, NEW from \in EnvId, NEW to \in EnvId
                PROVE  /\ Len(sent[<<from, to>>]) - Len(got[<<from, to>>]) \in {0, 1}
                       /\ got[<<from, to>>] = SubSeq(sent[<<from, to>>], 1, Len(got[<<from, to>>]))
    BY DEF InOrderOnce
  <2>1. PICK s, g : s = sent[<<from, to>>] /\ g = got[<<from, to>>]
    OBVIOUS
  <2>2. s \in Seq(Value) /\ g \in Seq(Value)
    BY <2>1 DEF UInv, HistoryOK
  <2>3. s = g \/ \E v : s = Append(g, v)
    BY <2>1 DEF UInv, Delivery
  <2>4. Len(s) - Len(g) \in {0, 1} /\ g = SubSeq(s, 1, Len(g))
    BY <2>2, <2>3
  <2>. QED
    BY <2>1, <2>4
<1>. QED
  BY <1>1, IpcInvariance, PTL

(* The programs use the kernel as the first part takes programs to do,     *)
(* but for the int3 of a panic (user/primes.c, pingpong.c, fairness.c).    *)
THEOREM LibraryTheorem == IpcSpec => [][LibNext \/ \E c \in CPU : Breakpoint(c)]_vars
<1>1. KInv /\ UInv /\ [IpcNext]_ivars => [LibNext \/ \E c \in CPU : Breakpoint(c)]_vars
  <2>. SUFFICES ASSUME KInv, UInv, IpcNext
                PROVE  [LibNext \/ \E c \in CPU : Breakpoint(c)]_vars
    BY DEF ivars
  <2>1. PICK c \in CPU : Step(c)
    BY DEF IpcNext, Step
  <2>2. CASE panic(c)
    BY <2>2 DEF panic
  <2>3. CASE ReadFrom(c) \/ ReadValue(c)
    BY <2>3 DEF ReadFrom, ReadValue
  <2>4. CASE ~panic(c) /\ ~(ReadFrom(c) \/ ReadValue(c))
    <3>1. KernelUnlocked
      BY <2>1, <2>4 DEF Step, UserStep, Fork, ForkFails, Start, TrySend, SendYield, ipc_recv, exit,
                        At, Trapped, Interrupt, Boot, Zombie, TimerOrYield, HaltedTimer
    <3>. QED
      BY <2>1, <2>4, <3>1, KernelStep DEF KInv
  <2>. QED
    BY <2>2, <2>3, <2>4
<1>. QED
  BY <1>1, IpcInvariance, PTL DEF IpcSpec

(* Under the programs the kernel's lists, address spaces and receives stay *)
(* right, also after a program has stopped it.                             *)
THEOREM KernelTheorem ==
    IpcSpec => [](FreeListExact /\ LiveAddressSpace /\ BlockedIffReceiving /\ NoPanic)
<1>1. KInv => FreeListExact /\ LiveAddressSpace /\ BlockedIffReceiving /\ NoPanic
  BY DEF KInv, Stopped
<1>. QED
  BY <1>1, IpcInvariance, PTL

(* A program that waits in ipc_recv() wakes only with a message.           *)
THEOREM ReceiverTheorem == IpcSpec => WokenBySender
<1>1. KInv /\ UInv /\ [IpcNext]_ivars =>
      [\A e \in Slot :
         env_ipc_recving[e] /\ env_status[e] = "NOT_RUNNABLE"
         /\ env_status'[e] \in {"RUNNABLE", "RUNNING"}
         => /\ ~env_ipc_recving'[e]
            /\ \E c \in CPU : cpu[c] = "user" /\ env_ipc_from'[e] = env_id[curenv[c]]]_vars
  <2>. SUFFICES ASSUME KInv, UInv, IpcNext, NEW e \in Slot, env_ipc_recving[e],
                       env_status[e] = "NOT_RUNNABLE", env_status'[e] \in {"RUNNABLE", "RUNNING"}
                PROVE  /\ ~env_ipc_recving'[e]
                       /\ \E c \in CPU : cpu[c] = "user" /\ env_ipc_from'[e] = env_id[curenv[c]]
    BY DEF ivars
  <2>1. PICK c \in CPU : Step(c)
    BY DEF IpcNext, Step
  <2>2. ~panic(c) /\ ~ReadFrom(c) /\ ~ReadValue(c)
    BY DEF panic, Breakpoint, ReadFrom, ReadValue, vars, envs
  <2>3. KernelUnlocked
    BY <2>1, <2>2 DEF Step, UserStep, Fork, ForkFails, Start, TrySend, SendYield, ipc_recv, exit,
                      At, Trapped, Interrupt, Boot, Zombie, TimerOrYield, HaltedTimer
  <2>4. IInv /\ [LibNext]_vars
    BY <2>1, <2>2, <2>3, KernelStep DEF KInv
  <2>5. Woken(e) /\ LibNext
    BY <2>4 DEF Woken, Active, vars, envs
  <2>. QED
    BY <2>4, <2>5, WakeStep
<1>. QED
  BY <1>1, IpcInvariance, PTL DEF IpcSpec, WokenBySender

-----------------------------------------------------------------------------
(***************************************************************************)
(* The sieve of user/primes.c finds the primes, all of them and nothing    *)
(* else, for every number of CPUs, environments, chains and numbers sent.  *)
(*                                                                         *)
(* The argument goes along the chain.  What an environment has sent to its *)
(* child is the list, without a gap and in order, of the numbers that no   *)
(* number up to its own prime divides; the second part shows that the      *)
(* child takes the same list.  Its first number is the next prime.         *)
(***************************************************************************)

(* The numbers that are left behind a filter for p.                        *)
Survives(n, p) == n > 1 /\ n > p /\ \A d \in 2 .. p : n % d # 0
NoneIn(low, high, p) == \A n \in low + 1 .. high : ~Survives(n, p)
Follows(low, n, p) == low < n /\ Survives(n, p) /\ NoneIn(low, n - 1, p)

(* What b last sent to its child, and what the child last took of it.      *)
LastOf(s)  == IF s = <<>> THEN 0 ELSE s[Len(s)]
Link(b)    == <<env_id[b], prog[b].id>>
Offered(b) == LastOf(sent[Link(b)])
Taken(b)   == LastOf(got[Link(b)])

Feeds(b, e) == env_status[e] # "FREE" /\ prog[b].id = env_id[e]

(* Where a program of the sieve may be, and which of its variables are set. *)
Sieve  == {"primes", "top", "feed", "filter"}
Setup  == {"fork", "start", "panic"}
InSend == {"send", "yield"}
InRecv == {"recv", "from", "value"}

Childless(s) == s.at \in {"primes", "top"} /\ s.pc # "start"
HasPrime(s)  == s.at = "filter" \/ (s.at = "top" /\ s.pc \in Setup)
Fed(s)       == s.at \in {"top", "filter"}

Stage(s) ==
    /\ s.at \in Sieve
    /\ s.at \in {"primes", "feed"} => s.p = 0
    /\ s.at = "primes" => s.pc \in Setup
    /\ s.at = "top" => s.pc \in Setup \cup InRecv
    /\ s.at = "feed" => s.pc \in InSend \cup {"idle", "panic"}
    /\ s.at = "filter" => s.pc \in InSend \cup InRecv \cup {"panic"}
    /\ s.id = NULL <=> Childless(s)

Stages ==
    /\ \A e \in Slot : Stage(prog[e])
    /\ \A e \in Slot : env_status[e] = "FREE" => prog[e].p = 0 /\ Childless(prog[e])

(* The chain: each environment has one that feeds it, which feeds no       *)
(* other, and nothing is sent but along it.                                *)
Chain ==
    /\ \A e \in Slot : env_status[e] # "FREE" /\ Fed(prog[e]) => \E b \in Slot : Feeds(b, e)
    /\ \A b \in Slot : prog[b].id # NULL => \E e \in Slot : Feeds(b, e) /\ Fed(prog[e])
    /\ \A b, d \in Slot : prog[b].id # NULL /\ prog[b].id = prog[d].id => b = d
    /\ \A from, to \in EnvId : sent[<<from, to>>] # <<>> =>
          \E b \in Slot : env_id[b] = from /\ prog[b].id = to

(* A program s that sent out to its child, which took in of it: the child  *)
(* is at most one behind, and what s sends next leaves no gap.             *)
Streaming(s, out, in) ==
    /\ out = in \/ Follows(LastOf(in), LastOf(out), s.p)
    /\ s.pc \in InSend => Follows(LastOf(out), s.i, s.p)
    /\ s.pc = "start" => out = <<>> /\ in = <<>>

Stream(b) == Streaming(prog[b], sent[Link(b)], got[Link(b)])

(* A program s that took the numbers up to taken from a filter for p, and  *)
(* sent those up to offered: its prime was the first of them, and the      *)
(* others that it keeps do not survive its prime.                          *)
Sifted(s, p, offered, taken) ==
    IF HasPrime(s)
    THEN /\ Follows(0, s.p, p) /\ s.p <= taken
         /\ s.at = "top" => taken = s.p
         /\ s.at = "filter" /\ s.pc \in InSend => s.i = taken
         /\ s.at = "filter" /\ s.pc \in InRecv => offered <= taken /\ NoneIn(offered, taken, s.p)
    ELSE s.p = p /\ taken = 0

Filtered(b, e) == Sifted(prog[e], prog[b].p, Offered(e), Taken(b))

Streams ==
    /\ \A b \in Slot : prog[b].id # NULL => Stream(b)
    /\ \A b, e \in Slot : Feeds(b, e) => Filtered(b, e)

PrimesFound ==
    /\ \A e \in Slot : prog[e].p = 0 \/ Prime(prog[e].p)
    /\ \A e \in Slot : \A q \in 2 .. prog[e].p : Prime(q) => \E f \in Slot : prog[f].p = q

SieveInv == Stages /\ Chain /\ Streams /\ PrimesFound

-----------------------------------------------------------------------------
(* Numbers.                                                                *)

LEMMA DividesTransitive ==
    ASSUME NEW v \in Nat, NEW d \in Nat \ {0}, NEW k \in Nat \ {0}, v % d = 0, d % k = 0
    PROVE  v % k = 0
<1>1. \E m \in Nat : v = d * m
  OBVIOUS
<1>2. \E m \in Nat : d = k * m
  OBVIOUS
<1>3. PICK m \in Nat, j \in Nat : v = d * m /\ d = k * j
  BY <1>1, <1>2
<1>4. v = k * (j * m) /\ j * m \in Nat
  BY <1>3
<1>5. \A i \in Nat : (k * i) % k = 0
  OBVIOUS
<1>. QED
  BY <1>4, <1>5

(* A number that does not survive p, but is above it, has a divisor there. *)
LEMMA Divisor ==
    ASSUME NEW n \in Nat, NEW p \in Nat, n > p, n > 1, ~Survives(n, p)
    PROVE  \E k \in 2 .. p : n % k = 0
BY DEF Survives

(* The first survivor of p is the next prime, and a filter for it leaves   *)
(* what no number up to it divides.                                        *)
LEMMA NextPrime ==
    ASSUME NEW p \in Nat, NEW v \in Nat, Follows(0, v, p)
    PROVE  /\ Prime(v) /\ v > p
           /\ \A q \in Nat : Prime(q) /\ q < v => q <= p
           /\ \A n \in Nat : Survives(n, v) => Survives(n, p) /\ n % v # 0
           /\ \A n \in Nat : Survives(n, p) /\ n > v /\ n % v # 0 => Survives(n, v)
<1>1. v > 1 /\ v > p /\ \A d \in 2 .. p : v % d # 0
  BY DEF Follows, Survives
<1>2. ASSUME NEW n \in Nat, \A k \in 2 .. p : n % k # 0, NEW d \in p + 1 .. v - 1, d > 1
      PROVE  n % d # 0
  <2>1. d \in Nat /\ d > p /\ d \in 0 + 1 .. v - 1
    BY <1>2
  <2>2. ~Survives(d, p)
    BY <2>1 DEF Follows, NoneIn
  <2>3. PICK k \in 2 .. p : d % k = 0
    BY <1>2, <2>1, <2>2, Divisor
  <2>4. n % k # 0
    BY <1>2, <2>3
  <2>5. d \in Nat \ {0} /\ k \in Nat \ {0}
    BY <2>1
  <2>. QED
    BY <2>3, <2>4, <2>5, DividesTransitive
<1>3. ASSUME NEW n \in Nat, \A k \in 2 .. p : n % k # 0
      PROVE  \A d \in 2 .. v - 1 : n % d # 0
  <2>. SUFFICES ASSUME NEW d \in 2 .. v - 1 PROVE n % d # 0
    OBVIOUS
  <2>1. CASE d <= p
    <3>1. d \in 2 .. p
      BY <2>1
    <3>. QED
      BY <1>3, <3>1
  <2>2. CASE d > p
    <3>1. d \in p + 1 .. v - 1 /\ d > 1
      BY <2>2
    <3>. QED
      BY <1>2, <1>3, <3>1
  <2>. QED
    BY <2>1, <2>2
<1>4. Prime(v)
  BY <1>1, <1>3 DEF Prime
<1>5. ASSUME NEW q \in Nat, Prime(q), q < v PROVE q <= p
  <2>. SUFFICES ASSUME q > p PROVE FALSE
    OBVIOUS
  <2>1. q > 1 /\ \A d \in 2 .. q - 1 : q % d # 0
    BY <1>5 DEF Prime
  <2>2. q \in 0 + 1 .. v - 1
    BY <1>5, <2>1
  <2>3. ~Survives(q, p)
    BY <2>2 DEF Follows, NoneIn
  <2>4. PICK k \in 2 .. p : q % k = 0
    BY <2>1, <2>3, Divisor
  <2>. QED
    BY <2>1, <2>4
<1>6. ASSUME NEW n \in Nat, Survives(n, v) PROVE Survives(n, p) /\ n % v # 0
  <2>1. v \in 2 .. v /\ \A d \in 2 .. p : d \in 2 .. v
    BY <1>1
  <2>2. n > v /\ \A d \in 2 .. v : n % d # 0
    BY <1>6 DEF Survives
  <2>3. n % v # 0 /\ \A d \in 2 .. p : n % d # 0
    BY <2>1, <2>2
  <2>. QED
    BY <1>1, <2>2, <2>3 DEF Survives
<1>7. ASSUME NEW n \in Nat, Survives(n, p), n > v, n % v # 0 PROVE Survives(n, v)
  <2>1. \A d \in 2 .. v - 1 : n % d # 0
    BY <1>3, <1>7 DEF Survives
  <2>2. \A d \in 2 .. v : d = v \/ d \in 2 .. v - 1
    BY <1>1
  <2>. QED
    BY <1>1, <1>7, <2>1, <2>2 DEF Survives
<1>. QED
  BY <1>1, <1>4, <1>5, <1>6, <1>7

LEMMA LastOfSeq ==
    ASSUME NEW s \in Seq(Value), NEW v \in Value
    PROVE  LastOf(s) \in Nat /\ LastOf(Append(s, v)) = v /\ Append(s, v) # s /\ Append(s, v) # <<>>
<1>1. s # <<>> => s[Len(s)] \in Value
  OBVIOUS
<1>2. Append(s, v) # s /\ Append(s, v) # <<>> /\ Append(s, v)[Len(Append(s, v))] = v
  BY Len(Append(s, v)) = Len(s) + 1
<1>. QED
  BY <1>1, <1>2, Numbers DEF LastOf
-----------------------------------------------------------------------------
(* What a step leaves alone.                                               *)

Kept == env_id' = env_id /\ \A x \in Slot : env_status'[x] = "FREE" <=> env_status[x] = "FREE"

(* A handler that leaves statuses st, which frees and makes nothing.       *)
LEMMA KeptBySettled ==
    ASSUME NEW st, Settled(st), env_id' = env_id,
           \A x \in Slot : st[x] = "FREE" <=> env_status[x] = "FREE"
    PROVE  Kept
BY DEF Settled, Kept, Active

LEMMA KeptByReturn ==
    ASSUME IInv, NoPanic', NEW c \in CPU, curenv[c] \in Slot, NEW e \in Slot, env_status[e] # "FREE",
           NEW status \in {"RUNNABLE", "NOT_RUNNABLE"}, env_id' = env_id,
           \/ trap_return(c, env_status)
           \/ trap_return(c, [env_status EXCEPT ![e] = status])
    PROVE  Kept
<1>1. env_status \in [Slot -> Status] /\ TypeOK
  BY DEF IInv, TypeOK
<1>2. PICK st : st = [env_status EXCEPT ![e] = status]
  OBVIOUS
<1>3. st \in [Slot -> Status] /\ \A x \in Slot : st[x] = "FREE" <=> env_status[x] = "FREE"
  BY <1>1, <1>2 DEF Status
<1>. QED
  BY <1>1, <1>2, <1>3, ReturnSettles, KeptBySettled

LEMMA StepKeeps ==
    ASSUME KInv, NoPanic', UInv, NEW c \in CPU, Step(c), ~Fork(c), ~exit(c)
    PROVE  Kept
<1>1. CASE ReadFrom(c) \/ ReadValue(c) \/ panic(c)
  <2>1. env_id' = env_id /\ env_status' = env_status
    BY <1>1 DEF ReadFrom, ReadValue, panic, Breakpoint, vars, envs
  <2>. QED
    BY <2>1 DEF Kept
<1>2. CASE ~(ReadFrom(c) \/ ReadValue(c) \/ panic(c))
  <2>1. KernelUnlocked
    BY <1>2 DEF Step, UserStep, Fork, ForkFails, Start, TrySend, SendYield, ipc_recv, exit,
                At, Trapped, Interrupt, Boot, Zombie, TimerOrYield, HaltedTimer
  <2>2. IInv /\ TypeOK /\ env_status \in [Slot -> Status]
    BY <2>1 DEF KInv, IInv, TypeOK
  <2>3. CASE Interrupt(c)
    <3>1. ~Zombie(c)
      BY <2>2, UserFacts DEF Zombie, UInv, Slots
    <3>2. env_id' = env_id /\ \E cur : sched_yield(c, env_status, cur)
      BY <2>3, <3>1 DEF Interrupt, Boot, TimerOrYield, HaltedTimer
    <3>. QED
      BY <2>2, <3>2, YieldSettles, KeptBySettled
  <2>4. CASE SendYield(c)
    <3>1. env_id' = env_id /\ \E cur : sched_yield(c, env_status, cur)
      BY <2>4 DEF SendYield, TimerOrYield
    <3>. QED
      BY <2>2, <3>1, YieldSettles, KeptBySettled
  <2>. DEFINE e == curenv[c]
  <2>5. CASE ForkFails(c) \/ Start(c) \/ TrySend(c) \/ ipc_recv(c)
    <3>1. Trapped(c)
      BY <2>5 DEF ForkFails, Start, TrySend, ipc_recv, At
    <3>2. e \in Slot /\ env_status[e] = "RUNNING" /\ prog[e] \in Program
      BY <2>2, <3>1, Running
    <3>3. CASE ForkFails(c)
      <4>1. env_id' = env_id /\ trap_return(c, env_status)
        BY <3>3 DEF ForkFails, Return
      <4>. QED
        BY <2>2, <3>2, <4>1, KeptByReturn
    <3>4. CASE Start(c)
      <4>1. PICK x \in envid2env(c, prog[e].id, TRUE) : sys_env_set_status(c, x, "RUNNABLE")
        BY <3>4 DEF Start
      <4>2. x \in Slot /\ env_status[x] # "FREE"
        BY <3>2, <4>1 DEF envid2env
      <4>3. env_id' = env_id /\ trap_return(c, [env_status EXCEPT ![x] = "RUNNABLE"])
        BY <4>1 DEF sys_env_set_status
      <4>. QED
        BY <2>2, <3>2, <4>2, <4>3, KeptByReturn
    <3>5. CASE TrySend(c)
      <4>1. \/ \E x \in envid2env(c, prog[e].id, FALSE) : sys_ipc_try_send(c, x, prog[e].i, FALSE, FALSE)
            \/ Return(c)
        BY <3>5 DEF TrySend
      <4>2. CASE Return(c)
        <5>1. env_id' = env_id /\ trap_return(c, env_status)
          BY <4>2 DEF Return
        <5>. QED
          BY <2>2, <3>2, <5>1, KeptByReturn
      <4>3. ASSUME NEW x \in envid2env(c, prog[e].id, FALSE),
                   sys_ipc_try_send(c, x, prog[e].i, FALSE, FALSE)
            PROVE  Kept
        <5>1. x \in Slot /\ env_status[x] # "FREE"
          BY <3>2, <4>3 DEF envid2env
        <5>2. /\ env_id' = env_id
              /\ \/ trap_return(c, env_status)
                 \/ trap_return(c, [env_status EXCEPT ![x] = "RUNNABLE"])
          BY <4>3 DEF sys_ipc_try_send
        <5>. QED
          BY <2>2, <3>2, <5>1, <5>2, KeptByReturn
      <4>. QED
        BY <4>1, <4>2, <4>3
    <3>6. CASE ipc_recv(c)
      <4>1. env_id' = env_id /\ sched_yield(c, [env_status EXCEPT ![e] = "NOT_RUNNABLE"], e)
        BY <3>6 DEF ipc_recv, sys_ipc_recv
      <4>2. PICK st : st = [env_status EXCEPT ![e] = "NOT_RUNNABLE"]
        OBVIOUS
      <4>3. st \in [Slot -> Status] /\ \A x \in Slot : st[x] = "FREE" <=> env_status[x] = "FREE"
        BY <2>2, <3>2, <4>2 DEF Status
      <4>. QED
        BY <2>2, <4>1, <4>2, <4>3, YieldSettles, KeptBySettled
    <3>. QED
      BY <2>5, <3>3, <3>4, <3>5, <3>6
  <2>. QED
    BY <1>2, <2>3, <2>4, <2>5 DEF Step, UserStep
<1>. QED
  BY <1>1, <1>2
-----------------------------------------------------------------------------
(* Steps of one program of the sieve, other than fork().                   *)

Onward(e, s) ==
    /\ s \in Program /\ Moved(e, s) /\ Stage(s) /\ s.id = prog[e].id
    /\ Fed(s) <=> Fed(prog[e])
    /\ env_status[e] # "FREE" /\ Kept

LEMMA OnwardChain ==
    ASSUME Stages, Chain, NEW e \in Slot, NEW s, Onward(e, s),
           \A from, to \in EnvId : sent'[<<from, to>>] # <<>> =>
              sent[<<from, to>>] # <<>> \/ (from = env_id[e] /\ to = prog[e].id)
    PROVE  /\ Stages' /\ Chain'
           /\ \A x \in Slot : prog'[x].id = prog[x].id /\ Link(x)' = Link(x)
           /\ \A b, x \in Slot : Feeds(b, x)' <=> Feeds(b, x)
<1>1. /\ prog'[e] = s /\ s.id = prog[e].id /\ Stage(s) /\ (Fed(s) <=> Fed(prog[e]))
      /\ \A x \in Slot \ {e} : prog'[x] = prog[x]
  BY DEF Onward, Moved
<1>2. /\ env_id' = env_id /\ env_status[e] # "FREE"
      /\ \A x \in Slot : env_status'[x] = "FREE" <=> env_status[x] = "FREE"
  BY DEF Onward, Kept
<1>3. \A x \in Slot : prog'[x].id = prog[x].id /\ (Fed(prog'[x]) <=> Fed(prog[x]))
  BY <1>1
<1>4. \A x \in Slot : Link(x)' = Link(x)
  BY <1>2, <1>3 DEF Link
<1>5. \A b, x \in Slot : Feeds(b, x)' <=> Feeds(b, x)
  BY <1>2, <1>3 DEF Feeds
<1>6. Stages'
  BY <1>1, <1>2 DEF Stages
<1>7. Chain'
  <2>1. ASSUME NEW x \in Slot, env_status'[x] # "FREE", Fed(prog'[x]) PROVE \E b \in Slot : Feeds(b, x)'
    <3>1. \E b \in Slot : Feeds(b, x)
      BY <1>2, <1>3, <2>1 DEF Chain
    <3>. QED
      BY <1>5, <3>1
  <2>2. ASSUME NEW b \in Slot, prog'[b].id # NULL PROVE \E x \in Slot : Feeds(b, x)' /\ Fed(prog'[x])
    <3>1. \E x \in Slot : Feeds(b, x) /\ Fed(prog[x])
      BY <1>3, <2>2 DEF Chain
    <3>. QED
      BY <1>3, <1>5, <3>1
  <2>3. ASSUME NEW b \in Slot, NEW d \in Slot, prog'[b].id # NULL, prog'[b].id = prog'[d].id PROVE b = d
    BY <1>3, <2>3 DEF Chain
  <2>4. ASSUME NEW from \in EnvId, NEW to \in EnvId, sent'[<<from, to>>] # <<>>
        PROVE  \E b \in Slot : env_id'[b] = from /\ prog'[b].id = to
    <3>1. CASE sent[<<from, to>>] # <<>>
      <4>1. \E b \in Slot : env_id[b] = from /\ prog[b].id = to
        BY <3>1 DEF Chain
      <4>. QED
        BY <1>2, <1>3, <4>1
    <3>2. CASE from = env_id[e] /\ to = prog[e].id
      BY <1>2, <1>3, <3>2
    <3>. QED
      BY <2>4, <3>1, <3>2
  <2>. QED
    BY <2>1, <2>2, <2>3, <2>4 DEF Chain
<1>. QED
  BY <1>3, <1>4, <1>5, <1>6, <1>7

(* Only the program moves, with the same prime.                            *)
LEMMA QuietSieve ==
    ASSUME SieveInv, NEW e \in Slot, NEW s, Onward(e, s), s.p = prog[e].p, UNCHANGED <<sent, got>>,
           prog[e].id # NULL => Streaming(s, sent[Link(e)], got[Link(e)]),
           \A b \in Slot : Feeds(b, e) => Sifted(s, prog[b].p, Offered(e), Taken(b))
    PROVE  SieveInv'
<1>1. prog'[e] = s /\ \A x \in Slot \ {e} : prog'[x] = prog[x]
  BY DEF Onward, Moved
<1>2. /\ Stages' /\ Chain'
      /\ \A x \in Slot : prog'[x].id = prog[x].id /\ Link(x)' = Link(x)
      /\ \A b, x \in Slot : Feeds(b, x)' <=> Feeds(b, x)
  BY OnwardChain DEF SieveInv
<1>3. \A x \in Slot : prog'[x].p = prog[x].p
  BY <1>1
<1>4. \A x \in Slot : Offered(x)' = Offered(x) /\ Taken(x)' = Taken(x)
  BY <1>2 DEF Offered, Taken
<1>5. ASSUME NEW b \in Slot, prog'[b].id # NULL PROVE Stream(b)'
  <2>1. prog[b].id # NULL
    BY <1>2, <1>5
  <2>2. Streaming(prog'[b], sent[Link(b)], got[Link(b)])
    BY <1>1, <2>1 DEF SieveInv, Streams, Stream
  <2>. QED
    BY <1>2, <2>2 DEF Stream
<1>6. ASSUME NEW b \in Slot, NEW x \in Slot, Feeds(b, x)' PROVE Filtered(b, x)'
  <2>1. Feeds(b, x)
    BY <1>2, <1>6
  <2>2. Sifted(prog'[x], prog[b].p, Offered(x), Taken(b))
    BY <1>1, <2>1 DEF SieveInv, Streams, Filtered
  <2>. QED
    BY <1>3, <1>4, <2>2 DEF Filtered
<1>7. PrimesFound'
  BY <1>3 DEF SieveInv, PrimesFound
<1>. QED
  BY <1>2, <1>5, <1>6, <1>7 DEF SieveInv, Streams
LEMMA SieveFacts ==
    ASSUME UInv, SieveInv, NEW e \in Slot
    PROVE  /\ prog[e] \in Program /\ prog[e] \in Locals /\ Stage(prog[e])
           /\ prog[e].p \in Nat /\ prog[e].i \in Nat
           /\ prog[e].id # NULL => Stream(e)
           /\ \A b \in Slot : Feeds(b, e) => Filtered(b, e)
BY DEF UInv, ProgramsOK, Program, Locals, SieveInv, Stages, Streams

(* A program that goes to another call of the same kind.                   *)
LEMMA CallSieve ==
    ASSUME UInv, SieveInv, NEW e \in Slot, NEW s \in Program, become(e, s), env_status[e] # "FREE",
           Kept, UNCHANGED <<sent, got>>,
           s.at = prog[e].at, s.p = prog[e].p, s.i = prog[e].i, s.id = prog[e].id,
           \/ s.pc \in InSend /\ prog[e].pc \in InSend
           \/ s.pc \in InRecv /\ prog[e].pc \in InRecv
           \/ s.pc = "panic" /\ prog[e].pc \in InSend \cup {"fork"}
    PROVE  SieveInv'
<1>1. Stage(prog[e])
  BY SieveFacts
<1>2. s.pc # "start" /\ prog[e].pc # "start"
  BY DEF InSend, InRecv
<1>3. Stage(s)
  BY <1>1, <1>2 DEF Stage, Childless, Sieve, Setup, InSend, InRecv
<1>4. Onward(e, s)
  <2>1. Moved(e, s)
    BY Moves
  <2>. QED
    BY <1>3, <2>1 DEF Onward, Fed
<1>5. prog[e].id # NULL => Streaming(s, sent[Link(e)], got[Link(e)])
  <2>1. prog[e].id # NULL => Streaming(prog[e], sent[Link(e)], got[Link(e)])
    BY SieveFacts DEF Stream
  <2>. QED
    BY <1>2, <2>1 DEF Streaming, InSend, InRecv
<1>6. ASSUME NEW b \in Slot, Feeds(b, e) PROVE Sifted(s, prog[b].p, Offered(e), Taken(b))
  <2>1. Sifted(prog[e], prog[b].p, Offered(e), Taken(b))
    BY <1>6, SieveFacts DEF Filtered
  <2>2. HasPrime(s) <=> HasPrime(prog[e])
    BY <1>1 DEF HasPrime, Stage, InSend, InRecv, Setup
  <2>. QED
    BY <2>1, <2>2 DEF Sifted, InSend, InRecv
<1>. QED
  BY <1>4, <1>5, <1>6, QuietSieve

LEMMA ForkFailsSieve ==
    ASSUME IInv, UInv, SieveInv, Kept, NEW c \in CPU, ForkFails(c)
    PROVE  SieveInv'
<1>. DEFINE e == curenv[c]
<1>1. e \in Slot /\ env_status[e] = "RUNNING" /\ prog[e] \in Program /\ prog[e].pc = "fork"
  BY Running DEF ForkFails, At
<1>2. PICK s : s = [prog[e] EXCEPT !.pc = "panic"]
  OBVIOUS
<1>3. /\ s \in Program /\ s.at = prog[e].at /\ s.p = prog[e].p /\ s.i = prog[e].i /\ s.id = prog[e].id
      /\ s.pc = "panic"
  BY <1>1, <1>2 DEF Program, Locals, InCall, Pc
<1>4. become(e, s) /\ UNCHANGED <<sent, got>>
  BY <1>2 DEF ForkFails
<1>. QED
  BY <1>1, <1>3, <1>4, CallSieve

LEMMA SendYieldSieve ==
    ASSUME IInv, UInv, SieveInv, Kept, NEW c \in CPU, SendYield(c)
    PROVE  SieveInv'
<1>. DEFINE e == curenv[c]
<1>1. e \in Slot /\ env_status[e] = "RUNNING" /\ prog[e] \in Program /\ prog[e].pc = "yield"
  BY Running DEF SendYield, At
<1>2. PICK s : s = [prog[e] EXCEPT !.pc = "send"]
  OBVIOUS
<1>3. /\ s \in Program /\ s.at = prog[e].at /\ s.p = prog[e].p /\ s.i = prog[e].i /\ s.id = prog[e].id
      /\ s.pc = "send"
  BY <1>1, <1>2 DEF Program, Locals, InCall, Pc
<1>4. become(e, s) /\ UNCHANGED <<sent, got>>
  BY <1>2 DEF SendYield
<1>. QED
  BY <1>1, <1>3, <1>4, CallSieve DEF InSend

LEMMA RecvSieve ==
    ASSUME IInv, UInv, SieveInv, Kept, NEW c \in CPU, ipc_recv(c)
    PROVE  SieveInv'
<1>. DEFINE e == curenv[c]
<1>1. e \in Slot /\ env_status[e] = "RUNNING" /\ prog[e] \in Program /\ prog[e].pc = "recv"
  BY Running DEF ipc_recv, At
<1>2. PICK s : s = [prog[e] EXCEPT !.pc = "from"]
  OBVIOUS
<1>3. /\ s \in Program /\ s.at = prog[e].at /\ s.p = prog[e].p /\ s.i = prog[e].i /\ s.id = prog[e].id
      /\ s.pc = "from"
  BY <1>1, <1>2 DEF Program, Locals, InCall, Pc
<1>4. become(e, s) /\ UNCHANGED <<sent, got>>
  BY <1>2 DEF ipc_recv
<1>. QED
  BY <1>1, <1>3, <1>4, CallSieve DEF InRecv

LEMMA ReadFromSieve ==
    ASSUME Stopped, UInv, SieveInv, Kept, NEW c \in CPU, ReadFrom(c)
    PROVE  SieveInv'
<1>. DEFINE e == curenv[c]
<1>1. e \in Slot /\ env_status[e] = "RUNNING" /\ From(e) \in EnvId /\ prog[e].pc = "from"
  BY Reading DEF ReadFrom, Waiting
<1>2. prog[e] \in Program /\ env_ipc_from[e] \in EnvId
  BY <1>1 DEF UInv, ProgramsOK, From
<1>3. PICK s : s = [prog[e] EXCEPT !.pc = "value", !.who = env_ipc_from[e]]
  OBVIOUS
<1>4. /\ s \in Program /\ s.at = prog[e].at /\ s.p = prog[e].p /\ s.i = prog[e].i /\ s.id = prog[e].id
      /\ s.pc = "value"
  BY <1>1, <1>2, <1>3 DEF Program, Locals, InCall, Pc
<1>5. become(e, s) /\ UNCHANGED <<sent, got>>
  BY <1>3 DEF ReadFrom
<1>. QED
  BY <1>1, <1>4, <1>5, CallSieve DEF InRecv

(* fork() returns in the parent: the first becomes the source, any other a *)
(* filter, and nothing is sent yet.                                        *)
LEMMA StartSieve ==
    ASSUME IInv, UInv, SieveInv, Kept, NEW c \in CPU, Start(c)
    PROVE  SieveInv'
<1>0. PICK e : e = curenv[c]
  OBVIOUS
<1>1. e \in Slot /\ env_status[e] = "RUNNING" /\ prog[e] \in Program /\ prog[e].pc = "start"
  BY <1>0, Running DEF Start, At
<1>2. PICK s : s = AfterFork(prog[e], FALSE)
  OBVIOUS
<1>3. s \in Program
  BY <1>1, <1>2, ForkPrograms DEF Becomes
<1>4. become(e, s) /\ UNCHANGED <<sent, got>>
  BY <1>0, <1>2 DEF Start
<1>5. Moved(e, s)
  BY <1>1, <1>3, <1>4, Moves
<1>6. Stage(prog[e]) /\ prog[e] \in Locals /\ prog[e].id # NULL /\ prog[e].at \in {"primes", "top"}
  BY <1>1, SieveFacts DEF Stage, Childless, InSend, InRecv, Sieve
<1>7. /\ s.p = prog[e].p /\ s.id = prog[e].id
      /\ prog[e].at = "primes" => s.at = "feed" /\ s.pc = "send" /\ s.i = 2
      /\ prog[e].at = "top" => s.at = "filter" /\ s.pc = "recv"
  BY <1>2, <1>6 DEF AfterFork, call, Locals
<1>8. Stage(s) /\ (Fed(s) <=> Fed(prog[e]))
  BY <1>6, <1>7 DEF Stage, Childless, Sieve, InSend, InRecv, Fed
<1>9. Onward(e, s)
  BY <1>1, <1>3, <1>5, <1>7, <1>8 DEF Onward
<1>10. sent[Link(e)] = <<>> /\ got[Link(e)] = <<>> /\ Offered(e) = 0
  BY <1>1, <1>6, SieveFacts DEF Stream, Streaming, Offered, LastOf
<1>11. Streaming(s, sent[Link(e)], got[Link(e)])
  <2>1. prog[e].at = "primes" => s.p = 0
    BY <1>6, <1>7 DEF Stage
  <2>2. Follows(0, 2, 0)
    BY DEF Follows, Survives, NoneIn
  <2>. QED
    BY <1>6, <1>7, <1>10, <2>1, <2>2 DEF Streaming, InSend, Offered
<1>12. ASSUME NEW b \in Slot, Feeds(b, e) PROVE Sifted(s, prog[b].p, Offered(e), Taken(b))
  <2>1. Sifted(prog[e], prog[b].p, Offered(e), Taken(b))
    BY <1>1, <1>12, SieveFacts DEF Filtered
  <2>2. CASE prog[e].at = "primes"
    BY <1>7, <2>1, <2>2 DEF Sifted, HasPrime
  <2>3. CASE prog[e].at = "top"
    <3>1. HasPrime(prog[e]) /\ HasPrime(s) /\ s.pc \notin InSend
      BY <1>1, <1>7, <2>3 DEF HasPrime, Setup, InSend
    <3>2. Follows(0, s.p, prog[b].p) /\ Taken(b) = s.p /\ s.p \in Nat
      BY <1>1, <1>6, <1>7, <2>1, <2>3, <3>1, SieveFacts DEF Sifted
    <3>3. NoneIn(0, s.p, s.p)
      BY <3>2 DEF NoneIn, Survives
    <3>. QED
      BY <1>7, <1>10, <2>3, <3>1, <3>2, <3>3 DEF Sifted
  <2>. QED
    BY <1>6, <2>2, <2>3
<1>. QED
  BY <1>1, <1>4, <1>7, <1>9, <1>11, <1>12, QuietSieve

(* ipc_send() when nothing is delivered.                                   *)
LEMMA UnsentSieve ==
    ASSUME IInv, UInv, SieveInv, Kept, NEW c \in CPU, At(c, "send"), NEW error, error # "NONE",
           ipc_send(c, prog[curenv[c]], error), UNCHANGED got
    PROVE  SieveInv'
<1>. DEFINE e == curenv[c]
<1>1. e \in Slot /\ env_status[e] = "RUNNING" /\ prog[e] \in Program /\ prog[e].pc = "send"
  BY Running DEF At
<1>2. PICK s : s = [prog[e] EXCEPT !.pc = IF error = "NOT_RECV" THEN "yield" ELSE "panic"]
  OBVIOUS
<1>3. /\ s \in Program /\ s.at = prog[e].at /\ s.p = prog[e].p /\ s.i = prog[e].i /\ s.id = prog[e].id
      /\ s.pc \in {"yield", "panic"}
  BY <1>1, <1>2 DEF Program, Locals, InCall, Pc
<1>4. become(e, s) /\ UNCHANGED <<sent, got>>
  BY <1>2 DEF ipc_send
<1>. QED
  BY <1>1, <1>3, <1>4, CallSieve DEF InSend
(* What the sender offers of a program that is no filter plays no role.    *)
LEMMA NoFilter ==
    ASSUME NEW s, s.at # "filter", NEW p, NEW taken, NEW o1, NEW o2, Sifted(s, p, o1, taken)
    PROVE  Sifted(s, p, o2, taken)
BY DEF Sifted

LEMMA Links ==
    ASSUME KInv, UInv, SieveInv, NEW b \in Slot, prog[b].id # NULL
    PROVE  /\ Link(b) \in EnvId \X EnvId /\ env_id[b] \in EnvId /\ prog[b].id \in EnvId
           /\ sent[Link(b)] \in Seq(Value) /\ got[Link(b)] \in Seq(Value)
           /\ Offered(b) \in Nat /\ Taken(b) \in Nat
           /\ \A d \in Slot \ {b} : prog[d].id # prog[b].id /\ Link(d) # Link(b)
<1>1. env_id[b] \in EnvId /\ prog[b].id \in EnvId
  BY SieveFacts DEF KInv, Stopped, TypeOK, Locals
<1>2. Link(b) \in EnvId \X EnvId
  BY <1>1 DEF Link
<1>3. sent[Link(b)] \in Seq(Value) /\ got[Link(b)] \in Seq(Value)
  BY <1>2 DEF UInv, HistoryOK
<1>4. Offered(b) \in Nat /\ Taken(b) \in Nat
  <2>1. \E v : v \in Value
    BY ConstAssumption
  <2>. QED
    BY <1>3, <2>1, LastOfSeq DEF Offered, Taken
<1>5. \A d \in Slot \ {b} : prog[d].id # prog[b].id
  BY DEF SieveInv, Chain
<1>. QED
  BY <1>1, <1>2, <1>3, <1>4, <1>5 DEF Link

(* ipc_send() when the number is delivered.                                *)
LEMMA SentSieve ==
    ASSUME IInv, KInv, UInv, SieveInv, Kept, NEW c \in CPU, At(c, "send"),
           send_error(c, prog[curenv[c]]) = "NONE",
           NEW r \in envid2env(c, prog[curenv[c]].id, FALSE),
           ipc_send(c, prog[curenv[c]], "NONE"), UNCHANGED got
    PROVE  SieveInv'
<1>0. PICK e, i : e = curenv[c] /\ i = prog[e].i
  OBVIOUS
<1>1. e \in Slot /\ env_status[e] = "RUNNING" /\ prog[e] \in Program /\ prog[e].pc = "send"
  BY <1>0, Running DEF At
<1>2. /\ r \in Slot /\ env_id[r] = prog[e].id /\ env_ipc_recving[r]
  BY <1>0, SendTarget
<1>3. /\ prog[e] \in Locals /\ Stage(prog[e]) /\ prog[e].at \in {"feed", "filter"} /\ prog[e].id # NULL
      /\ i \in Nat /\ i \in Value /\ prog[e].p \in Nat
  <2>1. prog[e] \in Locals /\ Stage(prog[e]) /\ i \in Nat /\ prog[e].p \in Nat
    BY <1>0, <1>1, SieveFacts
  <2>2. i \in Value
    BY <1>0, <1>1, Numbers DEF Program, InCall, Locals
  <2>. QED
    BY <1>1, <2>1, <2>2 DEF Stage, Childless, Sieve, Setup, InRecv
<1>4. PICK s : s = AfterSend(prog[e])
  OBVIOUS
<1>5. s \in Program
  BY <1>1, <1>4, SendPrograms DEF Becomes
<1>6. Moved(e, s)
  <2>1. become(e, s)
    BY <1>0, <1>4 DEF ipc_send
  <2>. QED
    BY <1>1, <1>5, <2>1, Moves
<1>7. /\ s.p = prog[e].p /\ s.id = prog[e].id /\ s.at = prog[e].at
      /\ s.at = "feed" => s.pc = "idle" \/ (s.pc = "send" /\ s.i = i + 1)
      /\ s.at = "filter" => s.pc = "recv"
  BY <1>0, <1>3, <1>4 DEF AfterSend, call, Locals
<1>8. Stage(s)
  BY <1>3, <1>7 DEF Stage, Childless, InSend, InRecv
<1>9. Onward(e, s)
  BY <1>1, <1>5, <1>6, <1>7, <1>8 DEF Onward, Fed
<1>10. PICK o : o = sent[Link(e)]
  OBVIOUS
<1>11. /\ Link(e) \in EnvId \X EnvId /\ o \in Seq(Value) /\ Offered(e) \in Nat
       /\ \A d \in Slot \ {e} : Link(d) # Link(e)
  BY <1>1, <1>3, <1>10, Links
<1>12. got[Link(e)] = o
  <2>1. \A x \in Slot : x # r => env_id[x] # env_id[r]
    BY <1>2 DEF UInv, Slots
  <2>2. \A x \in Slot : ~Carries(x, env_id[e], prog[e].id)
    BY <1>2, <2>1 DEF Carries, Pending
  <2>3. env_id[e] \in EnvId /\ prog[e].id \in EnvId
    BY <1>1, <1>3, Links
  <2>. QED
    BY <1>10, <2>2, <2>3 DEF UInv, Delivery, Link
<1>13. /\ sent'[Link(e)] = Append(o, i)
       /\ \A pair \in EnvId \X EnvId : pair # Link(e) => sent'[pair] = sent[pair]
  <2>1. sent' = [sent EXCEPT ![Link(e)] = Append(@, i)]
    BY <1>0 DEF ipc_send, log, Link
  <2>. QED
    BY <1>10, <1>11, <2>1 DEF UInv, HistoryOK
<1>14. /\ Stages' /\ Chain'
       /\ \A x \in Slot : prog'[x].id = prog[x].id /\ Link(x)' = Link(x)
       /\ \A b, x \in Slot : Feeds(b, x)' <=> Feeds(b, x)
  <2>1. \A from, to \in EnvId : sent'[<<from, to>>] # <<>> =>
           sent[<<from, to>>] # <<>> \/ (from = env_id[e] /\ to = prog[e].id)
    BY <1>13 DEF Link
  <2>. QED
    BY <1>1, <1>9, <2>1, OnwardChain DEF SieveInv
<1>15. prog'[e] = s /\ (\A x \in Slot \ {e} : prog'[x] = prog[x]) /\ \A x \in Slot : prog'[x].p = prog[x].p
  BY <1>6, <1>7 DEF Moved
<1>16. \A x \in Slot : Taken(x)' = Taken(x)
  BY <1>14 DEF Taken
<1>17. Follows(Offered(e), i, s.p) /\ LastOf(Append(o, i)) = i /\ Offered(e) = LastOf(o)
  <2>1. Follows(Offered(e), i, prog[e].p)
    BY <1>0, <1>1, <1>3, SieveFacts DEF Stream, Streaming, InSend, Offered
  <2>. QED
    BY <1>3, <1>7, <1>10, <1>11, <2>1, LastOfSeq DEF Offered
<1>18. Offered(e)' = i
  BY <1>1, <1>13, <1>14, <1>17 DEF Offered
<1>19. Stream(e)'
  <2>1. s.pc \in InSend => s.i = i + 1 /\ s.p = 0 /\ i > 1
    BY <1>3, <1>7, <1>8, <1>17 DEF InSend, Stage, Follows, Survives
  <2>2. s.pc \in InSend => Follows(i, s.i, s.p)
    BY <1>3, <2>1 DEF Follows, Survives, NoneIn
  <2>3. s.pc # "start"
    BY <1>3, <1>7
  <2>4. Streaming(s, Append(o, i), o)
    BY <1>17, <2>2, <2>3 DEF Streaming
  <2>. QED
    BY <1>1, <1>12, <1>13, <1>14, <1>15, <2>4 DEF Stream
<1>20. ASSUME NEW b \in Slot \ {e}, prog'[b].id # NULL PROVE Stream(b)' /\ Offered(b)' = Offered(b)
  <2>1. prog[b].id # NULL /\ prog'[b] = prog[b]
    BY <1>14, <1>15, <1>20
  <2>2. Link(b) \in EnvId \X EnvId /\ Link(b) # Link(e)
    BY <1>11, <2>1, Links
  <2>3. sent'[Link(b)] = sent[Link(b)]
    BY <1>13, <2>2
  <2>4. Streaming(prog[b], sent[Link(b)], got[Link(b)])
    BY <2>1, SieveFacts DEF Stream
  <2>. QED
    BY <1>14, <2>1, <2>3, <2>4 DEF Stream, Offered
<1>21. ASSUME NEW b \in Slot, NEW x \in Slot, Feeds(b, x)' PROVE Filtered(b, x)'
  <2>1. Sifted(prog[x], prog[b].p, Offered(x), Taken(b))
    BY <1>14, <1>21, SieveFacts DEF Filtered
  <2>2. CASE x = e
    <3>1. Sifted(prog[e], prog[b].p, Offered(e), Taken(b))
      BY <2>1, <2>2
    <3>2. Sifted(s, prog[b].p, i, Taken(b))
      <4>1. CASE s.at = "feed"
        BY <1>7, <3>1, <4>1 DEF Sifted, HasPrime
      <4>2. CASE s.at = "filter"
        <5>1. i = Taken(b) /\ HasPrime(prog[e]) /\ HasPrime(s)
          BY <1>0, <1>1, <1>7, <3>1, <4>2 DEF Sifted, HasPrime, InSend
        <5>2. NoneIn(i, i, s.p)
          BY <1>3 DEF NoneIn
        <5>. QED
          BY <1>3, <1>7, <3>1, <4>2, <5>1, <5>2 DEF Sifted, InSend
      <4>. QED
        BY <1>3, <1>7, <4>1, <4>2
    <3>. QED
      BY <1>15, <1>16, <1>18, <2>2, <3>2 DEF Filtered
  <2>3. CASE x # e
    <3>1. Sifted(prog'[x], prog'[b].p, Offered(x), Taken(b)')
      BY <1>15, <1>16, <2>1, <2>3
    <3>2. prog[x].at = "filter" => prog'[x].id # NULL
      BY <1>14, SieveFacts DEF Stage, Childless
    <3>3. Sifted(prog'[x], prog'[b].p, Offered(x)', Taken(b)')
      BY <1>15, <1>20, <2>3, <3>1, <3>2, NoFilter
    <3>. QED
      BY <3>3 DEF Filtered
  <2>. QED
    BY <2>2, <2>3
<1>22. PrimesFound'
  BY <1>15 DEF SieveInv, PrimesFound
<1>. QED
  BY <1>14, <1>19, <1>20, <1>21, <1>22 DEF SieveInv, Streams
(* An environment of the chain is not its own parent.                      *)
LEMMA NotItself ==
    ASSUME KInv, UInv, SieveInv, NEW b \in Slot, NEW e \in Slot, Feeds(b, e), Fed(prog[e]),
           prog[e].pc \in InRecv
    PROVE  b # e
<1>. SUFFICES ASSUME b = e PROVE FALSE
  OBVIOUS
<1>1. Stage(prog[e]) /\ prog[e].p \in Nat /\ Sifted(prog[e], prog[e].p, Offered(e), Taken(e))
  BY SieveFacts DEF Filtered
<1>2. CASE prog[e].at = "filter"
  BY <1>1, <1>2 DEF Sifted, HasPrime, Follows, Survives
<1>3. CASE prog[e].at = "top"
  <2>1. prog[e].id = NULL
    BY <1>1, <1>3 DEF Stage, Childless, InRecv
  <2>. QED
    BY <2>1, ConstAssumption DEF Feeds, KInv, Stopped, TypeOK
<1>. QED
  BY <1>2, <1>3 DEF Fed

(* A message that a program of the sieve is about to take: it is the       *)
(* number that follows in the stream of the one that feeds it.             *)
LEMMA Arrival ==
    ASSUME KInv, UInv, SieveInv, NEW e \in Slot, Pending(e), prog[e].pc = "value", From(e) \in EnvId,
           env_status[e] = "RUNNING", env_ipc_value[e] \in Value
    PROVE  \E b \in Slot \ {e} :
              /\ Feeds(b, e) /\ Link(b) = <<From(e), env_id[e]>> /\ prog[b].id # NULL
              /\ sent[Link(b)] = Append(got[Link(b)], env_ipc_value[e])
              /\ Follows(Taken(b), env_ipc_value[e], prog[b].p)
              /\ prog[b].pc # "start"
<1>1. env_id[e] \in EnvId /\ env_id[e] # NULL
  BY ConstAssumption DEF KInv, Stopped, TypeOK
<1>2. PICK pair, v : pair = <<From(e), env_id[e]>> /\ v = env_ipc_value[e]
  OBVIOUS
<1>3. sent[pair] = Append(got[pair], v)
  BY <1>1, <1>2 DEF UInv, Delivery, Carries
<1>4. got[pair] \in Seq(Value) /\ v \in Value
  BY <1>1, <1>2 DEF UInv, HistoryOK
<1>5. sent[pair] # <<>> /\ sent[pair] # got[pair] /\ LastOf(sent[pair]) = v
  BY <1>3, <1>4, LastOfSeq
<1>6. PICK b \in Slot : env_id[b] = From(e) /\ prog[b].id = env_id[e]
  BY <1>1, <1>2, <1>5 DEF SieveInv, Chain
<1>7. Feeds(b, e) /\ Link(b) = pair /\ prog[b].id # NULL
  BY <1>1, <1>2, <1>6 DEF Feeds, Link
<1>8. Streaming(prog[b], sent[pair], got[pair])
  BY <1>7, SieveFacts DEF Stream
<1>9. Follows(Taken(b), v, prog[b].p) /\ prog[b].pc # "start"
  BY <1>5, <1>7, <1>8 DEF Streaming, Taken
<1>10. b # e
  <2>1. Stage(prog[e])
    BY SieveFacts
  <2>2. Fed(prog[e]) /\ prog[e].pc \in InRecv
    BY <2>1 DEF Stage, Sieve, Setup, InRecv, InSend, Fed
  <2>. QED
    BY <1>7, <2>2, NotItself
<1>. QED
  BY <1>2, <1>3, <1>7, <1>9, <1>10

(* The histories when v arrives at e from b.                               *)
LEMMA Arrived ==
    ASSUME KInv, UInv, SieveInv, NEW e \in Slot, NEW b \in Slot \ {e}, NEW v \in Value, NEW s,
           Onward(e, s), Feeds(b, e), prog[b].id # NULL, sent' = sent,
           got' = [got EXCEPT ![Link(b)] = Append(@, v)],
           sent[Link(b)] = Append(got[Link(b)], v), prog[b].pc # "start",
           prog[e].id # NULL => s.p = prog[e].p /\ Streaming(s, sent[Link(e)], got[Link(e)]),
           Sifted(s, prog[b].p, Offered(e), v)
    PROVE  Stages' /\ Chain' /\ Streams'
<1>1. prog'[e] = s /\ (\A x \in Slot \ {e} : prog'[x] = prog[x])
  BY DEF Onward, Moved
<1>2. /\ Stages' /\ Chain'
      /\ \A x \in Slot : prog'[x].id = prog[x].id /\ Link(x)' = Link(x)
      /\ \A d, x \in Slot : Feeds(d, x)' <=> Feeds(d, x)
  BY OnwardChain DEF SieveInv
<1>3. Link(b) \in EnvId \X EnvId /\ got[Link(b)] \in Seq(Value)
  BY Links
<1>4. /\ got'[Link(b)] = Append(got[Link(b)], v)
      /\ \A pair \in EnvId \X EnvId : pair # Link(b) => got'[pair] = got[pair]
  BY <1>3 DEF UInv, HistoryOK
<1>5. Taken(b)' = v
  BY <1>2, <1>3, <1>4, LastOfSeq DEF Taken
<1>6. ASSUME NEW d \in Slot \ {b}, prog[d].id # NULL
      PROVE  got'[Link(d)] = got[Link(d)] /\ Taken(d)' = Taken(d)
  <2>1. Link(d) \in EnvId \X EnvId /\ Link(d) # Link(b)
    BY <1>6, Links
  <2>. QED
    BY <1>2, <1>4, <2>1 DEF Taken
<1>7. \A x \in Slot : Offered(x)' = Offered(x)
  BY <1>2 DEF Offered
<1>8. ASSUME NEW d \in Slot, prog'[d].id # NULL PROVE Stream(d)'
  <2>1. prog[d].id # NULL
    BY <1>2, <1>8
  <2>2. CASE d = b
    <3>1. Streaming(prog[b], sent[Link(b)], got[Link(b)])
      BY SieveFacts DEF Stream
    <3>2. Streaming(prog[b], sent[Link(b)], got'[Link(b)])
      BY <1>4, <3>1 DEF Streaming
    <3>. QED
      BY <1>1, <1>2, <2>2, <3>2 DEF Stream
  <2>3. CASE d # b
    <3>1. Streaming(prog'[d], sent[Link(d)], got[Link(d)])
      <4>1. CASE d = e
        BY <1>1, <2>1, <4>1
      <4>2. CASE d # e
        BY <1>1, <2>1, <4>2, SieveFacts DEF Stream
      <4>. QED
        BY <4>1, <4>2
    <3>. QED
      BY <1>2, <1>6, <2>1, <2>3, <3>1 DEF Stream
  <2>. QED
    BY <2>2, <2>3
<1>9. ASSUME NEW d \in Slot, NEW x \in Slot, Feeds(d, x)' PROVE Filtered(d, x)'
  <2>1. Feeds(d, x) /\ prog[d].id = env_id[x] /\ prog[b].id = env_id[e] /\ prog[d].id # NULL
    BY <1>2, <1>9, ConstAssumption DEF Feeds, KInv, Stopped, TypeOK
  <2>2. CASE x = e
    <3>1. d = b
      BY <2>1, <2>2, Links
    <3>. QED
      BY <1>1, <1>5, <1>7, <2>2, <3>1 DEF Filtered
  <2>3. CASE x # e
    <3>1. d # b
      BY <2>1, <2>3 DEF UInv, Slots
    <3>2. prog'[d].p = prog[d].p
      BY <1>1, <2>1
    <3>3. Sifted(prog[x], prog[d].p, Offered(x), Taken(d))
      BY <2>1, SieveFacts DEF Filtered
    <3>. QED
      BY <1>1, <1>6, <1>7, <2>1, <2>3, <3>1, <3>2, <3>3 DEF Filtered
  <2>. QED
    BY <2>2, <2>3
<1>. QED
  BY <1>2, <1>8, <1>9 DEF Streams

(* The first number of a new environment is the next prime; a filter       *)
(* passes on what its prime does not divide.                               *)
LEMMA ReadValueSieve ==
    ASSUME KInv, UInv, SieveInv, Kept, NEW c \in CPU, ReadValue(c)
    PROVE  SieveInv'
<1>0. PICK e, v : e = curenv[c] /\ v = env_ipc_value[e]
  OBVIOUS
<1>1. /\ e \in Slot /\ Pending(e) /\ From(e) \in EnvId /\ prog[e].pc = "value"
      /\ env_status[e] = "RUNNING" /\ v \in Value /\ v <= prog[e].last
  BY <1>0, Reading DEF ReadValue, Waiting, KInv
<1>2. /\ prog[e] \in Program /\ prog[e] \in Locals /\ Stage(prog[e]) /\ prog[e].p \in Nat
      /\ prog[e].who = From(e) /\ v \in Nat
  BY <1>1, SieveFacts, Numbers DEF From
<1>3. PICK s : s = AfterRecv(prog[e], v)
  OBVIOUS
<1>4. s \in Program
  BY <1>1, <1>2, <1>3, RecvPrograms DEF Becomes
<1>5. PICK b \in Slot \ {e} :
              /\ Feeds(b, e) /\ Link(b) = <<From(e), env_id[e]>> /\ prog[b].id # NULL
              /\ sent[Link(b)] = Append(got[Link(b)], v)
              /\ Follows(Taken(b), v, prog[b].p)
              /\ prog[b].pc # "start"
  BY <1>0, <1>1, Arrival
<1>6. Moved(e, s) /\ sent' = sent /\ got' = [got EXCEPT ![Link(b)] = Append(@, v)]
  <2>1. become(e, s) /\ prog[e].at # "collect"
    BY <1>0, <1>2, <1>3 DEF ReadValue, Stage, Sieve
  <2>2. sent' = [sent EXCEPT ![Link(b)] = sent[Link(b)]] /\ got' = [got EXCEPT ![Link(b)] = Append(@, v)]
    BY <1>0, <1>1, <1>2, <1>5, <2>1 DEF ReadValue, From
  <2>3. Moved(e, s)
    BY <1>1, <1>4, <2>1, Moves
  <2>. QED
    BY <2>2, <2>3 DEF UInv, HistoryOK
<1>7. prog'[e] = s /\ \A x \in Slot \ {e} : prog'[x] = prog[x]
  BY <1>6 DEF Moved
<1>8. /\ prog[b].p \in Nat /\ Taken(b) \in Nat /\ Taken(b) < v
      /\ Sifted(prog[e], prog[b].p, Offered(e), Taken(b))
  BY <1>1, <1>5, SieveFacts, Links DEF Filtered, Follows
<1>9. CASE prog[e].at = "top"
  <2>1. /\ s.p = v /\ s.id = prog[e].id /\ s.at = "top" /\ s.pc = "fork" /\ prog[e].id = NULL
    BY <1>1, <1>2, <1>3, <1>9 DEF AfterRecv, call, Locals, Stage, Childless
  <2>2. Stage(s) /\ (Fed(s) <=> Fed(prog[e]))
    BY <1>9, <2>1 DEF Stage, Childless, Fed, Sieve, Setup, InSend, InRecv
  <2>3. Onward(e, s)
    BY <1>1, <1>4, <1>6, <2>1, <2>2 DEF Onward
  <2>4. prog[e].p = prog[b].p /\ Taken(b) = 0
    BY <1>1, <1>8, <1>9 DEF Sifted, HasPrime, Setup
  <2>5. Follows(0, v, prog[b].p)
    BY <1>5, <2>4
  <2>6. Sifted(s, prog[b].p, Offered(e), v)
    BY <1>2, <2>1, <2>5 DEF Sifted, HasPrime, Setup
  <2>7. Stages' /\ Chain' /\ Streams'
    BY <1>1, <1>5, <1>6, <2>1, <2>3, <2>6, Arrived
  <2>8. Prime(v) /\ v > prog[b].p /\ \A q \in Nat : Prime(q) /\ q < v => q <= prog[b].p
    BY <1>2, <1>8, <2>5, NextPrime
  <2>9. PrimesFound'
    <3>1. ASSUME NEW q, \E f \in Slot : prog[f].p = q PROVE \E f \in Slot : prog'[f].p = q
      <4>1. PICK f \in Slot : prog[f].p = q
        BY <3>1
      <4>2. CASE f = e
        BY <1>7, <2>4, <4>1, <4>2
      <4>3. CASE f # e
        BY <1>7, <4>1, <4>3
      <4>. QED
        BY <4>2, <4>3
    <3>2. ASSUME NEW x \in Slot PROVE prog'[x].p = 0 \/ Prime(prog'[x].p)
      BY <1>7, <2>1, <2>8 DEF SieveInv, PrimesFound
    <3>3. ASSUME NEW x \in Slot, NEW q \in 2 .. prog'[x].p, Prime(q) PROVE \E f \in Slot : prog'[f].p = q
      <4>1. CASE x # e
        <5>1. \E f \in Slot : prog[f].p = q
          BY <1>7, <3>3, <4>1 DEF SieveInv, PrimesFound
        <5>. QED
          BY <3>1, <5>1
      <4>2. CASE x = e /\ q = v
        BY <1>7, <2>1, <4>2
      <4>3. CASE x = e /\ q # v
        <5>1. q \in 2 .. prog[b].p
          BY <1>2, <1>7, <1>8, <2>1, <2>8, <3>3, <4>3
        <5>2. \E f \in Slot : prog[f].p = q
          BY <3>3, <5>1 DEF SieveInv, PrimesFound
        <5>. QED
          BY <3>1, <5>2
      <4>. QED
        BY <4>1, <4>2, <4>3
    <3>. QED
      BY <3>2, <3>3 DEF PrimesFound
  <2>. QED
    BY <2>7, <2>9 DEF SieveInv
<1>10. CASE prog[e].at = "filter"
  <2>1. /\ s.p = prog[e].p /\ s.id = prog[e].id /\ s.at = "filter" /\ s.i = v /\ prog[e].id # NULL
        /\ s.pc = IF v % s.p # 0 THEN "send" ELSE "recv"
    BY <1>2, <1>3, <1>10 DEF AfterRecv, call, Locals, Stage, Childless
  <2>2. Stage(s) /\ (Fed(s) <=> Fed(prog[e]))
    BY <1>2, <1>10, <2>1 DEF Stage, Childless, Fed, Sieve, Setup, InSend, InRecv
  <2>3. Onward(e, s)
    BY <1>1, <1>4, <1>6, <2>1, <2>2 DEF Onward
  <2>4. /\ Follows(0, s.p, prog[b].p) /\ s.p <= Taken(b) /\ s.p \in Nat /\ Offered(e) \in Nat
        /\ Offered(e) <= Taken(b) /\ NoneIn(Offered(e), Taken(b), s.p)
    <3>1. HasPrime(prog[e]) /\ prog[e].pc \in InRecv
      BY <1>1, <1>10 DEF HasPrime, InRecv
    <3>. QED
      BY <1>1, <1>2, <1>8, <1>10, <2>1, <3>1, Links DEF Sifted
  <2>5. /\ \A n \in Nat : Survives(n, s.p) => Survives(n, prog[b].p) /\ n % s.p # 0
        /\ \A n \in Nat : Survives(n, prog[b].p) /\ n > s.p /\ n % s.p # 0 => Survives(n, s.p)
    BY <1>8, <2>4, NextPrime
  <2>6. NoneIn(Offered(e), v - 1, s.p)
    <3>1. ASSUME NEW n \in Offered(e) + 1 .. v - 1 PROVE ~Survives(n, s.p)
      <4>1. CASE n <= Taken(b)
        <5>1. n \in Offered(e) + 1 .. Taken(b)
          BY <1>8, <2>4, <4>1
        <5>. QED
          BY <2>4, <5>1 DEF NoneIn
      <4>2. CASE n > Taken(b)
        <5>1. n \in Taken(b) + 1 .. v - 1 /\ n \in Nat
          BY <1>8, <2>4, <4>2
        <5>2. ~Survives(n, prog[b].p)
          BY <1>5, <5>1 DEF Follows, NoneIn
        <5>. QED
          BY <2>5, <5>1, <5>2
      <4>. QED
        BY <1>8, <2>4, <4>1, <4>2
    <3>. QED
      BY <3>1 DEF NoneIn
  <2>7. Survives(v, prog[b].p) /\ v > s.p /\ v > Offered(e)
    BY <1>2, <1>5, <1>8, <2>4 DEF Follows
  <2>8. s.pc \in InSend => Follows(Offered(e), v, s.p)
    <3>. SUFFICES ASSUME s.pc \in InSend PROVE Follows(Offered(e), v, s.p)
      OBVIOUS
    <3>1. v % s.p # 0
      BY <2>1 DEF InSend
    <3>2. Survives(v, s.p)
      BY <1>2, <2>5, <2>7, <3>1
    <3>. QED
      BY <2>6, <2>7, <3>2 DEF Follows
  <2>9. s.pc \in InRecv => NoneIn(Offered(e), v, s.p)
    <3>. SUFFICES ASSUME s.pc \in InRecv PROVE NoneIn(Offered(e), v, s.p)
      OBVIOUS
    <3>1. v % s.p = 0
      BY <2>1 DEF InRecv
    <3>2. ~Survives(v, s.p)
      BY <1>2, <2>5, <3>1
    <3>3. \A n \in Offered(e) + 1 .. v : n = v \/ n \in Offered(e) + 1 .. v - 1
      BY <1>2, <2>4
    <3>. QED
      BY <2>6, <3>2, <3>3 DEF NoneIn
  <2>10. Streaming(s, sent[Link(e)], got[Link(e)])
    <3>1. Streaming(prog[e], sent[Link(e)], got[Link(e)])
      BY <1>1, <2>1, SieveFacts DEF Stream
    <3>2. s.pc # "start"
      BY <2>1
    <3>. QED
      BY <2>1, <2>8, <3>1, <3>2 DEF Streaming, Offered
  <2>11. Sifted(s, prog[b].p, Offered(e), v)
    BY <1>2, <1>8, <2>1, <2>4, <2>9 DEF Sifted, HasPrime
  <2>12. Stages' /\ Chain' /\ Streams'
    BY <1>1, <1>5, <1>6, <2>1, <2>3, <2>10, <2>11, Arrived
  <2>13. \A x \in Slot : prog'[x].p = prog[x].p
    BY <1>7, <2>1
  <2>14. PrimesFound'
    BY <2>13 DEF SieveInv, PrimesFound
  <2>. QED
    BY <2>12, <2>14 DEF SieveInv
<1>. QED
  BY <1>1, <1>2, <1>9, <1>10 DEF Stage, Sieve, Setup, InSend
(* fork(): the chain gets one more environment, which has its parent's     *)
(* prime in its memory until it takes its own.                             *)
LEMMA ForkSieve ==
    ASSUME IInv, KInv, UInv, UInv', SieveInv, NEW c \in CPU, Fork(c), NoPanic'
    PROVE  SieveInv'
<1>0. PICK e, x : e = curenv[c] /\ x = Head(env_free_list)
  OBVIOUS
<1>1. /\ e \in Slot /\ env_status[e] = "RUNNING" /\ prog[e] \in Program /\ prog[e].pc = "fork"
      /\ env_id[e] \in EnvId /\ curenv[c] \in Slot
  BY <1>0, Running DEF Fork, At, IInv, TypeOK
<1>2. /\ env_alloc(x, env_id[e]) /\ x \in Slot
      /\ trap_return(c, [env_status EXCEPT ![x] = "NOT_RUNNABLE"])
  BY <1>0 DEF Fork, sys_exofork, env_alloc
<1>3. env_status[x] = "FREE" /\ x # e
  <2>1. env_free_list # <<>> /\ env_free_list \in Seq(Slot)
    BY <1>2 DEF env_alloc, IInv, TypeOK
  <2>2. 1 \in DOMAIN env_free_list /\ env_free_list[1] = x
    BY <1>0, <2>1
  <2>3. env_status[x] = "FREE"
    BY <1>2, <2>2 DEF IInv, FreeListExact
  <2>. QED
    BY <1>1, <2>3
<1>4. PICK new : new = env_id'[x]
  OBVIOUS
<1>5. /\ new \in EnvId /\ new[2] = x /\ new # NULL
      /\ env_id'[x] = new /\ \A z \in Slot \ {x} : env_id'[z] = env_id[z]
  <2>1. env_id' = [env_id EXCEPT ![x] = <<NextGeneration(x), x>>]
    BY <1>2 DEF env_alloc
  <2>2. env_id[x][1] \in 0 .. MAXGEN
    BY <1>2 DEF IInv, TypeOK, EnvId
  <2>3. NextGeneration(x) \in 0 .. MAXGEN
    BY <2>2, ConstAssumption DEF NextGeneration
  <2>. QED
    BY <1>2, <1>4, <2>1, <2>3, ConstAssumption DEF IInv, TypeOK, EnvId
<1>6. /\ env_status'[x] # "FREE"
      /\ \A z \in Slot \ {x} : env_status'[z] = "FREE" <=> env_status[z] = "FREE"
  <2>1. PICK st : st = [env_status EXCEPT ![x] = "NOT_RUNNABLE"]
    OBVIOUS
  <2>2. st \in [Slot -> Status] /\ st[x] = "NOT_RUNNABLE" /\ \A z \in Slot \ {x} : st[z] = env_status[z]
    BY <1>2, <2>1 DEF IInv, TypeOK, Status
  <2>3. Settled(st)
    BY <1>1, <1>2, <2>1, <2>2, ReturnSettles DEF IInv
  <2>. QED
    BY <1>2, <2>2, <2>3 DEF Settled, Active
<1>7. PICK s, t : /\ s = AfterFork(prog[e], TRUE)
                  /\ t = [prog[e] EXCEPT !.pc = "start", !.id = new]
  OBVIOUS
<1>8. /\ prog'[e] = t /\ prog'[x] = s /\ \A z \in Slot \ {e, x} : prog'[z] = prog[z]
      /\ UNCHANGED <<sent, got>>
  <2>1. /\ prog' = [prog EXCEPT ![e].pc = "start", ![e].id = new, ![x] = AfterFork(prog[e], TRUE)]
        /\ UNCHANGED <<sent, got>>
    BY <1>0, <1>4 DEF Fork
  <2>. QED
    BY <1>1, <1>2, <1>3, <1>7, <2>1 DEF UInv, ProgramsOK
<1>9. /\ Stage(prog[e]) /\ prog[e] \in Locals /\ prog[e].at \in {"primes", "top"} /\ prog[e].id = NULL
      /\ prog[x].p = 0 /\ prog[x].id = NULL
  <2>1. Stage(prog[e]) /\ prog[e] \in Locals /\ Stage(prog[x])
    BY <1>1, <1>2, SieveFacts
  <2>2. prog[x].p = 0 /\ prog[x].id = NULL
    BY <1>2, <1>3, <2>1 DEF SieveInv, Stages, Stage
  <2>. QED
    BY <1>1, <2>1, <2>2 DEF Stage, Childless, Sieve, InSend, InRecv
<1>10. /\ s.at = "top" /\ s.pc = "recv" /\ s.p = prog[e].p /\ s.id = NULL
       /\ t.at = prog[e].at /\ t.pc = "start" /\ t.p = prog[e].p /\ t.id = new /\ t.i = prog[e].i
  BY <1>7, <1>9 DEF AfterFork, call, Locals
<1>11. /\ \A z \in Slot : prog'[z].id = IF z = e THEN new ELSE prog[z].id
       /\ \A z \in Slot : prog'[z].p = IF z = x THEN prog[e].p ELSE prog[z].p
  BY <1>3, <1>8, <1>9, <1>10
<1>12. \A z \in Slot : prog[z].id # new
  <2>. SUFFICES ASSUME NEW z \in Slot, prog[z].id = new PROVE FALSE
    OBVIOUS
  <2>1. PICK y \in Slot : Feeds(z, y)
    BY <1>5 DEF SieveInv, Chain
  <2>2. env_id[y] = new /\ env_status[y] # "FREE"
    BY <2>1 DEF Feeds
  <2>3. y = x
    BY <1>5, <2>2 DEF UInv, Slots
  <2>. QED
    BY <1>3, <2>2, <2>3
<1>13. Stages'
  <2>1. Stage(s) /\ Stage(t)
    BY <1>5, <1>9, <1>10 DEF Stage, Childless, Sieve, Setup, InRecv
  <2>2. ASSUME NEW z \in Slot PROVE Stage(prog'[z])
    BY <1>8, <2>1 DEF SieveInv, Stages
  <2>3. ASSUME NEW z \in Slot, env_status'[z] = "FREE" PROVE prog'[z].p = 0 /\ Childless(prog'[z])
    BY <1>1, <1>3, <1>6, <1>8, <2>3 DEF SieveInv, Stages
  <2>. QED
    BY <2>2, <2>3 DEF Stages
<1>14. ASSUME NEW b \in Slot, NEW z \in Slot PROVE Feeds(b, z)' <=> Feeds(b, z) \/ (b = e /\ z = x)
  <2>1. CASE z = x
    <3>1. Feeds(b, z)' <=> prog'[b].id = new
      BY <1>5, <1>6, <2>1 DEF Feeds
    <3>. QED
      BY <1>3, <1>11, <1>12, <2>1, <3>1 DEF Feeds
  <2>2. CASE z # x
    <3>1. env_id[z] # new /\ env_id[z] # NULL /\ env_id'[z] = env_id[z]
      BY <1>5, <2>2, ConstAssumption DEF UInv, Slots, IInv, TypeOK
    <3>. QED
      BY <1>6, <1>9, <1>11, <2>2, <3>1 DEF Feeds
  <2>. QED
    BY <2>1, <2>2
<1>15. \A z \in Slot : Fed(prog'[z]) <=> Fed(prog[z]) \/ z = x
  BY <1>3, <1>8, <1>10 DEF Fed
<1>16. ASSUME NEW b \in Slot, prog[b].id # NULL
       PROVE  b # e /\ b # x /\ env_id'[b] = env_id[b] /\ prog'[b] = prog[b] /\ Link(b)' = Link(b)
  BY <1>5, <1>8, <1>9, <1>16 DEF Link
<1>17. sent[<<env_id[e], new>>] = <<>> /\ got[<<env_id[e], new>>] = <<>> /\ Link(e)' = <<env_id[e], new>>
  <2>1. Link(e)' = <<env_id[e], new>>
    BY <1>1, <1>3, <1>5, <1>8, <1>10 DEF Link
  <2>2. sent[<<env_id[e], new>>] = <<>>
    BY <1>1, <1>5, <1>12 DEF SieveInv, Chain
  <2>3. \A z \in Slot : ~Carries(z, env_id[e], new)
    <3>. SUFFICES ASSUME NEW z \in Slot, Carries(z, env_id[e], new) PROVE FALSE
      OBVIOUS
    <3>1. z = x
      BY <1>5 DEF Carries, UInv, Slots
    <3>2. prog[x].pc \notin Waiting
      BY <1>2, <1>3 DEF UInv, Receiving
    <3>. QED
      BY <3>1, <3>2 DEF Carries, Pending
  <2>4. sent[<<env_id[e], new>>] = got[<<env_id[e], new>>]
    BY <1>1, <1>5, <2>3 DEF UInv, Delivery
  <2>. QED
    BY <2>1, <2>2, <2>4
<1>18. Chain'
  <2>1. ASSUME NEW z \in Slot, env_status'[z] # "FREE", Fed(prog'[z]) PROVE \E b \in Slot : Feeds(b, z)'
    <3>1. CASE z = x
      BY <1>1, <1>14, <3>1
    <3>2. CASE z # x
      <4>1. \E b \in Slot : Feeds(b, z)
        BY <1>6, <1>15, <2>1, <3>2 DEF SieveInv, Chain
      <4>. QED
        BY <1>14, <4>1
    <3>. QED
      BY <3>1, <3>2
  <2>2. ASSUME NEW b \in Slot, prog'[b].id # NULL PROVE \E z \in Slot : Feeds(b, z)' /\ Fed(prog'[z])
    <3>1. CASE b = e
      BY <1>2, <1>14, <1>15, <3>1
    <3>2. CASE b # e
      <4>1. \E z \in Slot : Feeds(b, z) /\ Fed(prog[z])
        BY <1>11, <2>2, <3>2 DEF SieveInv, Chain
      <4>. QED
        BY <1>14, <1>15, <4>1
    <3>. QED
      BY <3>1, <3>2
  <2>3. ASSUME NEW b \in Slot, NEW d \in Slot, prog'[b].id # NULL, prog'[b].id = prog'[d].id PROVE b = d
    BY <1>11, <1>12, <2>3 DEF SieveInv, Chain
  <2>4. ASSUME NEW from \in EnvId, NEW to \in EnvId, sent'[<<from, to>>] # <<>>
        PROVE  \E b \in Slot : env_id'[b] = from /\ prog'[b].id = to
    <3>1. PICK b \in Slot : env_id[b] = from /\ prog[b].id = to
      BY <1>8, <2>4 DEF SieveInv, Chain
    <3>2. prog[b].id # NULL
      BY <3>1, ConstAssumption
    <3>. QED
      BY <1>16, <3>1, <3>2
  <2>. QED
    BY <2>1, <2>2, <2>3, <2>4 DEF Chain
<1>19. ASSUME NEW b \in Slot, prog[b].id # NULL PROVE Offered(b)' = Offered(b) /\ Taken(b)' = Taken(b)
  BY <1>8, <1>16, <1>19 DEF Offered, Taken
<1>20. ASSUME NEW b \in Slot, prog'[b].id # NULL PROVE Stream(b)'
  <2>1. CASE b = e
    BY <1>8, <1>10, <1>17, <2>1 DEF Stream, Streaming, InSend
  <2>2. CASE b # e
    <3>1. prog[b].id # NULL
      BY <1>11, <1>20, <2>2
    <3>2. Streaming(prog[b], sent[Link(b)], got[Link(b)])
      BY <3>1, SieveFacts DEF Stream
    <3>. QED
      BY <1>8, <1>16, <3>1, <3>2 DEF Stream
  <2>. QED
    BY <2>1, <2>2
<1>21. ASSUME NEW b \in Slot, NEW z \in Slot, Feeds(b, z)' PROVE Filtered(b, z)'
  <2>1. CASE b = e /\ z = x
    <3>1. Taken(b)' = 0
      BY <1>8, <1>17, <2>1 DEF Taken, LastOf
    <3>2. ~HasPrime(s)
      BY <1>10 DEF HasPrime, Setup
    <3>. QED
      BY <1>8, <1>10, <2>1, <3>1, <3>2 DEF Filtered, Sifted
  <2>2. CASE Feeds(b, z)
    <3>1. prog[b].id # NULL /\ z # x
      BY <1>3, <2>2, ConstAssumption DEF Feeds, IInv, TypeOK
    <3>2. Sifted(prog[z], prog[b].p, Offered(z), Taken(b))
      BY <2>2, SieveFacts DEF Filtered
    <3>3. prog'[b].p = prog[b].p /\ Taken(b)' = Taken(b)
      BY <1>16, <1>19, <3>1
    <3>4. CASE z = e
      <4>1. (HasPrime(t) <=> HasPrime(prog[e])) /\ t.at # "filter" /\ prog[e].at # "filter"
        BY <1>1, <1>9, <1>10 DEF HasPrime, Setup
      <4>2. Sifted(t, prog[b].p, Offered(z)', Taken(b))
        BY <1>10, <3>2, <3>4, <4>1 DEF Sifted
      <4>. QED
        BY <1>8, <3>3, <3>4, <4>2 DEF Filtered
    <3>5. CASE z # e
      <4>1. prog'[z] = prog[z]
        BY <1>8, <3>1, <3>5
      <4>2. prog[z].at = "filter" => Offered(z)' = Offered(z)
        BY <1>19, SieveFacts DEF Stage, Childless
      <4>3. Sifted(prog[z], prog[b].p, Offered(z)', Taken(b))
        BY <3>2, <4>2, NoFilter
      <4>. QED
        BY <3>3, <4>1, <4>3 DEF Filtered
    <3>. QED
      BY <3>4, <3>5
  <2>. QED
    BY <1>14, <1>21, <2>1, <2>2
<1>22. PrimesFound'
  <2>1. ASSUME NEW z \in Slot PROVE \E y \in Slot : prog'[z].p = prog[y].p
    BY <1>1, <1>11
  <2>2. ASSUME NEW z \in Slot PROVE prog'[z].p = 0 \/ Prime(prog'[z].p)
    BY <2>1 DEF SieveInv, PrimesFound
  <2>3. ASSUME NEW z \in Slot, NEW q \in 2 .. prog'[z].p, Prime(q) PROVE \E f \in Slot : prog'[f].p = q
    <3>1. PICK f \in Slot : prog[f].p = q
      BY <2>1, <2>3 DEF SieveInv, PrimesFound
    <3>2. f # x
      BY <1>9, <3>1
    <3>. QED
      BY <1>11, <3>1, <3>2
  <2>. QED
    BY <2>2, <2>3 DEF PrimesFound
<1>. QED
  BY <1>13, <1>18, <1>20, <1>21, <1>22 DEF SieveInv, Streams
-----------------------------------------------------------------------------
(* The other programs.                                                     *)

Plain(s) == s.at \in {"pingpong", "ping", "sender", "collect", "idle"} /\ s.p = 0

LEMMA PlainPrograms ==
    ASSUME NEW s \in Program, Plain(s)
    PROVE  /\ \A child \in BOOLEAN : s.pc \in {"fork", "start"} => Plain(AfterFork(s, child))
           /\ s.pc = "send" => Plain(AfterSend(s))
           /\ \A value \in Value : s.pc = "value" => Plain(AfterRecv(s, value))
           /\ \A pc : Plain([s EXCEPT !.pc = pc])
           /\ \A who : Plain([s EXCEPT !.pc = "value", !.who = who])
           /\ \A id : Plain([s EXCEPT !.pc = "start", !.id = id])
<1>1. s \in Locals /\ InCall(s)
  BY DEF Program
<1>2. \A child \in BOOLEAN : s.pc \in {"fork", "start"} => Plain(AfterFork(s, child))
  BY <1>1 DEF Plain, AfterFork, call, Locals, InCall, ForkPlaces
<1>3. s.pc = "send" => Plain(AfterSend(s))
  BY <1>1 DEF Plain, AfterSend, call, Locals, InCall, SendPlaces
<1>4. \A value \in Value : s.pc = "value" => Plain(AfterRecv(s, value))
  BY <1>1 DEF Plain, AfterRecv, call, Locals, InCall, RecvPlaces
<1>5. /\ \A pc : Plain([s EXCEPT !.pc = pc])
      /\ \A who : Plain([s EXCEPT !.pc = "value", !.who = who])
      /\ \A id : Plain([s EXCEPT !.pc = "start", !.id = id])
  BY <1>1 DEF Plain, Locals
<1>. QED
  BY <1>2, <1>3, <1>4, <1>5

Others == \A e \in Slot : Plain(prog[e])

LEMMA OthersStep ==
    ASSUME KInv, UInv, Others, NEW c \in CPU, Step(c)
    PROVE  Others'
<1>0. PICK e, s : e = curenv[c] /\ s = prog[e]
  OBVIOUS
<1>1. prog \in [Slot -> Program] /\ \A x \in Slot : Plain(prog[x])
  BY DEF UInv, ProgramsOK, Others
<1>2. CASE prog' = prog
  BY <1>1, <1>2 DEF Others
<1>3. ASSUME prog' # prog PROVE e \in Slot /\ s \in Program /\ Plain(s)
  <2>1. cpu[c] = "user"
    BY <1>3 DEF Step, UserStep, Fork, ForkFails, Start, TrySend, SendYield, ipc_recv, ReadFrom, ReadValue,
                exit, panic, At, Trapped, user
  <2>2. e \in Slot
    BY <1>0, <2>1 DEF KInv, Stopped, LiveAddressSpace, TypeOK
  <2>. QED
    BY <1>0, <1>1, <2>2
<1>4. ASSUME NEW t, become(e, t), prog' # prog, Plain(t) PROVE Others'
  <2>1. prog' = [prog EXCEPT ![e] = t] /\ e \in Slot
    BY <1>3, <1>4 DEF become
  <2>2. \A x \in Slot : prog'[x] = IF x = e THEN t ELSE prog[x]
    BY <1>1, <2>1
  <2>. QED
    BY <1>1, <1>4, <2>2 DEF Others
<1>5. CASE prog' # prog /\ Fork(c)
  <2>1. PICK x, new : /\ x = Head(env_free_list) /\ new = env_id'[x]
    OBVIOUS
  <2>2. /\ prog' = [prog EXCEPT ![e].pc = "start", ![e].id = new, ![x] = AfterFork(s, TRUE)]
        /\ s.pc = "fork"
    BY <1>0, <1>5, <2>1 DEF Fork, At
  <2>3. PICK t, u : t = [s EXCEPT !.pc = "start", !.id = new] /\ u = AfterFork(s, TRUE)
    OBVIOUS
  <2>4. e \in Slot /\ s \in Program /\ Plain(s) /\ env_id[e] \in EnvId
    BY <1>3, <1>5 DEF KInv, Stopped, TypeOK
  <2>5. Plain(t) /\ Plain(u)
    BY <2>2, <2>3, <2>4, PlainPrograms
  <2>6. prog' = [[prog EXCEPT ![e] = t] EXCEPT ![x] = u]
    BY <1>0, <1>1, <2>2, <2>3, <2>4
  <2>7. \A z \in Slot : prog'[z] \in {prog[z], t, u}
    BY <1>1, <2>6
  <2>. QED
    BY <1>1, <2>5, <2>7 DEF Others
<1>6. CASE prog' # prog /\ (ForkFails(c) \/ Start(c) \/ SendYield(c) \/ ipc_recv(c) \/ ReadFrom(c))
  <2>1. \/ \E pc : become(e, [s EXCEPT !.pc = pc])
        \/ s.pc = "start" /\ become(e, AfterFork(s, FALSE))
        \/ \E who : become(e, [s EXCEPT !.pc = "value", !.who = who])
    BY <1>0, <1>6 DEF ForkFails, Start, SendYield, ipc_recv, ReadFrom, At
  <2>. QED
    BY <1>3, <1>4, <1>6, <2>1, PlainPrograms
<1>7. CASE prog' # prog /\ TrySend(c)
  <2>1. PICK error : ipc_send(c, s, error) /\ s.pc = "send"
    BY <1>0, <1>7 DEF TrySend, At
  <2>2. become(e, AfterSend(s)) \/ \E pc : become(e, [s EXCEPT !.pc = pc])
    BY <1>0, <2>1 DEF ipc_send
  <2>. QED
    BY <1>3, <1>4, <1>7, <2>1, <2>2, PlainPrograms
<1>8. CASE prog' # prog /\ ReadValue(c)
  <2>1. s.pc = "value" /\ become(e, AfterRecv(s, env_ipc_value[e]))
    BY <1>0, <1>8 DEF ReadValue
  <2>2. env_ipc_value[e] \in Value
    BY <1>3, <1>8 DEF KInv, Stopped, TypeOK
  <2>. QED
    BY <1>3, <1>4, <1>8, <2>1, <2>2, PlainPrograms
<1>9. CASE exit(c) \/ panic(c) \/ (Interrupt(c) /\ UNCHANGED user)
  BY <1>2, <1>9 DEF exit, panic, user
<1>. QED
  BY <1>2, <1>5, <1>6, <1>7, <1>8, <1>9 DEF Step, UserStep

-----------------------------------------------------------------------------
(* The invariant.                                                          *)

PInv == SieveInv \/ Others

(* A step that leaves the programs alone.                                  *)
LEMMA StillSieve ==
    ASSUME SieveInv, Kept, UNCHANGED user
    PROVE  SieveInv'
<1>1. /\ UNCHANGED <<prog, sent, got, env_id>>
      /\ \A x \in Slot : env_status'[x] = "FREE" <=> env_status[x] = "FREE"
  BY DEF user, Kept
<1>2. Stages' /\ Chain' /\ PrimesFound'
  BY <1>1 DEF SieveInv, Stages, Chain, PrimesFound, Feeds
<1>3. \A b \in Slot : Link(b)' = Link(b)
  BY <1>1 DEF Link
<1>4. \A b \in Slot : Offered(b)' = Offered(b) /\ Taken(b)' = Taken(b) /\ (Stream(b)' <=> Stream(b))
  BY <1>1, <1>3 DEF Offered, Taken, Stream
<1>5. \A b, e \in Slot : (Feeds(b, e)' <=> Feeds(b, e)) /\ (Filtered(b, e)' <=> Filtered(b, e))
  BY <1>1, <1>4 DEF Feeds, Filtered
<1>. QED
  BY <1>1, <1>2, <1>4, <1>5 DEF SieveInv, Streams

LEMMA SieveStep ==
    ASSUME KInv, KInv', UInv, UInv', SieveInv, NEW c \in CPU, Step(c)
    PROVE  SieveInv'
<1>1. NoPanic' /\ Stopped
  BY DEF KInv, Stopped
<1>2. ~exit(c)
  <2>. SUFFICES ASSUME exit(c) PROVE FALSE
    OBVIOUS
  <2>1. curenv[c] \in Slot /\ prog[curenv[c]].pc = "exit"
    BY DEF exit, At, Trapped, KInv, Stopped, LiveAddressSpace, TypeOK
  <2>2. Stage(prog[curenv[c]])
    BY <2>1, SieveFacts
  <2>. QED
    BY <2>1, <2>2 DEF Stage, Sieve, Setup, InSend, InRecv
<1>3. CASE ReadFrom(c) \/ ReadValue(c) \/ panic(c)
  <2>1. Kept
    BY <1>1, <1>3, StepKeeps DEF Step, UserStep, Fork, exit, At, Trapped, ReadFrom, ReadValue, panic
  <2>. QED
    BY <1>1, <1>3, <2>1, ReadFromSieve, ReadValueSieve, StillSieve DEF panic
<1>4. CASE ~(ReadFrom(c) \/ ReadValue(c) \/ panic(c))
  <2>1. KernelUnlocked
    BY <1>4 DEF Step, UserStep, Fork, ForkFails, Start, TrySend, SendYield, ipc_recv, exit,
                At, Trapped, Interrupt, Boot, Zombie, TimerOrYield, HaltedTimer
  <2>2. IInv
    BY <2>1 DEF KInv
  <2>3. CASE Fork(c)
    BY <1>1, <2>2, <2>3, ForkSieve
  <2>4. CASE ~Fork(c)
    <3>1. Kept
      BY <1>1, <1>2, <2>4, StepKeeps
    <3>2. CASE TrySend(c)
      <4>1. PICK error :
              /\ error = send_error(c, prog[curenv[c]]) /\ ipc_send(c, prog[curenv[c]], error)
              /\ error = "NONE" => \E r \in envid2env(c, prog[curenv[c]].id, FALSE) : TRUE
        BY <3>2 DEF TrySend
      <4>2. At(c, "send") /\ UNCHANGED got
        BY <3>2 DEF TrySend
      <4>3. CASE error = "NONE"
        BY <2>2, <3>1, <4>1, <4>2, <4>3, SentSieve
      <4>4. CASE error # "NONE"
        BY <2>2, <3>1, <4>1, <4>2, <4>4, UnsentSieve
      <4>. QED
        BY <4>3, <4>4
    <3>3. CASE Interrupt(c) /\ UNCHANGED user
      BY <3>1, <3>3, StillSieve
    <3>. QED
      BY <1>2, <1>4, <2>2, <2>4, <3>1, <3>2, <3>3, ForkFailsSieve, StartSieve, SendYieldSieve, RecvSieve
      DEF Step, UserStep
  <2>. QED
    BY <2>3, <2>4
<1>. QED
  BY <1>3, <1>4

LEMMA PrimesInit == IpcInit => PInv
<1>. SUFFICES ASSUME IpcInit PROVE PInv
  OBVIOUS
<1>1. PICK program \in Programs, last \in 2 .. LAST :
         prog = [e \in Slot |-> Begin(program, e, last)]
  BY DEF IpcInit
<1>3. CASE program # "primes"
  BY <1>1, <1>3, IpcAssumption DEF PInv, Others, Plain, Begin, call
<1>4. CASE program = "primes"
  <2>0. \A e \in Slot : /\ prog[e].at = program /\ prog[e].pc = "fork" /\ prog[e].p = 0
                        /\ prog[e].id = NULL
    BY <1>1, <1>4 DEF Begin
  <2>1. Stages
    BY <2>0, <1>4 DEF Stages, Stage, Childless, Sieve, Setup
  <2>2. \A pair \in EnvId \X EnvId : sent[pair] = <<>>
    BY DEF IpcInit
  <2>3. Chain
    BY <2>0, <1>4, <2>2 DEF Chain, Fed
  <2>4. \A e \in Slot : env_id[e] # NULL
    <3>1. IInv
      BY InitInv DEF IpcInit
    <3>. QED
      BY <3>1, ConstAssumption DEF IInv, TypeOK
  <2>5. Streams
    BY <2>0, <2>4 DEF Streams, Feeds
  <2>6. PrimesFound
    BY <2>0 DEF PrimesFound
  <2>. QED
    BY <2>1, <2>3, <2>5, <2>6 DEF PInv, SieveInv
<1>. QED
  BY <1>3, <1>4

LEMMA PrimesNext == KInv /\ UInv /\ (KInv /\ UInv)' /\ PInv /\ [IpcNext]_ivars => PInv'
<1>. SUFFICES ASSUME KInv, UInv, KInv', UInv', PInv, [IpcNext]_ivars PROVE PInv'
  OBVIOUS
<1>1. CASE UNCHANGED ivars
  <2>1. Kept /\ UNCHANGED user
    BY <1>1 DEF ivars, vars, envs, Kept
  <2>2. Others => Others'
    BY <2>1 DEF Others, user
  <2>. QED
    BY <2>1, <2>2, StillSieve DEF PInv
<1>2. ASSUME NEW c \in CPU, Step(c) PROVE PInv'
  BY <1>2, SieveStep, OthersStep DEF PInv
<1>. QED
  BY <1>1, <1>2 DEF IpcNext, Step

(* The invariant of the sieve.                                             *)
THEOREM SieveInvariance == IpcSpec => []PInv
<1>1. IpcSpec => [](KInv /\ UInv)
  BY IpcInvariance
<1>. QED
  BY <1>1, PrimesInit, PrimesNext, PTL DEF IpcSpec

(* Whatever the number of environments and the order in which they run,    *)
(* what user/primes.c prints is the primes: no other number, and none left *)
(* out below one that is printed.                                          *)
THEOREM PrimesTheorem == IpcSpec => []PrimesOnly
<1>1. UInv /\ PInv => PrimesOnly
  <2>. SUFFICES ASSUME UInv, PInv PROVE PrimesOnly
    OBVIOUS
  <2>1. \A e \in Slot : prog[e].p \in Nat
    BY DEF UInv, ProgramsOK, Program, Locals
  <2>2. CASE Others
    <3>1. Printed = {}
      BY <2>2 DEF Others, Plain, Printed
    <3>. QED
      BY <3>1 DEF PrimesOnly
  <2>3. CASE SieveInv
    <3>1. ASSUME NEW p \in Printed PROVE Prime(p)
      BY <2>3, <3>1 DEF SieveInv, PrimesFound, Printed
    <3>2. ASSUME NEW p \in Printed, NEW q \in 2 .. LAST, Prime(q) /\ q < p PROVE q \in Printed
      <4>1. PICK e \in Slot : p = prog[e].p
        BY <3>2 DEF Printed
      <4>2. q \in 2 .. prog[e].p
        BY <2>1, <3>2, <4>1
      <4>3. \E f \in Slot : prog[f].p = q
        BY <2>3, <3>2, <4>1, <4>2 DEF SieveInv, PrimesFound
      <4>. QED
        BY <3>2, <4>3 DEF Printed
    <3>. QED
      BY <3>1, <3>2 DEF PrimesOnly
  <2>. QED
    BY <2>2, <2>3 DEF PInv
<1>. QED
  BY <1>1, IpcInvariance, SieveInvariance, PTL
=============================================================================
