-------------------------------- MODULE Ipc --------------------------------
(***************************************************************************)
(* The user IPC library (JOS lib/ipc.c) and the programs that use it       *)
(* (user/primes.c, pingpong.c, fairness.c), on the kernel of module Env.   *)
(*                                                                         *)
(* Every call of a program is the Env action of its system call, taken by  *)
(* the CPU that runs the environment, together with what the program       *)
(* computes up to its next call.  Between two calls any interrupt may come *)
(* and any other environment may run.  ipc_recv() reads thisenv only after *)
(* it is scheduled again, which is a step of its own.                      *)
(***************************************************************************)
EXTENDS Env

CONSTANTS
    Programs,  \* which of the three is started
    LAST       \* bound on the numbers sent

ASSUME IpcAssumption ==
    /\ Programs \subseteq {"primes", "pingpong", "fairness"}
    /\ LAST \in Nat \ {0, 1} /\ Value = 0 .. LAST

VARIABLES
    prog,     \* prog[e]: where the program of slot e is and its variables
    sent,     \* history: sent[<<from, to>>], the values of each ipc_send() that returned
    got       \* history: got[<<from, to>>], the values that ipc_recv() returned

user  == <<prog, sent, got>>
ivars == <<vars, user>>

(* at: the call of the program; pc: where in the library that call is.     *)
(* p, i, id, who are the program's variables of those names; last is the   *)
(* last number it sends (10 in pingpong.c, none in primes.c).              *)
Pc == {"idle", "fork", "start", "send", "yield", "recv", "from", "value", "exit", "panic"}

call(s, at, pc) == [s EXCEPT !.at = at, !.pc = pc]

-----------------------------------------------------------------------------
(* What the programs compute between two calls.  Three instances of        *)
(* fairness.c are made at boot, behind idle.c: the receiver ("collect") in *)
(* envs[1], and senders that send it 0 for ever.                           *)

(* In the parent (child = FALSE) and the child, fork() returned.           *)
AfterFork(s, child) ==
    CASE s.at = "primes"   -> IF child THEN call(s, "top", "recv")
                              ELSE call([s EXCEPT !.i = 2], "feed", "send")
      [] s.at = "top"      -> IF child THEN call(s, "top", "recv") ELSE call(s, "filter", "recv")
      [] s.at = "pingpong" -> call(s, "ping", IF child THEN "recv" ELSE "send")

AfterSend(s) ==
    CASE s.at = "feed"   -> IF s.i = s.last THEN call(s, "feed", "idle")
                            ELSE call([s EXCEPT !.i = @ + 1], "feed", "send")
      [] s.at = "filter" -> call(s, "filter", "recv")
      [] s.at = "ping"   -> call(s, "ping", IF s.i = s.last THEN "exit" ELSE "recv")
      [] s.at = "sender" -> call(s, "sender", "send")

(* Mutant (PrimesOnly): sends the multiples of p.                          *)
Mut_SendMultiples(s, value) ==
    CASE s.at = "top"     -> call([s EXCEPT !.p = value], "top", "fork")
      [] s.at = "filter"  -> call([s EXCEPT !.i = value], "filter",
                                  IF value % s.p = 0 THEN "send" ELSE "recv")
      [] OTHER            -> [s EXCEPT !.pc = "exit"]

AfterRecv(s, value) ==
    CASE s.at = "top"     -> call([s EXCEPT !.p = value], "top", "fork")
      [] s.at = "filter"  -> call([s EXCEPT !.i = value], "filter",
                                  IF value % s.p # 0 THEN "send" ELSE "recv")
      [] s.at = "ping"    -> IF value = s.last THEN call(s, "ping", "exit")
                             ELSE call([s EXCEPT !.i = value + 1, !.id = s.who], "ping", "send")
      [] s.at = "collect" -> call(s, "collect", "recv")

-----------------------------------------------------------------------------
(* The user side of the calls.                                             *)

At(c, pc) == Trapped(c) /\ prog[curenv[c]].pc = pc

become(e, s) == prog' = [prog EXCEPT ![e] = s]

log(history, from, to, value) == [history EXCEPT ![<<from, to>>] = Append(@, value)]

Fork(c) ==
    /\ At(c, "fork")
    /\ sys_exofork(c)
    /\ LET e == curenv[c] child == Head(env_free_list) IN
       prog' = [prog EXCEPT ![e].pc = "start", ![e].id = env_id'[child],
                            ![child] = AfterFork(prog[e], TRUE)]
    /\ UNCHANGED <<sent, got>>

(* No free environment: fork() fails and the program panics.               *)
ForkFails(c) ==
    /\ At(c, "fork") /\ env_free_list = <<>>
    /\ Return(c)
    /\ become(curenv[c], [prog[curenv[c]] EXCEPT !.pc = "panic"])
    /\ UNCHANGED <<sent, got>>

Start(c) ==
    /\ At(c, "start")
    /\ \E e \in envid2env(c, prog[curenv[c]].id, TRUE) : sys_env_set_status(c, e, "RUNNABLE")
    /\ become(curenv[c], AfterFork(prog[curenv[c]], FALSE))
    /\ UNCHANGED <<sent, got>>

(* The error of sys_ipc_try_send(): NONE, BAD_ENV or NOT_RECV.  None of    *)
(* these programs sends a page, so the call has no others.                 *)
send_error(c, s) ==
    LET target == envid2env(c, s.id, FALSE)
    IN  IF target = {} THEN "BAD_ENV"
        ELSE IF \A e \in target : ~env_ipc_recving[e] THEN "NOT_RECV"
        ELSE "NONE"

(* Mutant (InOrderOnce): a receiver that does not wait is no error.        *)
Mut_NoRetry(c, s, error) ==
    /\ become(curenv[c], CASE error \in {"NONE", "NOT_RECV"} -> AfterSend(s)
                           [] OTHER -> [s EXCEPT !.pc = "panic"])
    /\ sent' = IF error \in {"NONE", "NOT_RECV"}
               THEN log(sent, env_id[curenv[c]], s.id, s.i) ELSE sent

(* The loop of ipc_send() around the call.                                 *)
ipc_send(c, s, error) ==
    /\ become(curenv[c], CASE error = "NONE" -> AfterSend(s)
                           [] error = "NOT_RECV" -> [s EXCEPT !.pc = "yield"]
                           [] OTHER -> [s EXCEPT !.pc = "panic"])
    /\ sent' = IF error = "NONE" THEN log(sent, env_id[curenv[c]], s.id, s.i) ELSE sent

TrySend(c) ==
    /\ At(c, "send")
    /\ LET s == prog[curenv[c]] error == send_error(c, s) IN
       /\ IF error = "NONE"
          THEN \E e \in envid2env(c, s.id, FALSE) : sys_ipc_try_send(c, e, s.i, FALSE, FALSE)
          ELSE Return(c)
       /\ ipc_send(c, s, error)
    /\ UNCHANGED got

SendYield(c) ==
    /\ At(c, "yield")
    /\ TimerOrYield(c)
    /\ become(curenv[c], [prog[curenv[c]] EXCEPT !.pc = "send"])
    /\ UNCHANGED <<sent, got>>

ipc_recv(c) ==
    /\ At(c, "recv")
    /\ sys_ipc_recv(c, FALSE)
    /\ become(curenv[c], [prog[curenv[c]] EXCEPT !.pc = "from"])
    /\ UNCHANGED <<sent, got>>

(* ipc_recv() after the system call, in user mode: other CPUs may be in    *)
(* the kernel meanwhile.                                                   *)
ReadFrom(c) ==
    /\ cpu[c] = "user" /\ prog[curenv[c]].pc = "from"
    /\ become(curenv[c], [prog[curenv[c]] EXCEPT !.pc = "value", !.who = env_ipc_from[curenv[c]]])
    /\ UNCHANGED <<vars, sent, got>>

(* Bound: what an endless program was sent is forgotten once it has got    *)
(* all of it.                                                              *)
ReadValue(c) ==
    /\ cpu[c] = "user" /\ prog[curenv[c]].pc = "value"
    /\ LET e     == curenv[c]
           value == env_ipc_value[e]
           pair  == <<prog[e].who, env_id[e]>>
           all   == prog[e].at = "collect" /\ Append(got[pair], value) = sent[pair]
       IN  /\ become(e, AfterRecv(prog[e], value))
           /\ got' = [got EXCEPT ![pair] = IF all THEN <<>> ELSE Append(@, value)]
           /\ sent' = [sent EXCEPT ![pair] = IF all THEN <<>> ELSE @]
    /\ UNCHANGED vars

exit(c) ==
    /\ At(c, "exit")
    /\ env_destroy(c, curenv[c])
    /\ UNCHANGED user

(* The user library's panic() executes int3 in a loop.                     *)
panic(c) ==
    /\ At(c, "panic")
    /\ Breakpoint(c)
    /\ UNCHANGED user

UserStep(c) ==
    \/ Fork(c) \/ ForkFails(c) \/ Start(c) \/ TrySend(c) \/ SendYield(c)
    \/ ipc_recv(c) \/ ReadFrom(c) \/ ReadValue(c) \/ exit(c) \/ panic(c)

-----------------------------------------------------------------------------
Begin(program, e, last) ==
    LET s == [at |-> program, pc |-> "fork", p |-> 0, i |-> 0, id |-> NULL, who |-> NULL,
              last |-> last]
    IN  IF program # "fairness" THEN s
        ELSE IF e = 0 THEN call(s, "idle", "idle")
        ELSE IF e = 1 THEN call(s, "collect", "recv")
        ELSE call([s EXCEPT !.id = env_id[1]], "sender", "send")

IpcInit ==
    /\ Init
    /\ \E program \in Programs, last \in 2 .. LAST :
       /\ program = "fairness" => 1 \in Slot /\ env_status[1] = "RUNNABLE"
       /\ prog = [e \in Slot |-> Begin(program, e, last)]
    /\ sent = [pair \in EnvId \X EnvId |-> <<>>] /\ got = sent

IpcNext == \E c \in CPU : UserStep(c) \/ (Interrupt(c) /\ UNCHANGED user)

(* A time slice is long enough for a program to get to its next call: the  *)
(* clock does not for ever come in between.  Nothing is assumed of the     *)
(* order in which senders find the receiver waiting.                       *)
IpcFairness ==
    /\ \A c \in CPU : WF_ivars(Interrupt(c) /\ UNCHANGED user)
    /\ \A e \in Slot : SF_ivars(\E c \in CPU : curenv[c] = e /\ UserStep(c))

IpcSpec == IpcInit /\ [][IpcNext]_ivars /\ IpcFairness

-----------------------------------------------------------------------------
(* Properties.                                                             *)

(* What ipc_recv() returned to an environment from each sender is what     *)
(* that sender passed to ipc_send(), each value once and in order; at most *)
(* the last one is still on its way.                                       *)
InOrderOnce ==
    \A from, to \in EnvId :
       LET s == sent[<<from, to>>]
           g == got[<<from, to>>]
       IN  /\ Len(s) - Len(g) \in {0, 1}
           /\ g = SubSeq(s, 1, Len(g))

(* The sieve: an environment that has taken p prints the smallest number   *)
(* above 1 that no earlier one divides, so p is prime and the chain has    *)
(* all primes up to p.                                                     *)
Printed == {prog[e].p : e \in Slot} \ {0}
Prime(n) == n > 1 /\ \A d \in 2 .. n - 1 : n % d # 0

PrimesOnly ==
    /\ \A p \in Printed : Prime(p)
    /\ \A p \in Printed, q \in 2 .. LAST : Prime(q) /\ q < p => q \in Printed

(* A send of e is delivered.                                               *)
Delivers(e) ==
    LET pair == <<env_id[e], prog[e].id>>
    IN  prog[e].pc = "send" /\ Len(sent'[pair]) > Len(sent[pair])

(* No send of e is retried for ever: again and again e is outside          *)
(* ipc_send(), or a send is delivered, unless a program that ran out of    *)
(* environments stopped the kernel.                                        *)
GetsThrough(e) ==
    \/ []<>(prog[e].pc \notin {"send", "yield"} \/ ~KernelUnlocked)
    \/ []<><<Delivers(e)>>_ivars

(* ipc_send() fails to end only by losing to a rival, who sends to the     *)
(* same receiver, again and again: no wakeup is lost, and neither the      *)
(* scheduler nor a receiver that works on what it got keeps a sender out.  *)
(* Without rivals every send ends.                                         *)
SendEnds ==
    \A e \in Slot :
       \/ GetsThrough(e)
       \/ []<><<\E f \in Slot \ {e} : prog[f].id = prog[e].id /\ Delivers(f)>>_ivars

(* "This function keeps trying until it succeeds" (ipc.c:53): violated by  *)
(* fairness.c, where one of two senders may find the receiver waiting      *)
(* every time and the other never.                                         *)
EverySendEnds == \A e \in Slot : GetsThrough(e)
=============================================================================
