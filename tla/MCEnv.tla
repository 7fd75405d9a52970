------------------------------ MODULE MCEnv ------------------------------
(* Programs of Env that a model-checking run confines itself to.           *)
EXTENDS Env

(* Library programs that fork and exit, with panics and a user at the      *)
(* keyboard, who can end the kernel and make monitor() return.             *)
ForkNext == \E c \in CPU :
    \/ Interrupt(c) \/ HaltedDevice(c) \/ Breakpoint(c) \/ MonitorExit(c)
    \/ Return(c) \/ Fault(c) \/ sys_exofork(c) \/ LibSetStatus(c) \/ LibDestroy(c)

ForkSpec == Init /\ [][ForkNext]_vars

FairForkSpec == ForkSpec /\ Fairness
=============================================================================
