---------------------------- MODULE UserFault ----------------------------
(***************************************************************************)
(* How a page fault reaches user code and how the interrupted instruction  *)
(* resumes (JOS kern/trap.c page_fault_handler(), lib/pfentry.S,           *)
(* kern/pmap.c user_mem_check()): the kernel pushes a UTrapframe on the    *)
(* exception stack, and _pgfault_upcall restores every register from it,   *)
(* in user mode, also when the fault happened on the exception stack.      *)
(*                                                                         *)
(* Memory is an array of words.  The exception stack is at 0 .. NWORDS-1,  *)
(* a page that is not mapped below it, the user stack below that.          *)
(***************************************************************************)
EXTENDS Integers, Sequences, SequencesExt

CONSTANT NWORDS     \* words of a page

ASSUME UserFaultAssumption == NWORDS \in Nat /\ NWORDS > 13

UXSTACKTOP == NWORDS
USTACKTOP  == -NWORDS
LOWER      == USTACKTOP - 3             \* one word in the lower page,
UserStack  == LOWER .. USTACKTOP - 1    \* two in the upper
XStack     == 0 .. UXSTACKTOP - 1
Addr       == UserStack \cup XStack
DATA       == LOWER - 1                 \* elsewhere
Stacks     == Addr \cup {USTACKTOP, UXSTACKTOP}     \* where %esp points
Page(a)    == IF a = LOWER THEN "lower" ELSE "upper"

(* struct UTrapframe, in words from its lowest.                            *)
UTF == <<"fault_va", "err", "edi", "esi", "ebp", "oesp", "ebx", "edx", "ecx", "eax",
         "eip", "eflags", "esp">>
SIZE == Len(UTF)
Offset(field) == CHOOSE i \in 0 .. SIZE - 1 : UTF[i + 1] = field

CallerSaved == {"eax", "ecx", "edx", "eflags"}
CalleeSaved == {"edi", "esi", "ebp", "ebx"}
Reg == CallerSaved \cup CalleeSaved

(* A word is what put it there: <<name, number or label>>.                 *)
Junk(d) == <<"junk", d>>

VARIABLES
    mem, reg, esp, eip,    \* of the environment
    cow,       \* the pages of the user stack that are copy-on-write
    upcall,    \* env_pgfault_upcall is set
    xperm,     \* how the exception stack is mapped
    fate,      \* "alive", "destroyed", "astray" or "kernel panic"
    ctx,       \* what each fault that is not finished interrupted (history)
    spoilt     \* what has happened that the upcall is not made for (history)

machine == <<mem, reg, esp, eip, cow>>
setup == <<upcall, xperm>>
vars == <<machine, setup, fate, ctx, spoilt>>

Depth == Len(ctx)
Registers(d) == [r \in Reg |-> <<r, d>>]

Init ==
    /\ mem = [a \in Addr |-> Junk(0)]
    /\ reg = Registers(0)
    /\ esp \in {USTACKTOP - 2, USTACKTOP}
    /\ eip = "program"
    /\ cow \in SUBSET {"lower", "upper"}
    /\ upcall \in BOOLEAN
    /\ xperm \in {"none", "R", "RW"}
    /\ fate = "alive" /\ ctx = <<>> /\ spoilt = {}

-----------------------------------------------------------------------------
(* The kernel.                                                             *)

(* The page below the exception stack is not mapped; the one above it,     *)
(* UENVS, everybody reads.                                                 *)
Readable(a) == (a \in XStack /\ xperm # "none") \/ a >= UXSTACKTOP
KernelWritable(a) == a \in XStack /\ xperm = "RW"      \* CR0_WP is set

(* The word that follows the range is checked too.                         *)
user_mem_check(va, len) == \A a \in va .. va + len : Readable(a)

die(how) == fate' = how /\ UNCHANGED <<machine, setup, ctx>>

(* The UTrapframe as it lies on the stack.                                 *)
Frame(va) ==
    [i \in 1 .. SIZE |->
        CASE UTF[i] = "fault_va"    -> <<"va", va>>
          [] UTF[i] = "err"         -> <<"err", 2>>
          [] UTF[i] = "eip"         -> <<"eip", eip>>
          [] UTF[i] \in {"esp", "oesp"} -> <<"esp", esp>>
          [] OTHER                  -> reg[UTF[i]]]

Deliver(va, user_stack, memory) ==
    /\ mem' = [a \in Addr |-> IF a \in user_stack .. user_stack + SIZE - 1
                              THEN Frame(va)[a - user_stack + 1] ELSE memory[a]]
    /\ esp' = user_stack
    /\ eip' = "handler"
    /\ ctx' = Append(ctx, [esp |-> esp, eip |-> eip, reg |-> reg, mem |-> mem, va |-> va])
    /\ UNCHANGED <<reg, cow, setup, fate>>

Recursive == esp \in XStack

(* Mutant (ResumeExact): leaves no word above the frame.                   *)
Mut_NoScratch(va) ==
    IF ~upcall THEN die("destroyed")
    ELSE LET user_stack == (IF Recursive THEN esp ELSE UXSTACKTOP) - SIZE IN
         IF ~user_mem_check(user_stack, SIZE) THEN die("destroyed")
         ELSE IF ~KernelWritable(user_stack) THEN die("kernel panic")
         ELSE Deliver(va, user_stack, mem)

(* In the recursive case the word below the trap-time stack is cleared     *)
(* before anything is checked.  The check does not ask for PTE_W.          *)
page_fault_handler(va) ==
    IF ~upcall THEN die("destroyed")
    ELSE IF Recursive THEN
        LET user_stack == esp - 1 - SIZE IN
        IF ~KernelWritable(esp - 1) THEN die("kernel panic")
        ELSE IF ~user_mem_check(user_stack, SIZE + 1) THEN die("destroyed")
        ELSE Deliver(va, user_stack, [mem EXCEPT ![esp - 1] = Junk(0)])
    ELSE
        LET user_stack == UXSTACKTOP - SIZE IN
        IF ~user_mem_check(user_stack, SIZE) THEN die("destroyed")
        ELSE IF ~KernelWritable(user_stack) THEN die("kernel panic")
        ELSE Deliver(va, user_stack, mem)

-----------------------------------------------------------------------------
(* The program and the C handler.                                          *)

Writable(a) == IF a \in XStack THEN xperm = "RW" ELSE a \in UserStack /\ Page(a) \notin cow

(* A write to data that is copy-on-write.                                  *)
DataFault ==
    /\ eip \in {"program", "handler"}
    /\ page_fault_handler(DATA)

(* What is below the stack pointer on the exception stack is forgotten.    *)
Popped(m, sp) == [a \in Addr |-> IF a \in XStack /\ (a < sp \/ sp \notin XStack) THEN Junk(0) ELSE m[a]]

(* A program may put its stack anywhere, on the exception stack too.       *)
LoadEsp ==
    /\ eip = "program"
    /\ esp' \in XStack \cup {USTACKTOP - 2, USTACKTOP, UXSTACKTOP}
    /\ mem' = Popped(mem, esp')
    /\ UNCHANGED <<reg, eip, cow, setup, fate, ctx>>

(* It may map another page as its exception stack, or none, or take away   *)
(* the write permission.                                                   *)
SetExceptionStack ==
    /\ eip \in {"program", "handler"}
    /\ xperm' \in {"none", "R", "RW"} \ {xperm}
    /\ mem' = IF xperm' = "R" THEN mem ELSE Popped(mem, UXSTACKTOP)
    /\ UNCHANGED <<reg, esp, eip, cow, upcall, fate, ctx>>

(* The handler is called with two words on the stack, and pushes more.     *)
Push ==
    /\ eip = "handler" \/ (eip = "program" /\ esp > LOWER)
    /\ IF Writable(esp - 1)
       THEN /\ mem' = [mem EXCEPT ![esp - 1] = Junk(Depth)]
            /\ esp' = esp - 1
            /\ UNCHANGED <<reg, eip, cow, setup, fate, ctx>>
       ELSE page_fault_handler(esp - 1)

Work ==
    /\ eip = "handler"
    /\ reg' = Registers(Depth)
    /\ UNCHANGED <<mem, esp, eip, cow, setup, fate, ctx>>

(* The handler has made the page writable and returns, with the registers  *)
(* the calling convention has it save.  It has its stack: without, its     *)
(* next instruction faults as in Push.                                     *)
HandlerReturn ==
    LET c == Last(ctx)
        frame == IF c.esp \in XStack THEN c.esp - 1 - SIZE ELSE UXSTACKTOP - SIZE IN
    /\ eip = "handler" /\ xperm = "RW" /\ esp <= frame - 2
    /\ esp' = frame
    /\ reg' = [r \in Reg |-> IF r \in CalleeSaved THEN c.reg[r] ELSE <<r, Depth>>]
    /\ cow' = IF c.va \in UserStack THEN cow \ {Page(c.va)} ELSE cow
    /\ eip' = "adjust"
    /\ mem' = Popped(mem, frame)
    /\ UNCHANGED <<setup, fate, ctx>>

-----------------------------------------------------------------------------
(* _pgfault_upcall after the call.                                         *)

(* The trap-time %eip and %esp, with the word to push the one at.          *)
Adjust ==
    LET trap_esp == esp + Offset("esp")
        top == <<"esp", mem[trap_esp][2] - 1>> IN
    /\ eip = "adjust"
    /\ reg' = [reg EXCEPT !["eax"] = mem[esp + Offset("eip")], !["ebx"] = top]
    /\ mem' = [mem EXCEPT ![trap_esp] = top]
    /\ esp' = trap_esp
    /\ eip' = "store"
    /\ UNCHANGED <<cow, setup, fate, ctx>>

(* Mutant (StackIntact): pushes %eip over the top of the stack.            *)
Mut_StoreAbove ==
    LET a == reg["ebx"][2] + 1 IN
    /\ eip = "store"
    /\ IF Writable(a)
       THEN /\ mem' = [mem EXCEPT ![a] = reg["eax"], ![a - 1] = reg["eax"]]
            /\ esp' = esp + Offset("edi") - Offset("esp")
            /\ eip' = "restore"
            /\ UNCHANGED <<reg, cow, setup, fate, ctx>>
       ELSE page_fault_handler(a)

(* movl %eax, (%ebx), which may fault itself, with %esp past the saved     *)
(* registers.                                                              *)
Store ==
    LET a == reg["ebx"][2] IN
    /\ eip = "store"
    /\ IF Writable(a)
       THEN /\ mem' = [mem EXCEPT ![a] = reg["eax"]]
            /\ esp' = esp + Offset("edi") - Offset("esp")
            /\ eip' = "restore"
            /\ UNCHANGED <<reg, cow, setup, fate, ctx>>
       ELSE page_fault_handler(a)

(* The pops from %edi on, and ret.                                         *)
Restore ==
    LET word(field) == mem[esp + Offset(field) - Offset("edi")]
        top == word("esp")[2] IN
    /\ eip = "restore"
    /\ reg' = [r \in Reg |-> word(r)]
    /\ IF word("esp")[1] = "esp" /\ top \in Addr /\ mem[top][1] = "eip"
       THEN /\ eip' = mem[top][2]
            /\ esp' = top + 1
            /\ mem' = Popped(mem, top + 1)
            /\ UNCHANGED fate
       ELSE fate' = "astray" /\ UNCHANGED <<mem, esp, eip>>
    /\ ctx' = Front(ctx)
    /\ UNCHANGED <<cow, setup>>

(* A fault of the upcall's own store; a fault with the stack pointer at    *)
(* the end of the exception stack, which is not on it; another page as     *)
(* exception stack while a fault is being handled.                         *)
Spoils ==
    {s \in {"store", "top", "remap"} :
        \/ s = "store" /\ eip = "store" /\ ctx' # ctx
        \/ s = "top" /\ esp = UXSTACKTOP /\ ctx' # ctx
        \/ s = "remap" /\ xperm' # xperm /\ ctx # <<>>}

Next ==
    /\ fate = "alive"
    /\ \/ DataFault \/ Push \/ Work \/ LoadEsp \/ SetExceptionStack
       \/ HandlerReturn \/ Adjust \/ Store \/ Restore
    /\ spoilt' = spoilt \cup Spoils

Spec == Init /\ [][Next]_vars

-----------------------------------------------------------------------------
(* Properties.                                                             *)

Label == {"program", "handler", "adjust", "store", "restore"}
Word  == ({"eip"} \X Label) \cup ((Reg \cup {"junk", "va", "err", "esp"}) \X Int)

TypeOK ==
    /\ mem \in [Addr -> Word] /\ reg \in [Reg -> Word]
    /\ esp \in Stacks
    /\ eip \in Label
    /\ cow \in SUBSET {"lower", "upper"} /\ upcall \in BOOLEAN /\ xperm \in {"none", "R", "RW"}
    /\ fate \in {"alive", "destroyed", "astray", "kernel panic"}
    /\ ctx \in Seq([esp : Stacks, eip : Label, reg : [Reg -> Word],
                    mem : [Addr -> Word], va : Int])
    /\ spoilt \in SUBSET {"store", "top", "remap"}

Resumed(c) == reg' = c.reg /\ esp' = c.esp /\ eip' = c.eip

(* "All registers must have their trap-time values after the return"       *)
(* (lib/pfentry.S:52-53): an instruction that faulted is executed again    *)
(* with the registers, the flags and the stack it had, however deep faults *)
(* nest and wherever the program has its stack, as long as the upcall is   *)
(* not spoilt.                                                             *)
ResumeExact == [][Len(ctx') < Len(ctx) /\ spoilt = {} => Resumed(Last(ctx))]_vars

(* The same, also when the upcall's own store has faulted.                 *)
StoreMayFault == [][Len(ctx') < Len(ctx) /\ spoilt \subseteq {"store"} => Resumed(Last(ctx))]_vars

(* The handling of a fault, with the faults it has in turn, changes no     *)
(* word that was on the stack of the interrupted instruction.              *)
StackIntact ==
    [][Len(ctx') < Len(ctx) /\ spoilt = {} =>
          \A a \in Addr : a >= Last(ctx).esp /\ (a \in XStack <=> Last(ctx).esp \in XStack)
                          => mem'[a] = Last(ctx).mem[a]]_vars

(* "If ... the environment didn't allocate a page for its exception stack  *)
(* or can't write to it, or the exception stack overflows, then destroy    *)
(* the environment" (kern/trap.c:324-326), and do not panic.               *)
NoKernelFault == fate # "kernel panic"
=============================================================================
