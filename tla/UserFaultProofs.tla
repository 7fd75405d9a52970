------------------------- MODULE UserFaultProofs -------------------------
(***************************************************************************)
(* However deep page faults nest, and wherever the program has its stack,  *)
(* each ends with the machine the faulting instruction had, for every size *)
(* of the exception stack, as long as nothing has spoilt the upcall.       *)
(*                                                                         *)
(* The argument looks at two neighbouring faults at a time: how far the    *)
(* handling of one has come, and that the memory it sees is the memory     *)
(* which the next one, when it is over, gives back.                        *)
(***************************************************************************)
EXTENDS UserFault, TLAPS

(* Where the kernel puts the frame of a fault with this stack pointer.     *)
FrameOf(sp) == IF sp \in XStack THEN sp - 1 - SIZE ELSE UXSTACKTOP - SIZE

(* Nothing has changed on the stack of c; and when that is the exception   *)
(* stack, nothing on the user stack either.                                *)
Kept(c, m) ==
    \A a \in Addr :
       (a >= c.esp /\ (a \in XStack => c.esp \in XStack)) \/ (c.esp \in XStack /\ a \in UserStack)
       => m[a] = c.mem[a]

Early == {"handler", "adjust"}

(* The handling of fault c has come to at, with stack pointer sp,          *)
(* registers r and memory m.                                               *)
Upcall(c, at, sp, r, m) ==
    LET base == FrameOf(c.esp) IN
    /\ base >= 0 /\ c.esp # UXSTACKTOP
    /\ at \in {"handler", "adjust", "store", "restore"}
    /\ at = "handler" => 0 <= sp /\ sp <= base
    /\ at = "adjust" => sp = base
    /\ at = "store" => /\ sp = base + 12
                       /\ r["eax"] = <<"eip", c.eip>> /\ r["ebx"] = <<"esp", c.esp - 1>>
    /\ at = "restore" => sp = base + 2 /\ c.esp # LOWER /\ m[c.esp - 1] = <<"eip", c.eip>>
    /\ at \in Early => m[base + 12] = <<"esp", c.esp>> /\ m[base + 10] = <<"eip", c.eip>>
    /\ at \notin Early => m[base + 12] = <<"esp", c.esp - 1>>
    /\ \A x \in Reg : m[base + Offset(x)] = c.reg[x]
    /\ Kept(c, m)

(* Fault c is of the handler of fault b.                                   *)
Nested(b, c) == c.eip = "handler" /\ Upcall(b, c.eip, c.esp, c.reg, c.mem)

(* The first fault is the program's.                                       *)
Chain ==
    /\ Depth > 0 => ctx[1].eip = "program"
    /\ \A d \in 2 .. Depth : Nested(ctx[d - 1], ctx[d])

Current ==
    /\ Depth = 0 => eip = "program"
    /\ Depth > 0 => upcall /\ xperm = "RW" /\ Upcall(ctx[Depth], eip, esp, reg, mem)

IInv == TypeOK /\ Chain /\ Current

(* As long as nothing has spoilt the upcall.                               *)
Unspoilt == spoilt \in SUBSET {"store", "top", "remap"} /\ (spoilt = {} => IInv)

Fault == [esp : Stacks, eip : Label, reg : [Reg -> Word], mem : [Addr -> Word], va : Int]

-----------------------------------------------------------------------------
(* The frame.                                                              *)

LEMMA Numbers ==
    /\ NWORDS \in Nat /\ NWORDS > 13 /\ SIZE = 13
    /\ UXSTACKTOP = NWORDS /\ USTACKTOP = -NWORDS /\ LOWER = -NWORDS - 3
    /\ UserStack = (-NWORDS - 3) .. (-NWORDS - 1) /\ XStack = 0 .. NWORDS - 1
    /\ Addr = UserStack \cup XStack /\ Addr \subseteq Int
BY UserFaultAssumption DEF SIZE, UTF, UXSTACKTOP, USTACKTOP, LOWER, UserStack, XStack, Addr

LEMMA OffsetIs ==
    ASSUME NEW f, NEW k \in 0 .. SIZE - 1, UTF[k + 1] = f,
           \A i \in 0 .. SIZE - 1 : UTF[i + 1] = f => i = k
    PROVE  Offset(f) = k
BY DEF Offset

LEMMA Offsets ==
    /\ Offset("edi") = 2 /\ Offset("esi") = 3 /\ Offset("ebp") = 4 /\ Offset("ebx") = 6
    /\ Offset("edx") = 7 /\ Offset("ecx") = 8 /\ Offset("eax") = 9
    /\ Offset("eip") = 10 /\ Offset("eflags") = 11 /\ Offset("esp") = 12
<1>1. SIZE = 13
  BY Numbers
<1>2. /\ UTF[1] = "fault_va" /\ UTF[2] = "err" /\ UTF[3] = "edi" /\ UTF[4] = "esi"
      /\ UTF[5] = "ebp" /\ UTF[6] = "oesp" /\ UTF[7] = "ebx" /\ UTF[8] = "edx"
      /\ UTF[9] = "ecx" /\ UTF[10] = "eax" /\ UTF[11] = "eip" /\ UTF[12] = "eflags"
      /\ UTF[13] = "esp"
  BY DEF UTF
<1>. QED
  BY <1>1, <1>2, OffsetIs

LEMMA RegOffsets ==
    \A x \in Reg : Offset(x) \in 2 .. 11 /\ Offset(x) \notin {5, 10} /\ UTF[Offset(x) + 1] = x
BY Offsets DEF Reg, CallerSaved, CalleeSaved, UTF

LEMMA Types ==
    ASSUME TypeOK
    PROVE  /\ mem \in [Addr -> Word] /\ reg \in [Reg -> Word]
           /\ esp \in Int /\ esp \in Stacks /\ eip \in Label
           /\ xperm \in {"none", "R", "RW"} /\ ctx \in Seq(Fault)
<1>1. esp \in Stacks /\ ctx \in Seq(Fault)
  BY DEF TypeOK, Fault
<1>2. esp \in Int
  BY <1>1, Numbers DEF Stacks
<1>. QED
  BY <1>1, <1>2 DEF TypeOK

(* A step that spoils nothing.                                             *)
Quiet == spoilt' = {} /\ Spoils = {}

LEMMA QuietIs ==
    ASSUME Quiet
    PROVE  /\ spoilt' = {}
           /\ eip = "store" \/ esp = UXSTACKTOP => ctx' = ctx
           /\ ctx # <<>> => xperm' = xperm
<1>1. \A x \in {"store", "top", "remap"} :
         ~ \/ x = "store" /\ eip = "store" /\ ctx' # ctx
           \/ x = "top" /\ esp = UXSTACKTOP /\ ctx' # ctx
           \/ x = "remap" /\ xperm' # xperm /\ ctx # <<>>
  BY DEF Quiet, Spoils
<1>. QED
  BY <1>1 DEF Quiet

LEMMA FrameWords ==
    ASSUME TypeOK, NEW va \in Int
    PROVE  /\ \A i \in 1 .. 13 : Frame(va)[i] \in Word
           /\ Frame(va)[11] = <<"eip", eip>> /\ Frame(va)[13] = <<"esp", esp>>
           /\ \A x \in Reg : Frame(va)[Offset(x) + 1] = reg[x]
<1>1. SIZE = 13 /\ esp \in Int /\ eip \in Label /\ \A x \in Reg : reg[x] \in Word
  BY Numbers, Types
<1>2. /\ UTF[1] = "fault_va" /\ UTF[2] = "err" /\ UTF[3] = "edi" /\ UTF[4] = "esi"
      /\ UTF[5] = "ebp" /\ UTF[6] = "oesp" /\ UTF[7] = "ebx" /\ UTF[8] = "edx"
      /\ UTF[9] = "ecx" /\ UTF[10] = "eax" /\ UTF[11] = "eip" /\ UTF[12] = "eflags"
      /\ UTF[13] = "esp"
  BY DEF UTF
<1>3. Frame(va)[11] = <<"eip", eip>> /\ Frame(va)[13] = <<"esp", esp>>
  BY <1>1, <1>2 DEF Frame
<1>4. ASSUME NEW x \in Reg
      PROVE  Frame(va)[Offset(x) + 1] = reg[x]
  <2>1. Offset(x) + 1 \in 1 .. SIZE /\ UTF[Offset(x) + 1] = x
    BY <1>1, RegOffsets
  <2>2. x \notin {"fault_va", "err", "eip", "esp", "oesp"}
    BY DEF Reg, CallerSaved, CalleeSaved
  <2>. QED
    BY <2>1, <2>2 DEF Frame
<1>5. ASSUME NEW i \in 1 .. 13
      PROVE  Frame(va)[i] \in Word
  <2>1. <<"va", va>> \in Word /\ <<"err", 2>> \in Word /\ <<"eip", eip>> \in Word
        /\ <<"esp", esp>> \in Word
    BY <1>1 DEF Word
  <2>2. UTF[i] \in {"fault_va", "err", "eip", "esp", "oesp"} \/ UTF[i] \in Reg
    BY <1>2 DEF Reg, CallerSaved, CalleeSaved
  <2>. QED
    BY <1>1, <2>1, <2>2 DEF Frame, Reg, CallerSaved, CalleeSaved
<1>. QED
  BY <1>3, <1>4, <1>5

(* The kernel has called the handler: the frame is on the exception stack, *)
(* and otherwise at most the word below its old top has changed.           *)
Delivered(va) ==
    LET base == FrameOf(esp) IN
    /\ base \in 0 .. NWORDS - 13 /\ upcall /\ xperm = "RW"
    /\ mem' \in [Addr -> Word]
    /\ \A a \in Addr : a \notin base .. base + 12 /\ (a = esp - 1 => a \in UserStack)
                      => mem'[a] = mem[a]
    /\ \A k \in 0 .. 12 : mem'[base + k] = Frame(va)[k + 1]
    /\ esp' = base /\ eip' = "handler"
    /\ ctx' = Append(ctx, [esp |-> esp, eip |-> eip, reg |-> reg, mem |-> mem, va |-> va])
    /\ UNCHANGED <<reg, cow, setup, fate>>

(* What the kernel makes of an instruction that faults.                    *)
LEMMA Faults ==
    ASSUME IInv, NEW va \in Int, page_fault_handler(va)
    PROVE  \/ fate' \in {"destroyed", "kernel panic"} /\ UNCHANGED <<machine, setup, ctx>>
           \/ Delivered(va)
<1>1. /\ mem \in [Addr -> Word] /\ esp \in Int /\ esp \in Stacks
      /\ xperm \in {"none", "R", "RW"}
  BY Types DEF IInv
<1>3. ASSUME NEW memory \in [Addr -> Word], NEW base \in 0 .. NWORDS - 13,
             Deliver(va, base, memory)
      PROVE  /\ mem' \in [Addr -> Word]
             /\ \A a \in Addr : a \notin base .. base + 12 => mem'[a] = memory[a]
             /\ \A k \in 0 .. 12 : mem'[base + k] = Frame(va)[k + 1]
             /\ esp' = base /\ eip' = "handler"
             /\ ctx' = Append(ctx, [esp |-> esp, eip |-> eip, reg |-> reg, mem |-> mem, va |-> va])
             /\ UNCHANGED <<reg, cow, setup, fate>>
  <2>1. mem' = [a \in Addr |-> IF a \in base .. base + 12 THEN Frame(va)[a - base + 1] ELSE memory[a]]
    BY <1>3, Numbers DEF Deliver
  <2>2. \A a \in base .. base + 12 : a \in Addr /\ a - base + 1 \in 1 .. 13
    BY Numbers
  <2>3. \A i \in 1 .. 13 : Frame(va)[i] \in Word
    BY FrameWords DEF IInv
  <2>4. mem' \in [Addr -> Word]
    BY <2>1, <2>2, <2>3
  <2>5. ASSUME NEW k \in 0 .. 12
        PROVE  mem'[base + k] = Frame(va)[k + 1]
    <3>1. base + k \in base .. base + 12 /\ base + k - base + 1 = k + 1
      OBVIOUS
    <3>. QED
      BY <2>1, <2>2, <3>1
  <2>. QED
    BY <1>3, <2>1, <2>4, <2>5 DEF Deliver
<1>4. CASE ~upcall
  BY <1>4 DEF page_fault_handler, die
<1>5. CASE upcall /\ Recursive
  <2>1. esp \in XStack /\ FrameOf(esp) = esp - 14
    BY <1>5, Numbers DEF Recursive, FrameOf
  <2>2. CASE ~KernelWritable(esp - 1)
    BY <1>5, <2>2 DEF page_fault_handler, die
  <2>3. CASE KernelWritable(esp - 1) /\ ~user_mem_check(esp - 1 - SIZE, SIZE + 1)
    BY <1>5, <2>3 DEF page_fault_handler, die
  <2>4. CASE KernelWritable(esp - 1) /\ user_mem_check(esp - 1 - SIZE, SIZE + 1)
    <3>1. Readable(esp - 14)
      BY <1>1, <2>4, Numbers DEF user_mem_check
    <3>2. FrameOf(esp) \in 0 .. NWORDS - 13 /\ esp - 1 \in XStack
      BY <1>1, <2>1, <2>4, <3>1, Numbers DEF Readable, KernelWritable
    <3>. DEFINE memory == [mem EXCEPT ![esp - 1] = Junk(0)]
    <3>3. Deliver(va, FrameOf(esp), memory)
      BY <1>5, <2>1, <2>4, Numbers DEF page_fault_handler
    <3>4. memory \in [Addr -> Word]
      <4>1. Junk(0) \in Word
        BY DEF Junk, Word
      <4>. QED
        BY <1>1, <4>1
    <3>5. /\ \A a \in Addr : a # esp - 1 => memory[a] = mem[a]
          /\ \A a \in Addr : a = esp - 1 => a \notin UserStack
      BY <1>1, <3>2, Numbers
    <3>. HIDE DEF memory
    <3>6. /\ mem' \in [Addr -> Word]
          /\ \A a \in Addr : a \notin FrameOf(esp) .. FrameOf(esp) + 12 => mem'[a] = memory[a]
          /\ \A k \in 0 .. 12 : mem'[FrameOf(esp) + k] = Frame(va)[k + 1]
          /\ esp' = FrameOf(esp) /\ eip' = "handler"
          /\ ctx' = Append(ctx, [esp |-> esp, eip |-> eip, reg |-> reg, mem |-> mem, va |-> va])
          /\ UNCHANGED <<reg, cow, setup, fate>>
      BY <1>3, <3>2, <3>3, <3>4
    <3>7. \A a \in Addr :
             a \notin FrameOf(esp) .. FrameOf(esp) + 12 /\ (a = esp - 1 => a \in UserStack)
             => mem'[a] = mem[a]
      BY <3>5, <3>6
    <3>8. xperm = "RW"
      BY <2>4 DEF KernelWritable
    <3>. QED
      BY <1>5, <3>2, <3>6, <3>7, <3>8 DEF Delivered
  <2>. QED
    BY <2>2, <2>3, <2>4
<1>6. CASE upcall /\ ~Recursive
  <2>1. esp \notin XStack /\ FrameOf(esp) = NWORDS - 13 /\ FrameOf(esp) = UXSTACKTOP - SIZE
    BY <1>6, Numbers DEF Recursive, FrameOf
  <2>2. CASE ~user_mem_check(FrameOf(esp), SIZE)
    BY <1>6, <2>1, <2>2 DEF page_fault_handler, die
  <2>3. CASE user_mem_check(FrameOf(esp), SIZE)
    <3>1. Readable(FrameOf(esp))
      BY <2>1, <2>3, Numbers DEF user_mem_check
    <3>2. xperm # "none" /\ FrameOf(esp) \in XStack
      BY <2>1, <3>1, Numbers DEF Readable
    <3>3. CASE xperm = "R"
      BY <1>6, <2>1, <2>3, <3>3 DEF page_fault_handler, die, KernelWritable
    <3>4. CASE xperm = "RW"
      <4>1. Deliver(va, FrameOf(esp), mem)
        BY <1>6, <2>1, <2>3, <3>2, <3>4 DEF page_fault_handler, KernelWritable
      <4>2. FrameOf(esp) \in 0 .. NWORDS - 13
        BY <2>1, Numbers
      <4>. QED
        BY <1>1, <1>3, <1>6, <3>4, <4>1, <4>2 DEF Delivered
    <3>. QED
      BY <1>1, <3>2, <3>3, <3>4
  <2>. QED
    BY <2>2, <2>3
<1>. QED
  BY <1>4, <1>5, <1>6

-----------------------------------------------------------------------------
(* The invariant.                                                          *)

(* Where the frame of a fault lies.                                        *)
LEMMA Bases ==
    ASSUME NEW sp \in Stacks, sp # UXSTACKTOP, FrameOf(sp) >= 0
    PROVE  \E base \in 0 .. NWORDS - 13 :
              /\ base = FrameOf(sp) /\ sp \in Int /\ base \in XStack
              /\ \A k \in 0 .. 12 : base + k \in XStack /\ base + k \in Addr /\ base + k # sp - 1
              /\ sp \in XStack => (sp = base + 14 /\ sp - 1 \in XStack /\ sp - 1 \in Addr)
              /\ sp \notin XStack => sp \in UserStack \cup {USTACKTOP}
              /\ (sp \notin XStack /\ sp # LOWER) => (sp - 1 \in UserStack /\ sp - 1 \in Addr)
<1>1. /\ sp \in Int /\ sp \in Addr \cup {USTACKTOP}
      /\ FrameOf(sp) = IF sp \in XStack THEN sp - 14 ELSE NWORDS - 13
  BY Numbers DEF FrameOf, Stacks
<1>2. FrameOf(sp) \in 0 .. NWORDS - 13
  BY <1>1, Numbers
<1>3. \A k \in 0 .. 12 : /\ FrameOf(sp) + k \in XStack
                         /\ FrameOf(sp) + k # sp - 1
  BY <1>1, <1>2, Numbers
<1>4. XStack \subseteq Addr /\ UserStack \subseteq Addr /\ FrameOf(sp) \in XStack
  BY <1>2, Numbers
<1>5. sp \in XStack => sp = FrameOf(sp) + 14 /\ sp - 1 \in XStack
  BY <1>1, <1>2, Numbers
<1>6. /\ sp \notin XStack => sp \in UserStack \cup {USTACKTOP}
      /\ (sp \notin XStack /\ sp # LOWER) => sp - 1 \in UserStack
  BY <1>1, Numbers
<1>. QED
  BY <1>1, <1>2, <1>3, <1>4, <1>5, <1>6

(* The state is quiet when no fault is being handled.                      *)
LEMMA Unchanged ==
    ASSUME IInv, UNCHANGED <<machine, setup, ctx>>, spoilt' = {},
           fate' \in {"alive", "destroyed", "astray", "kernel panic"}
    PROVE  IInv'
<1>1. UNCHANGED <<mem, reg, esp, eip, cow, upcall, xperm, ctx>>
  BY DEF machine, setup
<1>2. TypeOK'
  BY <1>1 DEF IInv, TypeOK
<1>3. Depth' = Depth
  BY <1>1 DEF Depth
<1>4. Chain' /\ Current'
  BY <1>1, <1>3 DEF IInv, Chain, Current
<1>. QED
  BY <1>2, <1>4 DEF IInv

LEMMA Delivery ==
    ASSUME IInv, fate = "alive", Quiet, NEW va \in Int, Delivered(va),
           eip \in {"program", "handler", "store"}
    PROVE  IInv'
<1>0. eip # "store" /\ esp # UXSTACKTOP /\ spoilt' = {}
  <2>1. Len(ctx') # Len(ctx)
    BY Types DEF IInv, Delivered
  <2>. QED
    BY <2>1, QuietIs
<1>1. /\ mem \in [Addr -> Word] /\ reg \in [Reg -> Word] /\ esp \in Stacks
      /\ esp \in Int /\ eip \in Label /\ ctx \in Seq(Fault)
  BY Types DEF IInv
<1>2. PICK now \in Fault : now = [esp |-> esp, eip |-> eip, reg |-> reg, mem |-> mem, va |-> va]
  BY <1>1 DEF Fault
<1>3. now.esp = esp /\ now.eip = eip /\ now.reg = reg /\ now.mem = mem
  BY <1>2
<1>4. PICK n \in Nat : n = Depth
  BY <1>1 DEF Depth
<1>5. /\ ctx' \in Seq(Fault) /\ Len(ctx') = n + 1 /\ ctx'[n + 1] = now
      /\ \A d \in 1 .. n : ctx'[d] = ctx[d] /\ ctx[d] \in Fault
  <2>1. ctx' = Append(ctx, now) /\ Len(ctx) = n
    BY <1>2, <1>4 DEF Delivered, Depth
  <2>. QED
    BY <1>1, <2>1
<1>6. PICK base \in 0 .. NWORDS - 13 : base = FrameOf(esp)
  BY DEF Delivered
<1>7. /\ mem' \in [Addr -> Word] /\ esp' = base /\ eip' = "handler"
      /\ UNCHANGED <<reg, cow, upcall, xperm, fate>> /\ upcall /\ xperm = "RW"
      /\ \A a \in Addr :
            a \notin base .. base + 12 /\ (a = esp - 1 => a \in UserStack) => mem'[a] = mem[a]
      /\ \A k \in 0 .. 12 : mem'[base + k] = Frame(va)[k + 1]
  BY <1>6 DEF Delivered, setup
<1>8. TypeOK'
  <2>1. base \in Addr
    BY Numbers
  <2>. QED
    BY <1>0, <1>5, <1>7, <2>1 DEF IInv, TypeOK, Fault, Label, Stacks
<1>9. Upcall(now, "handler", base, reg', mem')
  <2>1. /\ mem'[base + 12] = <<"esp", esp>> /\ mem'[base + 10] = <<"eip", eip>>
        /\ \A x \in Reg : mem'[base + Offset(x)] = reg[x]
    <3>1. /\ Frame(va)[11] = <<"eip", eip>> /\ Frame(va)[13] = <<"esp", esp>>
          /\ \A x \in Reg : Frame(va)[Offset(x) + 1] = reg[x]
      BY FrameWords DEF IInv
    <3>2. \A x \in Reg : Offset(x) \in 0 .. 12
      BY RegOffsets
    <3>. QED
      BY <1>7, <3>1, <3>2
  <2>2. ASSUME NEW a \in Addr,
               (a >= esp /\ (a \in XStack => esp \in XStack)) \/ (esp \in XStack /\ a \in UserStack)
        PROVE  mem'[a] = mem[a]
    <3>1. esp \in Int /\ a \in Int /\ (a \in UserStack \/ a \in XStack)
      BY <1>1, Numbers
    <3>2. /\ esp \in XStack => base = esp - 14
          /\ esp \notin XStack => base = NWORDS - 13
      BY <1>6, Numbers DEF FrameOf
    <3>3. a \in UserStack => a \notin base .. base + 12
      BY <3>1, Numbers
    <3>4. a \in XStack => (a >= esp /\ esp \in XStack)
      BY <2>2, Numbers
    <3>5. a \in XStack => (a \notin base .. base + 12 /\ a # esp - 1)
      BY <3>1, <3>2, <3>4
    <3>. QED
      BY <1>7, <3>1, <3>3, <3>5
  <2>3. Kept(now, mem')
    BY <1>3, <2>2 DEF Kept
  <2>. QED
    BY <1>0, <1>3, <1>6, <2>1, <2>3 DEF Upcall, Early
<1>10. Current'
  BY <1>5, <1>7, <1>9 DEF Current, Depth
<1>11. n = 0 => now.eip = "program"
  BY <1>3, <1>4 DEF IInv, Current
<1>12. n > 0 => Nested(ctx[n], now)
  <2>. SUFFICES ASSUME n > 0
                PROVE  Nested(ctx[n], now)
    OBVIOUS
  <2>1. Upcall(ctx[n], eip, esp, reg, mem)
    BY <1>4 DEF IInv, Current
  <2>2. eip = "handler"
    BY <1>0, <2>1 DEF Upcall
  <2>. QED
    BY <1>3, <2>1, <2>2 DEF Nested
<1>13. Chain'
  <2>1. ctx'[1].eip = "program"
    <3>1. n > 0 => ctx[1].eip = "program"
      BY <1>4 DEF IInv, Chain
    <3>. QED
      BY <1>5, <1>11, <3>1
  <2>2. ASSUME NEW d \in 2 .. n + 1
        PROVE  Nested(ctx'[d - 1], ctx'[d])
    <3>1. CASE d = n + 1
      BY <1>5, <1>12, <3>1
    <3>2. CASE d \in 2 .. n
      <4>1. Nested(ctx[d - 1], ctx[d])
        BY <1>4, <3>2 DEF IInv, Chain
      <4>2. ctx'[d - 1] = ctx[d - 1] /\ ctx'[d] = ctx[d]
        BY <1>5, <3>2
      <4>. QED
        BY <4>1, <4>2
    <3>. QED
      BY <3>1, <3>2
  <2>3. Depth' = n + 1
    BY <1>5 DEF Depth
  <2>. QED
    BY <2>1, <2>2, <2>3 DEF Chain
<1>. QED
  BY <1>8, <1>10, <1>13 DEF IInv

LEMMA FaultStep ==
    ASSUME IInv, fate = "alive", Quiet, NEW va \in Int, page_fault_handler(va),
           eip \in {"program", "handler", "store"}
    PROVE  IInv'
<1>1. CASE Delivered(va)
  BY <1>1, Delivery
<1>2. CASE ~Delivered(va)
  <2>1. fate' \in {"destroyed", "kernel panic"} /\ UNCHANGED <<machine, setup, ctx>>
    BY <1>2, Faults
  <2>. QED
    BY <2>1, Unchanged DEF Quiet
<1>. QED
  BY <1>1, <1>2

(* Outside the program a fault is being handled.                           *)
LEMMA Handling ==
    ASSUME IInv, eip # "program"
    PROVE  \E c \in Fault, base \in 0 .. NWORDS - 13 :
              /\ Depth \in Nat /\ Depth > 0 /\ ctx \in Seq(Fault)
              /\ c = ctx[Depth] /\ c = Last(ctx)
              /\ c.esp \in Stacks /\ c.esp # UXSTACKTOP /\ upcall /\ xperm = "RW"
              /\ Upcall(c, eip, esp, reg, mem) /\ Kept(c, mem) /\ FrameOf(c.esp) >= 0
              /\ base = FrameOf(c.esp) /\ c.esp \in Int /\ base \in XStack
              /\ \A k \in 0 .. 12 : base + k \in XStack /\ base + k \in Addr /\ base + k # c.esp - 1
              /\ c.esp \in XStack => (c.esp = base + 14 /\ c.esp - 1 \in XStack /\ c.esp - 1 \in Addr)
              /\ c.esp \notin XStack => c.esp \in UserStack \cup {USTACKTOP}
              /\ (c.esp \notin XStack /\ c.esp # LOWER) => (c.esp - 1 \in UserStack /\ c.esp - 1 \in Addr)
<1>1. ctx \in Seq(Fault) /\ Depth \in Nat /\ Last(ctx) = ctx[Depth]
  BY Types DEF IInv, Depth, Last
<1>2. Depth > 0
  BY <1>1 DEF IInv, Current
<1>3. ctx[Depth] \in Fault
  BY <1>1, <1>2 DEF Depth
<1>4. PICK c \in Fault : c = ctx[Depth]
  BY <1>3
<1>5. /\ c.esp \in Stacks /\ c.esp # UXSTACKTOP /\ upcall /\ xperm = "RW"
      /\ Upcall(c, eip, esp, reg, mem) /\ Kept(c, mem) /\ FrameOf(c.esp) >= 0
  BY <1>2, <1>4 DEF IInv, Current, Fault, Upcall
<1>6. \E base \in 0 .. NWORDS - 13 :
         /\ base = FrameOf(c.esp) /\ c.esp \in Int /\ base \in XStack
         /\ \A k \in 0 .. 12 : base + k \in XStack /\ base + k \in Addr /\ base + k # c.esp - 1
         /\ c.esp \in XStack => (c.esp = base + 14 /\ c.esp - 1 \in XStack /\ c.esp - 1 \in Addr)
         /\ c.esp \notin XStack => c.esp \in UserStack \cup {USTACKTOP}
         /\ (c.esp \notin XStack /\ c.esp # LOWER) => (c.esp - 1 \in UserStack /\ c.esp - 1 \in Addr)
  BY <1>5, Bases
<1>. QED
  BY <1>1, <1>2, <1>4, <1>5, <1>6

(* A step that neither starts nor ends a fault.                            *)
LEMMA SameFaults ==
    ASSUME IInv, fate = "alive", Quiet, UNCHANGED <<setup, fate, ctx>>, TypeOK',
           Depth > 0, upcall, xperm = "RW", Upcall(ctx[Depth], eip', esp', reg', mem')
    PROVE  IInv'
<1>1. ctx' = ctx /\ upcall' = upcall /\ xperm' = xperm /\ fate' = "alive" /\ Depth' = Depth
  BY fate = "alive" DEF setup, Depth
<1>2. Chain' /\ Current'
  BY <1>1 DEF IInv, Chain, Current
<1>. QED
  BY <1>2 DEF IInv

LEMMA PoppedType ==
    ASSUME NEW m \in [Addr -> Word], NEW sp
    PROVE  Popped(m, sp) \in [Addr -> Word]
<1>1. Junk(0) \in Word
  BY DEF Junk, Word
<1>. QED
  BY <1>1 DEF Popped

LEMMA StillKept ==
    ASSUME NEW c \in Fault, FrameOf(c.esp) >= 0, NEW m, NEW m2, Kept(c, m),
           \A a \in UserStack : a >= c.esp \/ c.esp \in XStack => m2[a] = m[a],
           c.esp \in XStack => \A a \in XStack : a >= c.esp => m2[a] = m[a]
    PROVE  Kept(c, m2)
<1>1. ASSUME NEW a \in Addr,
             (a >= c.esp /\ (a \in XStack => c.esp \in XStack)) \/ (c.esp \in XStack /\ a \in UserStack)
      PROVE  m2[a] = c.mem[a]
  <2>1. m[a] = c.mem[a]
    BY <1>1 DEF Kept
  <2>2. a \in UserStack \/ a \in XStack
    BY Numbers
  <2>3. a \in UserStack => m2[a] = m[a]
    BY <1>1
  <2>4. a \in XStack => m2[a] = m[a]
    BY <1>1, Numbers
  <2>. QED
    BY <2>1, <2>2, <2>3, <2>4
<1>. QED
  BY <1>1 DEF Kept

LEMMA PushStep ==
    ASSUME IInv, fate = "alive", Quiet, Push
    PROVE  IInv'
<1>1. /\ mem \in [Addr -> Word] /\ esp \in Stacks /\ ctx \in Seq(Fault)
  BY Types DEF IInv
<1>2. esp \in Int /\ Depth \in Nat
  BY <1>1, Types DEF IInv, Depth
<1>3. eip = "handler" \/ (eip = "program" /\ esp > LOWER)
  BY DEF Push
<1>4. CASE ~Writable(esp - 1)
  <2>1. page_fault_handler(esp - 1)
    BY <1>4 DEF Push
  <2>. QED
    BY <1>2, <1>3, <2>1, FaultStep
<1>5. CASE Writable(esp - 1)
  <2>1. esp - 1 \in Addr
    BY <1>5, Numbers DEF Writable
  <2>2. /\ mem' = [mem EXCEPT ![esp - 1] = Junk(Depth)] /\ esp' = esp - 1
        /\ UNCHANGED <<reg, eip, cow, setup, fate, ctx>>
    BY <1>5 DEF Push
  <2>3. Junk(Depth) \in Word
    BY <1>2 DEF Junk, Word
  <2>4. mem' \in [Addr -> Word] /\ \A a \in Addr : a # esp - 1 => mem'[a] = mem[a]
    BY <1>1, <2>2, <2>3
  <2>5. TypeOK'
    BY <2>1, <2>2, <2>4, QuietIs DEF IInv, TypeOK, setup, Stacks
  <2>6. CASE eip = "program"
    <3>1. Depth = 0
      BY <1>2, <2>6 DEF IInv, Current, Upcall
    <3>2. Depth' = Depth /\ ctx' = ctx
      BY <2>2 DEF Depth
    <3>3. Chain' /\ Current'
      BY <2>2, <2>6, <3>1, <3>2 DEF IInv, Chain, Current
    <3>. QED
      BY <2>5, <3>3 DEF IInv
  <2>7. CASE eip = "handler"
    <3>1. PICK c \in Fault, base \in 0 .. NWORDS - 13 :
             /\ Depth > 0 /\ c = ctx[Depth] /\ upcall /\ xperm = "RW"
             /\ Upcall(c, "handler", esp, reg, mem) /\ Kept(c, mem) /\ FrameOf(c.esp) >= 0
             /\ base = FrameOf(c.esp)
             /\ \A k \in 0 .. 12 : base + k \in XStack /\ base + k \in Addr
             /\ c.esp \in XStack => c.esp = base + 14
      BY <2>7, Handling
    <3>4. 0 <= esp /\ esp <= base
      BY <3>1 DEF Upcall
    <3>5. esp - 1 \in XStack /\ esp - 1 \notin UserStack
      BY <1>2, <2>1, <3>4, Numbers
    <3>6. \A k \in 0 .. 12 : mem'[base + k] = mem[base + k]
      <4>1. ASSUME NEW k \in 0 .. 12
            PROVE  mem'[base + k] = mem[base + k]
        <5>1. base + k # esp - 1
          BY <1>2, <3>4
        <5>2. base + k \in Addr
          BY <3>1
        <5>. QED
          BY <2>4, <5>1, <5>2
      <4>. QED
        BY <4>1
    <3>7. Kept(c, mem')
      <4>2. \A a \in UserStack : mem'[a] = mem[a]
        BY <2>4, <3>5, Numbers
      <4>3. c.esp \in XStack => \A a \in XStack : a >= c.esp => mem'[a] = mem[a]
        <5>1. ASSUME c.esp \in XStack, NEW a \in XStack, a >= c.esp
              PROVE  mem'[a] = mem[a]
          <6>1. c.esp = base + 14 /\ a \in Int /\ a \in Addr
            BY <3>1, <5>1, Numbers
          <6>2. a # esp - 1
            BY <1>2, <3>4, <5>1, <6>1
          <6>. QED
            BY <2>4, <6>1, <6>2
        <5>. QED
          BY <5>1
      <4>. QED
        BY <3>1, <4>2, <4>3, StillKept
    <3>8. Upcall(c, "handler", esp - 1, reg, mem')
      <4>1. 0 <= esp - 1 /\ esp - 1 <= base
        BY <1>2, <3>4, <3>5, Numbers
      <4>2. \A x \in Reg : mem'[base + Offset(x)] = mem[base + Offset(x)]
        BY <3>6, RegOffsets
      <4>. QED
        BY <3>1, <3>6, <3>7, <4>1, <4>2 DEF Upcall, Early
    <3>. QED
      BY <2>2, <2>5, <2>7, <3>1, <3>8, SameFaults
  <2>. QED
    BY <1>3, <2>6, <2>7
<1>. QED
  BY <1>4, <1>5

LEMMA WorkStep ==
    ASSUME IInv, fate = "alive", Quiet, Work
    PROVE  IInv'
<1>1. /\ eip = "handler" /\ reg' = Registers(Depth)
      /\ UNCHANGED <<mem, esp, eip, cow, setup, fate, ctx>>
  BY DEF Work
<1>2. PICK c \in Fault, base \in 0 .. NWORDS - 13 :
         /\ Depth \in Nat /\ Depth > 0 /\ c = ctx[Depth] /\ upcall /\ xperm = "RW"
         /\ Upcall(c, "handler", esp, reg, mem)
  BY <1>1, Handling
<1>3. TypeOK'
  <2>1. reg' \in [Reg -> Word]
    BY <1>1, <1>2 DEF Registers, Word
  <2>. QED
    BY <1>1, <2>1, QuietIs DEF IInv, TypeOK, setup
<1>4. Upcall(c, eip', esp', reg', mem')
  BY <1>1, <1>2 DEF Upcall, Early
<1>. QED
  BY <1>1, <1>2, <1>3, <1>4, SameFaults

LEMMA HandlerReturnStep ==
    ASSUME IInv, fate = "alive", Quiet, HandlerReturn
    PROVE  IInv'
<1>1. eip = "handler"
  BY DEF HandlerReturn
<1>2. PICK c \in Fault, base \in 0 .. NWORDS - 13 :
         /\ Depth \in Nat /\ Depth > 0 /\ c = ctx[Depth] /\ c = Last(ctx)
         /\ upcall /\ xperm = "RW"
         /\ Upcall(c, "handler", esp, reg, mem) /\ Kept(c, mem) /\ FrameOf(c.esp) >= 0
         /\ base = FrameOf(c.esp) /\ base \in XStack
         /\ \A k \in 0 .. 12 : base + k \in XStack /\ base + k \in Addr
         /\ c.esp \in XStack => c.esp = base + 14
  BY <1>1, Handling
<1>3. /\ esp' = base /\ eip' = "adjust" /\ mem' = Popped(mem, base)
      /\ reg' = [r \in Reg |-> IF r \in CalleeSaved THEN c.reg[r] ELSE <<r, Depth>>]
      /\ cow' = IF c.va \in UserStack THEN cow \ {Page(c.va)} ELSE cow
      /\ UNCHANGED <<setup, fate, ctx>>
  BY <1>2 DEF HandlerReturn, FrameOf
<1>4. cow' \in SUBSET {"lower", "upper"}
  BY <1>3 DEF IInv, TypeOK
<1>5. /\ mem' \in [Addr -> Word]
      /\ \A a \in Addr : (a \in XStack => a >= base) => mem'[a] = mem[a]
  <2>1. mem \in [Addr -> Word] /\ Junk(0) \in Word
    BY Types DEF IInv, Junk, Word
  <2>2. mem' = [a \in Addr |-> IF a \in XStack /\ a < base THEN Junk(0) ELSE mem[a]]
    BY <1>2, <1>3 DEF Popped
  <2>3. \A a \in Addr : a \in Int
    BY Numbers
  <2>. QED
    BY <2>1, <2>2, <2>3
<1>6. TypeOK'
  <2>1. reg' \in [Reg -> Word]
    BY <1>2, <1>3 DEF Fault, Word
  <2>2. base \in Addr
    BY <1>2, Numbers
  <2>. QED
    BY <1>3, <1>4, <1>5, <2>1, <2>2, QuietIs DEF IInv, TypeOK, setup, Label, Stacks
<1>7. ASSUME NEW k \in 0 .. 12
      PROVE  mem'[base + k] = mem[base + k]
  BY <1>2, <1>5
<1>8. Kept(c, mem')
  <2>1. \A a \in UserStack : a \in Addr /\ a \notin XStack
    BY Numbers
  <2>2. ASSUME c.esp \in XStack, NEW a \in XStack, a >= c.esp
        PROVE  mem'[a] = mem[a]
    <3>1. a \in Addr /\ a \in Int /\ c.esp = base + 14
      BY <1>2, <2>2, Numbers
    <3>2. a >= base
      BY <2>2, <3>1
    <3>. QED
      BY <1>5, <3>1, <3>2
  <2>. QED
    BY <1>2, <1>5, <2>1, <2>2, StillKept
<1>9. Upcall(c, "adjust", base, reg', mem')
  <2>1. \A x \in Reg : mem'[base + Offset(x)] = mem[base + Offset(x)]
    BY <1>7, RegOffsets
  <2>2. mem'[base + 10] = mem[base + 10] /\ mem'[base + 12] = mem[base + 12]
    BY <1>7
  <2>. QED
    BY <1>2, <1>8, <2>1, <2>2 DEF Upcall, Early
<1>. QED
  BY <1>2, <1>3, <1>6, <1>9, SameFaults

LEMMA AdjustStep ==
    ASSUME IInv, fate = "alive", Quiet, Adjust
    PROVE  IInv'
<1>1. eip = "adjust"
  BY DEF Adjust
<1>2. PICK c \in Fault, base \in 0 .. NWORDS - 13 :
         /\ Depth \in Nat /\ Depth > 0 /\ c = ctx[Depth] /\ c.esp \in Int
         /\ upcall /\ xperm = "RW"
         /\ Upcall(c, "adjust", esp, reg, mem) /\ Kept(c, mem) /\ FrameOf(c.esp) >= 0
         /\ base = FrameOf(c.esp)
         /\ \A k \in 0 .. 12 : base + k \in XStack /\ base + k \in Addr
         /\ c.esp \in XStack => c.esp = base + 14
  BY <1>1, Handling
<1>3. esp = base /\ mem[base + 12] = <<"esp", c.esp>> /\ mem[base + 10] = <<"eip", c.eip>>
  BY <1>2 DEF Upcall, Early
<1>4. mem[base + 12][2] = c.esp /\ Offset("esp") = 12 /\ Offset("eip") = 10
  BY <1>3, Offsets
<1>5. /\ reg' = [reg EXCEPT !["eax"] = <<"eip", c.eip>>, !["ebx"] = <<"esp", c.esp - 1>>]
      /\ mem' = [mem EXCEPT ![base + 12] = <<"esp", c.esp - 1>>]
      /\ esp' = base + 12 /\ eip' = "store"
      /\ UNCHANGED <<cow, setup, fate, ctx>>
  BY <1>3, <1>4 DEF Adjust
<1>6. mem \in [Addr -> Word] /\ reg \in [Reg -> Word] /\ base + 12 \in XStack /\ base + 12 \in Addr
  <2>1. mem \in [Addr -> Word] /\ reg \in [Reg -> Word]
    BY Types DEF IInv
  <2>2. base + 12 \in XStack /\ base + 12 \in Addr
    BY <1>2
  <2>. QED
    BY <2>1, <2>2
<1>7. <<"eip", c.eip>> \in Word /\ <<"esp", c.esp - 1>> \in Word
  BY <1>2 DEF Word, Fault
<1>8. /\ mem' \in [Addr -> Word] /\ mem'[base + 12] = <<"esp", c.esp - 1>>
      /\ \A a \in Addr : a # base + 12 => mem'[a] = mem[a]
  BY <1>5, <1>6, <1>7
<1>9. /\ reg' \in [Reg -> Word] /\ reg'["eax"] = <<"eip", c.eip>>
      /\ reg'["ebx"] = <<"esp", c.esp - 1>>
  BY <1>5, <1>6, <1>7 DEF Reg, CallerSaved, CalleeSaved
<1>10. TypeOK'
  BY <1>5, <1>6, <1>8, <1>9, QuietIs DEF IInv, TypeOK, setup, Label, Stacks
<1>11. ASSUME NEW x \in Reg
       PROVE  mem'[base + Offset(x)] = mem[base + Offset(x)]
  <2>1. Offset(x) \in 0 .. 11
    BY RegOffsets
  <2>2. base + Offset(x) \in Addr /\ base + Offset(x) # base + 12
    BY <1>2, <2>1
  <2>. QED
    BY <1>8, <2>2
<1>12. Kept(c, mem')
  <2>1. \A a \in UserStack : a \in Addr /\ a \notin XStack
    BY Numbers
  <2>2. ASSUME c.esp \in XStack, NEW a \in XStack, a >= c.esp
        PROVE  mem'[a] = mem[a]
    <3>1. a \in Addr /\ a \in Int /\ c.esp = base + 14
      BY <1>2, <2>2, Numbers
    <3>2. a # base + 12
      BY <2>2, <3>1
    <3>. QED
      BY <1>8, <3>1, <3>2
  <2>. QED
    BY <1>2, <1>6, <1>8, <2>1, <2>2, StillKept
<1>13. Upcall(c, "store", base + 12, reg', mem')
  BY <1>2, <1>8, <1>9, <1>11, <1>12 DEF Upcall, Early
<1>. QED
  BY <1>2, <1>5, <1>10, <1>13, SameFaults

LEMMA StoreStep ==
    ASSUME IInv, fate = "alive", Quiet, Store
    PROVE  IInv'
<1>1. eip = "store"
  BY DEF Store
<1>2. PICK c \in Fault, base \in 0 .. NWORDS - 13 :
         /\ Depth \in Nat /\ Depth > 0 /\ c = ctx[Depth] /\ c.esp \in Int
         /\ upcall /\ xperm = "RW"
         /\ Upcall(c, "store", esp, reg, mem) /\ Kept(c, mem) /\ FrameOf(c.esp) >= 0
         /\ base = FrameOf(c.esp) /\ base \in XStack
         /\ \A k \in 0 .. 12 : base + k \in XStack /\ base + k \in Addr /\ base + k # c.esp - 1
         /\ c.esp \in XStack => (c.esp = base + 14 /\ c.esp - 1 \in XStack /\ c.esp - 1 \in Addr)
         /\ (c.esp \notin XStack /\ c.esp # LOWER) => (c.esp - 1 \in UserStack /\ c.esp - 1 \in Addr)
  BY <1>1, Handling
<1>3. /\ esp = base + 12 /\ reg["eax"] = <<"eip", c.eip>> /\ reg["ebx"] = <<"esp", c.esp - 1>>
      /\ mem[base + 12] = <<"esp", c.esp - 1>>
      /\ \A x \in Reg : mem[base + Offset(x)] = c.reg[x]
  BY <1>2 DEF Upcall, Early
<1>4. reg["ebx"][2] = c.esp - 1
  BY <1>3
<1>5. CASE ~Writable(c.esp - 1)
  <2>1. page_fault_handler(c.esp - 1) /\ c.esp - 1 \in Int
    BY <1>2, <1>4, <1>5 DEF Store
  <2>. QED
    BY <1>1, <2>1, FaultStep
<1>6. CASE Writable(c.esp - 1)
  <2>1. c.esp - 1 \in Addr
    BY <1>6, Numbers DEF Writable
  <2>2. c.esp # LOWER
    BY <2>1, Numbers
  <2>3. Offset("edi") = 2 /\ Offset("esp") = 12
    BY Offsets
  <2>4. /\ mem' = [mem EXCEPT ![c.esp - 1] = <<"eip", c.eip>>]
        /\ esp' = base + 2 /\ eip' = "restore"
        /\ UNCHANGED <<reg, cow, setup, fate, ctx>>
    BY <1>3, <1>4, <1>6, <2>3 DEF Store
  <2>5. /\ mem' \in [Addr -> Word] /\ mem'[c.esp - 1] = <<"eip", c.eip>>
        /\ \A a \in Addr : a # c.esp - 1 => mem'[a] = mem[a]
    <3>1. mem \in [Addr -> Word]
      BY Types DEF IInv
    <3>2. <<"eip", c.eip>> \in Word
      BY DEF Word, Fault
    <3>. QED
      BY <2>1, <2>4, <3>1, <3>2
  <2>6. TypeOK'
    <3>1. base + 2 \in Addr
      BY <1>2
    <3>. QED
      BY <2>4, <2>5, <3>1, QuietIs DEF IInv, TypeOK, setup, Label, Stacks
  <2>7. \A k \in 0 .. 12 : mem'[base + k] = mem[base + k]
    BY <1>2, <2>5
  <2>8. Kept(c, mem')
    <3>1. \A a \in Addr : a \in Int
      BY Numbers
    <3>2. ASSUME NEW a \in UserStack, a >= c.esp \/ c.esp \in XStack
          PROVE  mem'[a] = mem[a]
      <4>1. a \in Addr /\ a \notin XStack
        BY Numbers
      <4>2. a # c.esp - 1
        BY <1>2, <3>1, <3>2, <4>1
      <4>. QED
        BY <2>5, <4>1, <4>2
    <3>3. ASSUME c.esp \in XStack, NEW a \in XStack, a >= c.esp
          PROVE  mem'[a] = mem[a]
      <4>1. a \in Addr
        BY Numbers
      <4>2. a # c.esp - 1
        BY <1>2, <3>1, <3>3, <4>1
      <4>. QED
        BY <2>5, <4>1, <4>2
    <3>. QED
      BY <1>2, <3>2, <3>3, StillKept
  <2>9. Upcall(c, "restore", base + 2, reg, mem')
    <3>1. \A x \in Reg : mem'[base + Offset(x)] = mem[base + Offset(x)]
      BY <2>7, RegOffsets
    <3>2. mem'[base + 12] = mem[base + 12]
      BY <2>7
    <3>. QED
      BY <1>2, <1>3, <2>2, <2>5, <2>8, <3>1, <3>2 DEF Upcall, Early
  <2>. QED
    BY <1>2, <2>4, <2>6, <2>9, SameFaults
<1>. QED
  BY <1>5, <1>6

(* The memory a finished fault leaves is, for the fault around it, the     *)
(* memory there was.                                                       *)
LEMMA Outer ==
    ASSUME NEW b \in Fault, NEW c \in Fault, Nested(b, c), NEW m2,
           \A a \in UserStack : m2[a] = c.mem[a],
           \A a \in XStack : a >= c.esp => m2[a] = c.mem[a]
    PROVE  Upcall(b, c.eip, c.esp, c.reg, m2)
<1>1. Upcall(b, "handler", c.esp, c.reg, c.mem) /\ c.eip = "handler"
  BY DEF Nested
<1>2. b.esp \in Stacks /\ b.esp # UXSTACKTOP /\ FrameOf(b.esp) >= 0
  BY <1>1 DEF Upcall, Fault
<1>3. PICK base \in 0 .. NWORDS - 13 :
         /\ base = FrameOf(b.esp)
         /\ \A k \in 0 .. 12 : base + k \in XStack
         /\ b.esp \in XStack => b.esp = base + 14
  BY <1>2, Bases
<1>4. /\ 0 <= c.esp /\ c.esp <= base /\ c.esp \in Int
      /\ \A a \in XStack : a \in Int
  <2>1. 0 <= c.esp /\ c.esp <= base
    BY <1>1, <1>3 DEF Upcall
  <2>2. c.esp \in Stacks
    BY DEF Fault
  <2>. QED
    BY <2>1, <2>2, Numbers DEF Stacks
<1>5. ASSUME NEW k \in 0 .. 12
      PROVE  m2[base + k] = c.mem[base + k]
  <2>1. base + k \in XStack /\ base + k >= c.esp
    BY <1>3, <1>4
  <2>. QED
    BY <2>1
<1>6. Kept(b, m2)
  <2>1. Kept(b, c.mem)
    BY <1>1 DEF Upcall
  <2>2. ASSUME b.esp \in XStack, NEW a \in XStack, a >= b.esp
        PROVE  m2[a] = c.mem[a]
    <3>1. a >= c.esp
      BY <1>3, <1>4, <2>2
    <3>. QED
      BY <3>1
  <2>. QED
    BY <1>2, <2>1, <2>2, StillKept
<1>7. \A x \in Reg : m2[base + Offset(x)] = c.mem[base + Offset(x)]
  BY <1>5, RegOffsets
<1>8. m2[base + 10] = c.mem[base + 10] /\ m2[base + 12] = c.mem[base + 12]
  BY <1>5
<1>. QED
  BY <1>1, <1>3, <1>6, <1>7, <1>8 DEF Upcall, Early

(* The end of a fault gives back what it interrupted.                      *)
LEMMA RestoreStep ==
    ASSUME IInv, fate = "alive", Quiet, Restore
    PROVE  /\ IInv' /\ reg' = Last(ctx).reg /\ esp' = Last(ctx).esp /\ eip' = Last(ctx).eip
           /\ \A a \in Addr : a >= Last(ctx).esp /\ (a \in XStack <=> Last(ctx).esp \in XStack)
                             => mem'[a] = Last(ctx).mem[a]
<1>1. eip = "restore"
  BY DEF Restore
<1>2. PICK c \in Fault, base \in 0 .. NWORDS - 13 :
         /\ Depth \in Nat /\ Depth > 0 /\ ctx \in Seq(Fault) /\ c = ctx[Depth] /\ c = Last(ctx)
         /\ c.esp \in Int /\ c.esp \in Stacks /\ upcall /\ xperm = "RW" /\ c.esp - 1 \in Addr
         /\ Upcall(c, "restore", esp, reg, mem) /\ Kept(c, mem) /\ base = FrameOf(c.esp)
  <2>1. PICK c \in Fault, base \in 0 .. NWORDS - 13 :
           /\ Depth \in Nat /\ Depth > 0 /\ ctx \in Seq(Fault) /\ c = ctx[Depth] /\ c = Last(ctx)
           /\ c.esp \in Int /\ c.esp \in Stacks /\ upcall /\ xperm = "RW"
           /\ c.esp \in XStack => c.esp - 1 \in Addr
           /\ (c.esp \notin XStack /\ c.esp # LOWER) => c.esp - 1 \in Addr
           /\ Upcall(c, "restore", esp, reg, mem) /\ Kept(c, mem) /\ base = FrameOf(c.esp)
    BY <1>1, Handling
  <2>2. c.esp # LOWER
    BY <2>1 DEF Upcall
  <2>. QED
    BY <2>1, <2>2
<1>3. /\ esp = base + 2 /\ mem[c.esp - 1] = <<"eip", c.eip>>
      /\ mem[base + 12] = <<"esp", c.esp - 1>>
      /\ \A x \in Reg : mem[base + Offset(x)] = c.reg[x]
  BY <1>2 DEF Upcall, Early
<1>4. Offset("edi") = 2 /\ Offset("esp") = 12 /\ \A x \in Reg : Offset(x) \in Int
  BY Offsets, RegOffsets
<1>5. reg' = c.reg
  <2>1. reg' = [x \in Reg |-> mem[esp + Offset(x) - Offset("edi")]]
    BY DEF Restore
  <2>2. \A x \in Reg : esp + Offset(x) - Offset("edi") = base + Offset(x)
    BY <1>3, <1>4
  <2>3. reg' = [x \in Reg |-> c.reg[x]]
    BY <1>3, <2>1, <2>2
  <2>4. c.reg \in [Reg -> Word]
    BY DEF Fault
  <2>. QED
    BY <2>3, <2>4
<1>6. mem[esp + Offset("esp") - Offset("edi")] = <<"esp", c.esp - 1>>
  <2>1. esp + Offset("esp") - Offset("edi") = base + 12
    BY <1>3, <1>4
  <2>. QED
    BY <1>3, <2>1
<1>7. /\ eip' = c.eip /\ esp' = c.esp /\ mem' = Popped(mem, c.esp) /\ ctx' = Front(ctx)
      /\ UNCHANGED <<cow, setup, fate>>
  <2>. DEFINE word == mem[esp + Offset("esp") - Offset("edi")]
              top == word[2]
  <2>1. word[1] = "esp" /\ top = c.esp - 1
    BY <1>6
  <2>2. top \in Addr /\ top + 1 = c.esp /\ mem[top] = <<"eip", c.eip>>
    BY <1>2, <1>3, <2>1
  <2>3. mem[top][1] = "eip" /\ mem[top][2] = c.eip
    BY <2>2
  <2>4. /\ IF word[1] = "esp" /\ top \in Addr /\ mem[top][1] = "eip"
           THEN /\ eip' = mem[top][2] /\ esp' = top + 1 /\ mem' = Popped(mem, top + 1)
                /\ UNCHANGED fate
           ELSE fate' = "astray" /\ UNCHANGED <<mem, esp, eip>>
        /\ ctx' = Front(ctx) /\ UNCHANGED <<cow, setup>>
    BY Zenon DEF Restore
  <2>. HIDE DEF word, top
  <2>5. eip' = mem[top][2] /\ esp' = top + 1 /\ mem' = Popped(mem, top + 1) /\ UNCHANGED fate
    BY <2>1, <2>2, <2>3, <2>4
  <2>. QED
    BY <2>2, <2>3, <2>4, <2>5
<1>8. \A a \in Addr : a \in Int /\ (a \in UserStack => a \notin XStack)
  BY Numbers
<1>9. /\ mem' \in [Addr -> Word]
      /\ \A a \in UserStack : mem'[a] = mem[a]
      /\ c.esp \in XStack => \A a \in XStack : a >= c.esp => mem'[a] = mem[a]
  <2>1. mem \in [Addr -> Word] /\ Junk(0) \in Word
    BY Types DEF IInv, Junk, Word
  <2>2. mem' = [a \in Addr |-> IF a \in XStack /\ (a < c.esp \/ c.esp \notin XStack)
                               THEN Junk(0) ELSE mem[a]]
    BY <1>7 DEF Popped
  <2>3. UserStack \subseteq Addr /\ XStack \subseteq Addr
    BY Numbers
  <2>4. mem' \in [Addr -> Word]
    BY <2>1, <2>2
  <2>5. \A a \in UserStack : mem'[a] = mem[a]
    BY <1>8, <2>2, <2>3
  <2>6. ASSUME c.esp \in XStack, NEW a \in XStack, a >= c.esp
        PROVE  mem'[a] = mem[a]
    <3>1. ~(a < c.esp) /\ a \in Addr
      BY <1>2, <1>8, <2>3, <2>6
    <3>. QED
      BY <2>2, <2>6, <3>1
  <2>. QED
    BY <2>4, <2>5, <2>6
<1>10. \A a \in Addr : a >= c.esp /\ (a \in XStack <=> c.esp \in XStack) => mem'[a] = c.mem[a]
  <2>1. ASSUME NEW a \in Addr, a >= c.esp, a \in XStack <=> c.esp \in XStack
        PROVE  mem'[a] = c.mem[a]
    <3>1. mem[a] = c.mem[a]
      BY <1>2, <2>1 DEF Kept
    <3>2. a \in UserStack \/ a \in XStack
      BY Numbers
    <3>. QED
      BY <1>9, <2>1, <3>1, <3>2
  <2>. QED
    BY <2>1
<1>11. PICK n \in Nat : n = Depth - 1
  BY <1>2
<1>12. /\ ctx' \in Seq(Fault) /\ Depth' = n
       /\ \A d \in 1 .. n : ctx'[d] = ctx[d] /\ ctx[d] \in Fault
  <2>1. ctx' = SubSeq(ctx, 1, n) /\ Len(ctx) = n + 1
    BY <1>2, <1>7, <1>11 DEF Front, Depth
  <2>. QED
    BY <1>2, <2>1 DEF Depth
<1>13. TypeOK'
  BY <1>2, <1>5, <1>7, <1>9, <1>12, QuietIs DEF IInv, TypeOK, Fault, setup
<1>14. Chain'
  <2>1. n > 0 => ctx[1].eip = "program"
    BY <1>2, <1>11 DEF IInv, Chain
  <2>2. \A d \in 2 .. n : Nested(ctx[d - 1], ctx[d])
    BY <1>2, <1>11 DEF IInv, Chain
  <2>. QED
    BY <1>12, <2>1, <2>2 DEF Chain
<1>15. CASE n = 0
  <2>1. c.eip = "program"
    <3>1. Depth = 1 /\ Depth > 0
      BY <1>2, <1>11, <1>15
    <3>2. c = ctx[1]
      BY <1>2, <3>1
    <3>. QED
      BY <3>1, <3>2 DEF IInv, Chain
  <2>. QED
    BY <1>2, <1>5, <1>7, <1>10, <1>12, <1>13, <1>14, <1>15, <2>1
    DEF IInv, Current
<1>16. CASE n > 0
  <2>1. PICK b \in Fault : b = ctx[n]
    BY <1>12, <1>16
  <2>2. Nested(b, c)
    <3>1. PICK d \in 2 .. Depth : d = Depth /\ d - 1 = n
      BY <1>2, <1>11, <1>16
    <3>2. Nested(ctx[d - 1], ctx[d])
      BY DEF IInv, Chain
    <3>. QED
      BY <1>2, <2>1, <3>1, <3>2
  <2>3. c.esp \in XStack
    <3>1. /\ FrameOf(b.esp) >= 0 /\ b.esp \in Stacks /\ b.esp # UXSTACKTOP
          /\ 0 <= c.esp /\ c.esp <= FrameOf(b.esp)
      BY <2>2 DEF Nested, Upcall, Fault
    <3>2. FrameOf(b.esp) \in 0 .. NWORDS - 13
      BY <3>1, Bases
    <3>. QED
      BY <1>2, <3>1, <3>2, Numbers
  <2>4. \A a \in UserStack : mem'[a] = c.mem[a]
    <3>1. \A a \in UserStack : mem[a] = c.mem[a]
      BY <1>2, <2>3, Numbers DEF Kept
    <3>. QED
      BY <1>9, <3>1
  <2>5. \A a \in XStack : a >= c.esp => mem'[a] = c.mem[a]
    <3>1. \A a \in XStack : a >= c.esp => mem[a] = c.mem[a]
      BY <1>2, <2>3, Numbers DEF Kept
    <3>. QED
      BY <1>9, <2>3, <3>1
  <2>6. Upcall(b, eip', esp', reg', mem')
    BY <1>5, <1>7, <2>2, <2>4, <2>5, Outer
  <2>7. Current'
    BY <1>2, <1>7, <1>12, <1>16, <2>1, <2>6 DEF Current, setup
  <2>. QED
    BY <1>2, <1>5, <1>7, <1>10, <1>13, <1>14, <2>7 DEF IInv
<1>17. n = 0 \/ n > 0
  OBVIOUS
<1>. QED
  BY <1>15, <1>16, <1>17, Zenon

LEMMA LoadEspStep ==
    ASSUME IInv, fate = "alive", Quiet, LoadEsp
    PROVE  IInv'
<1>1. /\ eip = "program" /\ esp' \in XStack \cup {USTACKTOP - 2, USTACKTOP, UXSTACKTOP}
      /\ mem' = Popped(mem, esp') /\ UNCHANGED <<reg, eip, cow, setup, fate, ctx>>
  BY DEF LoadEsp
<1>2. esp' \in Stacks
  BY <1>1, Numbers DEF Stacks
<1>3. mem' \in [Addr -> Word]
  BY <1>1, PoppedType DEF IInv, TypeOK
<1>4. TypeOK'
  BY <1>1, <1>2, <1>3, QuietIs DEF IInv, TypeOK, setup
<1>5. Depth = 0 /\ Depth' = Depth
  BY <1>1, Types DEF IInv, Current, Upcall, Depth
<1>6. Chain' /\ Current'
  BY <1>1, <1>5 DEF IInv, Chain, Current
<1>. QED
  BY <1>4, <1>6 DEF IInv

(* The exception stack is changed only when no fault is being handled.     *)
LEMMA SetExceptionStackStep ==
    ASSUME IInv, fate = "alive", Quiet, SetExceptionStack
    PROVE  IInv'
<1>1. /\ xperm' \in {"none", "R", "RW"} \ {xperm}
      /\ mem' = (IF xperm' = "R" THEN mem ELSE Popped(mem, UXSTACKTOP))
      /\ UNCHANGED <<reg, esp, eip, cow, upcall, fate, ctx>>
  BY DEF SetExceptionStack
<1>2. ctx = <<>>
  BY <1>1, QuietIs
<1>3. mem' \in [Addr -> Word]
  BY <1>1, PoppedType DEF IInv, TypeOK
<1>4. TypeOK'
  BY <1>1, <1>3, QuietIs DEF IInv, TypeOK
<1>5. Depth = 0 /\ Depth' = Depth
  BY <1>1, <1>2 DEF Depth
<1>6. Chain' /\ Current'
  BY <1>1, <1>5 DEF IInv, Chain, Current
<1>. QED
  BY <1>4, <1>6 DEF IInv

-----------------------------------------------------------------------------
(* The theorems.                                                           *)

LEMMA InitInvariant == Init => Unspoilt
<1>. SUFFICES ASSUME Init
              PROVE  Unspoilt
  OBVIOUS
<1>1. /\ mem = [a \in Addr |-> Junk(0)] /\ reg = Registers(0) /\ esp \in {USTACKTOP - 2, USTACKTOP}
      /\ eip = "program" /\ cow \in SUBSET {"lower", "upper"} /\ upcall \in BOOLEAN
      /\ xperm \in {"none", "R", "RW"} /\ fate = "alive" /\ ctx = <<>> /\ spoilt = {}
  BY DEF Init
<1>2. mem \in [Addr -> Word] /\ reg \in [Reg -> Word]
  BY <1>1 DEF Junk, Registers, Word
<1>3. esp \in Stacks
  BY <1>1, Numbers DEF Stacks
<1>4. ctx \in Seq(Fault) /\ Depth = 0
  BY <1>1 DEF Depth
<1>5. TypeOK
  BY <1>1, <1>2, <1>3, <1>4 DEF TypeOK, Label, Fault
<1>6. Chain
  BY <1>4 DEF Chain
<1>. QED
  BY <1>1, <1>4, <1>5, <1>6 DEF Unspoilt, IInv, Current

LEMMA QuietStep ==
    ASSUME IInv, Next, Quiet
    PROVE  IInv'
<1>1. fate = "alive"
  BY DEF Next
<1>2. CASE DataFault
  <2>1. page_fault_handler(DATA) /\ eip \in {"program", "handler"}
    BY <1>2 DEF DataFault
  <2>2. DATA \in Int
    BY Numbers DEF DATA
  <2>. QED
    BY <1>1, <2>1, <2>2, FaultStep
<1>3. CASE Push
  BY <1>1, <1>3, PushStep
<1>4. CASE Work
  BY <1>1, <1>4, WorkStep
<1>5. CASE HandlerReturn
  BY <1>1, <1>5, HandlerReturnStep
<1>6. CASE Adjust
  BY <1>1, <1>6, AdjustStep
<1>7. CASE Store
  BY <1>1, <1>7, StoreStep
<1>8. CASE Restore
  BY <1>1, <1>8, RestoreStep
<1>9. CASE LoadEsp
  BY <1>1, <1>9, LoadEspStep
<1>10. CASE SetExceptionStack
  BY <1>1, <1>10, SetExceptionStackStep
<1>. QED
  BY <1>2, <1>3, <1>4, <1>5, <1>6, <1>7, <1>8, <1>9, <1>10 DEF Next

(* What has spoilt the upcall once stays on record.                        *)
LEMMA Step == Unspoilt /\ [Next]_vars => Unspoilt'
<1>. SUFFICES ASSUME Unspoilt, [Next]_vars
              PROVE  Unspoilt'
  OBVIOUS
<1>1. CASE Next
  <2>1. spoilt' = spoilt \cup Spoils /\ Spoils \subseteq {"store", "top", "remap"}
    BY <1>1 DEF Next, Spoils
  <2>2. ASSUME spoilt' = {}
        PROVE  IInv'
    <3>1. IInv /\ Quiet
      BY <2>1, <2>2 DEF Unspoilt, Quiet
    <3>. QED
      BY <1>1, <3>1, QuietStep
  <2>. QED
    BY <2>1, <2>2 DEF Unspoilt
<1>2. CASE UNCHANGED vars
  <2>1. UNCHANGED <<machine, setup, fate, ctx, spoilt>>
    BY <1>2 DEF vars
  <2>2. ASSUME spoilt = {}
        PROVE  IInv'
    BY <2>1, <2>2, Unchanged DEF Unspoilt, IInv, TypeOK
  <2>. QED
    BY <2>1, <2>2 DEF Unspoilt
<1>. QED
  BY <1>1, <1>2

(* The invariant holds until something spoils the upcall.                  *)
THEOREM Invariance == Spec => []Unspoilt
BY InitInvariant, Step, PTL DEF Spec

(* Until then every word of memory and every register holds what the model *)
(* says it may hold, and a fault under way is recorded with all that it    *)
(* interrupted.                                                            *)
THEOREM TypeCorrect == Spec => [](spoilt = {} => TypeOK)
<1>1. Unspoilt => (spoilt = {} => TypeOK)
  BY DEF Unspoilt, IInv
<1>. QED
  BY <1>1, Invariance, PTL

(* Only the last pops of the upcall end a fault.                           *)
LEMMA Ending ==
    ASSUME IInv, [Next]_vars, Len(ctx') < Len(ctx)
    PROVE  Restore /\ fate = "alive"
<1>1. ctx \in Seq(Fault) /\ Len(ctx) \in Nat
  BY Types DEF IInv
<1>2. ctx' # ctx
  BY <1>1
<1>3. ASSUME NEW va, page_fault_handler(va)
      PROVE  FALSE
  <2>1. ctx' = ctx
        \/ ctx' = Append(ctx, [esp |-> esp, eip |-> eip, reg |-> reg, mem |-> mem, va |-> va])
    BY <1>3 DEF page_fault_handler, die, Deliver
  <2>. QED
    BY <1>1, <1>2, <2>1
<1>4. CASE UNCHANGED vars
  BY <1>2, <1>4 DEF vars
<1>5. CASE Next
  <2>1. ~DataFault
    BY <1>3 DEF DataFault
  <2>2. ~Push
    BY <1>2, <1>3 DEF Push
  <2>3. ~Store
    BY <1>2, <1>3 DEF Store
  <2>4. ~Work /\ ~LoadEsp /\ ~SetExceptionStack
    BY <1>2 DEF Work, LoadEsp, SetExceptionStack
  <2>5. ~HandlerReturn
    BY <1>2 DEF HandlerReturn
  <2>6. ~Adjust
    BY <1>2 DEF Adjust
  <2>. QED
    BY <1>5, <2>1, <2>2, <2>3, <2>4, <2>5, <2>6 DEF Next
<1>. QED
  BY <1>4, <1>5

(* The pops spoil nothing.                                                 *)
LEMMA EndsQuietly ==
    ASSUME IInv, spoilt = {}, [Next]_vars, Len(ctx') < Len(ctx)
    PROVE  Restore /\ fate = "alive" /\ Quiet
<1>1. Restore /\ fate = "alive"
  BY Ending
<1>2. eip = "restore" /\ xperm' = xperm
  BY <1>1 DEF Restore, setup
<1>3. esp # UXSTACKTOP
  <2>1. PICK c \in Fault, base \in 0 .. NWORDS - 13 :
           Upcall(c, eip, esp, reg, mem) /\ base = FrameOf(c.esp)
    BY <1>2, Handling
  <2>2. esp = base + 2
    BY <1>2, <2>1 DEF Upcall
  <2>. QED
    BY <2>2, Numbers
<1>4. Spoils = {}
  BY <1>2, <1>3 DEF Spoils
<1>5. spoilt' = {}
  <2>1. ctx' # ctx
    BY Types DEF IInv
  <2>. QED
    BY <1>4, <2>1 DEF Next, vars
<1>. QED
  BY <1>1, <1>4, <1>5 DEF Quiet

(* The instruction that faulted is executed again with the registers, the  *)
(* flags and the stack it had (lib/pfentry.S), however many faults its     *)
(* handling took, as long as none of them was the upcall's own.            *)
THEOREM ResumeTheorem == Spec => ResumeExact
<1>1. Unspoilt /\ [Next]_vars =>
         [Len(ctx') < Len(ctx) /\ spoilt = {} => Resumed(Last(ctx))]_vars
  <2>1. ASSUME Unspoilt, [Next]_vars, Len(ctx') < Len(ctx), spoilt = {}
        PROVE  Resumed(Last(ctx))
    <3>1. IInv
      BY <2>1 DEF Unspoilt
    <3>2. Restore /\ fate = "alive" /\ Quiet
      BY <2>1, <3>1, EndsQuietly
    <3>. QED
      BY <3>1, <3>2, RestoreStep DEF Resumed
  <2>. QED
    BY <2>1
<1>. QED
  BY <1>1, Invariance, PTL DEF Spec, ResumeExact

(* The handling of a fault, with the faults it has in turn, changes no     *)
(* word that was on the stack of the interrupted instruction.              *)
THEOREM StackTheorem == Spec => StackIntact
<1>1. Unspoilt /\ [Next]_vars =>
         [Len(ctx') < Len(ctx) /\ spoilt = {} =>
             \A a \in Addr : a >= Last(ctx).esp /\ (a \in XStack <=> Last(ctx).esp \in XStack)
                             => mem'[a] = Last(ctx).mem[a]]_vars
  <2>1. ASSUME Unspoilt, [Next]_vars, Len(ctx') < Len(ctx), spoilt = {}
        PROVE  \A a \in Addr : a >= Last(ctx).esp /\ (a \in XStack <=> Last(ctx).esp \in XStack)
                               => mem'[a] = Last(ctx).mem[a]
    <3>1. IInv
      BY <2>1 DEF Unspoilt
    <3>2. Restore /\ fate = "alive" /\ Quiet
      BY <2>1, <3>1, EndsQuietly
    <3>. QED
      BY <3>1, <3>2, RestoreStep
  <2>. QED
    BY <2>1
<1>. QED
  BY <1>1, Invariance, PTL DEF Spec, StackIntact

=============================================================================
