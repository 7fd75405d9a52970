----------------------------- MODULE ForkProofs -----------------------------
(***************************************************************************)
(* Copy-on-write fork keeps what it promises, for any number of            *)
(* environments, pages and contents: the sharing of pages is safe, and     *)
(* what programs see is the private memory of module PrivateMemory.        *)
(***************************************************************************)
EXTENDS Fork, TLAPS

(* The page at va in e is also the page at wa in f.                        *)
Same(e, va, f, wa) == pte[e][va] # NULL /\ pte[f][wa] # NULL /\ pte[e][va].pg = pte[f][wa].pg

(* Who is in fork(), with which child; an environment that is not alive    *)
(* has no memory, and pgfault() runs in one that executes.                 *)
Lives ==
    /\ \A e \in ENVS : pc[e] \in {"new", "exited"} => pte[e] = Unmapped
    /\ \A e \in ENVS : handler[e] # "none" => Executing(e)
    /\ \A e \in ENVS : pc[e] \in InFork => newenv[e] # NULL
    /\ \A e \in ENVS : newenv[e] # NULL => pc[e] \in InFork \cup {"panic"} /\ pc[newenv[e]] = "embryo"
    /\ \A e, f \in ENVS : newenv[e] # NULL /\ newenv[e] = newenv[f] => e = f
    /\ \A e \in ENVS : newenv[e] = NULL => at[e] = PFTEMP

(* A program has all its pages; its child has those that fork() has done,  *)
(* and may write none of them.                                             *)
HasPages ==
    /\ \A e \in ENVS : Executing(e) => \A va \in WVA : pte[e][va] # NULL
    /\ \A e \in ENVS : newenv[e] # NULL => \A va \in WVA :
          /\ va < at[e] => pte[newenv[e]][va] # NULL
          /\ pte[newenv[e]][va] # NULL => ~pte[newenv[e]][va].w

(* duppage() is not interrupted by pgfault(), for the stack is writable    *)
(* since its call.                                                         *)
InDuppage ==
    /\ \A e \in ENVS : pc[e] \in {"map1", "map2"} =>
          /\ at[e] < UXSTACK /\ pte[e][at[e]] # NULL /\ flag[e] = pte[e][at[e]].w
          /\ pte[e][STACK].w /\ handler[e] = "none"
    /\ \A e \in ENVS : pc[e] = "map2" => Same(e, at[e], newenv[e], at[e])
    /\ \A e \in ENVS : pc[e] \in {"uxstack", "status"} => at[e] = UXSTACK

(* What an environment may write nobody else maps, but for the child of a  *)
(* fork() that has yet to come to that page.                               *)
OneWriter ==
    \A e, f \in ENVS, va \in WVA, wa \in VA :
       e # f /\ Same(e, va, f, wa) /\ pte[e][va].w => f = newenv[e] /\ at[e] <= va

(* Save through PFTEMP, a page is at one virtual address wherever it is    *)
(* mapped.                                                                 *)
OneAddress ==
    \A e, f \in ENVS, va, wa \in VA \ {PFTEMP} : Same(e, va, f, wa) => va = wa

(* Between pgfault()'s calls nobody but e maps its new page, and that page *)
(* has the right contents once they are copied.                            *)
NewPage ==
    \A e \in ENVS :
       /\ handler[e] \in {"copy", "map"} =>
             /\ pte[e][PFTEMP] # NULL
             /\ \A f \in ENVS, wa \in VA : Same(f, wa, e, PFTEMP) => f = e /\ wa = PFTEMP
       /\ handler[e] = "map" => mem[pte[e][addr[e]].pg] = mem[pte[e][PFTEMP].pg]

IInv == TypeOK /\ Lives /\ HasPages /\ InDuppage /\ OneWriter /\ OneAddress /\ NewPage

-----------------------------------------------------------------------------
(* Types and addresses.                                                    *)

PC == InFork \cup {"new", "embryo", "run", "panic", "exited"}

LEMMA Places ==
    /\ WVA \subseteq VA /\ PFTEMP \in VA /\ UXSTACK \in VA /\ STACK \in WVA
    /\ PFTEMP \notin WVA /\ UXSTACK \notin WVA /\ PFTEMP # UXSTACK
    /\ \A va \in VA : va # PFTEMP /\ va # UXSTACK => va \in WVA
    /\ \A va \in VA : va \in Nat /\ (va # UXSTACK => va + 1 \in VA)
    /\ \A va \in WVA : PFTEMP < va /\ va < UXSTACK
BY ForkAssumption DEF WVA, VA, DATA, PFTEMP, STACK, UXSTACK

LEMMA Typed ==
    ASSUME TypeOK
    PROVE  /\ pte \in [ENVS -> [VA -> {NULL} \cup PTE]] /\ mem \in [PAGE -> Value]
           /\ pc \in [ENVS -> PC] /\ newenv \in [ENVS -> ENVS \cup {NULL}]
           /\ at \in [ENVS -> VA] /\ flag \in [ENVS -> BOOLEAN]
           /\ handler \in [ENVS -> {"none", "alloc", "copy", "map"}] /\ addr \in [ENVS -> WVA]
           /\ \A e \in ENVS, va \in VA : pte[e][va] # NULL => /\ pte[e][va].pg \in PAGE
                                                              /\ pte[e][va].w \in BOOLEAN
                                                              /\ pte[e][va].cow \in BOOLEAN
<1>1. pte \in [ENVS -> [VA -> {NULL} \cup PTE]]
  BY DEF TypeOK, PTE
<1>2. \A e \in ENVS, va \in VA : pte[e][va] \in {NULL} \cup PTE
  BY <1>1
<1> QED BY <1>1, <1>2 DEF TypeOK, PTE, PC

(* An entry is never NULL, and has the fields it is made of.               *)
LEMMA Entries ==
    ASSUME NEW pg \in PAGE, NEW w \in BOOLEAN, NEW cow \in BOOLEAN
    PROVE  /\ Entry(pg, w, cow) \in PTE
           /\ Entry(pg, w, cow) # NULL /\ Entry(pg, w, cow).pg = pg
           /\ Entry(pg, w, cow).w = w /\ Entry(pg, w, cow).cow = cow
BY ForkAssumption DEF Entry, PTE

(* The system calls that change one entry.                                 *)
Placed(e, va, x) ==
    /\ pte'[e][va] = x
    /\ \A f \in ENVS, wa \in VA : f # e \/ wa # va => pte'[f][wa] = pte[f][wa]

LEMMA Place ==
    ASSUME TypeOK, NEW e \in ENVS, NEW va \in VA, NEW x \in {NULL} \cup PTE,
           pte' = [pte EXCEPT ![e][va] = x]
    PROVE  Placed(e, va, x) /\ pte' \in [ENVS -> [VA -> {NULL} \cup PTE]]
BY Typed DEF Placed

(* A page that is free is nobody's.                                        *)
Fresh(pg) == pg \in PAGE /\ \A f \in ENVS, wa \in VA : pte[f][wa] # NULL => pte[f][wa].pg # pg

LEMMA Allocated ==
    ASSUME TypeOK, NEW e \in ENVS, NEW va \in VA, sys_page_alloc(e, va)
    PROVE  \E pg \in PAGE :
              /\ Fresh(pg) /\ Placed(e, va, Entry(pg, TRUE, FALSE))
              /\ pte' \in [ENVS -> [VA -> {NULL} \cup PTE]]
              /\ mem' \in [PAGE -> Value] /\ \A q \in PAGE \ {pg} : mem'[q] = mem[q]
<1> DEFINE pg == CHOOSE p \in FreePages : TRUE
<1>1. pg \in FreePages /\ pte' = [pte EXCEPT ![e][va] = Entry(pg, TRUE, FALSE)]
      /\ mem' = [mem EXCEPT ![pg] = 0]
  BY DEF sys_page_alloc
<1> HIDE DEF pg
<1>2. Fresh(pg)
  <2>1. pg \in PAGE /\ References(pg) = {}
    BY <1>1 DEF FreePages
  <2>2. \A f \in ENVS, wa \in VA : pte[f][wa] # NULL /\ pte[f][wa].pg = pg => <<f, wa>> \in References(pg)
    BY DEF References
  <2> QED BY <2>1, <2>2 DEF Fresh
<1>3. pg \in PAGE /\ Entry(pg, TRUE, FALSE) \in {NULL} \cup PTE
  BY <1>2, Entries DEF Fresh
<1>4. mem' \in [PAGE -> Value] /\ \A q \in PAGE \ {pg} : mem'[q] = mem[q]
  BY <1>1, <1>3, Typed, ForkAssumption
<1> QED BY <1>1, <1>2, <1>3, <1>4, Place

-----------------------------------------------------------------------------
(* Initially.                                                              *)

LEMMA InitInvariant ==
    ASSUME Init
    PROVE  IInv
<1>1. /\ NPAGES >= NDATA + 2 /\ NPAGES \in Nat
      /\ pc = [e \in ENVS |-> IF e = FIRST THEN "run" ELSE "new"]
      /\ newenv = [e \in ENVS |-> NULL] /\ at = [e \in ENVS |-> 0] /\ flag = [e \in ENVS |-> FALSE]
      /\ handler = [e \in ENVS |-> "none"] /\ addr = [e \in ENVS |-> STACK]
      /\ mem = [pg \in PAGE |-> 0]
  BY ForkAssumption DEF Init
<1> DEFINE first == [va \in VA |-> IF va = PFTEMP THEN NULL ELSE Entry(va, TRUE, FALSE)]
<1>2. pte = [e \in ENVS |-> IF e = FIRST THEN first ELSE Unmapped] /\ FIRST \in ENVS
  BY ForkAssumption DEF Init
<1>3. \A va \in VA \ {PFTEMP} : va \in PAGE
  BY <1>1, ForkAssumption DEF VA, PFTEMP, UXSTACK, PAGE
<1>4. first \in [VA -> {NULL} \cup PTE] /\ Unmapped \in [VA -> {NULL} \cup PTE]
  BY <1>3, Entries DEF Unmapped
<1>5. pte \in [ENVS -> [VA -> {NULL} \cup PTE]]
  BY <1>2, <1>4
<1>6. /\ \A va \in WVA : first[va] # NULL
      /\ \A va \in VA \ {PFTEMP} : first[va].pg = va
      /\ \A va \in VA : Unmapped[va] = NULL
  BY <1>3, Places, Entries DEF Unmapped
<1> HIDE DEF first
<1>7. \A e \in ENVS, va \in VA : pte[e][va] # NULL => e = FIRST
  BY <1>2, <1>6
<1>8. TypeOK
  BY <1>1, <1>5, Places, ForkAssumption DEF TypeOK, PC, InFork, PFTEMP
<1>9. Lives
  BY <1>1, <1>2, ForkAssumption DEF Lives, InFork, PFTEMP
<1>10. HasPages
  BY <1>1, <1>2, <1>6 DEF HasPages, Executing, InFork
<1>11. InDuppage
  BY <1>1 DEF InDuppage
<1>12. OneWriter
  BY <1>7, Places DEF OneWriter, Same
<1>13. OneAddress
  BY <1>2, <1>6, <1>7 DEF OneAddress, Same
<1>14. NewPage
  BY <1>1 DEF NewPage
<1> QED BY <1>8, <1>9, <1>10, <1>11, <1>12, <1>13, <1>14 DEF IInv

-----------------------------------------------------------------------------
(* Actions that change no mapping.                                         *)

LEMMA Quiet ==
    ASSUME IInv, pte' = pte, newenv' = newenv, at' = at
    PROVE  OneWriter' /\ OneAddress'
BY DEF IInv, OneWriter, OneAddress, Same

LEMMA WriteKeeps ==
    ASSUME IInv, NEW e \in ENVS, NEW va \in WVA, NEW v \in Value, Write(e, va, v), pte[e][va].w
    PROVE  IInv'
<1>1. /\ handler[e] = "none" /\ Executing(e)
      /\ mem' = [mem EXCEPT ![pte[e][va].pg] = v]
      /\ pte' = pte /\ pc' = pc /\ newenv' = newenv /\ at' = at /\ flag' = flag
      /\ handler' = handler /\ addr' = addr
  BY DEF Write, User, forkvars
<1>2. TypeOK /\ Lives /\ HasPages /\ InDuppage /\ OneWriter /\ NewPage
  BY DEF IInv
<1> DEFINE pg == pte[e][va].pg
<1>3. pte[e][va] # NULL /\ pg \in PAGE /\ pg = pte[e][va].pg /\ va \in VA
  BY <1>1, <1>2, Typed, Places DEF HasPages
<1> HIDE DEF pg
<1>4. mem' \in [PAGE -> Value] /\ \A q \in PAGE \ {pg} : mem'[q] = mem[q]
  BY <1>1, <1>2, <1>3, Typed
<1>5. TypeOK'
  BY <1>1, <1>2, <1>4 DEF TypeOK
<1>6. Lives' /\ HasPages' /\ InDuppage'
  BY <1>1, <1>2 DEF Lives, Executing, HasPages, InDuppage, Same
<1>7. ASSUME NEW f \in ENVS, handler[f] \in {"copy", "map"}
      PROVE  pte[f][PFTEMP] # NULL /\ pte[f][PFTEMP].pg # pg
  BY <1>1, <1>2, <1>3, <1>7, Places DEF NewPage, Same
<1>8. ASSUME NEW f \in ENVS, handler[f] # "none"
      PROVE  pte[f][addr[f]] # NULL /\ pte[f][addr[f]].pg # pg
  <2>1. Executing(f) /\ addr[f] \in WVA
    BY <1>2, <1>8, Typed DEF Lives
  <2>2. pte[f][addr[f]] # NULL
    BY <1>2, <2>1 DEF HasPages
  <2>3. f # newenv[e]
    BY <1>2, <2>1, ForkAssumption DEF Lives, Executing, InFork
  <2>4. e # f
    BY <1>1, <1>8
  <2>5. ~Same(e, va, f, addr[f])
    BY <1>2, <2>1, <2>3, <2>4, Places DEF OneWriter
  <2> QED BY <1>3, <2>2, <2>5 DEF Same
<1>9. NewPage'
  <2> SUFFICES ASSUME NEW f \in ENVS, handler[f] = "map"
               PROVE  mem'[pte[f][addr[f]].pg] = mem'[pte[f][PFTEMP].pg]
    BY <1>1, <1>2 DEF NewPage, Same
  <2>1. /\ pte[f][addr[f]].pg \in PAGE \ {pg} /\ pte[f][PFTEMP].pg \in PAGE \ {pg}
    BY <1>2, <1>7, <1>8, Typed, Places
  <2> QED BY <1>2, <1>4, <2>1 DEF NewPage
<1> QED BY <1>1, <1>5, <1>6, <1>9, Quiet DEF IInv

LEMMA FaultKeeps ==
    ASSUME IInv, NEW e \in ENVS, NEW va \in WVA, PageFault(e, va), User(e), ~pte[e][va].w,
           pc[e] = "run" \/ va = STACK
    PROVE  IInv'
<1>1. /\ handler[e] = "none" /\ Executing(e)
      /\ pte' = pte /\ mem' = mem /\ newenv' = newenv /\ at' = at /\ flag' = flag
      /\ \/ /\ handler' = [handler EXCEPT ![e] = "alloc"] /\ addr' = [addr EXCEPT ![e] = va] /\ pc' = pc
         \/ /\ pc' = [pc EXCEPT ![e] = "panic"] /\ handler' = [handler EXCEPT ![e] = "none"] /\ addr' = addr
  BY DEF PageFault, Panic, User, forkvars
<1>2. TypeOK /\ Lives /\ HasPages /\ InDuppage /\ NewPage
  BY DEF IInv
<1>3. TypeOK'
  BY <1>1, <1>2 DEF TypeOK
<1>4. /\ \A f \in ENVS : pc'[f] = pc[f] \/ (f = e /\ pc'[f] = "panic")
      /\ \A f \in ENVS \ {e} : handler'[f] = handler[f] /\ addr'[f] = addr[f]
      /\ (handler'[e] = "alloc" /\ pc' = pc) \/ handler'[e] = "none"
  BY <1>1, <1>2, Typed
<1>5. pc[e] \in InFork \cup {"run"}
  BY <1>1 DEF Executing
<1>6. Lives'
  <2>1. \A f \in ENVS : pc'[f] \in {"new", "exited"} => pte'[f] = Unmapped
    BY <1>1, <1>2, <1>4 DEF Lives
  <2>2. \A f \in ENVS : handler'[f] # "none" => pc'[f] \in InFork \cup {"run"}
    BY <1>2, <1>4, <1>5 DEF Lives, Executing
  <2>3. \A f \in ENVS : pc'[f] \in InFork => newenv[f] # NULL
    BY <1>2, <1>4 DEF Lives, InFork
  <2>4. \A f \in ENVS : newenv[f] # NULL => pc'[f] \in InFork \cup {"panic"} /\ pc'[newenv[f]] = "embryo"
    <3>1. \A f \in ENVS : newenv[f] # NULL => newenv[f] \in ENVS /\ newenv[f] # e
      BY <1>2, <1>5, Typed DEF Lives, InFork
    <3> QED BY <1>2, <1>4, <3>1 DEF Lives
  <2> QED BY <1>1, <1>2, <2>1, <2>2, <2>3, <2>4 DEF Lives, Executing
<1>7. HasPages'
  <2>1. \A f \in ENVS : pc'[f] \in InFork \cup {"run"} => pc[f] \in InFork \cup {"run"}
    BY <1>4 DEF InFork
  <2> QED BY <1>1, <1>2, <2>1 DEF HasPages, Executing
<1>8. InDuppage'
  <2>1. pc[e] \notin {"map1", "map2"}
    BY <1>2 DEF InDuppage
  <2> QED BY <1>1, <1>2, <1>4, <2>1 DEF InDuppage, Same
<1>9. NewPage'
  BY <1>1, <1>2, <1>4 DEF NewPage, Same
<1> QED BY <1>1, <1>3, <1>6, <1>7, <1>8, <1>9, Quiet DEF IInv

LEMMA PanicKeeps ==
    ASSUME IInv, NEW e \in ENVS, Executing(e), Panic(e),
           UNCHANGED <<pte, mem, newenv, at, flag, addr>>
    PROVE  IInv'
<1>1. /\ pte' = pte /\ mem' = mem /\ newenv' = newenv /\ at' = at /\ flag' = flag /\ addr' = addr
      /\ pc' = [pc EXCEPT ![e] = "panic"] /\ handler' = [handler EXCEPT ![e] = "none"]
  BY DEF Panic
<1>2. TypeOK /\ Lives /\ HasPages /\ InDuppage /\ NewPage
  BY DEF IInv
<1>3. TypeOK'
  BY <1>1, <1>2 DEF TypeOK
<1>4. /\ \A f \in ENVS : f # e => pc'[f] = pc[f] /\ handler'[f] = handler[f]
      /\ pc'[e] = "panic" /\ handler'[e] = "none" /\ pc[e] \in InFork \cup {"run"}
  BY <1>1, <1>2, Typed DEF Executing
<1>5. Lives'
  <2>1. \A f \in ENVS : newenv[f] # NULL => pc'[f] \in InFork \cup {"panic"} /\ pc'[newenv[f]] = "embryo"
    <3>1. \A f \in ENVS : newenv[f] # NULL => newenv[f] \in ENVS /\ newenv[f] # e
      BY <1>2, <1>4, Typed DEF Lives, InFork
    <3> QED BY <1>2, <1>4, <3>1 DEF Lives
  <2> QED BY <1>1, <1>2, <1>4, <2>1 DEF Lives, Executing, InFork
<1>6. HasPages'
  BY <1>1, <1>2, <1>4 DEF HasPages, Executing, InFork
<1>7. InDuppage'
  BY <1>1, <1>2, <1>4 DEF InDuppage, Same
<1>8. NewPage'
  BY <1>1, <1>2, <1>4 DEF NewPage, Same
<1> QED BY <1>1, <1>3, <1>5, <1>6, <1>7, <1>8, Quiet DEF IInv

(* Steps within fork() that only move pc or at.                            *)
LEMMA MoveKeeps ==
    ASSUME IInv, NEW e \in ENVS, User(e), Loop(e),
           \/ at[e] = UXSTACK /\ LeaveLoop(e)
           \/ at[e] # UXSTACK /\ pte[e][at[e]] # NULL /\ pte[e][STACK].w /\ ReadFlag(e)
    PROVE  IInv'
<1>1. /\ pc[e] = "loop" /\ handler[e] = "none"
      /\ pte' = pte /\ mem' = mem /\ newenv' = newenv /\ at' = at /\ handler' = handler /\ addr' = addr
      /\ \/ /\ at[e] = UXSTACK /\ pc' = [pc EXCEPT ![e] = "uxstack"] /\ flag' = flag
         \/ /\ pte[e][at[e]] # NULL /\ pte[e][STACK].w /\ at[e] # UXSTACK
            /\ pc' = [pc EXCEPT ![e] = "map1"] /\ flag' = [flag EXCEPT ![e] = pte[e][at[e]].w]
  BY DEF Loop, User, LeaveLoop, ReadFlag
<1>2. TypeOK /\ Lives /\ HasPages /\ InDuppage /\ NewPage
  BY DEF IInv
<1>3. at[e] \in VA /\ (pte[e][at[e]] # NULL => pte[e][at[e]].w \in BOOLEAN)
  BY <1>2, Typed
<1>4. TypeOK'
  <2>1. flag' \in [ENVS -> BOOLEAN]
    BY <1>1, <1>2, <1>3, Typed
  <2>2. pc' \in [ENVS -> PC]
    BY <1>1, <1>2, Typed DEF PC, InFork
  <2> QED BY <1>1, <1>2, <2>1, <2>2 DEF TypeOK, PC
<1>5. /\ \A f \in ENVS : f # e => pc'[f] = pc[f] /\ flag'[f] = flag[f]
      /\ pc[e] = "loop"
      /\ \/ pc'[e] = "uxstack" /\ at[e] = UXSTACK
         \/ /\ pc'[e] = "map1" /\ at[e] # UXSTACK /\ pte[e][at[e]] # NULL /\ pte[e][STACK].w
            /\ flag'[e] = pte[e][at[e]].w
  BY <1>1, <1>2, Typed
<1>6. Lives'
  <2>1. newenv[e] # NULL /\ \A f \in ENVS : newenv[f] # e
    BY <1>2, <1>5, ForkAssumption DEF Lives, InFork
  <2>2. \A f \in ENVS : newenv[f] # NULL => pc'[f] \in InFork \cup {"panic"} /\ pc'[newenv[f]] = "embryo"
    <3>1. \A f \in ENVS : newenv[f] # NULL => newenv[f] \in ENVS /\ newenv[f] # e
      BY <1>2, <2>1, Typed
    <3> QED BY <1>2, <1>5, <3>1 DEF Lives, InFork
  <2> QED BY <1>1, <1>2, <1>5, <2>1, <2>2 DEF Lives, Executing, InFork
<1>7. HasPages'
  BY <1>1, <1>2, <1>5 DEF HasPages, Executing, InFork
<1>8. InDuppage'
  <2>1. at[e] # UXSTACK => at[e] < UXSTACK
    BY <1>3, ForkAssumption DEF VA, PFTEMP, UXSTACK
  <2> QED BY <1>1, <1>2, <1>5, <2>1 DEF InDuppage, Same
<1>9. NewPage'
  BY <1>1, <1>2 DEF NewPage, Same
<1> QED BY <1>1, <1>4, <1>6, <1>7, <1>8, <1>9, Quiet DEF IInv

(* A page of the address space that is not there is skipped: no page of a  *)
(* program.                                                                *)
LEMMA NextPageKeeps ==
    ASSUME IInv, NEW e \in ENVS, User(e), pc[e] = "loop", at[e] # UXSTACK,
           pte[e][at[e]] = NULL, NextPage(e)
    PROVE  IInv'
<1>1. /\ handler[e] = "none" /\ Executing(e) /\ at' = [at EXCEPT ![e] = at[e] + 1]
      /\ pte' = pte /\ mem' = mem /\ pc' = pc /\ newenv' = newenv /\ flag' = flag
      /\ handler' = handler /\ addr' = addr
  BY DEF NextPage, User
<1>2. TypeOK /\ Lives /\ HasPages /\ InDuppage /\ OneWriter /\ OneAddress /\ NewPage
  BY DEF IInv
<1>3. at[e] \in VA /\ at[e] \in Nat /\ at[e] + 1 \in VA /\ at[e] \notin WVA
  BY <1>1, <1>2, Typed, Places DEF HasPages
<1>4. /\ \A f \in ENVS : f # e => at'[f] = at[f]
      /\ at'[e] = at[e] + 1 /\ at' \in [ENVS -> VA]
  BY <1>1, <1>2, <1>3, Typed
<1>5. \A va \in WVA : (va < at[e] + 1 => va < at[e]) /\ (at[e] <= va => at[e] + 1 <= va)
  BY <1>3, ForkAssumption DEF WVA, DATA, STACK
<1>6. TypeOK'
  BY <1>1, <1>2, <1>4 DEF TypeOK
<1>7. Lives'
  BY <1>1, <1>2, <1>4 DEF Lives, Executing, InFork
<1>8. HasPages'
  BY <1>1, <1>2, <1>4, <1>5 DEF HasPages, Executing
<1>9. InDuppage'
  BY <1>1, <1>2, <1>4 DEF InDuppage, Same
<1>10. OneWriter'
  BY <1>1, <1>2, <1>4, <1>5 DEF OneWriter, Same
<1>11. OneAddress' /\ NewPage'
  BY <1>1, <1>2 DEF OneAddress, NewPage, Same
<1> QED BY <1>6, <1>7, <1>8, <1>9, <1>10, <1>11 DEF IInv

LEMMA ExoforkKeeps ==
    ASSUME IInv, NEW e \in ENVS, sys_exofork(e)
    PROVE  IInv'
<1>1. PICK child \in ENVS :
        /\ pc[child] = "new"
        /\ pc' = [pc EXCEPT ![e] = "loop", ![child] = "embryo"]
        /\ newenv' = [newenv EXCEPT ![e] = child]
  BY DEF sys_exofork
<1>2. /\ pc[e] = "run" /\ handler[e] = "none"
      /\ pte' = pte /\ mem' = mem /\ at' = at /\ flag' = flag /\ handler' = handler /\ addr' = addr
  BY DEF sys_exofork, User
<1>3. TypeOK /\ Lives /\ HasPages /\ InDuppage /\ OneWriter /\ OneAddress /\ NewPage
  BY DEF IInv
<1>4. /\ pc'[e] = "loop" /\ pc'[child] = "embryo" /\ child # e
      /\ \A f \in ENVS : f # e /\ f # child => pc'[f] = pc[f]
      /\ newenv'[e] = child /\ \A f \in ENVS : f # e => newenv'[f] = newenv[f]
  BY <1>1, <1>2, <1>3, Typed
<1>5. /\ newenv[e] = NULL /\ at[e] = PFTEMP /\ newenv[child] = NULL /\ pte[child] = Unmapped
      /\ \A f \in ENVS : newenv[f] # e /\ newenv[f] # child
  BY <1>1, <1>2, <1>3, ForkAssumption DEF Lives, InFork
<1>6. TypeOK'
  <2>1. pc' \in [ENVS -> PC]
    BY <1>1, <1>3, Typed DEF PC, InFork
  <2> QED BY <1>1, <1>2, <1>3, <2>1 DEF TypeOK, PC
<1>7. Lives'
  <2>1. handler[child] = "none"
    BY <1>1, <1>3 DEF Lives, Executing, InFork
  <2>2. \A f \in ENVS : pc'[f] \in {"new", "exited"} => pte[f] = Unmapped
    BY <1>3, <1>4 DEF Lives
  <2>3. \A f \in ENVS : handler[f] # "none" => pc'[f] \in InFork \cup {"run"}
    BY <1>2, <1>3, <1>4, <2>1 DEF Lives, Executing
  <2>4. \A f \in ENVS : pc'[f] \in InFork => newenv'[f] # NULL
    BY <1>3, <1>4, ForkAssumption DEF Lives, InFork
  <2>5. \A f \in ENVS : newenv'[f] # NULL => pc'[f] \in InFork \cup {"panic"} /\ pc'[newenv'[f]] = "embryo"
    <3>1. ASSUME NEW f \in ENVS, newenv'[f] # NULL, f # e
          PROVE  pc'[f] \in InFork \cup {"panic"} /\ pc'[newenv'[f]] = "embryo"
      <4>1. newenv'[f] = newenv[f] /\ newenv[f] \in ENVS /\ newenv[f] # e /\ newenv[f] # child /\ f # child
        BY <1>3, <1>4, <1>5, <3>1, Typed
      <4> QED BY <1>3, <1>4, <3>1, <4>1 DEF Lives
    <3> QED BY <1>4, <3>1 DEF InFork
  <2>6. \A f, g \in ENVS : newenv'[f] # NULL /\ newenv'[f] = newenv'[g] => f = g
    BY <1>3, <1>4, <1>5 DEF Lives
  <2>7. \A f \in ENVS : newenv'[f] = NULL => at[f] = PFTEMP
    BY <1>3, <1>4, <1>5 DEF Lives
  <2> QED BY <1>2, <2>2, <2>3, <2>4, <2>5, <2>6, <2>7 DEF Lives, Executing
<1>8. HasPages'
  <2>1. \A va \in WVA : ~(va < at[e]) /\ pte[child][va] = NULL
    BY <1>5, Places, ForkAssumption DEF Unmapped, WVA, DATA, STACK, PFTEMP
  <2> QED BY <1>2, <1>3, <1>4, <2>1 DEF HasPages, Executing, InFork
<1>9. InDuppage'
  <2>1. \A f \in ENVS : pc'[f] \in {"map1", "map2", "uxstack", "status"}
                         => pc'[f] = pc[f] /\ newenv'[f] = newenv[f]
    BY <1>4
  <2> QED BY <1>2, <1>3, <2>1 DEF InDuppage, Same
<1>10. OneWriter'
  <2>1. \A f \in ENVS : \A g \in ENVS : g = newenv[f] => newenv'[f] = newenv[f]
    BY <1>4, <1>5, ForkAssumption
  <2> QED BY <1>2, <1>3, <2>1 DEF OneWriter, Same
<1>11. OneAddress' /\ NewPage'
  BY <1>2, <1>3 DEF OneAddress, NewPage, Same
<1> QED BY <1>6, <1>7, <1>8, <1>9, <1>10, <1>11 DEF IInv

-----------------------------------------------------------------------------
(* Actions that map a new page.                                            *)

(* An executing environment is nobody's child.                             *)
LEMMA NoChild ==
    ASSUME TypeOK, Lives
    PROVE  /\ \A e, f \in ENVS : Executing(f) => newenv[e] # f
           /\ \A e \in ENVS : newenv[e] # NULL => newenv[e] \in ENVS /\ newenv[e] # e
           /\ \A e \in ENVS : pc[e] \in InFork => newenv[e] \in ENVS /\ newenv[e] # e
<1>1. \A e \in ENVS : newenv[e] \in ENVS \cup {NULL} /\ (newenv[e] \in ENVS <=> newenv[e] # NULL)
  BY Typed, ForkAssumption
<1>2. \A e \in ENVS : newenv[e] # NULL => pc[newenv[e]] = "embryo" /\ pc[e] \in InFork \cup {"panic"}
  BY DEF Lives
<1>3. "embryo" \notin InFork \cup {"run", "panic"}
  BY DEF InFork
<1>4. \A e \in ENVS : newenv[e] # NULL => newenv[e] # e
  BY <1>2, <1>3
<1>5. \A e, f \in ENVS : Executing(f) => newenv[e] # f
  BY <1>1, <1>2, <1>3 DEF Executing
<1>6. \A e \in ENVS : pc[e] \in InFork => newenv[e] # NULL
  BY DEF Lives
<1> QED BY <1>1, <1>4, <1>5, <1>6

LEMMA FreshPlaced ==
    ASSUME IInv, NEW d \in ENVS, NEW va \in {PFTEMP, UXSTACK}, NEW pg \in PAGE,
           Fresh(pg), Placed(d, va, Entry(pg, TRUE, FALSE)), newenv' = newenv, at' = at
    PROVE  /\ OneWriter' /\ OneAddress'
           /\ pte'[d][va] # NULL /\ \A f \in ENVS, wa \in VA : Same(f, wa, d, va)' => f = d /\ wa = va
           /\ \A f, g \in ENVS, wa, xa \in VA :
                 Same(f, wa, g, xa)' => Same(f, wa, g, xa) \/ (f = d /\ wa = va /\ g = d /\ xa = va)
<1>1. OneWriter /\ OneAddress /\ va \in VA /\ va \notin WVA
  BY Places DEF IInv
<1>2. pte'[d][va] # NULL /\ pte'[d][va].pg = pg
  BY Entries DEF Placed
<1>3. \A f \in ENVS, wa \in VA : f # d \/ wa # va =>
          pte'[f][wa] = pte[f][wa] /\ (pte[f][wa] # NULL => pte[f][wa].pg # pg)
  BY DEF Placed, Fresh
<1>4. \A f, g \in ENVS, wa, xa \in VA :
        Same(f, wa, g, xa)' => Same(f, wa, g, xa) \/ (f = d /\ wa = va /\ g = d /\ xa = va)
  BY <1>2, <1>3 DEF Same
<1>5. \A f \in ENVS, wa \in VA : Same(f, wa, d, va)' => f = d /\ wa = va
  BY <1>1, <1>2, <1>3 DEF Same
<1>6. OneAddress'
  <2> SUFFICES ASSUME NEW f \in ENVS, NEW g \in ENVS, NEW wa \in VA \ {PFTEMP}, NEW xa \in VA \ {PFTEMP},
                      Same(f, wa, g, xa)'
               PROVE  wa = xa
    BY DEF OneAddress
  <2> QED BY <1>1, <1>4 DEF OneAddress
<1>7. OneWriter'
  <2> SUFFICES ASSUME NEW f \in ENVS, NEW g \in ENVS, NEW wa \in WVA, NEW xa \in VA,
                      f # g, Same(f, wa, g, xa)', pte'[f][wa].w
               PROVE  g = newenv[f] /\ at[f] <= wa
    BY DEF OneWriter
  <2>1. wa \in VA /\ wa # va
    BY <1>1, Places
  <2>2. Same(f, wa, g, xa) /\ pte[f][wa].w
    BY <1>3, <1>4, <2>1
  <2> QED BY <1>1, <2>2 DEF OneWriter
<1> QED BY <1>2, <1>4, <1>5, <1>6, <1>7

LEMMA HandlerAllocKeeps ==
    ASSUME IInv, NEW e \in ENVS, HandlerStep(e, "alloc", "copy"), sys_page_alloc(e, PFTEMP),
           UNCHANGED <<forkvars, addr>>
    PROVE  IInv'
<1>1. /\ handler[e] = "alloc" /\ handler' = [handler EXCEPT ![e] = "copy"]
      /\ pc' = pc /\ newenv' = newenv /\ at' = at /\ flag' = flag /\ addr' = addr
  BY DEF HandlerStep, forkvars
<1>2. TypeOK /\ Lives /\ HasPages /\ InDuppage /\ NewPage
  BY DEF IInv
<1>3. PFTEMP \in VA /\ PFTEMP \notin WVA /\ WVA \subseteq VA /\ STACK \in VA
  BY Places
<1>4. PICK pg \in PAGE :
        /\ Fresh(pg) /\ Placed(e, PFTEMP, Entry(pg, TRUE, FALSE))
        /\ pte' \in [ENVS -> [VA -> {NULL} \cup PTE]]
        /\ mem' \in [PAGE -> Value] /\ \A q \in PAGE \ {pg} : mem'[q] = mem[q]
  BY <1>2, <1>3, Allocated
<1>5. /\ OneWriter' /\ OneAddress' /\ pte'[e][PFTEMP] # NULL
      /\ \A f \in ENVS, wa \in VA : Same(f, wa, e, PFTEMP)' => f = e /\ wa = PFTEMP
      /\ \A f, g \in ENVS, wa, xa \in VA :
            Same(f, wa, g, xa)' => Same(f, wa, g, xa) \/ (f = e /\ wa = PFTEMP /\ g = e /\ xa = PFTEMP)
  BY <1>1, <1>4, FreshPlaced
<1>6. /\ handler'[e] = "copy" /\ \A f \in ENVS \ {e} : handler'[f] = handler[f]
      /\ handler' \in [ENVS -> {"none", "alloc", "copy", "map"}] /\ Executing(e)
  BY <1>1, <1>2, Typed DEF Lives
<1>7. /\ \A f \in ENVS, wa \in VA : f # e \/ wa # PFTEMP => pte'[f][wa] = pte[f][wa]
      /\ \A f \in ENVS, wa \in WVA : pte'[f][wa] = pte[f][wa]
  BY <1>3, <1>4 DEF Placed
<1>8. TypeOK'
  BY <1>1, <1>2, <1>4, <1>6 DEF TypeOK
<1>9. Lives'
  <2>1. \A f \in ENVS : pc[f] \in {"new", "exited"} => pte'[f] = Unmapped
    <3> SUFFICES ASSUME NEW f \in ENVS, pc[f] \in {"new", "exited"} PROVE pte'[f] = Unmapped
      OBVIOUS
    <3>1. f # e /\ pte[f] = Unmapped
      BY <1>2, <1>6 DEF Lives, Executing, InFork
    <3>2. \A wa \in VA : pte'[f][wa] = Unmapped[wa]
      BY <1>7, <3>1
    <3>3. pte'[f] \in [VA -> {NULL} \cup PTE] /\ Unmapped \in [VA -> {NULL} \cup PTE]
      BY <1>4 DEF Unmapped
    <3> QED BY <3>2, <3>3
  <2> QED BY <1>1, <1>2, <1>6, <2>1 DEF Lives, Executing
<1>10. HasPages'
  <2>1. \A f \in ENVS : newenv[f] # NULL => newenv[f] \in ENVS
    BY <1>2, NoChild
  <2> QED BY <1>1, <1>2, <1>7, <2>1 DEF HasPages, Executing
<1>11. InDuppage'
  <2>1. \A f \in ENVS : pc[f] \in {"map1", "map2"} => f # e /\ newenv[f] \in ENVS /\ newenv[f] # e
    BY <1>1, <1>2, <1>6, NoChild DEF InDuppage, InFork
  <2>2. \A f \in ENVS : at[f] \in VA
    BY <1>2, Typed
  <2> QED BY <1>1, <1>2, <1>3, <1>6, <1>7, <2>1, <2>2 DEF InDuppage, Same
<1>12. NewPage'
  <2> SUFFICES ASSUME NEW f \in ENVS, f # e
               PROVE  /\ handler[f] \in {"copy", "map"} =>
                           /\ pte'[f][PFTEMP] # NULL
                           /\ \A g \in ENVS, wa \in VA : Same(g, wa, f, PFTEMP)' => g = f /\ wa = PFTEMP
                      /\ handler[f] = "map" => mem'[pte'[f][addr[f]].pg] = mem'[pte'[f][PFTEMP].pg]
    BY <1>1, <1>5, <1>6 DEF NewPage
  <2>1. pte'[f][PFTEMP] = pte[f][PFTEMP] /\ addr[f] \in WVA /\ pte'[f][addr[f]] = pte[f][addr[f]]
    BY <1>2, <1>3, <1>7, Typed
  <2>2. handler[f] = "map" => mem'[pte'[f][addr[f]].pg] = mem'[pte'[f][PFTEMP].pg]
    <3> SUFFICES ASSUME handler[f] = "map"
                 PROVE  mem'[pte'[f][addr[f]].pg] = mem'[pte'[f][PFTEMP].pg]
      OBVIOUS
    <3>1. pte[f][PFTEMP] # NULL /\ pte[f][addr[f]] # NULL
      BY <1>2, <2>1 DEF NewPage, HasPages, Lives
    <3>2. pte[f][PFTEMP].pg \in PAGE \ {pg} /\ pte[f][addr[f]].pg \in PAGE \ {pg}
      BY <1>2, <1>3, <1>4, <2>1, <3>1, Typed DEF Fresh
    <3> QED BY <1>2, <1>4, <2>1, <3>2 DEF NewPage
  <2> QED BY <1>2, <1>3, <1>5, <2>1, <2>2 DEF NewPage
<1> QED BY <1>5, <1>8, <1>9, <1>10, <1>11, <1>12 DEF IInv

LEMMA AllocStackKeeps ==
    ASSUME IInv, NEW e \in ENVS, User(e), pc[e] = "uxstack", sys_page_alloc(newenv[e], UXSTACK),
           pc' = [pc EXCEPT ![e] = "status"], UNCHANGED <<newenv, at, flag, handler, addr>>
    PROVE  IInv'
<1>1. /\ pc[e] = "uxstack" /\ pc' = [pc EXCEPT ![e] = "status"]
      /\ newenv' = newenv /\ at' = at /\ flag' = flag /\ handler' = handler /\ addr' = addr
  OBVIOUS
<1>2. TypeOK /\ Lives /\ HasPages /\ InDuppage /\ NewPage
  BY DEF IInv
<1>3. PFTEMP \in VA /\ UXSTACK \in VA /\ UXSTACK \notin WVA /\ WVA \subseteq VA /\ STACK \in VA /\ PFTEMP # UXSTACK
  BY Places
<1>4. PICK c \in ENVS : c = newenv[e]
  BY <1>1, <1>2, NoChild DEF InFork
<1>5. PICK pg \in PAGE :
        /\ Fresh(pg) /\ Placed(c, UXSTACK, Entry(pg, TRUE, FALSE))
        /\ pte' \in [ENVS -> [VA -> {NULL} \cup PTE]]
        /\ mem' \in [PAGE -> Value] /\ \A q \in PAGE \ {pg} : mem'[q] = mem[q]
  BY <1>2, <1>3, <1>4, Allocated
<1>6. /\ OneWriter' /\ OneAddress'
      /\ \A f, g \in ENVS, wa, xa \in VA :
            Same(f, wa, g, xa)' => Same(f, wa, g, xa) \/ (f = c /\ wa = UXSTACK /\ g = c /\ xa = UXSTACK)
  BY <1>1, <1>5, FreshPlaced
<1>7. /\ pc'[e] = "status" /\ \A f \in ENVS \ {e} : pc'[f] = pc[f]
      /\ pc' \in [ENVS -> PC] /\ at[e] = UXSTACK
  BY <1>1, <1>2, Typed DEF PC, InFork, InDuppage
<1>8. /\ \A f \in ENVS, wa \in VA : f # c \/ wa # UXSTACK => pte'[f][wa] = pte[f][wa]
      /\ \A f \in ENVS, wa \in WVA : pte'[f][wa] = pte[f][wa]
  BY <1>3, <1>5 DEF Placed
<1>9. pc[c] = "embryo" /\ c # e /\ ~Executing(c) /\ handler[c] = "none"
  BY <1>1, <1>2, <1>4, ForkAssumption DEF Lives, Executing, InFork
<1>10. TypeOK'
  BY <1>1, <1>2, <1>5, <1>7 DEF TypeOK, PC
<1>11. Lives'
  <2>1. \A f \in ENVS : pc'[f] \in {"new", "exited"} => pte'[f] = Unmapped
    <3> SUFFICES ASSUME NEW f \in ENVS, pc'[f] \in {"new", "exited"} PROVE pte'[f] = Unmapped
      OBVIOUS
    <3>1. f # c /\ pte[f] = Unmapped
      BY <1>2, <1>7, <1>9 DEF Lives
    <3>2. \A wa \in VA : pte'[f][wa] = Unmapped[wa]
      BY <1>8, <3>1
    <3>3. pte'[f] \in [VA -> {NULL} \cup PTE] /\ Unmapped \in [VA -> {NULL} \cup PTE]
      BY <1>5 DEF Unmapped
    <3> QED BY <3>2, <3>3
  <2>2. \A f \in ENVS : newenv[f] # NULL => pc'[f] \in InFork \cup {"panic"} /\ pc'[newenv[f]] = "embryo"
    <3>1. \A f \in ENVS : newenv[f] # NULL => newenv[f] \in ENVS /\ newenv[f] # e
      BY <1>1, <1>2, NoChild DEF Executing, InFork
    <3> QED BY <1>2, <1>7, <3>1 DEF Lives, InFork
  <2> QED BY <1>1, <1>2, <1>7, <2>1, <2>2 DEF Lives, Executing, InFork
<1>12. HasPages'
  <2>1. \A f \in ENVS : newenv[f] # NULL => newenv[f] \in ENVS
    BY <1>2, NoChild
  <2> QED BY <1>1, <1>2, <1>7, <1>8, <2>1 DEF HasPages, Executing, InFork
<1>13. InDuppage'
  <2>1. \A f \in ENVS : pc[f] \in {"map1", "map2"} => f # c /\ newenv[f] \in ENVS /\ newenv[f] # c
    BY <1>1, <1>2, <1>4, <1>9, NoChild DEF Lives, InFork
  <2>2. \A f \in ENVS : at[f] \in VA
    BY <1>2, Typed
  <2> QED BY <1>1, <1>2, <1>3, <1>7, <1>8, <2>1, <2>2 DEF InDuppage, Same
<1>14. NewPage'
  <2> SUFFICES ASSUME NEW f \in ENVS
               PROVE  /\ handler[f] \in {"copy", "map"} =>
                           /\ pte'[f][PFTEMP] # NULL
                           /\ \A g \in ENVS, wa \in VA : Same(g, wa, f, PFTEMP)' => g = f /\ wa = PFTEMP
                      /\ handler[f] = "map" => mem'[pte'[f][addr[f]].pg] = mem'[pte'[f][PFTEMP].pg]
    BY <1>1 DEF NewPage
  <2>1. pte'[f][PFTEMP] = pte[f][PFTEMP] /\ addr[f] \in WVA /\ pte'[f][addr[f]] = pte[f][addr[f]]
    BY <1>2, <1>3, <1>8, Typed
  <2>2. handler[f] = "map" => mem'[pte'[f][addr[f]].pg] = mem'[pte'[f][PFTEMP].pg]
    <3> SUFFICES ASSUME handler[f] = "map"
                 PROVE  mem'[pte'[f][addr[f]].pg] = mem'[pte'[f][PFTEMP].pg]
      OBVIOUS
    <3>1. pte[f][PFTEMP] # NULL /\ pte[f][addr[f]] # NULL
      BY <1>2, <2>1 DEF NewPage, HasPages, Lives
    <3>2. pte[f][PFTEMP].pg \in PAGE \ {pg} /\ pte[f][addr[f]].pg \in PAGE \ {pg}
      BY <1>2, <1>3, <1>5, <2>1, <3>1, Typed DEF Fresh
    <3> QED BY <1>2, <1>5, <2>1, <3>2 DEF NewPage
  <2> QED BY <1>2, <1>3, <1>6, <2>1, <2>2 DEF NewPage
<1> QED BY <1>6, <1>10, <1>11, <1>12, <1>13, <1>14 DEF IInv

-----------------------------------------------------------------------------
(* Actions that copy and share pages.                                      *)

LEMMA HandlerCopyKeeps ==
    ASSUME IInv, NEW e \in ENVS, HandlerCopy(e)
    PROVE  IInv'
<1> DEFINE pg == pte[e][PFTEMP].pg
           old == pte[e][addr[e]].pg
<1>1. /\ handler[e] = "copy" /\ handler' = [handler EXCEPT ![e] = "map"]
      /\ mem' = [mem EXCEPT ![pg] = mem[old]]
      /\ pte' = pte /\ pc' = pc /\ newenv' = newenv /\ at' = at /\ flag' = flag /\ addr' = addr
  BY DEF HandlerCopy, HandlerStep, forkvars
<1>2. TypeOK /\ Lives /\ HasPages /\ InDuppage /\ NewPage
  BY DEF IInv
<1>3. PFTEMP \in VA /\ PFTEMP \notin WVA /\ WVA \subseteq VA
  BY Places
<1>4. Executing(e) /\ pte[e][PFTEMP] # NULL /\ addr[e] \in WVA /\ pte[e][addr[e]] # NULL
  BY <1>1, <1>2, Typed DEF Lives, NewPage, HasPages
<1>5. /\ pg \in PAGE /\ old \in PAGE /\ old # pg
      /\ \A f \in ENVS, wa \in VA : pte[f][wa] # NULL /\ pte[f][wa].pg = pg => f = e /\ wa = PFTEMP
  BY <1>1, <1>2, <1>3, <1>4, Typed DEF NewPage, Same
<1>6. pg = pte[e][PFTEMP].pg /\ old = pte[e][addr[e]].pg
  OBVIOUS
<1> HIDE DEF pg, old
<1>7. mem' \in [PAGE -> Value] /\ mem'[pg] = mem[old] /\ \A q \in PAGE \ {pg} : mem'[q] = mem[q]
  BY <1>1, <1>2, <1>5, Typed
<1>8. /\ handler'[e] = "map" /\ \A f \in ENVS \ {e} : handler'[f] = handler[f]
      /\ handler' \in [ENVS -> {"none", "alloc", "copy", "map"}]
  BY <1>1, <1>2, Typed
<1>9. TypeOK'
  BY <1>1, <1>2, <1>7, <1>8 DEF TypeOK
<1>10. Lives' /\ HasPages'
  BY <1>1, <1>2, <1>4, <1>8 DEF Lives, Executing, HasPages
<1>11. InDuppage'
  BY <1>1, <1>2, <1>8 DEF InDuppage, Same
<1>12. NewPage'
  <2> SUFFICES ASSUME NEW f \in ENVS, handler'[f] = "map"
               PROVE  mem'[pte[f][addr[f]].pg] = mem'[pte[f][PFTEMP].pg]
    BY <1>1, <1>2, <1>8 DEF NewPage, Same
  <2>1. CASE f = e
    BY <1>5, <1>6, <1>7, <2>1
  <2>2. CASE f # e
    <3>1. handler[f] = "map" /\ addr[f] \in WVA /\ pte[f][PFTEMP] # NULL /\ pte[f][addr[f]] # NULL
      BY <1>2, <1>8, <2>2, Typed DEF Lives, NewPage, HasPages
    <3>2. pte[f][PFTEMP].pg \in PAGE \ {pg} /\ pte[f][addr[f]].pg \in PAGE \ {pg}
      BY <1>2, <1>3, <1>5, <2>2, <3>1, Typed
    <3> QED BY <1>2, <1>7, <3>1, <3>2 DEF NewPage
  <2> QED BY <2>1, <2>2
<1> QED BY <1>1, <1>9, <1>10, <1>11, <1>12, Quiet DEF IInv

LEMMA HandlerMapKeeps ==
    ASSUME IInv, NEW e \in ENVS, HandlerMap(e)
    PROVE  IInv'
<1>1. /\ handler[e] = "map"
      /\ mem' = mem /\ pc' = pc /\ newenv' = newenv /\ at' = at /\ flag' = flag
  BY DEF HandlerMap, HandlerStep, forkvars
<1>2. TypeOK /\ Lives /\ HasPages /\ InDuppage /\ OneWriter /\ OneAddress /\ NewPage
  BY DEF IInv
<1>3. PFTEMP \in VA /\ PFTEMP \notin WVA /\ WVA \subseteq VA /\ STACK \in WVA
  BY Places
<1>4. Executing(e) /\ pte[e][PFTEMP] # NULL /\ addr[e] \in WVA /\ pte[e][PFTEMP].pg \in PAGE
  BY <1>1, <1>2, <1>3, Typed DEF Lives, NewPage
<1>5. PICK va \in WVA, pg \in PAGE : va = addr[e] /\ pg = pte[e][PFTEMP].pg
  BY <1>4
<1>6. PICK x \in {NULL} \cup PTE : x = Entry(pg, TRUE, FALSE) /\ x # NULL /\ x.pg = pg
  BY Entries
<1>7. \A f \in ENVS, wa \in VA : pte[f][wa] # NULL /\ pte[f][wa].pg = pg => f = e /\ wa = PFTEMP
  BY <1>1, <1>2, <1>4, <1>5 DEF NewPage, Same
<1>8. va \in VA /\ pte' = [pte EXCEPT ![e][va] = x]
  BY <1>3, <1>5, <1>6 DEF HandlerMap, sys_page_map
<1>9. Placed(e, va, x) /\ pte' \in [ENVS -> [VA -> {NULL} \cup PTE]]
  BY <1>2, <1>8, Place
<1>10. /\ handler'[e] = "none" /\ addr'[e] = STACK
       /\ handler' \in [ENVS -> {"none", "alloc", "copy", "map"}] /\ addr' \in [ENVS -> WVA]
       /\ \A f \in ENVS \ {e} : handler'[f] = handler[f] /\ addr'[f] = addr[f]
  <2>1. handler' = [handler EXCEPT ![e] = "none"] /\ addr' = [addr EXCEPT ![e] = STACK]
    BY DEF HandlerMap, HandlerStep
  <2> QED BY <1>2, <1>3, <2>1, Typed
<1>11. /\ pte'[e][va] = x /\ \A f \in ENVS, wa \in VA : f # e \/ wa # va => pte'[f][wa] = pte[f][wa]
  BY <1>9 DEF Placed
<1>12. TypeOK'
  BY <1>1, <1>2, <1>9, <1>10 DEF TypeOK
<1>13. Lives'
  <2>1. \A f \in ENVS : pc[f] \in {"new", "exited"} => pte'[f] = Unmapped
    <3> SUFFICES ASSUME NEW f \in ENVS, pc[f] \in {"new", "exited"} PROVE pte'[f] = Unmapped
      OBVIOUS
    <3>1. f # e
      BY <1>4 DEF Executing, InFork
    <3>2. pte'[f] = pte[f]
      BY <1>2, <1>8, <3>1, Typed
    <3> QED BY <1>2, <3>2 DEF Lives
  <2> QED BY <1>1, <1>2, <1>4, <1>10, <2>1 DEF Lives, Executing
<1>14. HasPages'
  <2>1. \A f \in ENVS : newenv[f] # NULL => newenv[f] \in ENVS /\ newenv[f] # e
    BY <1>2, <1>4, NoChild
  <2>2. \A f \in ENVS, wa \in WVA : (pte[f][wa] # NULL => pte'[f][wa] # NULL)
                                   /\ (f # e => pte'[f][wa] = pte[f][wa])
    BY <1>3, <1>6, <1>11
  <2>3. \A f \in ENVS : Executing(f)' => \A wa \in WVA : pte'[f][wa] # NULL
    BY <1>1, <1>2, <2>2 DEF HasPages, Executing
  <2>4. \A f \in ENVS : newenv[f] # NULL => \A wa \in WVA :
           /\ wa < at[f] => pte'[newenv[f]][wa] # NULL
           /\ pte'[newenv[f]][wa] # NULL => ~pte'[newenv[f]][wa].w
    BY <1>2, <2>1, <2>2 DEF HasPages
  <2> QED BY <1>1, <2>3, <2>4 DEF HasPages
<1>15. InDuppage'
  <2>1. \A f \in ENVS : pc[f] \in {"map1", "map2"} => f # e /\ newenv[f] \in ENVS /\ newenv[f] # e
    BY <1>1, <1>2, <1>4, NoChild DEF InDuppage, InFork
  <2>2. \A f \in ENVS : at[f] \in VA
    BY <1>2, Typed
  <2> QED BY <1>1, <1>2, <1>3, <1>10, <1>11, <2>1, <2>2 DEF InDuppage, Same
<1>16. /\ \A f \in ENVS \ {e}, wa \in VA : ~Same(e, va, f, wa)' /\ ~Same(f, wa, e, va)'
       /\ \A wa \in VA : Same(e, va, e, wa)' \/ Same(e, wa, e, va)' => wa \in {PFTEMP, va}
  <2>1. \A f \in ENVS, wa \in VA : f # e \/ wa # va =>
           /\ pte'[f][wa] = pte[f][wa]
           /\ pte[f][wa] # NULL /\ pte[f][wa].pg = pg => f = e /\ wa = PFTEMP
    BY <1>7, <1>11
  <2>2. pte'[e][va] # NULL /\ pte'[e][va].pg = pg
    BY <1>6, <1>11
  <2> QED BY <1>8, <2>1, <2>2 DEF Same
<1>17. \A f, g \in ENVS, wa, xa \in VA : (f # e \/ wa # va) /\ (g # e \/ xa # va) =>
          (Same(f, wa, g, xa)' <=> Same(f, wa, g, xa))
  BY <1>11 DEF Same
<1>18. OneWriter'
  <2> SUFFICES ASSUME NEW f \in ENVS, NEW g \in ENVS, NEW wa \in WVA, NEW xa \in VA,
                      f # g, Same(f, wa, g, xa)', pte'[f][wa].w
               PROVE  g = newenv[f] /\ at[f] <= wa
    BY <1>1 DEF OneWriter
  <2>1. wa \in VA /\ (f # e \/ wa # va) /\ (g # e \/ xa # va)
    BY <1>3, <1>16
  <2> QED BY <1>2, <1>11, <1>17, <2>1 DEF OneWriter
<1>19. OneAddress'
  <2> SUFFICES ASSUME NEW f \in ENVS, NEW g \in ENVS, NEW wa \in VA \ {PFTEMP}, NEW xa \in VA \ {PFTEMP},
                      Same(f, wa, g, xa)'
               PROVE  wa = xa
    BY DEF OneAddress
  <2> QED BY <1>2, <1>16, <1>17 DEF OneAddress
<1>20. NewPage'
  <2> SUFFICES ASSUME NEW f \in ENVS, f # e
               PROVE  /\ handler[f] \in {"copy", "map"} =>
                           /\ pte'[f][PFTEMP] # NULL
                           /\ \A g \in ENVS, wa \in VA : Same(g, wa, f, PFTEMP)' => g = f /\ wa = PFTEMP
                      /\ handler[f] = "map" => mem[pte'[f][addr[f]].pg] = mem[pte'[f][PFTEMP].pg]
    BY <1>1, <1>10 DEF NewPage
  <2>1. pte'[f][PFTEMP] = pte[f][PFTEMP] /\ addr[f] \in VA /\ pte'[f][addr[f]] = pte[f][addr[f]]
    BY <1>2, <1>3, <1>11, Typed
  <2>2. \A g \in ENVS, wa \in VA : Same(g, wa, f, PFTEMP)' => Same(g, wa, f, PFTEMP)
    BY <1>3, <1>16, <1>17
  <2> QED BY <1>2, <2>1, <2>2 DEF NewPage
<1> QED BY <1>12, <1>13, <1>14, <1>15, <1>18, <1>19, <1>20 DEF IInv

(* duppage()'s two calls: d gets, at the same address and not writable,    *)
(* the page that e has where its loop is.                                  *)
LEMMA SharedPlaced ==
    ASSUME IInv, NEW e \in ENVS, NEW d \in ENVS, NEW a \in VA, NEW x \in PTE,
           Executing(e), handler[e] = "none", d = e \/ d = newenv[e],
           pte[e][a] # NULL, x # NULL, ~x.w, x.pg = pte[e][a].pg, Placed(d, a, x),
           newenv' = newenv, mem' = mem, handler' = handler, addr' = addr,
           \A f \in ENVS : f # e => at'[f] = at[f],
           at[e] = a, at'[e] = a \/ (at'[e] = a + 1 /\ ~pte'[e][a].w)
    PROVE  OneWriter' /\ OneAddress' /\ NewPage'
<1>1. TypeOK /\ Lives /\ HasPages /\ OneWriter /\ OneAddress /\ NewPage
  BY DEF IInv
<1>2. \A f \in ENVS, wa \in VA : f # d \/ wa # a => pte'[f][wa] = pte[f][wa]
  BY DEF Placed
<1>3. pte'[d][a] = x
  BY DEF Placed
<1>4. \A f, g \in ENVS, wa, xa \in VA : (f # d \/ wa # a) /\ (g # d \/ xa # a) =>
          (Same(f, wa, g, xa)' => Same(f, wa, g, xa))
  BY <1>2 DEF Same
<1>5. \A f \in ENVS, wa \in VA : f # d \/ wa # a =>
          /\ Same(f, wa, d, a)' => Same(f, wa, e, a)
          /\ Same(d, a, f, wa)' => Same(e, a, f, wa)
  BY <1>2, <1>3 DEF Same
<1>6. PFTEMP \in VA /\ PFTEMP \notin WVA /\ WVA \subseteq VA
  BY Places
<1>7. \A f \in ENVS : newenv[f] # e
  BY <1>1, NoChild
<1>8. OneAddress'
  <2> SUFFICES ASSUME NEW f \in ENVS, NEW g \in ENVS, NEW wa \in VA \ {PFTEMP}, NEW xa \in VA \ {PFTEMP},
                      Same(f, wa, g, xa)'
               PROVE  wa = xa
    BY DEF OneAddress
  <2>1. CASE (f # d \/ wa # a) /\ (g # d \/ xa # a)
    BY <1>1, <1>4, <2>1 DEF OneAddress
  <2>2. CASE (f # d \/ wa # a) /\ g = d /\ xa = a
    BY <1>1, <1>5, <2>2 DEF OneAddress
  <2>3. CASE f = d /\ wa = a /\ (g # d \/ xa # a)
    BY <1>1, <1>5, <2>3 DEF OneAddress
  <2> QED BY <2>1, <2>2, <2>3
<1>9. OneWriter'
  <2> SUFFICES ASSUME NEW f \in ENVS, NEW g \in ENVS, NEW wa \in WVA, NEW xa \in VA,
                      f # g, Same(f, wa, g, xa)', pte'[f][wa].w
               PROVE  g = newenv[f] /\ at'[f] <= wa
    BY DEF OneWriter
  <2>1. /\ wa \in VA /\ (f # d \/ wa # a) /\ pte[f][wa].w
        /\ PFTEMP < wa /\ wa \in Nat /\ a \in Nat
    BY <1>2, <1>3, Places
  <2>2. f = e /\ a <= wa => at'[f] <= wa
    BY <2>1
  <2>3. CASE g # d \/ xa # a
    <3>1. g = newenv[f] /\ at[f] <= wa
      BY <1>1, <1>4, <2>1, <2>3 DEF OneWriter
    <3> QED BY <2>2, <3>1
  <2>4. CASE g = d /\ xa = a
    <3>1. Same(f, wa, e, a)
      BY <1>5, <2>1, <2>4
    <3>2. f = e
      BY <1>1, <1>7, <2>1, <3>1 DEF OneWriter
    <3>3. a = PFTEMP \/ a = wa
      BY <1>1, <1>6, <2>1, <3>1 DEF OneAddress
    <3> QED BY <2>1, <2>2, <2>4, <3>2, <3>3
  <2> QED BY <2>3, <2>4
<1>10. NewPage'
  <2> SUFFICES ASSUME NEW f \in ENVS, handler[f] \in {"copy", "map"}
               PROVE  /\ pte'[f][PFTEMP] # NULL
                      /\ \A g \in ENVS, wa \in VA : Same(g, wa, f, PFTEMP)' => g = f /\ wa = PFTEMP
                      /\ handler[f] = "map" => mem[pte'[f][addr[f]].pg] = mem[pte'[f][PFTEMP].pg]
    BY DEF NewPage
  <2>1. f # e /\ f # d /\ addr[f] \in VA
    BY <1>1, <1>6, NoChild, Typed DEF Lives
  <2>2. pte'[f][PFTEMP] = pte[f][PFTEMP] /\ pte'[f][addr[f]] = pte[f][addr[f]]
    BY <1>2, <1>6, <2>1
  <2>3. \A g \in ENVS, wa \in VA : Same(g, wa, f, PFTEMP)' => g = f /\ wa = PFTEMP
    <3> SUFFICES ASSUME NEW g \in ENVS, NEW wa \in VA, Same(g, wa, f, PFTEMP)' PROVE g = f /\ wa = PFTEMP
      OBVIOUS
    <3>1. Same(g, wa, f, PFTEMP) \/ Same(e, a, f, PFTEMP)
      BY <1>4, <1>5, <1>6, <2>1
    <3>2. \A h \in ENVS, xa \in VA : Same(h, xa, f, PFTEMP) => h = f /\ xa = PFTEMP
      BY <1>1 DEF NewPage
    <3> QED BY <2>1, <3>1, <3>2
  <2> QED BY <1>1, <2>2, <2>3 DEF NewPage
<1> QED BY <1>8, <1>9, <1>10

LEMMA Map1Keeps ==
    ASSUME IInv, NEW e \in ENVS, Map1(e)
    PROVE  IInv'
<1>1. /\ pc[e] = "map1" /\ handler[e] = "none" /\ Executing(e)
      /\ mem' = mem /\ newenv' = newenv /\ flag' = flag /\ handler' = handler /\ addr' = addr
  BY DEF Map1, User
<1>2. TypeOK /\ Lives /\ HasPages /\ InDuppage
  BY DEF IInv
<1>3. PICK c \in ENVS, a \in VA, w \in BOOLEAN : c = newenv[e] /\ a = at[e] /\ w = flag[e]
  BY <1>1, <1>2, NoChild, Typed DEF InFork
<1>4. /\ a < UXSTACK /\ pte[e][a] # NULL /\ w = pte[e][a].w /\ pte[e][STACK].w
      /\ pte[e][a].pg \in PAGE /\ a \in Nat /\ a + 1 \in VA
  BY <1>1, <1>2, <1>3, Typed, Places DEF InDuppage
<1>5. PICK x \in PTE : x = Entry(pte[e][a].pg, FALSE, w) /\ x # NULL /\ ~x.w /\ x.pg = pte[e][a].pg
  BY <1>4, Entries
<1>6. Placed(c, a, x) /\ pte' \in [ENVS -> [VA -> {NULL} \cup PTE]]
  <2>1. pte' = [pte EXCEPT ![c][a] = x]
    BY <1>3, <1>5 DEF Map1, sys_page_map
  <2> QED BY <1>2, <2>1, Place
<1>7. /\ pte'[c][a] = x
      /\ \A f \in ENVS, wa \in VA : f # c \/ wa # a => pte'[f][wa] = pte[f][wa]
  BY <1>6 DEF Placed
<1>8. /\ pc[c] = "embryo" /\ c # e /\ ~Executing(c) /\ newenv[e] # NULL
      /\ \A f \in ENVS : f # e => newenv[f] # c
  BY <1>1, <1>2, <1>3, ForkAssumption DEF Lives, Executing, InFork
<1>9. /\ pc' \in [ENVS -> PC] /\ at' \in [ENVS -> VA]
      /\ \A f \in ENVS : f # e => pc'[f] = pc[f] /\ at'[f] = at[f]
      /\ (w /\ pc'[e] = "map2" /\ at'[e] = a) \/ (~w /\ pc'[e] = "loop" /\ at'[e] = a + 1)
  <2>1. \/ flag[e] /\ pc' = [pc EXCEPT ![e] = "map2"] /\ at' = at
        \/ ~flag[e] /\ pc' = [pc EXCEPT ![e] = "loop"] /\ at' = [at EXCEPT ![e] = at[e] + 1]
    BY DEF Map1
  <2>2. pc \in [ENVS -> PC] /\ at \in [ENVS -> VA] /\ {"map2", "loop"} \subseteq PC
    BY <1>2, Typed DEF PC, InFork
  <2>3. CASE w
    <3>1. pc' = [pc EXCEPT ![e] = "map2"] /\ at' = at
      BY <1>3, <2>1, <2>3
    <3> QED BY <1>3, <2>2, <2>3, <3>1
  <2>4. CASE ~w
    <3>1. pc' = [pc EXCEPT ![e] = "loop"] /\ at' = [at EXCEPT ![e] = a + 1]
      BY <1>3, <2>1, <2>4
    <3> QED BY <1>4, <2>2, <2>4, <3>1
  <2> QED BY <2>3, <2>4
<1>10. TypeOK'
  BY <1>1, <1>2, <1>6, <1>9 DEF TypeOK, PC
<1>11. OneWriter' /\ OneAddress' /\ NewPage'
  <2>1. pte'[e][a] = pte[e][a]
    BY <1>7, <1>8
  <2> QED BY <1>1, <1>3, <1>4, <1>5, <1>6, <1>9, <2>1, SharedPlaced
<1>12. Lives'
  <2>1. \A f \in ENVS : pc'[f] \in {"new", "exited"} => pte'[f] = Unmapped
    <3> SUFFICES ASSUME NEW f \in ENVS, pc'[f] \in {"new", "exited"} PROVE pte'[f] = Unmapped
      OBVIOUS
    <3>1. f # c /\ pte[f] = Unmapped
      BY <1>2, <1>8, <1>9 DEF Lives
    <3>2. \A wa \in VA : pte'[f][wa] = Unmapped[wa]
      BY <1>7, <3>1
    <3>3. pte'[f] \in [VA -> {NULL} \cup PTE] /\ Unmapped \in [VA -> {NULL} \cup PTE]
      BY <1>6 DEF Unmapped
    <3> QED BY <3>2, <3>3
  <2>2. \A f \in ENVS : newenv[f] # NULL => pc'[f] \in InFork \cup {"panic"} /\ pc'[newenv[f]] = "embryo"
    <3>1. \A f \in ENVS : newenv[f] # NULL => newenv[f] \in ENVS /\ newenv[f] # e
      BY <1>1, <1>2, NoChild
    <3> QED BY <1>2, <1>9, <3>1 DEF Lives, InFork
  <2> QED BY <1>1, <1>2, <1>8, <1>9, <2>1, <2>2 DEF Lives, Executing, InFork
<1>13. HasPages'
  <2>1. \A f \in ENVS : Executing(f)' => \A wa \in WVA : pte'[f][wa] # NULL
    <3>1. \A f \in ENVS : Executing(f)' => f # c /\ Executing(f)
      BY <1>1, <1>8, <1>9 DEF Executing, InFork
    <3> QED BY <1>2, <1>7, <3>1, Places DEF HasPages
  <2>2. ASSUME NEW f \in ENVS, newenv[f] # NULL, NEW wa \in WVA
        PROVE  /\ wa < at'[f] => pte'[newenv[f]][wa] # NULL
               /\ pte'[newenv[f]][wa] # NULL => ~pte'[newenv[f]][wa].w
    <3>1. wa \in VA /\ wa \in Nat
      BY Places
    <3>2. CASE f = e /\ wa = a
      BY <1>3, <1>5, <1>7, <3>2
    <3>3. CASE f # e \/ wa # a
      <4>1. newenv[f] \in ENVS /\ pte'[newenv[f]][wa] = pte[newenv[f]][wa]
        BY <1>2, <1>7, <1>8, <2>2, <3>1, <3>3, NoChild
      <4>2. wa < at'[f] => wa < at[f]
        BY <1>3, <1>4, <1>9, <3>1, <3>3
      <4> QED BY <1>2, <2>2, <4>1, <4>2 DEF HasPages
    <3> QED BY <3>2, <3>3
  <2> QED BY <1>1, <2>1, <2>2 DEF HasPages
<1>14. InDuppage'
  <2>1. ASSUME NEW f \in ENVS, f # e, pc[f] \in {"map1", "map2"}
        PROVE  /\ f # c /\ newenv[f] \in ENVS /\ newenv[f] # c /\ at[f] \in VA
               /\ pte'[f][at[f]] = pte[f][at[f]] /\ pte'[f][STACK] = pte[f][STACK]
               /\ pte'[newenv[f]][at[f]] = pte[newenv[f]][at[f]]
    <3>1. f # c /\ newenv[f] \in ENVS /\ newenv[f] # c /\ at[f] \in VA
      BY <1>2, <1>8, <2>1, NoChild, Typed DEF InFork
    <3> QED BY <1>7, <3>1, Places
  <2>2. pc'[e] = "map2" => Same(e, a, c, a)'
    BY <1>4, <1>5, <1>7, <1>8 DEF Same
  <2>3. pte'[e][a] = pte[e][a] /\ pte'[e][STACK] = pte[e][STACK]
    BY <1>7, <1>8, Places
  <2>4. \A f \in ENVS : pc'[f] \in {"map1", "map2"} =>
          /\ at'[f] < UXSTACK /\ pte'[f][at'[f]] # NULL /\ flag[f] = pte'[f][at'[f]].w
          /\ pte'[f][STACK].w /\ handler[f] = "none"
    BY <1>1, <1>2, <1>3, <1>4, <1>9, <2>1, <2>3 DEF InDuppage
  <2>5. \A f \in ENVS : pc'[f] = "map2" => Same(f, at[f], newenv[f], at[f])' /\ at'[f] = at[f]
    <3>1. ASSUME NEW f \in ENVS, f # e, pc[f] = "map2"
          PROVE  Same(f, at[f], newenv[f], at[f])' /\ at'[f] = at[f]
      BY <1>1, <1>2, <1>9, <2>1, <3>1 DEF InDuppage, Same
    <3> QED BY <1>1, <1>3, <1>9, <2>2, <3>1 DEF Same
  <2>6. \A f \in ENVS : pc'[f] \in {"uxstack", "status"} => at'[f] = UXSTACK
    BY <1>2, <1>9 DEF InDuppage
  <2> QED BY <1>1, <2>4, <2>5, <2>6 DEF InDuppage, Same
<1> QED BY <1>10, <1>11, <1>12, <1>13, <1>14 DEF IInv

LEMMA Map2Keeps ==
    ASSUME IInv, NEW e \in ENVS, Map2(e)
    PROVE  IInv'
<1>1. /\ pc[e] = "map2" /\ handler[e] = "none" /\ Executing(e)
      /\ mem' = mem /\ newenv' = newenv /\ flag' = flag /\ handler' = handler /\ addr' = addr
  BY DEF Map2, User
<1>2. TypeOK /\ Lives /\ HasPages /\ InDuppage
  BY DEF IInv
<1>3. PICK c \in ENVS, a \in VA : c = newenv[e] /\ a = at[e] /\ c # e
  BY <1>1, <1>2, NoChild, Typed DEF InFork
<1>4. /\ a < UXSTACK /\ pte[e][a] # NULL /\ pte[c][a] # NULL /\ pte[c][a].pg = pte[e][a].pg
      /\ pte[e][a].pg \in PAGE /\ a \in Nat /\ a + 1 \in VA
  BY <1>1, <1>2, <1>3, Typed, Places DEF InDuppage, Same
<1>5. PICK x \in PTE : x = Entry(pte[c][a].pg, FALSE, TRUE) /\ x # NULL /\ ~x.w /\ x.pg = pte[e][a].pg
  BY <1>4, Entries
<1>6. Placed(e, a, x) /\ pte' \in [ENVS -> [VA -> {NULL} \cup PTE]]
  <2>1. pte' = [pte EXCEPT ![e][a] = x]
    BY <1>3, <1>5 DEF Map2, sys_page_map
  <2> QED BY <1>2, <2>1, Place
<1>7. /\ pte'[e][a] = x
      /\ \A f \in ENVS, wa \in VA : f # e \/ wa # a => pte'[f][wa] = pte[f][wa]
  BY <1>6 DEF Placed
<1>8. newenv[e] # NULL /\ \A f \in ENVS : newenv[f] # e /\ (newenv[f] # NULL => newenv[f] \in ENVS)
  BY <1>1, <1>2, <1>3, NoChild DEF Lives, InFork
<1>9. /\ pc' \in [ENVS -> PC] /\ at' \in [ENVS -> VA]
      /\ pc'[e] = "loop" /\ at'[e] = a + 1
      /\ \A f \in ENVS : f # e => pc'[f] = pc[f] /\ at'[f] = at[f]
  <2>1. pc' = [pc EXCEPT ![e] = "loop"] /\ at' = [at EXCEPT ![e] = at[e] + 1]
    BY DEF Map2
  <2> QED BY <1>2, <1>3, <1>4, <2>1, Typed DEF PC, InFork
<1>10. TypeOK'
  BY <1>1, <1>2, <1>6, <1>9 DEF TypeOK, PC
<1>11. OneWriter' /\ OneAddress' /\ NewPage'
  <2>1. at[e] = a /\ at'[e] = a + 1 /\ ~pte'[e][a].w
    BY <1>3, <1>5, <1>7, <1>9
  <2> QED BY <1>1, <1>4, <1>5, <1>6, <1>9, <2>1, SharedPlaced
<1>12. Lives'
  <2>1. \A f \in ENVS : pc'[f] \in {"new", "exited"} => pte'[f] = Unmapped
    <3> SUFFICES ASSUME NEW f \in ENVS, pc'[f] \in {"new", "exited"} PROVE pte'[f] = Unmapped
      OBVIOUS
    <3>1. f # e /\ pte[f] = Unmapped
      BY <1>2, <1>9 DEF Lives
    <3>2. \A wa \in VA : pte'[f][wa] = Unmapped[wa]
      BY <1>7, <3>1
    <3>3. pte'[f] \in [VA -> {NULL} \cup PTE] /\ Unmapped \in [VA -> {NULL} \cup PTE]
      BY <1>6 DEF Unmapped
    <3> QED BY <3>2, <3>3
  <2>2. \A f \in ENVS : newenv[f] # NULL => pc'[f] \in InFork \cup {"panic"} /\ pc'[newenv[f]] = "embryo"
    BY <1>2, <1>8, <1>9 DEF Lives, InFork
  <2> QED BY <1>1, <1>2, <1>8, <1>9, <2>1, <2>2 DEF Lives, Executing, InFork
<1>13. HasPages'
  <2>1. \A f \in ENVS : Executing(f)' => \A wa \in WVA : pte'[f][wa] # NULL
    <3>1. \A f \in ENVS : Executing(f)' => Executing(f)
      BY <1>1, <1>9 DEF Executing
    <3>2. \A f \in ENVS, wa \in WVA : pte[f][wa] # NULL => pte'[f][wa] # NULL
      BY <1>5, <1>7, Places
    <3> QED BY <1>2, <3>1, <3>2 DEF HasPages
  <2>2. ASSUME NEW f \in ENVS, newenv[f] # NULL, NEW wa \in WVA
        PROVE  /\ wa < at'[f] => pte'[newenv[f]][wa] # NULL
               /\ pte'[newenv[f]][wa] # NULL => ~pte'[newenv[f]][wa].w
    <3>1. wa \in VA /\ wa \in Nat /\ newenv[f] \in ENVS /\ pte'[newenv[f]][wa] = pte[newenv[f]][wa]
      BY <1>7, <1>8, <2>2, Places
    <3>2. wa < at'[f] => wa < at[f] \/ (f = e /\ wa = a)
      BY <1>3, <1>4, <1>9, <3>1
    <3> QED BY <1>2, <1>3, <1>4, <2>2, <3>1, <3>2 DEF HasPages
  <2> QED BY <1>1, <2>1, <2>2 DEF HasPages
<1>14. InDuppage'
  <2>1. ASSUME NEW f \in ENVS, f # e, pc[f] \in {"map1", "map2"}
        PROVE  /\ pte'[f][at[f]] = pte[f][at[f]] /\ pte'[f][STACK] = pte[f][STACK]
               /\ pte'[newenv[f]][at[f]] = pte[newenv[f]][at[f]]
    <3>1. newenv[f] \in ENVS /\ newenv[f] # e /\ at[f] \in VA
      BY <1>2, <1>8, <2>1, NoChild, Typed DEF InFork
    <3> QED BY <1>7, <2>1, <3>1, Places
  <2>2. \A f \in ENVS : pc'[f] \in {"map1", "map2", "uxstack", "status"} =>
                          f # e /\ pc'[f] = pc[f] /\ at'[f] = at[f]
    BY <1>9
  <2> QED BY <1>1, <1>2, <2>1, <2>2 DEF InDuppage, Same
<1> QED BY <1>10, <1>11, <1>12, <1>13, <1>14 DEF IInv

LEMMA SetStatusKeeps ==
    ASSUME IInv, NEW e \in ENVS, SetStatus(e)
    PROVE  IInv'
<1>1. /\ pc[e] = "status" /\ handler[e] = "none" /\ Executing(e)
      /\ pte' = pte /\ mem' = mem /\ handler' = handler /\ addr' = addr
  BY DEF SetStatus, User
<1>2. TypeOK /\ Lives /\ HasPages /\ InDuppage /\ OneWriter /\ OneAddress /\ NewPage
  BY DEF IInv
<1>3. PICK c \in ENVS : c = newenv[e] /\ c # e
  BY <1>1, <1>2, NoChild DEF InFork
<1>4. /\ pc[c] = "embryo" /\ newenv[e] # NULL /\ newenv[c] = NULL /\ at[e] = UXSTACK /\ handler[c] = "none"
      /\ \A f \in ENVS : newenv[f] # e /\ (f # e => newenv[f] # c)
      /\ \A f \in ENVS : newenv[f] # NULL => newenv[f] \in ENVS
  BY <1>1, <1>2, <1>3, NoChild, ForkAssumption DEF Lives, Executing, InFork, InDuppage
<1>5. /\ pc' \in [ENVS -> PC] /\ newenv' \in [ENVS -> ENVS \cup {NULL}]
      /\ at' \in [ENVS -> VA] /\ flag' \in [ENVS -> BOOLEAN]
      /\ pc'[e] = "run" /\ pc'[c] = "run" /\ newenv'[e] = NULL /\ at'[e] = PFTEMP
      /\ \A f \in ENVS : f # e /\ f # c => pc'[f] = pc[f]
      /\ \A f \in ENVS : f # e => newenv'[f] = newenv[f] /\ at'[f] = at[f] /\ flag'[f] = flag[f]
  <2>1. /\ pc' = [pc EXCEPT ![e] = "run", ![c] = "run"] /\ newenv' = [newenv EXCEPT ![e] = NULL]
        /\ at' = [at EXCEPT ![e] = PFTEMP] /\ flag' = [flag EXCEPT ![e] = FALSE]
    BY <1>3 DEF SetStatus
  <2> QED BY <1>2, <2>1, Typed, Places DEF PC
<1>6. TypeOK'
  BY <1>1, <1>2, <1>5 DEF TypeOK, PC
<1>7. Lives'
  <2>1. \A f \in ENVS : pc'[f] \in {"new", "exited"} => pte[f] = Unmapped
    BY <1>2, <1>5 DEF Lives
  <2>2. \A f \in ENVS : handler[f] # "none" => pc'[f] \in InFork \cup {"run"}
    BY <1>2, <1>5 DEF Lives, Executing
  <2>3. \A f \in ENVS : pc'[f] \in InFork => newenv'[f] # NULL
    BY <1>2, <1>5 DEF Lives, InFork
  <2>4. \A f \in ENVS : newenv'[f] # NULL => pc'[f] \in InFork \cup {"panic"} /\ pc'[newenv'[f]] = "embryo"
    <3>1. \A f \in ENVS : newenv'[f] # NULL =>
             f # e /\ f # c /\ newenv'[f] = newenv[f] /\ newenv[f] \in ENVS /\ newenv[f] # e /\ newenv[f] # c
      BY <1>4, <1>5
    <3> QED BY <1>2, <1>5, <3>1 DEF Lives
  <2>5. \A f, g \in ENVS : newenv'[f] # NULL /\ newenv'[f] = newenv'[g] => f = g
    BY <1>2, <1>5 DEF Lives
  <2>6. \A f \in ENVS : newenv'[f] = NULL => at'[f] = PFTEMP
    BY <1>2, <1>5 DEF Lives
  <2> QED BY <1>1, <2>1, <2>2, <2>3, <2>4, <2>5, <2>6 DEF Lives, Executing
<1>8. HasPages'
  <2>1. \A wa \in WVA : pte[c][wa] # NULL
    BY <1>2, <1>3, <1>4, Places DEF HasPages
  <2>2. \A f \in ENVS : Executing(f)' => f = c \/ Executing(f)
    BY <1>1, <1>5 DEF Executing
  <2> QED BY <1>1, <1>2, <1>5, <2>1, <2>2 DEF HasPages
<1>9. InDuppage'
  <2>1. \A f \in ENVS : pc'[f] \in {"map1", "map2", "uxstack", "status"} => f # e /\ f # c /\ pc'[f] = pc[f]
    BY <1>5
  <2> QED BY <1>1, <1>2, <1>5, <2>1 DEF InDuppage, Same
<1>10. OneWriter'
  <2>1. \A va \in WVA : ~(at[e] <= va)
    BY <1>4, ForkAssumption DEF WVA, DATA, STACK, UXSTACK
  <2> QED BY <1>1, <1>2, <1>5, <2>1 DEF OneWriter, Same
<1>11. OneAddress' /\ NewPage'
  BY <1>1, <1>2 DEF OneAddress, NewPage, Same
<1> QED BY <1>6, <1>7, <1>8, <1>9, <1>10, <1>11 DEF IInv

LEMMA ExitKeeps ==
    ASSUME IInv, NEW e \in ENVS, Exit(e)
    PROVE  IInv'
<1>1. /\ pc[e] = "run" /\ handler[e] = "none" /\ Executing(e)
      /\ mem' = mem /\ newenv' = newenv /\ at' = at /\ flag' = flag /\ handler' = handler /\ addr' = addr
  BY DEF Exit, User
<1>2. TypeOK /\ Lives /\ HasPages /\ InDuppage /\ OneWriter /\ OneAddress /\ NewPage
  BY DEF IInv
<1>3. /\ pc' \in [ENVS -> PC] /\ pte' \in [ENVS -> [VA -> {NULL} \cup PTE]]
      /\ pc'[e] = "exited" /\ pte'[e] = Unmapped /\ Unmapped \in [VA -> {NULL} \cup PTE]
      /\ \A f \in ENVS : f # e => pc'[f] = pc[f] /\ pte'[f] = pte[f]
  <2>1. pc' = [pc EXCEPT ![e] = "exited"] /\ pte' = [pte EXCEPT ![e] = Unmapped]
    BY DEF Exit
  <2>2. Unmapped \in [VA -> {NULL} \cup PTE]
    BY DEF Unmapped
  <2> QED BY <1>2, <2>1, <2>2, Typed DEF PC
<1>4. \A va \in VA : pte'[e][va] = NULL
  BY <1>3 DEF Unmapped
<1>5. /\ newenv[e] = NULL
      /\ \A f \in ENVS : newenv[f] # e /\ (newenv[f] # NULL => newenv[f] \in ENVS /\ f # e)
  BY <1>1, <1>2, NoChild DEF Lives, InFork
<1>6. TypeOK'
  BY <1>1, <1>2, <1>3 DEF TypeOK, PC
<1>7. Lives'
  BY <1>1, <1>2, <1>3, <1>5 DEF Lives, Executing, InFork
<1>8. HasPages'
  BY <1>1, <1>2, <1>3, <1>5 DEF HasPages, Executing, InFork
<1>9. InDuppage'
  <2>1. \A f \in ENVS : pc'[f] \in {"map1", "map2", "uxstack", "status"} =>
           f # e /\ pc'[f] = pc[f] /\ newenv[f] \in ENVS /\ newenv[f] # e
    BY <1>2, <1>3, <1>5 DEF Lives, InFork
  <2> QED BY <1>1, <1>2, <1>3, <2>1 DEF InDuppage, Same
<1>10. \A f, g \in ENVS, wa, xa \in VA : Same(f, wa, g, xa)' => f # e /\ g # e /\ Same(f, wa, g, xa)
  BY <1>3, <1>4 DEF Same
<1>11. OneWriter' /\ OneAddress'
  <2>1. WVA \subseteq VA
    BY Places
  <2>2. OneAddress'
    BY <1>2, <1>10 DEF OneAddress
  <2>3. OneWriter'
    BY <1>1, <1>2, <1>3, <1>10, <2>1 DEF OneWriter
  <2> QED BY <2>2, <2>3
<1>12. NewPage'
  <2>1. PFTEMP \in VA
    BY Places
  <2> QED BY <1>1, <1>2, <1>3, <1>10, <2>1 DEF NewPage
<1> QED BY <1>6, <1>7, <1>8, <1>9, <1>11, <1>12 DEF IInv

-----------------------------------------------------------------------------
(* The invariant, and what follows from it.                                *)

LEMMA Step ==
    ASSUME IInv, Next
    PROVE  IInv'
<1>1. PICK e \in ENVS : \/ \E va \in WVA, v \in Value : Write(e, va, v)
                        \/ pgfault(e) \/ fork(e) \/ Exit(e)
  BY DEF Next
<1>2. ASSUME NEW va \in WVA, NEW v \in Value, Write(e, va, v)
      PROVE  IInv'
  <2>1. CASE pte[e][va].w
    BY <1>2, <2>1, WriteKeeps
  <2>2. CASE ~pte[e][va].w
    <3>1. User(e) /\ PageFault(e, va) /\ (pc[e] = "run" \/ va = STACK)
      BY <1>2, <2>2 DEF Write
    <3> QED BY <2>2, <3>1, FaultKeeps
  <2> QED BY <2>1, <2>2
<1>3. CASE HandlerAlloc(e)
  <2>1. CASE HandlerStep(e, "alloc", "copy") /\ sys_page_alloc(e, PFTEMP) /\ UNCHANGED <<forkvars, addr>>
    BY <2>1, HandlerAllocKeeps
  <2>2. CASE handler[e] = "alloc" /\ Panic(e) /\ UNCHANGED <<pte, mem, newenv, at, flag, addr>>
    <3>1. Executing(e)
      BY <2>2 DEF IInv, Lives
    <3> QED BY <2>2, <3>1, PanicKeeps
  <2> QED BY <1>3, <2>1, <2>2 DEF HandlerAlloc
<1>4. CASE HandlerCopy(e) \/ HandlerMap(e)
  BY <1>4, HandlerCopyKeeps, HandlerMapKeeps
<1>5. CASE Loop(e)
  <2>1. User(e) /\ pc[e] = "loop"
    BY <1>5 DEF Loop
  <2>2. CASE at[e] = UXSTACK
    BY <1>5, <2>1, <2>2, MoveKeeps DEF Loop
  <2>3. CASE at[e] # UXSTACK /\ pte[e][at[e]] = NULL
    BY <1>5, <2>1, <2>3, NextPageKeeps DEF Loop
  <2>4. CASE at[e] # UXSTACK /\ pte[e][at[e]] # NULL /\ ~pte[e][STACK].w
    <3>1. PageFault(e, STACK) /\ STACK \in WVA
      BY <1>5, <2>4, Places DEF Loop
    <3> QED BY <2>1, <2>4, <3>1, FaultKeeps
  <2>5. CASE at[e] # UXSTACK /\ pte[e][at[e]] # NULL /\ pte[e][STACK].w
    BY <1>5, <2>1, <2>5, MoveKeeps DEF Loop
  <2> QED BY <2>2, <2>3, <2>4, <2>5
<1>6. CASE AllocStack(e)
  <2>1. User(e) /\ pc[e] = "uxstack"
    BY <1>6 DEF AllocStack
  <2>2. CASE /\ sys_page_alloc(newenv[e], UXSTACK) /\ pc' = [pc EXCEPT ![e] = "status"]
             /\ UNCHANGED <<newenv, at, flag, handler, addr>>
    BY <2>1, <2>2, AllocStackKeeps
  <2>3. CASE Panic(e) /\ UNCHANGED <<pte, mem, newenv, at, flag, addr>>
    BY <2>1, <2>3, PanicKeeps DEF User
  <2> QED BY <1>6, <2>2, <2>3 DEF AllocStack
<1>7. CASE Map1Fails(e)
  BY <1>7, PanicKeeps DEF Map1Fails, User
<1> QED BY <1>1, <1>2, <1>3, <1>4, <1>5, <1>6, <1>7, ExoforkKeeps, Map1Keeps, Map2Keeps, SetStatusKeeps,
           ExitKeeps DEF pgfault, fork

(* Every reachable state satisfies the invariant (lib/fork.c,              *)
(* lib/pgfault.c).                                                         *)
THEOREM Invariance == Spec => []IInv
<1>1. IInv /\ UNCHANGED vars => IInv'
  BY DEF IInv, vars, forkvars, TypeOK, Lives, HasPages, InDuppage, OneWriter, OneAddress, NewPage,
         Same, Executing
<1> QED BY InitInvariant, Step, <1>1, PTL DEF Spec

(* The tables, local variables and states of fork() and pgfault() have the *)
(* types of the code.                                                      *)
THEOREM TypeCorrect == Spec => []TypeOK
<1>1. IInv => TypeOK
  BY DEF IInv
<1> QED BY <1>1, Invariance, PTL

(* No page that another environment maps is written by a program, or       *)
(* copied over by pgfault(): the remapping that duppage() does and the     *)
(* order in which fork() and pgfault() run never leave one behind.         *)
THEOREM SharingTheorem == Spec => []SharingSafe
<1>1. ASSUME IInv PROVE SharedNotWritable
  <2> SUFFICES ASSUME NEW e \in ENVS, NEW f \in ENVS, NEW va \in WVA, NEW wa \in VA,
                      e # f, Executing(f), Same(e, va, f, wa), pte[e][va].w
               PROVE  FALSE
    BY DEF SharedNotWritable, Same
  <2>1. f = newenv[e]
    BY <1>1 DEF IInv, OneWriter
  <2> QED BY <1>1, <2>1, NoChild DEF IInv
<1>2. ASSUME IInv PROVE CopyPrivate
  <2> SUFFICES ASSUME NEW e \in ENVS, handler[e] \in {"copy", "map"}
               PROVE  References(pte[e][PFTEMP].pg) = {<<e, PFTEMP>>}
    BY DEF CopyPrivate
  <2>1. pte[e][PFTEMP] # NULL /\ PFTEMP \in VA
    BY <1>2, Places DEF IInv, NewPage
  <2>2. \A f \in ENVS, wa \in VA :
           pte[f][wa] # NULL /\ pte[f][wa].pg = pte[e][PFTEMP].pg => f = e /\ wa = PFTEMP
    BY <1>2, <2>1 DEF IInv, NewPage, Same
  <2> QED BY <2>1, <2>2 DEF References
<1>3. IInv => SharingSafe
  BY <1>1, <1>2 DEF SharingSafe
<1> QED BY <1>3, Invariance, PTL

-----------------------------------------------------------------------------
(* What programs see: each step is one of PrivateMemory, or changes none   *)
(* of it.                                                                  *)

(* What is copied, for a program, for the child of a fork() and for one    *)
(* whose parent is gone.                                                   *)
CopiedPages ==
    \A e \in ENVS, va \in WVA :
       /\ pc[e] # "embryo" => (Copied(e, va) <=> pte[e][va] # NULL)
       /\ \A p \in ENVS : newenv[p] = e => (Copied(e, va) <=> pte[e][va] # NULL /\ va < at[p])
       /\ pc[e] = "embryo" /\ (\A p \in ENVS : newenv[p] # e) => ~Copied(e, va)

LEMMA Copies == IInv => CopiedPages
<1> SUFFICES ASSUME IInv, NEW e \in ENVS, NEW va \in WVA
             PROVE  /\ pc[e] # "embryo" => (Copied(e, va) <=> pte[e][va] # NULL)
                    /\ \A p \in ENVS : newenv[p] = e => (Copied(e, va) <=> pte[e][va] # NULL /\ va < at[p])
                    /\ pc[e] = "embryo" /\ (\A p \in ENVS : newenv[p] # e) => ~Copied(e, va)
  BY DEF CopiedPages
<1>1. /\ \A p \in ENVS : newenv[p] = e => pc[p] \in InFork \cup {"panic"} /\ pc[e] = "embryo"
      /\ \A p, q \in ENVS : newenv[p] = e /\ newenv[q] = e => p = q
  BY ForkAssumption DEF IInv, Lives
<1> QED BY <1>1 DEF Copied

LEMMA CopiesAfter == IInv' => CopiedPages'
BY Copies, PTL

LEMMA SameImage ==
    ASSUME \A f \in ENVS, wa \in WVA :
              /\ Copied(f, wa)' <=> Copied(f, wa)
              /\ Copied(f, wa) => mem'[pte'[f][wa].pg] = mem[pte[f][wa].pg]
    PROVE  image' = image
BY DEF image

(* An image takes its values from memory.                                  *)
LEMMA Reads ==
    ASSUME TypeOK
    PROVE  /\ image \in [ENVS -> [WVA -> Value \cup {NULL}]]
           /\ \A e \in ENVS, va \in WVA : IF Copied(e, va) THEN /\ image[e][va] = mem[pte[e][va].pg]
                                                                /\ image[e][va] # NULL
                                                           ELSE image[e][va] = NULL
<1>1. \A e \in ENVS, va \in WVA : Copied(e, va) => mem[pte[e][va].pg] \in Value /\ mem[pte[e][va].pg] # NULL
  BY Typed, Places, ForkAssumption DEF Copied
<1> QED BY <1>1 DEF image

(* An image that changes in one place.                                     *)
LEMMA OneChange ==
    ASSUME TypeOK, NEW e \in ENVS, NEW va \in WVA, NEW v,
           Copied(e, va)', mem'[pte'[e][va].pg] = v,
           \A f \in ENVS, wa \in WVA : f # e \/ wa # va =>
              /\ Copied(f, wa)' <=> Copied(f, wa)
              /\ Copied(f, wa) => mem'[pte'[f][wa].pg] = mem[pte[f][wa].pg]
    PROVE  image' = [image EXCEPT ![e][va] = v]
<1>1. image'[e][va] = v
  BY DEF image
<1>2. \A f \in ENVS, wa \in WVA : f # e \/ wa # va => image'[f][wa] = image[f][wa]
  BY DEF image
<1>3. /\ image' = [f \in ENVS |-> [wa \in WVA |-> image'[f][wa]]]
      /\ image = [f \in ENVS |-> [wa \in WVA |-> image[f][wa]]]
  BY DEF image
<1> QED BY <1>1, <1>2, <1>3

(* Steps that change no page of a program, and neither start nor end a     *)
(* fork() nor advance it.                                                  *)
LEMMA Stutter ==
    ASSUME \A f \in ENVS, wa \in WVA :
              pte[f][wa] # NULL => pte'[f][wa] # NULL /\ mem'[pte'[f][wa].pg] = mem[pte[f][wa].pg],
           \A f \in ENVS, wa \in WVA : pte[f][wa] = NULL => pte'[f][wa] = NULL,
           newenv' = newenv, IInv, IInv',
           \A f \in ENVS : pc'[f] = "embryo" <=> pc[f] = "embryo",
           \A f \in ENVS, wa \in WVA : newenv[f] # NULL => (wa < at'[f] <=> wa < at[f])
    PROVE  image' = image
<1>1. CopiedPages /\ CopiedPages'
  BY Copies, CopiesAfter
<1>2. ASSUME NEW f \in ENVS, NEW wa \in WVA
      PROVE  Copied(f, wa)' <=> Copied(f, wa)
  <2>1. CASE pc[f] # "embryo"
    BY <1>1, <2>1 DEF CopiedPages
  <2>2. CASE \E p \in ENVS : newenv[p] = f
    <3>1. PICK p \in ENVS : newenv[p] = f
      BY <2>2
    <3>2. /\ Copied(f, wa) <=> pte[f][wa] # NULL /\ wa < at[p]
          /\ Copied(f, wa)' <=> pte'[f][wa] # NULL /\ wa < at'[p]
      BY <1>1, <3>1 DEF CopiedPages
    <3> QED BY <3>1, <3>2, ForkAssumption
  <2>3. CASE pc[f] = "embryo" /\ \A p \in ENVS : newenv[p] # f
    BY <1>1, <2>3 DEF CopiedPages
  <2> QED BY <2>1, <2>2, <2>3
<1>3. \A f \in ENVS, wa \in WVA : Copied(f, wa) => pte[f][wa] # NULL
  BY DEF Copied
<1> QED BY <1>2, <1>3, SameImage

LEMMA WriteImage ==
    ASSUME IInv, IInv', NEW e \in ENVS, NEW va \in WVA, NEW v \in Value, Write(e, va, v), pte[e][va].w
    PROVE  Private!Write(e, va, v)
<1>1. /\ Executing(e) /\ mem' = [mem EXCEPT ![pte[e][va].pg] = v]
      /\ pte' = pte /\ pc' = pc /\ newenv' = newenv /\ at' = at
  BY DEF Write, User, forkvars
<1>2. TypeOK /\ HasPages /\ OneWriter /\ OneAddress /\ CopiedPages
  BY Copies DEF IInv
<1>3. PICK pg \in PAGE : pg = pte[e][va].pg /\ pte[e][va] # NULL
  BY <1>1, <1>2, Typed, Places DEF HasPages
<1>4. mem'[pg] = v /\ \A q \in PAGE \ {pg} : mem'[q] = mem[q]
  BY <1>1, <1>2, <1>3, Typed
<1>5. pte' = pte /\ \A f \in ENVS, wa \in WVA : Copied(f, wa)' <=> Copied(f, wa)
  BY <1>1 DEF Copied
<1>6. Copied(e, va)
  <2>1. pc[e] # "embryo"
    BY <1>1 DEF Executing, InFork
  <2> QED BY <1>2, <1>3, <2>1 DEF CopiedPages
<1>7. ASSUME NEW f \in ENVS, NEW wa \in WVA, f # e \/ wa # va, Copied(f, wa)
      PROVE  mem'[pte[f][wa].pg] = mem[pte[f][wa].pg]
  <2>1. pte[f][wa] # NULL /\ pte[f][wa].pg \in PAGE
    BY <1>2, <1>7, Typed, Places DEF Copied
  <2>2. pte[f][wa].pg # pg
    <3> SUFFICES ASSUME pte[f][wa].pg = pg PROVE FALSE
      OBVIOUS
    <3>1. Same(e, va, f, wa)
      BY <1>3, <2>1 DEF Same
    <3>2. va = wa /\ f # e
      BY <1>2, <1>7, <3>1, Places DEF OneAddress
    <3>3. f = newenv[e] /\ at[e] <= wa
      BY <1>2, <3>1, <3>2, Places DEF OneWriter
    <3>4. wa < at[e]
      BY <1>2, <1>7, <3>3 DEF CopiedPages
    <3>5. wa \in Nat /\ at[e] \in Nat
      BY <1>2, Typed, Places
    <3> QED BY <3>3, <3>4, <3>5
  <2> QED BY <1>4, <2>1, <2>2
<1>8. image' = [image EXCEPT ![e][va] = v]
  <2>1. Copied(e, va)' /\ mem'[pte'[e][va].pg] = v
    BY <1>3, <1>4, <1>5, <1>6
  <2>2. \A f \in ENVS, wa \in WVA : f # e \/ wa # va =>
              /\ Copied(f, wa)' <=> Copied(f, wa)
              /\ Copied(f, wa) => mem'[pte'[f][wa].pg] = mem[pte[f][wa].pg]
    BY <1>5, <1>7
  <2> QED BY <1>2, <2>1, <2>2, OneChange
<1>9. image[e][va] # NULL
  BY <1>2, <1>6, Reads
<1>10. ~Private!Made(e)
  BY <1>1, NoChild DEF IInv, Private!Made
<1> QED BY <1>1, <1>8, <1>9, <1>10 DEF Private!Write

(* Page faults and panic().                                                *)
LEMMA FaultImage ==
    ASSUME IInv, IInv', NEW e \in ENVS, Executing(e),
           pc' = pc \/ pc' = [pc EXCEPT ![e] = "panic"],
           UNCHANGED <<pte, mem, newenv, at>>
    PROVE  image' = image
<1>1. \A f \in ENVS : pc'[f] = "embryo" <=> pc[f] = "embryo"
  BY Typed DEF IInv, Executing, InFork
<1> QED BY <1>1, Stutter

LEMMA HandlerImage ==
    ASSUME IInv, IInv', NEW e \in ENVS, HandlerCopy(e) \/ HandlerMap(e)
    PROVE  image' = image
<1>1. TypeOK /\ Lives /\ HasPages /\ NewPage
  BY DEF IInv
<1>2. PFTEMP \in VA /\ PFTEMP \notin WVA /\ WVA \subseteq VA
  BY Places
<1>3. /\ handler[e] \in {"copy", "map"}
      /\ pc' = pc /\ newenv' = newenv /\ at' = at
  BY DEF HandlerCopy, HandlerMap, HandlerStep, forkvars
<1>4. PICK pg \in PAGE, va \in WVA :
        pg = pte[e][PFTEMP].pg /\ pte[e][PFTEMP] # NULL /\ va = addr[e] /\ pte[e][va] # NULL
  BY <1>1, <1>2, <1>3, Typed DEF Lives, HasPages, NewPage
<1>5. \A f \in ENVS, wa \in WVA : pte[f][wa] # NULL => pte[f][wa].pg \in PAGE \ {pg}
  <2>1. \A f \in ENVS, wa \in VA : Same(f, wa, e, PFTEMP) => wa = PFTEMP
    BY <1>1, <1>3 DEF NewPage
  <2>2. \A f \in ENVS, wa \in WVA : pte[f][wa] # NULL => pte[f][wa].pg \in PAGE
    BY <1>1, <1>2, Typed
  <2> QED BY <1>2, <1>4, <2>1, <2>2 DEF Same
<1>6. CASE HandlerCopy(e)
  <2>1. pte' = pte /\ mem' = [mem EXCEPT ![pg] = mem[pte[e][va].pg]]
    BY <1>4, <1>6 DEF HandlerCopy
  <2>2. \A q \in PAGE \ {pg} : mem'[q] = mem[q]
    BY <1>1, <2>1, Typed
  <2>3. \A f \in ENVS, wa \in WVA : pte[f][wa] # NULL => mem'[pte[f][wa].pg] = mem[pte[f][wa].pg]
    BY <1>5, <2>2
  <2> QED BY <1>3, <2>1, <2>3, Stutter
<1>7. CASE HandlerMap(e)
  <2>1. PICK x \in {NULL} \cup PTE : x = Entry(pg, TRUE, FALSE) /\ x # NULL /\ x.pg = pg
    BY Entries
  <2>2. mem' = mem /\ pte' = [pte EXCEPT ![e][va] = x]
    BY <1>4, <1>7, <2>1 DEF HandlerMap, sys_page_map
  <2>3. handler[e] = "map" /\ mem[pte[e][va].pg] = mem[pg]
    BY <1>1, <1>4, <1>7 DEF HandlerMap, HandlerStep, NewPage
  <2>4. Placed(e, va, x)
    BY <1>1, <1>2, <2>2, Place
  <2>5. \A f \in ENVS, wa \in WVA : pte[f][wa] = NULL => pte'[f][wa] = NULL
    BY <1>2, <1>4, <2>4 DEF Placed
  <2>6. \A f \in ENVS, wa \in WVA :
          pte[f][wa] # NULL => pte'[f][wa] # NULL /\ mem'[pte'[f][wa].pg] = mem[pte[f][wa].pg]
    <3>1. \A f \in ENVS, wa \in WVA : f # e \/ wa # va => pte'[f][wa] = pte[f][wa]
      BY <1>2, <2>4 DEF Placed
    <3>2. pte'[e][va] = x /\ mem' = mem
      BY <2>2, <2>4 DEF Placed
    <3> QED BY <2>1, <2>3, <3>1, <3>2
  <2> QED BY <1>3, <2>5, <2>6, Stutter
<1> QED BY <1>6, <1>7

(* A new page is not one that a program sees.                              *)
LEMMA AllocImage ==
    ASSUME IInv, IInv', NEW d \in ENVS, NEW va \in {PFTEMP, UXSTACK}, sys_page_alloc(d, va),
           UNCHANGED <<newenv, at>>, \A f \in ENVS : pc'[f] = "embryo" <=> pc[f] = "embryo"
    PROVE  image' = image
<1>1. TypeOK /\ va \in VA /\ va \notin WVA /\ WVA \subseteq VA
  BY Places DEF IInv
<1>2. PICK pg \in PAGE : /\ Fresh(pg) /\ Placed(d, va, Entry(pg, TRUE, FALSE))
                         /\ \A q \in PAGE \ {pg} : mem'[q] = mem[q]
  BY <1>1, Allocated
<1>3. \A f \in ENVS, wa \in WVA : /\ pte'[f][wa] = pte[f][wa]
                                  /\ (pte[f][wa] # NULL => pte[f][wa].pg \in PAGE \ {pg})
  BY <1>1, <1>2, Typed DEF Placed, Fresh
<1> QED BY <1>2, <1>3, Stutter

(* A child begins with nothing, and returns from fork() with everything.   *)
LEMMA ForkImage ==
    ASSUME IInv, IInv', NEW e \in ENVS, sys_exofork(e) \/ SetStatus(e)
    PROVE  Private!Start(e) \/ \E child \in ENVS : Private!Fork(e, child)
<1>1. TypeOK /\ Lives /\ HasPages /\ InDuppage /\ CopiedPages /\ CopiedPages' /\ pte' = pte /\ mem' = mem
  BY Copies, CopiesAfter DEF IInv, sys_exofork, SetStatus
<1>2. ASSUME NEW f \in ENVS, NEW wa \in WVA
      PROVE  Copied(f, wa)' <=> Copied(f, wa)
  <2>1. CASE sys_exofork(e)
    <3>1. PICK child \in ENVS :
            /\ pc[child] = "new" /\ pc[e] = "run" /\ at' = at
            /\ pc' = [pc EXCEPT ![e] = "loop", ![child] = "embryo"]
            /\ newenv' = [newenv EXCEPT ![e] = child]
      BY <2>1 DEF sys_exofork, User
    <3>2. /\ pc'[e] = "loop" /\ \A g \in ENVS : g # e /\ g # child => pc'[g] = pc[g]
          /\ newenv'[e] = child /\ \A g \in ENVS : g # e => newenv'[g] = newenv[g]
          /\ newenv[e] = NULL /\ at[e] = PFTEMP
      BY <1>1, <3>1, Typed DEF Lives, InFork
    <3>3. CASE f = child
      <4>1. pte[f][wa] = NULL
        BY <1>1, <3>1, <3>3, Places DEF Lives, Unmapped
      <4> QED BY <1>1, <4>1 DEF Copied
    <3>4. CASE f # child /\ pc[f] # "embryo"
      <4>1. pc'[f] # "embryo"
        BY <3>2, <3>4
      <4> QED BY <1>1, <3>4, <4>1 DEF CopiedPages
    <3>5. CASE f # child /\ pc[f] = "embryo"
      <4>1. pc'[f] = "embryo" /\ \A p \in ENVS : newenv'[p] = f <=> newenv[p] = f
        BY <3>1, <3>2, <3>5, ForkAssumption
      <4>2. CASE \E p \in ENVS : newenv[p] = f
        <5>1. PICK p \in ENVS : newenv[p] = f
          BY <4>2
        <5>2. /\ Copied(f, wa) <=> pte[f][wa] # NULL /\ wa < at[p]
              /\ Copied(f, wa)' <=> pte'[f][wa] # NULL /\ wa < at'[p]
          BY <1>1, <4>1, <5>1 DEF CopiedPages
        <5> QED BY <1>1, <3>1, <5>2
      <4>3. CASE \A p \in ENVS : newenv[p] # f
        BY <1>1, <3>5, <4>1, <4>3 DEF CopiedPages
      <4> QED BY <4>2, <4>3
    <3> QED BY <3>3, <3>4, <3>5
  <2>2. CASE SetStatus(e)
    <3>1. PICK c \in ENVS : c = newenv[e] /\ c # e
      BY <1>1, <2>2, NoChild DEF SetStatus, InFork
    <3>2. /\ pc[e] = "status" /\ at[e] = UXSTACK /\ pc[c] = "embryo"
          /\ pc' = [pc EXCEPT ![e] = "run", ![c] = "run"]
          /\ newenv' = [newenv EXCEPT ![e] = NULL] /\ at' = [at EXCEPT ![e] = PFTEMP]
      BY <1>1, <2>2, <3>1, ForkAssumption DEF SetStatus, InDuppage, Lives, InFork
    <3>3. /\ pc'[e] = "run" /\ pc'[c] = "run"
          /\ \A g \in ENVS : g # e /\ g # c => pc'[g] = pc[g]
          /\ newenv'[e] = NULL /\ \A g \in ENVS : g # e => newenv'[g] = newenv[g] /\ at'[g] = at[g]
      BY <1>1, <3>2, Typed
    <3>4. CASE f = c
      <4>1. Copied(f, wa) <=> pte[f][wa] # NULL
        BY <1>1, <3>1, <3>2, <3>4, Places DEF CopiedPages
      <4> QED BY <1>1, <3>3, <3>4, <4>1 DEF CopiedPages
    <3>5. CASE f # c /\ pc[f] # "embryo"
      <4>1. pc'[f] # "embryo"
        BY <3>3, <3>5
      <4> QED BY <1>1, <3>5, <4>1 DEF CopiedPages
    <3>6. CASE f # c /\ pc[f] = "embryo"
      <4>1. /\ f # e /\ pc'[f] = "embryo"
            /\ \A p \in ENVS : (newenv'[p] = f <=> newenv[p] = f) /\ (newenv[p] = f => at'[p] = at[p])
        <5>1. f # e
          BY <3>2, <3>6
        <5>2. f # NULL /\ newenv[e] # f
          BY <3>1, <3>6, ForkAssumption
        <5> QED BY <3>3, <3>6, <5>1, <5>2
      <4>2. CASE \E p \in ENVS : newenv[p] = f
        <5>1. PICK p \in ENVS : newenv[p] = f
          BY <4>2
        <5>2. /\ Copied(f, wa) <=> pte[f][wa] # NULL /\ wa < at[p]
              /\ Copied(f, wa)' <=> pte'[f][wa] # NULL /\ wa < at'[p]
          BY <1>1, <4>1, <5>1 DEF CopiedPages
        <5> QED BY <1>1, <4>1, <5>1, <5>2
      <4>3. CASE \A p \in ENVS : newenv[p] # f
        BY <1>1, <3>6, <4>1, <4>3 DEF CopiedPages
      <4> QED BY <4>2, <4>3
    <3> QED BY <3>4, <3>5, <3>6
  <2> QED BY <2>1, <2>2
<1>3. image' = image
  BY <1>1, <1>2, SameImage
<1>4. CASE sys_exofork(e)
  <2>1. PICK child \in ENVS : pc[child] = "new" /\ pc[e] = "run" /\ newenv' = [newenv EXCEPT ![e] = child]
    BY <1>4 DEF sys_exofork
  <2>2. newenv[e] = NULL /\ ~Private!Made(child)
    BY <1>1, <2>1, ForkAssumption DEF Lives, InFork, Private!Made
  <2>3. \A va \in WVA : image[child][va] = NULL
    <3>1. \A va \in WVA : ~Copied(child, va)
      BY <1>1, <2>1, Places DEF Copied, Lives, Unmapped
    <3> QED BY <1>1, <3>1, Reads
  <2> QED BY <1>3, <2>1, <2>2, <2>3 DEF Private!Fork
<1>5. CASE SetStatus(e)
  <2>1. /\ newenv[e] \in ENVS /\ newenv[e] # NULL /\ at[e] = UXSTACK
        /\ newenv' = [newenv EXCEPT ![e] = NULL]
    BY <1>1, <1>5, NoChild, ForkAssumption DEF SetStatus, InDuppage, InFork
  <2>2. \A va \in WVA : image[newenv[e]][va] # NULL
    <3>1. \A va \in WVA : Copied(newenv[e], va)
      BY <1>1, <2>1, Places DEF HasPages, CopiedPages
    <3> QED BY <1>1, <2>1, <3>1, Reads
  <2> QED BY <1>3, <2>1, <2>2 DEF Private!Start
<1> QED BY <1>4, <1>5

(* duppage() is done with a page.                                          *)
LEMMA CopyImage ==
    ASSUME IInv, IInv', NEW e \in ENVS, NEW c \in ENVS, NEW a \in VA,
           Executing(e), c = newenv[e], a = at[e], at'[e] = a + 1,
           pte[e][a] # NULL, pte'[c][a] # NULL, pte'[c][a].pg = pte[e][a].pg,
           \A f \in ENVS, wa \in WVA : f # c \/ wa # a =>
              /\ pte[f][wa] = NULL <=> pte'[f][wa] = NULL
              /\ pte[f][wa] # NULL => pte'[f][wa].pg = pte[f][wa].pg,
           newenv' = newenv, mem' = mem,
           \A f \in ENVS : pc'[f] = "embryo" <=> pc[f] = "embryo",
           \A f \in ENVS : f # e => at'[f] = at[f]
    PROVE  image' = image \/ \E va \in WVA : Private!Copy(e, va)
<1>1. TypeOK /\ Lives /\ CopiedPages /\ CopiedPages' /\ a \in Nat /\ WVA \subseteq VA /\ VA \subseteq Nat
  BY Copies, CopiesAfter, Places DEF IInv
<1>2. \A f \in ENVS : newenv[f] = c => f = e
  BY <1>1, ForkAssumption DEF Lives
<1>3. ASSUME NEW f \in ENVS, NEW wa \in WVA, f # c \/ wa # a
      PROVE  Copied(f, wa)' <=> Copied(f, wa)
  <2>1. CASE pc[f] # "embryo"
    BY <1>1, <1>3, <2>1 DEF CopiedPages
  <2>2. CASE \E p \in ENVS : newenv[p] = f
    <3>1. PICK p \in ENVS : newenv[p] = f
      BY <2>2
    <3>2. /\ Copied(f, wa) <=> pte[f][wa] # NULL /\ wa < at[p]
          /\ Copied(f, wa)' <=> pte'[f][wa] # NULL /\ wa < at'[p]
      BY <1>1, <3>1 DEF CopiedPages
    <3>3. wa < at'[p] <=> wa < at[p]
      <4>1. wa \in Nat
        BY <1>1
      <4>2. p = e => wa # a
        BY <1>3, <3>1
      <4> QED BY <1>1, <4>1, <4>2
    <3> QED BY <1>3, <3>2, <3>3
  <2>3. CASE pc[f] = "embryo" /\ \A p \in ENVS : newenv[p] # f
    BY <1>1, <2>3 DEF CopiedPages
  <2> QED BY <2>1, <2>2, <2>3
<1>4. ASSUME NEW f \in ENVS, NEW wa \in WVA, f # c \/ wa # a, Copied(f, wa)
      PROVE  mem'[pte'[f][wa].pg] = mem[pte[f][wa].pg]
  BY <1>4 DEF Copied
<1>5. CASE a \notin WVA
  BY <1>3, <1>4, <1>5, SameImage
<1>6. CASE a \in WVA
  <2>1. Copied(c, a)' /\ ~Copied(c, a)
    BY <1>1, <1>6 DEF CopiedPages
  <2>2. Copied(e, a)
    BY <1>1, <1>6 DEF CopiedPages, Executing, InFork
  <2>3. image[c][a] = NULL /\ image[e][a] = mem[pte[e][a].pg]
    BY <1>1, <1>6, <2>1, <2>2, Reads
  <2>4. mem'[pte'[c][a].pg] = image[e][a]
    BY <2>3
  <2>5. image' = [image EXCEPT ![c][a] = image[e][a]]
    BY <1>1, <1>3, <1>4, <1>6, <2>1, <2>4, OneChange
  <2> QED BY <1>6, <2>3, <2>5, ForkAssumption DEF Private!Copy
<1> QED BY <1>5, <1>6

LEMMA MapImage ==
    ASSUME IInv, IInv', NEW e \in ENVS, Map1(e) \/ Map2(e)
    PROVE  image' = image \/ \E va \in WVA : Private!Copy(e, va)
<1>1. /\ TypeOK /\ Lives /\ InDuppage /\ Executing(e) /\ pc[e] \in {"map1", "map2"}
      /\ mem' = mem /\ newenv' = newenv
  BY DEF IInv, Map1, Map2, User
<1>2. PICK c \in ENVS, a \in VA, w \in BOOLEAN : c = newenv[e] /\ a = at[e] /\ w = flag[e] /\ c # e
  BY <1>1, NoChild, Typed DEF InFork
<1>3. a \in Nat /\ WVA \subseteq VA /\ VA \subseteq Nat
  BY Places
<1>4. pte[e][a] # NULL /\ w = pte[e][a].w /\ pte[e][a].pg \in PAGE
  BY <1>1, <1>2, Typed DEF InDuppage
<1>5. CASE Map1(e)
  <2>1. PICK x \in PTE : x = Entry(pte[e][a].pg, FALSE, w) /\ x # NULL /\ x.pg = pte[e][a].pg
    BY <1>4, Entries
  <2>2. Placed(c, a, x)
    <3>1. pte' = [pte EXCEPT ![c][a] = x]
      BY <1>2, <1>5, <2>1 DEF Map1, sys_page_map
    <3> QED BY <1>1, <3>1, Place
  <2>3. CASE w
    <3>1. pc[e] = "map1" /\ pc' = [pc EXCEPT ![e] = "map2"] /\ at' = at
      BY <1>2, <1>5, <2>3 DEF Map1
    <3>2. \A f \in ENVS : pc'[f] = "embryo" <=> pc[f] = "embryo"
      BY <1>1, <3>1, Typed
    <3>3. CopiedPages /\ CopiedPages'
      BY Copies, CopiesAfter
    <3>4. ASSUME NEW f \in ENVS, NEW wa \in WVA, f # c \/ wa # a
          PROVE  pte'[f][wa] = pte[f][wa] /\ (Copied(f, wa)' <=> Copied(f, wa))
      <4>1. pte'[f][wa] = pte[f][wa]
        BY <1>3, <2>2, <3>4 DEF Placed
      <4>2. CASE \E p \in ENVS : newenv[p] = f
        <5>1. PICK p \in ENVS : newenv[p] = f
          BY <4>2
        <5>2. /\ Copied(f, wa) <=> pte[f][wa] # NULL /\ wa < at[p]
              /\ Copied(f, wa)' <=> pte'[f][wa] # NULL /\ wa < at'[p]
          BY <1>1, <3>3, <5>1 DEF CopiedPages
        <5> QED BY <3>1, <4>1, <5>2
      <4>3. CASE \A p \in ENVS : newenv[p] # f
        BY <1>1, <3>2, <3>3, <4>1, <4>3 DEF CopiedPages
      <4> QED BY <4>1, <4>2, <4>3
    <3>5. a \in WVA => ~Copied(c, a)' /\ ~Copied(c, a)
      <4>1. a = at'[e] /\ c = newenv'[e] /\ ~(a < a)
        BY <1>1, <1>2, <1>3, <3>1
      <4>2. \A wa \in WVA : (Copied(c, wa) => wa < at[e]) /\ (Copied(c, wa)' => wa < at'[e])
        BY <1>2, <3>3, <4>1 DEF CopiedPages
      <4> QED BY <1>2, <4>1, <4>2
    <3>6. \A f \in ENVS, wa \in WVA :
             /\ Copied(f, wa)' <=> Copied(f, wa)
             /\ Copied(f, wa) => mem'[pte'[f][wa].pg] = mem[pte[f][wa].pg]
      BY <1>1, <3>4, <3>5
    <3> QED BY <3>6, SameImage
  <2>4. CASE ~w
    <3>1. pc[e] = "map1" /\ pc' = [pc EXCEPT ![e] = "loop"] /\ at' = [at EXCEPT ![e] = a + 1]
      BY <1>2, <1>5, <2>4 DEF Map1
    <3>2. \A f \in ENVS : pc'[f] = "embryo" <=> pc[f] = "embryo"
      BY <1>1, <3>1, Typed
    <3>3. at'[e] = a + 1 /\ \A f \in ENVS : f # e => at'[f] = at[f]
      BY <1>1, <3>1, Typed
    <3>4. pte'[c][a] # NULL /\ pte'[c][a].pg = pte[e][a].pg
      BY <2>1, <2>2 DEF Placed
    <3>5. \A f \in ENVS, wa \in WVA : f # c \/ wa # a => pte'[f][wa] = pte[f][wa]
      BY <1>3, <2>2 DEF Placed
    <3> QED BY <1>1, <1>2, <1>4, <3>2, <3>3, <3>4, <3>5, CopyImage
  <2> QED BY <2>3, <2>4
<1>6. CASE Map2(e)
  <2>1. pc[e] = "map2" /\ pc' = [pc EXCEPT ![e] = "loop"] /\ at' = [at EXCEPT ![e] = a + 1]
    BY <1>2, <1>6 DEF Map2
  <2>2. pte[c][a] # NULL /\ pte[c][a].pg = pte[e][a].pg
    BY <1>1, <1>2, <2>1 DEF InDuppage, Same
  <2>3. PICK x \in PTE : x = Entry(pte[c][a].pg, FALSE, TRUE) /\ x # NULL /\ x.pg = pte[e][a].pg
    BY <1>4, <2>2, Entries
  <2>4. Placed(e, a, x)
    <3>1. pte' = [pte EXCEPT ![e][a] = x]
      BY <1>2, <1>6, <2>3 DEF Map2, sys_page_map
    <3> QED BY <1>1, <3>1, Place
  <2>5. \A f \in ENVS : pc'[f] = "embryo" <=> pc[f] = "embryo"
    BY <1>1, <2>1, Typed
  <2>6. at'[e] = a + 1 /\ \A f \in ENVS : f # e => at'[f] = at[f]
    BY <1>1, <2>1, Typed
  <2>7. pte'[c][a] # NULL /\ pte'[c][a].pg = pte[e][a].pg
    BY <1>2, <2>2, <2>4 DEF Placed
  <2>8. \A f \in ENVS, wa \in WVA : f # c \/ wa # a =>
           /\ pte[f][wa] = NULL <=> pte'[f][wa] = NULL
           /\ pte[f][wa] # NULL => pte'[f][wa].pg = pte[f][wa].pg
    <3>1. \A f \in ENVS, wa \in WVA : f # e \/ wa # a => pte'[f][wa] = pte[f][wa]
      BY <1>3, <2>4 DEF Placed
    <3>2. pte'[e][a] # NULL /\ pte'[e][a].pg = pte[e][a].pg
      BY <2>3, <2>4 DEF Placed
    <3> QED BY <1>4, <3>1, <3>2
  <2> QED BY <1>1, <1>2, <1>4, <2>5, <2>6, <2>7, <2>8, CopyImage
<1> QED BY <1>5, <1>6

LEMMA ExitImage ==
    ASSUME IInv, IInv', NEW e \in ENVS, Exit(e)
    PROVE  Private!Exit(e)
<1>1. /\ TypeOK /\ Lives /\ Executing(e) /\ mem' = mem /\ newenv' = newenv /\ at' = at
      /\ pc' = [pc EXCEPT ![e] = "exited"] /\ pte' = [pte EXCEPT ![e] = Unmapped]
  BY DEF IInv, Exit, User
<1>2. /\ pc'[e] = "exited" /\ pc[e] # "embryo" /\ \A f \in ENVS : f # e => pc'[f] = pc[f] /\ pte'[f] = pte[f]
      /\ \A wa \in WVA : pte'[e][wa] = NULL
  BY <1>1, Typed, Places DEF Unmapped, Executing, InFork
<1>3. CopiedPages /\ CopiedPages'
  BY Copies, CopiesAfter
<1>4. \A wa \in WVA : ~Copied(e, wa)'
  BY <1>2, <1>3 DEF CopiedPages
<1>5. ASSUME NEW f \in ENVS, NEW wa \in WVA, f # e
      PROVE  Copied(f, wa)' <=> Copied(f, wa)
  <2>1. pc'[f] = pc[f] /\ pte'[f] = pte[f]
    BY <1>2, <1>5
  <2>2. CASE \E p \in ENVS : newenv[p] = f
    <3>1. PICK p \in ENVS : newenv[p] = f
      BY <2>2
    <3>2. /\ Copied(f, wa) <=> pte[f][wa] # NULL /\ wa < at[p]
          /\ Copied(f, wa)' <=> pte'[f][wa] # NULL /\ wa < at'[p]
      BY <1>1, <1>3, <3>1 DEF CopiedPages
    <3> QED BY <1>1, <2>1, <3>2
  <2>3. CASE \A p \in ENVS : newenv[p] # f
    BY <1>1, <1>3, <2>1, <2>3 DEF CopiedPages
  <2> QED BY <2>2, <2>3
<1>6. \A wa \in WVA : image'[e][wa] = NULL
  BY <1>4 DEF image
<1>7. \A f \in ENVS, wa \in WVA : f # e => image'[f][wa] = image[f][wa]
  BY <1>1, <1>2, <1>5 DEF image
<1>8. /\ image' = [f \in ENVS |-> [wa \in WVA |-> image'[f][wa]]]
      /\ image = [f \in ENVS |-> [wa \in WVA |-> image[f][wa]]]
  BY DEF image
<1>9. image' = [image EXCEPT ![e] = [wa \in WVA |-> NULL]]
  BY <1>6, <1>7, <1>8
<1>10. newenv[e] = NULL /\ ~Private!Made(e)
  BY <1>1, NoChild DEF Exit, User, Lives, InFork, Private!Made
<1> QED BY <1>1, <1>9, <1>10 DEF Private!Exit

LEMMA Implements ==
    ASSUME IInv, IInv', Next
    PROVE  Private!Next \/ UNCHANGED <<image, newenv>>
<1>1. PICK e \in ENVS : \/ \E va \in WVA, v \in Value : Write(e, va, v)
                        \/ pgfault(e) \/ fork(e) \/ Exit(e)
  BY DEF Next
<1>2. ASSUME NEW va \in WVA, PageFault(e, va), Executing(e)
      PROVE  image' = image /\ newenv' = newenv
  BY <1>2, FaultImage DEF PageFault, Panic, forkvars
<1>3. ASSUME NEW va \in WVA, NEW v \in Value, Write(e, va, v)
      PROVE  Private!Next \/ UNCHANGED <<image, newenv>>
  <2>1. CASE pte[e][va].w
    BY <1>3, <2>1, WriteImage DEF Private!Next
  <2>2. CASE ~pte[e][va].w
    BY <1>2, <1>3, <2>2 DEF Write, User
  <2> QED BY <2>1, <2>2
<1>4. CASE HandlerAlloc(e)
  <2>1. CASE HandlerStep(e, "alloc", "copy") /\ sys_page_alloc(e, PFTEMP) /\ UNCHANGED <<forkvars, addr>>
    BY <2>1, AllocImage DEF forkvars
  <2>2. CASE handler[e] = "alloc" /\ Panic(e) /\ UNCHANGED <<pte, mem, newenv, at, flag, addr>>
    <3>1. Executing(e)
      BY <2>2 DEF IInv, Lives
    <3> QED BY <2>2, <3>1, FaultImage DEF Panic
  <2> QED BY <1>4, <2>1, <2>2 DEF HandlerAlloc
<1>5. CASE Loop(e)
  <2>1. Executing(e) /\ pc[e] = "loop"
    BY <1>5 DEF Loop, User
  <2>2. CASE LeaveLoop(e) \/ ReadFlag(e)
    <3>1. /\ pte' = pte /\ mem' = mem /\ newenv' = newenv /\ at' = at
          /\ pc' = [pc EXCEPT ![e] = "uxstack"] \/ pc' = [pc EXCEPT ![e] = "map1"]
      BY <2>2 DEF LeaveLoop, ReadFlag
    <3>2. \A f \in ENVS : pc'[f] = "embryo" <=> pc[f] = "embryo"
      BY <2>1, <3>1, Typed DEF IInv
    <3> QED BY <3>1, <3>2, Stutter
  <2>3. CASE pte[e][at[e]] = NULL /\ NextPage(e)
    <3>1. pte' = pte /\ mem' = mem /\ newenv' = newenv /\ pc' = pc /\ at' = [at EXCEPT ![e] = at[e] + 1]
      BY <2>3 DEF NextPage
    <3>2. at[e] \in Nat /\ at[e] \notin WVA
      BY <2>1, <2>3, Typed, Places DEF IInv, HasPages
    <3>3. \A wa \in WVA : wa < at[e] + 1 <=> wa < at[e]
      BY <3>2, ForkAssumption DEF WVA, DATA, STACK
    <3>4. at'[e] = at[e] + 1 /\ \A f \in ENVS : f # e => at'[f] = at[f]
      BY <3>1, Typed DEF IInv
    <3> QED BY <3>1, <3>3, <3>4, Stutter
  <2>4. CASE PageFault(e, STACK)
    BY <1>2, <2>1, <2>4, Places
  <2> QED BY <1>5, <2>2, <2>3, <2>4 DEF Loop
<1>6. CASE Map1(e) \/ Map2(e)
  <2>1. newenv' = newenv
    BY <1>6 DEF Map1, Map2
  <2> QED BY <1>6, <2>1, MapImage DEF Private!Next
<1>7. CASE AllocStack(e)
  <2>1. Executing(e) /\ pc[e] = "uxstack" /\ newenv[e] \in ENVS
    BY <1>7, NoChild DEF IInv, AllocStack, User, InFork
  <2>2. CASE /\ sys_page_alloc(newenv[e], UXSTACK) /\ pc' = [pc EXCEPT ![e] = "status"]
             /\ UNCHANGED <<newenv, at, flag, handler, addr>>
    <3>1. \A f \in ENVS : pc'[f] = "embryo" <=> pc[f] = "embryo"
      BY <2>1, <2>2, Typed DEF IInv
    <3> QED BY <2>1, <2>2, <3>1, AllocImage
  <2>3. CASE Panic(e) /\ UNCHANGED <<pte, mem, newenv, at, flag, addr>>
    BY <2>1, <2>3, FaultImage DEF Panic
  <2> QED BY <1>7, <2>2, <2>3 DEF AllocStack
<1>9. CASE Map1Fails(e)
  BY <1>9, FaultImage DEF Map1Fails, User, Panic
<1>8. CASE Exit(e)
  BY <1>8, ExitImage DEF Private!Next
<1>10. CASE sys_exofork(e) \/ SetStatus(e)
  BY <1>10, ForkImage DEF Private!Next
<1>11. CASE HandlerCopy(e) \/ HandlerMap(e)
  <2>1. newenv' = newenv
    BY <1>11 DEF HandlerCopy, HandlerMap, forkvars
  <2> QED BY <1>11, <2>1, HandlerImage
<1> QED BY <1>1, <1>3, <1>4, <1>5, <1>6, <1>7, <1>8, <1>9, <1>10, <1>11 DEF pgfault, fork

(* fork() with shared pages implements private memory: no write is seen by *)
(* another environment, and a child has what its parent had when the page  *)
(* was shared.                                                             *)
THEOREM RefinementTheorem == Spec => ImplementsPrivate
<1>1. Init => Private!Init
  <2> SUFFICES ASSUME Init PROVE Private!Init
    OBVIOUS
  <2>1. TypeOK
    BY InitInvariant DEF IInv
  <2>2. image \in [ENVS -> [WVA -> Value \cup {NULL}]]
    BY <2>1, Reads
  <2>3. newenv = [e \in ENVS |-> NULL]
    BY DEF Init
  <2> QED BY <2>2, <2>3 DEF Private!Init
<1>2. IInv /\ IInv' /\ [Next]_vars => [Private!Next]_<<image, newenv>>
  <2>1. UNCHANGED vars => image' = image /\ newenv' = newenv
    BY DEF vars, forkvars, image, Copied
  <2>2. SUFFICES ASSUME IInv, IInv', [Next]_vars
                 PROVE  Private!Next \/ UNCHANGED <<image, newenv>>
    OBVIOUS
  <2> QED BY <2>1, <2>2, Implements
<1> QED BY <1>1, <1>2, Invariance, PTL DEF Spec, ImplementsPrivate, Private!Spec
=============================================================================
