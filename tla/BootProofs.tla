----------------------------- MODULE BootProofs -----------------------------
(***************************************************************************)
(* Proofs about Boot: for every kernel image, every machine and every set  *)
(* of programs that BootAssumption admits, the free list stays clear of    *)
(* everything in use, mem_init() writes only what entry_pgdir maps, user   *)
(* mode stays out of the kernel's mappings, the first program is in memory *)
(* before it runs, and it runs on exactly the machines that can boot.      *)
(*                                                                         *)
(* BInv, the inductive invariant, says of each phase of the boot where     *)
(* boot_alloc() is, which pages the free list may hold (Usable), which     *)
(* directory entries kern_pgdir has, how many pages below 4MB the list     *)
(* still begins with, that the list, the kernel's page tables and the      *)
(* environment's pages are apart, and how much of the image is loaded.     *)
(* MInv says what the page tables hold, FInv what the list's order and     *)
(* length mean for the checks still to come.                               *)
(***************************************************************************)
EXTENDS Boot, FiniteSetTheorems, SequenceTheorems, TLAPS

-----------------------------------------------------------------------------
(* The invariant.                                                          *)

BootSteps == {"detect", "kern_pgdir", "pages", "envs"}
Late      == {"check_page", "map", "check_kern_pgdir", "lcr3", "check_installed",
              "lapic_init", "env_create", "load", "region_alloc", "run"}
Loading   == {"load", "region_alloc", "run"}

(* What a directory entry holds: its page table is below 4MB.              *)
Perms   == {"P", "W", "U", "PCD", "PWT"}
Entries == [table : {p \in Nat : p < NPTENTRIES}, perm : SUBSET Perms]

(* The directory entries that mem_init() and lapic_init() may fill.        *)
Dirs == {0} \cup (PDX(UENVS) .. NPTENTRIES - 1)

(* What page_init() leaves to the free list on a machine with all of its   *)
(* base memory.                                                            *)
Spare(nf, total) == {p \in Nat : 1 <= p /\ p < total /\ p # MPENTRY_PADDR /\ (p < 160 \/ nf <= p)}
Usable == Spare(nextfree, npages)

TypeFacts ==
    /\ machine \in Machines
    /\ pc \in BootSteps \cup {"page_init", "check_low", "panic"} \cup Late
    /\ done \in Nat /\ npages_basemem \in Nat /\ npages \in Nat /\ nextfree \in Nat
    /\ highest \in Nat /\ highest < NPTENTRIES

Sizes ==
    pc \notin {"detect", "panic"} => 16 <= npages_basemem /\ npages_basemem <= 160 /\ 16 <= npages /\ npages <= 16639

Allocated ==
    /\ pc \in {"detect", "kern_pgdir"} => nextfree = end
    /\ pc = "pages" => nextfree = pages
    /\ pc = "envs" => nextfree = envs
    /\ pc \in {"page_init", "check_low"} \cup Late => nextfree = envs + 31

(* The free list as page_init() leaves it.                                 *)
FirstList ==
    Pushed(npages_basemem + (nextfree - 160), npages - 1)
    \o Pushed(8, npages_basemem - 1) \o Pushed(1, 6)

DirectoryFacts ==
    /\ pc \notin Late \cup {"panic"} => mmio = MMIOBASE
    /\ pc = "check_page" => mmio = MMIOBASE
    /\ pc \in Late \ ({"check_page", "env_create"} \cup Loading) => mmio = MMIOBASE + 3
    /\ pc \notin {"detect", "kern_pgdir", "panic"} =>
         /\ kern_pgdir \in [DOMAIN kern_pgdir -> Entries]
         /\ DOMAIN kern_pgdir \subseteq Dirs
         /\ PDX(UVPT) \in DOMAIN kern_pgdir
         /\ pc \notin Late \/ pc = "check_page" => DOMAIN kern_pgdir = {PDX(UVPT)}
         /\ pc \in Late \ {"check_page"} => PDX(MMIOBASE) \in DOMAIN kern_pgdir

(* The list begins with enough pages below 4MB.                            *)
LowFirst(n) == \A i \in 1 .. n : i \in 1 .. Len(free) /\ free[i] < NPTENTRIES

Stock ==
    /\ pc = "check_page" => LowFirst(158)
    /\ pc = "map" => LowFirst(159 - Cardinality(DOMAIN kern_pgdir))
    /\ pc \in Late \ ({"check_page", "map"} \cup Loading) => LowFirst(80)

Linked == DOMAIN kern_pgdir \ {PDX(UVPT)}
Tables == {kern_pgdir[d].table : d \in Linked}
UserTables == {env.tables[d] : d \in DOMAIN env.tables}
UserPages  == {env.pages[v] : v \in DOMAIN env.pages}
UserDir    == {env.pgdir} \ {0}
List == {free[i] : i \in 1 .. Len(free)}

(* Lists without repetition.                                               *)
Distinct(s) == \A i, j \in 1 .. Len(s) : s[i] = s[j] => i = j

KernelApart ==
    /\ free \in Seq(Usable)
    /\ Distinct(free)
    /\ Tables \subseteq Usable
    /\ \A d, e \in Linked : kern_pgdir[d].table = kern_pgdir[e].table => d = e
    /\ List \cap Tables = {}

EnvApart ==
    /\ env = [pgdir |-> env.pgdir, tables |-> env.tables, pages |-> env.pages, mem |-> env.mem]
    /\ env.pgdir \in Usable
    /\ IsFiniteSet(DOMAIN env.tables) /\ env.tables \in [DOMAIN env.tables -> Usable]
    /\ IsFiniteSet(DOMAIN env.pages) /\ env.pages \in [DOMAIN env.pages -> Usable]
    /\ \A d, e \in DOMAIN env.tables : env.tables[d] = env.tables[e] => d = e
    /\ \A v, w \in DOMAIN env.pages : env.pages[v] = env.pages[w] => v = w
    /\ UserTables \cap UserPages = {} /\ env.pgdir \notin UserTables \cup UserPages
    /\ ({env.pgdir} \cup UserTables \cup UserPages) \cap (List \cup Tables) = {}

Apart ==
    /\ pc = "check_low" => free = FirstList
    /\ pc \in Late => KernelApart
    /\ pc \in Late => npages > nextfree
    /\ pc \in Loading => EnvApart
    /\ pc \notin Loading \cup {"panic"} => env = NoEnv

(* The segments that are loaded, and the pages of the one in progress.     *)
InMemory(i) ==
    \A k \in 0 .. image[i].memsz - 1 :
        /\ image[i].va + k \in DOMAIN env.mem
        /\ env.mem[image[i].va + k] = IF k < image[i].filesz THEN <<i, k>> ELSE "zero"

Mapped(v) ==
    \/ \E i \in 1 .. done : i <= Len(image) /\ image[i].load /\ v \in Touched(image[i])
    \/ pc = "region_alloc" /\ v \in Touched(ph) /\ v < next_va

Progress ==
    /\ pc \in Loading => image \in Images
    /\ pc \in {"load", "region_alloc"} =>
         /\ done <= Len(image)
         /\ \A v \in DOMAIN env.pages : Mapped(v)
         /\ \A i \in 1 .. done : image[i].load => InMemory(i)
    /\ pc = "region_alloc" =>
         /\ ph.load
         /\ next_va \in Nat
         /\ done = Len(image) /\ next_va > USTACKTOP - 1 =>
              USTACKTOP - 1 \in DOMAIN env.pages \/ free = <<>>
         /\ next_va >= ph.va \div 2
    /\ pc = "run" => ImageLoaded

BInv == TypeFacts /\ Sizes /\ Allocated /\ DirectoryFacts /\ Stock /\ Apart /\ Progress

-----------------------------------------------------------------------------
(* Numbers and sequences.                                                  *)

LEMMA Layout ==
    /\ NPTENTRIES = 1024 /\ PGSIZE = 4096
    /\ KERNBASE = 983040 /\ MMIOLIM = 982016 /\ MMIOBASE = 980992
    /\ UVPT = 979968 /\ UPAGES = 978944 /\ UENVS = 977920 /\ USTACKTOP = 977918
    /\ PDX(UVPT) = 957 /\ PDX(MMIOBASE) = 958 /\ PDX(MMIOBASE + 3) = 958 /\ PDX(UENVS) = 955
    /\ PDX(KERNBASE) = 960
    /\ \A d : d \in Dirs <=> d = 0 \/ (d \in Nat /\ 955 <= d /\ d <= 1023)
<1>1. /\ NPTENTRIES = 1024 /\ PGSIZE = 4096
      /\ KERNBASE = 983040 /\ MMIOLIM = 982016 /\ MMIOBASE = 980992
      /\ UVPT = 979968 /\ UPAGES = 978944 /\ UENVS = 977920 /\ USTACKTOP = 977918
  BY DEF NPTENTRIES, PGSIZE, KERNBASE, KSTACKTOP, MMIOLIM, MMIOBASE, UVPT, UPAGES, UENVS, UTOP, USTACKTOP
<1> QED BY <1>1 DEF PDX, Dirs

(* Where boot_alloc() puts the arrays.                                     *)
LEMMA Arrays ==
    ASSUME npages \in Nat, 16 <= npages, npages <= 16639
    PROVE  /\ Pages(npages * SizeofPageInfo) \in 1 .. 33 /\ Pages(SizeofEnvs) = 31
           /\ pages = end + 1 /\ 257 <= pages /\ pages <= 901 /\ pages \in Nat
           /\ envs = pages + Pages(npages * SizeofPageInfo) /\ 258 <= envs /\ envs <= 934 /\ envs \in Nat
<1>1. Pages(npages * SizeofPageInfo) \in 1 .. 33 /\ Pages(SizeofEnvs) = 31
  BY DEF Pages, PGSIZE, SizeofPageInfo, SizeofEnvs
<1>2. end \in Nat /\ 256 <= end /\ end <= 900
  BY BootAssumption DEF KernelFits, EXTPHYSMEM
<1> DEFINE n == Pages(npages * SizeofPageInfo)
<1>3. pages = end + 1 /\ envs = pages + n
  BY DEF pages, envs, directory
<1> HIDE DEF n
<1>4. n \in 1 .. 33 => 257 <= pages /\ pages <= 901 /\ pages \in Nat /\ 258 <= envs /\ envs <= 934 /\ envs \in Nat
  BY <1>2, <1>3
<1> QED BY <1>1, <1>3, <1>4 DEF n

LEMMA Pushing ==
    ASSUME NEW first \in Nat, NEW last \in Int
    PROVE  /\ Pushed(first, last) \in Seq(Nat)
           /\ Len(Pushed(first, last)) = IF first <= last THEN last - first + 1 ELSE 0
           /\ \A i \in 1 .. Len(Pushed(first, last)) : Pushed(first, last)[i] = last + 1 - i
<1> DEFINE n == IF first <= last THEN last - first + 1 ELSE 0
<1>1. n \in Nat /\ 1 .. last - first + 1 = 1 .. n
  OBVIOUS
<1>2. Pushed(first, last) = [i \in 1 .. n |-> last + 1 - i]
  BY <1>1 DEF Pushed
<1>3. \A i \in 1 .. n : last + 1 - i \in Nat
  OBVIOUS
<1>4. Pushed(first, last) \in [1 .. n -> Nat]
  BY <1>2, <1>3
<1>5. Pushed(first, last) \in Seq(Nat) /\ Len(Pushed(first, last)) = n
  BY <1>1, <1>4
<1> QED BY <1>2, <1>5

(* A list without its first n elements.                                    *)
LEMMA Dropped ==
    ASSUME NEW S, NEW s \in Seq(S), NEW n \in 0 .. Len(s)
    PROVE  /\ SubSeq(s, n + 1, Len(s)) \in Seq(S)
           /\ Len(SubSeq(s, n + 1, Len(s))) = Len(s) - n
           /\ \A i \in 1 .. Len(s) - n : SubSeq(s, n + 1, Len(s))[i] = s[n + i]
<1>1. Len(s) \in Nat /\ \A i \in n + 1 .. Len(s) : s[i] \in S
  BY LenProperties, ElementOfSeq
<1>2. /\ SubSeq(s, n + 1, Len(s)) \in Seq(S)
      /\ Len(SubSeq(s, n + 1, Len(s))) = IF n + 1 <= Len(s) THEN Len(s) - (n + 1) + 1 ELSE 0
      /\ \A i \in 1 .. Len(s) - (n + 1) + 1 : SubSeq(s, n + 1, Len(s))[i] = s[(n + 1) + i - 1]
  BY <1>1, SubSeqProperties
<1> QED BY <1>1, <1>2

(* The rank of a number in a set counts from 1, and each has its own.      *)
LEMMA Rank ==
    ASSUME NEW S \in SUBSET Nat, IsFiniteSet(S)
    PROVE  /\ \A d \in S : Cardinality({e \in S : e <= d}) \in 1 .. Cardinality(S)
           /\ \A d, f \in S : Cardinality({e \in S : e <= d}) = Cardinality({e \in S : e <= f}) => d = f
<1> DEFINE UpTo(d) == {e \in S : e <= d}
<1>1. \A d \in S : /\ IsFiniteSet(UpTo(d)) /\ Cardinality(UpTo(d)) \in Nat /\ UpTo(d) # {}
                  /\ Cardinality(UpTo(d)) <= Cardinality(S)
  BY FS_Subset, FS_CardinalityType
<1>2. \A d \in S : Cardinality(UpTo(d)) # 0
  BY <1>1, FS_EmptySet
<1>3. ASSUME NEW d \in S, NEW f \in S, d < f
      PROVE  Cardinality(UpTo(d)) # Cardinality(UpTo(f))
  <2>1. UpTo(d) \subseteq UpTo(f) /\ f \in UpTo(f) /\ f \notin UpTo(d)
    <3>1. d \in Nat /\ f \in Nat /\ \A e \in S : e \in Nat
      OBVIOUS
    <3>2. f <= f /\ ~(f <= d) /\ \A e \in S : e <= d => e <= f
      BY <3>1, <1>3
    <3> QED BY <3>2, Zenon
  <2> QED BY <2>1, <1>1, FS_Subset
<1>4. Cardinality(S) \in Nat
  BY FS_CardinalityType
<1>5. \A d, f \in S : d = f \/ d < f \/ f < d
  OBVIOUS
<1> HIDE DEF UpTo
<1>6. \A d \in S : Cardinality(UpTo(d)) \in 1 .. Cardinality(S)
  BY <1>1, <1>2, <1>4
<1>7. \A d, f \in S : Cardinality(UpTo(d)) = Cardinality(UpTo(f)) => d = f
  BY <1>3, <1>5
<1> QED BY <1>6, <1>7 DEF UpTo

(* Values where a function has one, and another's elsewhere.               *)
LEMMA OverValues ==
    ASSUME NEW f, NEW g
    PROVE  /\ DOMAIN Over(f, g) = DOMAIN f \cup DOMAIN g
           /\ \A x \in DOMAIN f : Over(f, g)[x] = f[x]
           /\ \A x \in DOMAIN g \ DOMAIN f : Over(f, g)[x] = g[x]
BY DEF Over

Added(f, x, y, g) ==
    /\ DOMAIN f = {x} \cup DOMAIN g
    /\ f[x] = y
    /\ \A z \in DOMAIN g : z # x => f[z] = g[z]

LEMMA EntryAdded ==
    ASSUME NEW x, NEW y, NEW g
    PROVE  Added(Over(Entry(x, y), g), x, y, g)
BY DEF Entry, Over, Added

Joined(t, a, b) ==
    /\ Len(t) = Len(a) + Len(b)
    /\ \A i \in 1 .. Len(a) + Len(b) : t[i] = IF i <= Len(a) THEN a[i] ELSE b[i - Len(a)]

LEMMA Joining ==
    ASSUME NEW S, NEW a \in Seq(S), NEW b \in Seq(S)
    PROVE  a \o b \in Seq(S) /\ Joined(a \o b, a, b)
BY ConcatProperties DEF Joined

LEMMA EntryTyped ==
    ASSUME NEW x, NEW T, NEW y \in T, NEW g, g \in [DOMAIN g -> T]
    PROVE  Over(Entry(x, y), g) \in [{x} \cup DOMAIN g -> T]
BY DEF Entry, Over

LEMMA Pairs ==
    ASSUME NEW a, NEW b, NEW S, a \in S, b \in S
    PROVE  /\ <<a, b>> \in Seq(S) /\ Len(<<a, b>>) = 2 /\ <<a, b>>[1] = a /\ <<a, b>>[2] = b
OBVIOUS

Pair(a, b) == {a, b}

LEMMA PairSize ==
    ASSUME NEW a, NEW b, a # b
    PROVE  IsFiniteSet(Pair(a, b)) /\ Cardinality(Pair(a, b)) = 2
<1>2. IsFiniteSet({a}) /\ Cardinality({a}) = 1
  BY FS_Singleton
<1>3. IsFiniteSet({a} \cup {b}) /\ (b \notin {a} => Cardinality({a} \cup {b}) = Cardinality({a}) + 1)
  BY <1>2, FS_AddElement
<1>4. {a} \cup {b} = Pair(a, b)
  BY DEF Pair
<1> QED BY <1>2, <1>3, <1>4

-----------------------------------------------------------------------------
(* Up to the free list.                                                    *)

USE DEF BootSteps, Late, Loading

LEMMA InitBoot == Init => BInv
<1> SUFFICES ASSUME Init PROVE BInv
  OBVIOUS
<1>1. TypeFacts
  BY BootAssumption, Layout DEF Init, TypeFacts, KernelFits, EXTPHYSMEM
<1> QED BY <1>1 DEF Init, BInv, Sizes, Allocated, DirectoryFacts, Stock, Apart, Progress

(* A panic leaves nothing to keep, but for the page it was reached by.     *)
LEMMA Panics ==
    ASSUME TypeFacts', pc' = "panic"
    PROVE  BInv'
BY DEF BInv, Sizes, Allocated, DirectoryFacts, Stock, Apart, Progress

(* Kilobytes in pages.                                                     *)
LEMMA Kilobytes ==
    ASSUME NEW kb \in Nat
    PROVE  (kb * 1024) \div PGSIZE = kb \div 4
BY DEF PGSIZE

LEMMA DetectKeeps ==
    ASSUME BInv, i386_detect_memory
    PROVE  BInv'
<1>1. machine \in Machine
  BY BootAssumption DEF BInv, TypeFacts
<1> DEFINE base == machine.base
           extmem == machine.ext \div 4
<1>2. base \in Nat /\ 64 <= base /\ base <= 640 /\ machine.ext \in Nat /\ machine.ext < 65536
  BY <1>1 DEF Machine, CMOS
<1>3. npages_basemem' = base \div 4 /\ npages' = IF extmem # 0 THEN 256 + extmem ELSE npages_basemem'
  BY <1>2, Kilobytes DEF i386_detect_memory, EXTPHYSMEM
<1> HIDE DEF base
<1>4. npages_basemem' \in Nat /\ 16 <= npages_basemem' /\ npages_basemem' <= 160
  BY <1>2, <1>3
<1>5. extmem \in Nat /\ extmem <= 16383
  BY <1>2
<1> HIDE DEF extmem
<1>6. npages' \in Nat /\ 16 <= npages' /\ npages' <= 16639
  BY <1>3, <1>4, <1>5
<1>7. /\ pc = "detect" /\ pc' = "kern_pgdir" /\ done' = 0
      /\ UNCHANGED <<machine, nextfree, memory, mmio, program>>
  BY DEF i386_detect_memory, Goto
<1>8. TypeFacts' /\ Sizes'
  BY <1>4, <1>6, <1>7 DEF BInv, TypeFacts, Sizes, memory
<1>9. Allocated' /\ DirectoryFacts' /\ Stock' /\ Apart' /\ Progress'
  BY <1>7 DEF BInv, Allocated, DirectoryFacts, Stock, Apart, Progress, memory, program
<1> QED BY <1>8, <1>9 DEF BInv

LEMMA AllocKernPgdirKeeps ==
    ASSUME BInv, AllocKernPgdir
    PROVE  BInv'
<1> USE DEF BInv, AllocKernPgdir, Goto, program
<1>1. npages \in Nat /\ 16 <= npages /\ npages <= 16639 /\ nextfree = end /\ end \in Nat /\ 256 <= end /\ end <= 900
  BY BootAssumption DEF TypeFacts, Sizes, Allocated, KernelFits, EXTPHYSMEM
<1>2. pc' = "pages" /\ done' = 0 /\ nextfree' = end + 1
  <2>1. Pages(PGSIZE) = 1 /\ ~(PGSIZE > npages * PGSIZE)
    BY <1>1 DEF PGSIZE, Pages
  <2> QED BY <1>1, <2>1 DEF boot_alloc
<1>3. highest' \in Nat /\ highest' <= 1023
  BY <1>1, Layout DEF Reach, TypeFacts
<1>4. TypeFacts' /\ Sizes' /\ Allocated'
  BY <1>1, <1>2, <1>3, Layout DEF TypeFacts, Sizes, Allocated, pages, directory
<1>5. DirectoryFacts'
  <2>1. kern_pgdir' = Entry(957, [table |-> end, perm |-> {"U", "P"}])
    BY <1>1, Layout
  <2>2. [table |-> end, perm |-> {"U", "P"}] \in Entries
    BY <1>1, Layout DEF Perms, Entries
  <2>3. DOMAIN kern_pgdir' = {957} /\ kern_pgdir' \in [{957} -> Entries]
    BY <2>1, <2>2 DEF Entry
  <2>4. PDX(UVPT) = 957 /\ 957 \in Dirs
    BY Layout
  <2>5. pc = "kern_pgdir" /\ mmio' = mmio
    OBVIOUS
  <2> QED BY <2>3, <2>4, <2>5, <1>2 DEF DirectoryFacts
<1>6. Stock' /\ Apart' /\ Progress'
  BY <1>2 DEF Stock, Apart, Progress
<1> QED BY <1>4, <1>5, <1>6

LEMMA AllocPagesKeeps ==
    ASSUME BInv, AllocPages
    PROVE  BInv'
<1> USE DEF BInv, AllocPages, Goto, program, memory
<1>1. npages \in Nat /\ 16 <= npages /\ npages <= 16639 /\ nextfree = pages
  BY DEF TypeFacts, Sizes, Allocated
<1>2. pc' = "envs" /\ done' = 0 /\ nextfree' = pages + Pages(npages * SizeofPageInfo)
  <2>1. ~(npages * SizeofPageInfo > npages * PGSIZE)
    BY <1>1 DEF PGSIZE, SizeofPageInfo
  <2> QED BY <1>1, <2>1 DEF boot_alloc
<1>3. nextfree' = envs' /\ nextfree' \in Nat
  BY <1>1, <1>2, Arrays DEF envs, pages, directory
<1>4. TypeFacts' /\ Sizes' /\ Allocated'
  BY <1>1, <1>2, <1>3 DEF TypeFacts, Sizes, Allocated
<1>5. DirectoryFacts' /\ Stock' /\ Apart' /\ Progress'
  BY <1>2 DEF DirectoryFacts, Stock, Apart, Progress
<1> QED BY <1>4, <1>5

LEMMA AllocEnvsKeeps ==
    ASSUME BInv, AllocEnvs
    PROVE  BInv'
<1> USE DEF BInv, AllocEnvs, Goto, program, memory
<1>1. npages \in Nat /\ 16 <= npages /\ npages <= 16639 /\ nextfree = envs
  BY DEF TypeFacts, Sizes, Allocated
<1>2. CASE pc' = "panic"
  <2>1. TypeFacts'
    BY <1>1, <1>2 DEF TypeFacts, boot_alloc
  <2> QED BY <2>1, <1>2, Panics
<1>3. CASE pc' # "panic"
  <2>1. pc' = "page_init" /\ done' = 0 /\ nextfree' = envs + 31
    BY <1>1, <1>3, Arrays DEF boot_alloc
  <2>2. nextfree' \in Nat /\ envs' = envs
    BY <1>1, <2>1, Arrays DEF envs, pages, directory
  <2>3. TypeFacts' /\ Sizes' /\ Allocated'
    BY <1>1, <2>1, <2>2 DEF TypeFacts, Sizes, Allocated
  <2>4. DirectoryFacts' /\ Stock' /\ Apart' /\ Progress'
    BY <2>1 DEF DirectoryFacts, Stock, Apart, Progress
  <2> QED BY <2>3, <2>4
<1> QED BY <1>2, <1>3

LEMMA PageInitKeeps ==
    ASSUME BInv, page_init
    PROVE  BInv'
<1>1. /\ npages \in Nat /\ 16 <= npages /\ npages <= 16639 /\ nextfree = envs + 31
      /\ npages_basemem \in Nat /\ 16 <= npages_basemem /\ npages_basemem <= 160
  BY DEF BInv, TypeFacts, Sizes, Allocated, page_init
<1>2. nextfree \in Nat /\ 289 <= nextfree /\ nextfree <= 965 /\ envs \in Nat /\ envs <= 934 /\ 258 <= envs
  BY <1>1, Arrays
<1>3. /\ pc = "page_init" /\ pc' = "check_low" /\ done' = 0
      /\ UNCHANGED <<machine, npages_basemem, npages, nextfree, kern_pgdir, ptes, mmio, program>>
  BY DEF page_init, Goto, program
<1>4. highest' \in Nat /\ highest' < NPTENTRIES
  <2>1. Reach({pages + Pages(npages * SizeofPageInfo) - 1})
    BY DEF page_init
  <2>2. pages + (Pages(npages * SizeofPageInfo) - 1) = envs - 1
    BY <1>1, Arrays
  <2>3. highest' = highest \/ highest' = envs - 1
    BY <2>1, <2>2 DEF Reach
  <2>4. highest \in Nat /\ highest < NPTENTRIES
    BY DEF BInv, TypeFacts
  <2> QED BY <2>3, <2>4, <1>2 DEF NPTENTRIES
<1>5. envs' = envs
  BY <1>3 DEF envs, pages, directory
<1>6. TypeFacts' /\ Sizes' /\ Allocated'
  BY <1>1, <1>2, <1>3, <1>4, <1>5 DEF BInv, TypeFacts, Sizes, Allocated
<1>7. free' = FirstList'
  <2>1. EXTPHYSMEM - IOPHYSMEM + nextfree - EXTPHYSMEM = nextfree - 160
    BY <1>2 DEF EXTPHYSMEM, IOPHYSMEM
  <2>2. free' = Pushed(npages_basemem + (nextfree - 160), npages - 1)
                \o Pushed(8, npages_basemem - 1) \o Pushed(1, 6)
    <3>1. MPENTRY_PADDR + 1 = 8 /\ MPENTRY_PADDR - 1 = 6
      BY DEF MPENTRY_PADDR
    <3> QED BY <2>1, <3>1 DEF page_init
  <2>3. FirstList' = FirstList
    BY <1>3 DEF FirstList, Pushed
  <2> QED BY <2>2, <2>3 DEF FirstList
<1>8. DirectoryFacts' /\ Stock' /\ Apart' /\ Progress'
  BY <1>3, <1>7 DEF BInv, DirectoryFacts, Stock, Apart, Progress, program
<1> QED BY <1>6, <1>8 DEF BInv

-----------------------------------------------------------------------------
(* The free list passes its checks only on a machine with 640KB.           *)

(* The list is three runs downwards: behind the kernel, and around the     *)
(* page of the AP entry code.                                              *)
High(first, total) == IF first < total THEN total - first ELSE 0

Runs(first, total, base) == Pushed(first, total - 1) \o Pushed(8, base - 1) \o Pushed(1, 6)

RunFacts(s, h, l, total) ==
    /\ s \in Seq(Nat) /\ Len(s) = h + l + 6
    /\ \A i \in 1 .. h : s[i] = total - i
    /\ \A i \in 1 .. l : s[h + i] = l + 8 - i
    /\ \A i \in 1 .. 6 : s[h + l + i] = 7 - i

LEMMA RunValues ==
    ASSUME NEW a \in Nat, NEW total \in Nat, NEW base \in Nat, 16 <= base
    PROVE  RunFacts(Runs(a, total, base), High(a, total), base - 8, total)
<1>0. PICK h \in Nat, l \in Nat : h = High(a, total) /\ l = base - 8
  <2>1. High(a, total) \in Nat /\ base - 8 \in Nat
    BY DEF High
  <2> QED BY <2>1
<1> DEFINE A == Pushed(a, total - 1)
           B == Pushed(8, base - 1)
           C == Pushed(1, 6)
           whole == Runs(a, total, base)
<1>1. a \in Nat /\ total - 1 \in Int /\ base - 1 \in Int
  OBVIOUS
<1>2. h = IF a <= total - 1 THEN (total - 1) - a + 1 ELSE 0
  BY <1>0 DEF High
<1>3. l = IF 8 <= base - 1 THEN (base - 1) - 8 + 1 ELSE 0
  BY <1>0
<1>4. whole = (A \o B) \o C
  BY DEF Runs
<1> HIDE DEF whole
<1>5. A \in Seq(Nat) /\ Len(A) = h /\ \A i \in 1 .. h : A[i] = total - i
  <2>1. PICK y \in Nat, z \in Int : y = a /\ z = total - 1
    BY <1>1
  <2>2. /\ Pushed(y, z) \in Seq(Nat) /\ Len(Pushed(y, z)) = IF y <= z THEN z - y + 1 ELSE 0
        /\ \A i \in 1 .. Len(Pushed(y, z)) : Pushed(y, z)[i] = z + 1 - i
    BY Pushing
  <2>3. A = Pushed(y, z) /\ Len(A) = h /\ \A i \in 1 .. h : z + 1 - i = total - i
    BY <1>1, <1>2, <2>1, <2>2
  <2> HIDE DEF A
  <2> QED BY <2>2, <2>3
<1>6. B \in Seq(Nat) /\ Len(B) = l /\ \A i \in 1 .. l : B[i] = base - i
  <2>1. PICK y \in Nat, z \in Int : y = 8 /\ z = base - 1
    BY <1>1
  <2>2. /\ Pushed(y, z) \in Seq(Nat) /\ Len(Pushed(y, z)) = IF y <= z THEN z - y + 1 ELSE 0
        /\ \A i \in 1 .. Len(Pushed(y, z)) : Pushed(y, z)[i] = z + 1 - i
    BY Pushing
  <2>3. B = Pushed(y, z) /\ Len(B) = l /\ \A i \in 1 .. l : z + 1 - i = base - i
    BY <1>1, <1>3, <2>1, <2>2
  <2> HIDE DEF B
  <2> QED BY <2>2, <2>3
<1>7. C \in Seq(Nat) /\ Len(C) = 6 /\ \A i \in 1 .. 6 : C[i] = 7 - i
  <2>1. PICK y \in Nat, z \in Int : y = 1 /\ z = 6
    OBVIOUS
  <2>2. /\ Pushed(y, z) \in Seq(Nat) /\ Len(Pushed(y, z)) = IF y <= z THEN z - y + 1 ELSE 0
        /\ \A i \in 1 .. Len(Pushed(y, z)) : Pushed(y, z)[i] = z + 1 - i
    BY Pushing
  <2>3. C = Pushed(y, z) /\ Len(C) = 6 /\ \A i \in 1 .. 6 : z + 1 - i = 7 - i
    BY <2>1, <2>2
  <2> HIDE DEF C
  <2> QED BY <2>2, <2>3
<1> DEFINE AB == A \o B
<1> HIDE DEF A, B, C
<1>8. /\ AB \in Seq(Nat) /\ Len(AB) = h + l
      /\ \A i \in 1 .. h + l : AB[i] = IF i <= h THEN A[i] ELSE B[i - h]
  <2>1. /\ AB \in Seq(Nat) /\ Len(AB) = Len(A) + Len(B)
        /\ \A i \in 1 .. Len(A) + Len(B) : AB[i] = IF i <= Len(A) THEN A[i] ELSE B[i - Len(A)]
    BY <1>5, <1>6, ConcatProperties
  <2> HIDE DEF AB
  <2> QED BY <2>1, <1>5, <1>6
<1>4a. whole = AB \o C
  BY <1>4
<1> HIDE DEF AB
<1>9. /\ whole \in Seq(Nat) /\ Len(whole) = h + l + 6
      /\ \A i \in 1 .. h + l + 6 : whole[i] = IF i <= h + l THEN AB[i] ELSE C[i - (h + l)]
  <2> DEFINE F == AB \o C
  <2>1. /\ F \in Seq(Nat) /\ Len(F) = Len(AB) + Len(C)
        /\ \A i \in 1 .. Len(AB) + Len(C) : F[i] = IF i <= Len(AB) THEN AB[i] ELSE C[i - Len(AB)]
    <3>1. AB \in Seq(Nat) /\ C \in Seq(Nat)
      BY <1>7, <1>8
    <3> QED BY <3>1, ConcatProperties
  <2>2. whole = F
    BY <1>4a
  <2> HIDE DEF F
  <2> QED BY <2>1, <2>2, <1>1, <1>7, <1>8
<1>10. \A i \in 1 .. h : whole[i] = total - i
  <2> SUFFICES ASSUME NEW i \in 1 .. h PROVE whole[i] = total - i
    OBVIOUS
  <2>1. i \in 1 .. h + l /\ i \in 1 .. h + l + 6 /\ i <= h /\ i <= h + l
    BY <1>1
  <2> QED BY <2>1, <1>5, <1>6, <1>8, <1>9
<1>11. \A i \in 1 .. l : whole[h + i] = l + 8 - i
  <2> SUFFICES ASSUME NEW i \in 1 .. l PROVE whole[h + i] = l + 8 - i
    OBVIOUS
  <2>1. h + i \in 1 .. h + l /\ h + i \in 1 .. h + l + 6 /\ ~(h + i <= h) /\ h + i <= h + l /\ (h + i) - h = i
         /\ base - i = l + 8 - i
    BY <1>0, <1>1
  <2> QED BY <2>1, <1>5, <1>6, <1>8, <1>9
<1>12. \A i \in 1 .. 6 : whole[h + l + i] = 7 - i
  <2> SUFFICES ASSUME NEW i \in 1 .. 6 PROVE whole[h + l + i] = 7 - i
    OBVIOUS
  <2>1. h + l + i \in 1 .. h + l + 6 /\ ~(h + l + i <= h + l) /\ (h + l + i) - (h + l) = i
    BY <1>1
  <2> QED BY <2>1, <1>7, <1>9
<1> QED BY <1>0, <1>9, <1>10, <1>11, <1>12 DEF whole, RunFacts

RunCase(s, k, h, l, total) ==
    \/ k <= h /\ s[k] = total - k
    \/ \E j \in 1 .. l : k = h + j /\ s[k] = l + 8 - j
    \/ \E j \in 1 .. 6 : k = h + l + j /\ s[k] = 7 - j

LEMMA RunCases ==
    ASSUME NEW h \in Nat, NEW l \in Nat, NEW total \in Nat, NEW s, RunFacts(s, h, l, total),
           NEW k \in 1 .. Len(s)
    PROVE  RunCase(s, k, h, l, total)
<1>1. /\ Len(s) = h + l + 6
      /\ \A i \in 1 .. h : s[i] = total - i
      /\ \A i \in 1 .. l : s[h + i] = l + 8 - i
      /\ \A i \in 1 .. 6 : s[h + l + i] = 7 - i
  BY DEF RunFacts
<1>5. k \in 1 .. h + l + 6
  BY <1>1
<1>2. CASE k <= h
  BY <1>1, <1>2, <1>5 DEF RunCase
<1>3. CASE h < k /\ k <= h + l
  <2>1. PICK j \in 1 .. l : k = h + j
    <3>1. k - h \in 1 .. l /\ k = h + (k - h)
      BY <1>3, <1>5
    <3> QED BY <3>1
  <2>2. s[k] = l + 8 - j
    BY <2>1, <1>1
  <2> QED BY <2>1, <2>2 DEF RunCase
<1>4. CASE h + l < k
  <2>1. PICK j \in 1 .. 6 : k = h + l + j
    <3>1. k - (h + l) \in 1 .. 6 /\ k = h + l + (k - (h + l))
      BY <1>4, <1>5
    <3> QED BY <3>1
  <2>2. s[k] = 7 - j
    BY <2>1, <1>1
  <2> QED BY <2>1, <2>2 DEF RunCase
<1> QED BY <1>2, <1>3, <1>4, <1>5

(* When the holes count from less than 640KB, a page of the kernel is on   *)
(* the list, or no page above 1MB is, and an assertion of                  *)
(* check_page_free_list() fails.                                           *)
AvoidsKernel(s, nf) == \A i \in 1 .. Len(s) : ~(256 <= s[i] /\ s[i] < nf)

LEMMA SixForty ==
    ASSUME NEW nf \in Nat, 289 <= nf, NEW total \in Nat, NEW base \in Nat, 16 <= base, base <= 160,
           NEW a \in Nat, a = base + (nf - 160),
           NEW s, s = Runs(a, total, base), AvoidsKernel(s, nf),
           NEW k \in 1 .. Len(s), 256 <= s[k]
    PROVE  base = 160 /\ nf < total
<1>1. PICK h \in Nat, l \in Nat : h = High(a, total) /\ l = base - 8
  <2>1. High(a, total) \in Nat /\ base - 8 \in Nat
    BY DEF High
  <2> QED BY <2>1
<1>2. RunFacts(s, h, l, total)
  BY <1>1, RunValues
<1>3. k <= h /\ 256 <= total - k
  <2>1. RunCase(s, k, h, l, total)
    BY <1>2, RunCases
  <2>2. (\A j \in 1 .. l : l + 8 - j < 256) /\ \A j \in 1 .. 6 : 7 - j < 256
    BY <1>1
  <2> QED BY <2>1, <2>2 DEF RunCase
<1>4. k \in Nat /\ 1 <= k
  <2>1. s \in Seq(Nat)
    BY <1>2 DEF RunFacts
  <2> QED BY <2>1
<1>5. a < total /\ h = total - a /\ 256 <= total - 1
  BY <1>1, <1>3, <1>4 DEF High
<1>6. ASSUME base < 160
      PROVE  FALSE
  <2>1. PICK q \in Nat : q = IF a < 256 THEN 256 ELSE a
    OBVIOUS
  <2>2. 256 <= q /\ q < nf /\ a <= q /\ q <= total - 1
    BY <2>1, <1>5, <1>6
  <2>3. PICK i \in Nat : i = total - q
    BY <2>2
  <2>4. i \in 1 .. h /\ i \in 1 .. h + l + 6 /\ total - i = q
    BY <2>2, <2>3, <1>5
  <2>5. Len(s) = h + l + 6 /\ \A m \in 1 .. h : s[m] = total - m
    BY <1>2 DEF RunFacts
  <2>6. i \in 1 .. Len(s) /\ s[i] = q
    BY <2>4, <2>5
  <2> QED BY <2>2, <2>6 DEF AvoidsKernel
<1> QED BY <1>5, <1>6

(* Moving the first n elements of a list behind the others.                *)
Rotated(s, n) == SubSeq(s, n + 1, Len(s)) \o SubSeq(s, 1, n)

LEMMA RotatedValues ==
    ASSUME NEW S, NEW s \in Seq(S), NEW n \in Nat, n <= Len(s)
    PROVE  /\ Rotated(s, n) \in Seq(S) /\ Len(Rotated(s, n)) = Len(s)
           /\ \A i \in 1 .. Len(s) : i <= Len(s) - n => Rotated(s, n)[i] = s[n + i]
           /\ \A i \in 1 .. Len(s) : Len(s) - n < i => Rotated(s, n)[i] = s[i - (Len(s) - n)]
<1>0. PICK z \in Nat : z = Len(s)
  BY LenProperties
<1> DEFINE A == SubSeq(s, n + 1, Len(s))
           B == SubSeq(s, 1, n)
           t == Rotated(s, n)
<1>1. A \in Seq(S) /\ Len(A) = z - n /\ \A i \in 1 .. z - n : A[i] = s[n + i]
  <2>1. n \in 0 .. Len(s)
    BY <1>0
  <2> QED BY <2>1, <1>0, Dropped
<1>2. B \in Seq(S) /\ Len(B) = n /\ \A i \in 1 .. n : B[i] = s[i]
  <2>1. \A i \in 1 .. n : s[i] \in S
    BY <1>0, ElementOfSeq
  <2>2. /\ B \in Seq(S) /\ Len(B) = (IF 1 <= n THEN n - 1 + 1 ELSE 0)
        /\ \A i \in 1 .. n - 1 + 1 : B[i] = s[1 + i - 1]
    BY <2>1, SubSeqProperties
  <2> HIDE DEF B
  <2> QED BY <2>2
<1>3. t = A \o B
  BY DEF Rotated
<1> HIDE DEF A, B, t
<1>4. /\ t \in Seq(S) /\ Len(t) = Len(A) + Len(B)
      /\ \A i \in 1 .. Len(A) + Len(B) : t[i] = IF i <= Len(A) THEN A[i] ELSE B[i - Len(A)]
  BY <1>1, <1>2, <1>3, ConcatProperties
<1>5. /\ Len(t) = z
      /\ \A i \in 1 .. z : t[i] = IF i <= z - n THEN A[i] ELSE B[i - (z - n)]
  BY <1>1, <1>2, <1>4
<1>6. ASSUME NEW i \in 1 .. z, i <= z - n PROVE t[i] = s[n + i]
  <2>1. i \in 1 .. z - n
    BY <1>6
  <2> QED BY <2>1, <1>1, <1>5, <1>6
<1>7. ASSUME NEW i \in 1 .. z, z - n < i PROVE t[i] = s[i - (z - n)]
  <2>1. i - (z - n) \in 1 .. n /\ ~(i <= z - n)
    BY <1>7
  <2> QED BY <2>1, <1>2, <1>5
<1> QED BY <1>0, <1>4, <1>5, <1>6, <1>7 DEF t

LEMMA Rotation ==
    ASSUME NEW S, NEW s \in Seq(S), NEW n \in Nat, n <= Len(s), Distinct(s)
    PROVE  Distinct(Rotated(s, n))
<1>0. PICK z \in Nat : z = Len(s) /\ n <= z
  BY LenProperties
<1> DEFINE t == Rotated(s, n)
<1>1. /\ Len(t) = z
      /\ \A i \in 1 .. z : i <= z - n => t[i] = s[n + i]
      /\ \A i \in 1 .. z : z - n < i => t[i] = s[i - (z - n)]
  BY <1>0, RotatedValues
<1> HIDE DEF t
<1> SUFFICES ASSUME NEW i \in 1 .. z, NEW j \in 1 .. z, t[i] = t[j]
             PROVE  i = j
  BY <1>1 DEF t, Distinct
<1>2. PICK v \in 1 .. z : t[i] = s[v] /\ v = IF i <= z - n THEN n + i ELSE i - (z - n)
  <2>1. CASE i <= z - n
    <3>1. n + i \in 1 .. z
      BY <1>0, <2>1
    <3> QED BY <2>1, <3>1, <1>1
  <2>2. CASE z - n < i
    <3>1. i - (z - n) \in 1 .. z /\ ~(i <= z - n)
      BY <1>0, <2>2
    <3> QED BY <2>2, <3>1, <1>1
  <2> QED BY <2>1, <2>2
<1>3. PICK w \in 1 .. z : t[j] = s[w] /\ w = IF j <= z - n THEN n + j ELSE j - (z - n)
  <2>1. CASE j <= z - n
    <3>1. n + j \in 1 .. z
      BY <1>0, <2>1
    <3> QED BY <2>1, <3>1, <1>1
  <2>2. CASE z - n < j
    <3>1. j - (z - n) \in 1 .. z /\ ~(j <= z - n)
      BY <1>0, <2>2
    <3> QED BY <2>2, <3>1, <1>1
  <2> QED BY <2>1, <2>2
<1>4. v = w
  BY <1>2, <1>3, <1>0 DEF Distinct
<1> QED BY <1>0, <1>2, <1>3, <1>4
(* On a machine with 640KB the list has the pages it should, each once,    *)
(* those above 4MB first.                                                  *)
Above(total) == IF 1024 < total THEN total - 1024 ELSE 0

LEMMA FirstPages ==
    ASSUME NEW nf \in Nat, 289 <= nf, nf <= 965, NEW total \in Nat, nf < total,
           NEW s, s = Runs(nf, total, 160)
    PROVE  /\ s \in Seq(Spare(nf, total)) /\ Distinct(s)
           /\ Above(total) \in Nat /\ Above(total) + 158 <= Len(s)
           /\ \A i \in 1 .. Len(s) : s[i] < NPTENTRIES <=> Above(total) < i
<1>1. PICK h \in Nat, l \in Nat, n \in Nat : h = High(nf, total) /\ l = 152 /\ n = Above(total)
  <2>1. High(nf, total) \in Nat /\ Above(total) \in Nat
    BY DEF High, Above
  <2> QED BY <2>1
<1>2. RunFacts(s, h, l, total)
  <2>1. PICK b \in Nat : b = 160
    OBVIOUS
  <2>2. RunFacts(Runs(nf, total, b), High(nf, total), b - 8, total)
    BY <2>1, RunValues
  <2>3. b - 8 = l
    BY <2>1, <1>1
  <2> QED BY <2>1, <2>2, <2>3, <1>1
<1>3. h = total - nf /\ n <= h /\ (total <= 1024 => n = 0) /\ (1024 < total => n = total - 1024)
  BY <1>1 DEF High, Above
<1>4. s \in Seq(Nat) /\ Len(s) = h + l + 6
  BY <1>2 DEF RunFacts
<1> DEFINE Placed(k) ==
             /\ k <= h => s[k] = total - k /\ 160 <= s[k]
             /\ h < k /\ k <= h + l => s[k] = h + 160 - k /\ 8 <= s[k] /\ s[k] < 160
             /\ h + l < k => s[k] = h + l + 7 - k /\ s[k] < 8
<1>5. ASSUME NEW k \in 1 .. Len(s)
      PROVE  /\ s[k] \in Spare(nf, total)
             /\ s[k] < NPTENTRIES <=> n < k
             /\ Placed(k)
  <2>1. RunCase(s, k, h, l, total)
    BY <1>2, RunCases
  <2>2. NPTENTRIES = 1024 /\ MPENTRY_PADDR = 7 /\ k \in Nat /\ 1 <= k /\ k <= h + l + 6
    BY <1>4 DEF NPTENTRIES, MPENTRY_PADDR
  <2>3. CASE k <= h /\ s[k] = total - k
    <3>1. s[k] \in Nat /\ nf <= s[k] /\ s[k] < total /\ s[k] # 7
      BY <2>2, <2>3, <1>3
    <3>2. s[k] < 1024 <=> n < k
      BY <2>2, <2>3, <1>3
    <3> QED BY <2>2, <2>3, <3>1, <3>2 DEF Spare
  <2>4. CASE \E j \in 1 .. l : k = h + j /\ s[k] = l + 8 - j
    <3>1. PICK j \in 1 .. l : k = h + j /\ s[k] = l + 8 - j
      BY <2>4
    <3>0. j \in Nat /\ 1 <= j /\ j <= 152 /\ l + 8 - j = 160 - j /\ h + 160 - k = 160 - j
      BY <3>1, <1>1, SMTT(30)
    <3>2. s[k] = h + 160 - k /\ s[k] \in Nat /\ 8 <= s[k] /\ s[k] < 160 /\ s[k] < total /\ s[k] # 7
      BY <3>0, <3>1
    <3>3. n < k /\ h < k /\ k <= h + l
      BY <3>1, <1>3
    <3> QED BY <2>2, <3>2, <3>3 DEF Spare
  <2>5. CASE \E j \in 1 .. 6 : k = h + l + j /\ s[k] = 7 - j
    <3>1. PICK j \in 1 .. 6 : k = h + l + j /\ s[k] = 7 - j
      BY <2>5
    <3>0. h + l + 7 - k = 7 - j /\ 7 - j \in Nat /\ 1 <= 7 - j /\ 7 - j < 7 /\ 7 < total
      BY <3>1, <1>1, SMTT(30)
    <3>2. s[k] = h + l + 7 - k /\ s[k] \in Nat /\ 1 <= s[k] /\ s[k] < 7 /\ s[k] < total
      BY <3>0, <3>1
    <3>3. n < k /\ h + l < k
      BY <3>1, <1>3
    <3> QED BY <2>2, <3>2, <3>3 DEF Spare
  <2> QED BY <2>1, <2>3, <2>4, <2>5 DEF RunCase
<1>6. s \in Seq(Spare(nf, total))
  <2>1. \A k \in 1 .. Len(s) : s[k] \in Spare(nf, total)
    BY <1>5
  <2> QED BY <2>1, <1>4, SMTT(30)
<1>7. Distinct(s)
  <2> SUFFICES ASSUME NEW i \in 1 .. Len(s), NEW j \in 1 .. Len(s), s[i] = s[j] PROVE i = j
    BY DEF Distinct
  <2>1. i \in Nat /\ j \in Nat
    BY <1>4
  <2>2. Placed(i) /\ Placed(j)
    <3> HIDE DEF Placed
    <3> QED BY <1>5
  <2>3. PICK v \in Nat : v = s[i] /\ v = s[j]
    BY <1>4
  <2>4. CASE i <= h
    BY <2>1, <2>2, <2>3, <2>4
  <2>5. CASE h < i /\ i <= h + l
    BY <2>1, <2>2, <2>3, <2>5
  <2>6. CASE h + l < i
    BY <2>1, <2>2, <2>3, <2>6
  <2> QED BY <2>1, <2>4, <2>5, <2>6
<1>8. n + 158 <= Len(s)
  BY <1>1, <1>3, <1>4
<1> QED BY <1>1, <1>5, <1>6, <1>7, <1>8
LEMMA CheckListKeeps ==
    ASSUME BInv, check_page_free_list
    PROVE  BInv'
<1>1. /\ npages \in Nat /\ 16 <= npages /\ npages <= 16639 /\ nextfree = envs + 31
      /\ npages_basemem \in Nat /\ 16 <= npages_basemem /\ npages_basemem <= 160
      /\ highest \in Nat /\ highest < NPTENTRIES
  BY DEF BInv, TypeFacts, Sizes, Allocated, check_page_free_list
<1>2. nextfree \in Nat /\ 289 <= nextfree /\ nextfree <= 965
  BY <1>1, Arrays
<1>3. /\ pc = "check_low" /\ done' = 0
      /\ pc' = (IF FreeListFine THEN "check_page" ELSE "panic")
      /\ UNCHANGED <<machine, npages_basemem, npages, nextfree, kern_pgdir, ptes, mmio, program>>
      /\ Reach({p \in ToSet(free) : Low(p)})
  BY DEF check_page_free_list, Goto, program
<1>4. PICK a \in Nat : a = npages_basemem + (nextfree - 160)
  BY <1>1, <1>2
<1>5. free = Runs(a, npages, npages_basemem)
  BY <1>3, <1>4 DEF BInv, Apart, FirstList, Runs
<1>6. free \in Seq(Nat)
  <2>1. RunFacts(Runs(a, npages, npages_basemem), High(a, npages), npages_basemem - 8, npages)
    BY <1>1, RunValues
  <2> QED BY <2>1, <1>5 DEF RunFacts
<1>7. highest' \in Nat /\ highest' < NPTENTRIES
  <2>1. \A p \in ToSet(free) : p \in Nat
    BY <1>6 DEF ToSet
  <2>2. \A p \in Nat : Low(p) => p < NPTENTRIES
    BY DEF Low, PDX, NPTENTRIES
  <2> QED BY <2>1, <2>2, <1>1, <1>3 DEF Reach
<1>8. TypeFacts' /\ Sizes' /\ Allocated'
  <2>1. envs' = envs
    BY <1>3 DEF envs, pages, directory
  <2> QED BY <2>1, <1>1, <1>2, <1>3, <1>7 DEF BInv, TypeFacts, Sizes, Allocated
<1>9. CASE ~FreeListFine
  BY <1>3, <1>8, <1>9, Panics
<1>10. CASE FreeListFine
  <2>1. npages_basemem = 160 /\ nextfree < npages
    <3>1. AvoidsKernel(free, nextfree)
      <4>1. \A i \in 1 .. Len(free) : free[i] \notin EXTPHYSMEM .. nextfree - 1
        BY <1>10, <1>6 DEF FreeListFine, Unusable
      <4>2. \A p \in Nat : 256 <= p /\ p < nextfree => p \in EXTPHYSMEM .. nextfree - 1
        BY <1>2 DEF EXTPHYSMEM
      <4> QED BY <4>1, <4>2, <1>6, ElementOfSeq DEF AvoidsKernel
    <3>2. PICK k \in 1 .. Len(free) : 256 <= free[k]
      <4>1. PICK i \in DOMAIN free : free[i] >= EXTPHYSMEM
        BY <1>10 DEF FreeListFine
      <4>2. free[i] \in Nat /\ i \in 1 .. Len(free)
        BY <1>6, <4>1
      <4>3. 256 <= free[i]
        BY <4>1, <4>2 DEF EXTPHYSMEM
      <4> QED BY <4>2, <4>3
    <3> QED BY <1>1, <1>2, <1>4, <1>5, <3>1, <3>2, SixForty, SMTT(30)
  <2>2. free = Runs(nextfree, npages, 160)
    <3>1. a = nextfree
      BY <1>2, <1>4, <2>1
    <3> QED BY <3>1, <2>1, <1>5
  <2> DEFINE n == Above(npages)
  <2>3. /\ free \in Seq(Usable) /\ Distinct(free) /\ n \in Nat /\ n + 158 <= Len(free)
        /\ \A i \in 1 .. Len(free) : free[i] < NPTENTRIES <=> n < i
    BY <1>1, <1>2, <2>1, <2>2, FirstPages, SMTT(30) DEF Usable
  <2>4. free' = Rotated(free, n)
    <3>1. \A i \in 1 .. Len(free) : Low(free[i]) <=> free[i] < NPTENTRIES
      <4>1. \A p \in Nat : Low(p) <=> p < NPTENTRIES
        BY DEF Low, PDX, NPTENTRIES
      <4> QED BY <4>1, <1>6, ElementOfSeq
    <3>2. Len(free) \in Nat /\ DOMAIN free = 1 .. Len(free)
      BY <1>6
    <3> HIDE DEF n
    <3>3. {i \in DOMAIN free : ~Low(free[i])} = 1 .. n
      BY <3>1, <3>2, <2>3
    <3>4. Cardinality(1 .. n) = n
      BY <2>3, FS_Interval
    <3> QED BY <3>3, <3>4 DEF check_page_free_list, Rotated
  <2> HIDE DEF n
  <2>5. PICK z \in Nat : z = Len(free) /\ n + 158 <= z
    BY <2>3, LenProperties
  <2>6. /\ free' \in Seq(Usable) /\ Len(free') = z
        /\ \A i \in 1 .. z : i <= z - n => free'[i] = free[n + i]
    <3>1. n <= Len(free)
      BY <2>3, <2>5
    <3> QED BY <3>1, <2>3, <2>4, <2>5, RotatedValues
  <2>7. Distinct(free)'
    <3>1. n <= Len(free)
      BY <2>3, <2>5
    <3>2. Distinct(Rotated(free, n))
      BY <3>1, <2>3, Rotation
    <3> QED BY <3>2, <2>4 DEF Distinct
  <2>8. LowFirst(158)'
    <3> SUFFICES ASSUME NEW i \in 1 .. 158 PROVE i \in 1 .. z /\ free'[i] < NPTENTRIES
      BY <2>6 DEF LowFirst
    <3>1. i \in 1 .. z /\ i <= z - n /\ n + i \in 1 .. z /\ n < n + i
      BY <2>3, <2>5
    <3>2. free'[i] = free[n + i]
      BY <3>1, <2>6
    <3> QED BY <3>1, <3>2, <2>3, <2>5
  <2>9. pc' = "check_page"
    BY <1>3, <1>10
  <2>10. DirectoryFacts' /\ Progress'
    BY <1>3, <2>9 DEF BInv, DirectoryFacts, Progress, program
  <2>11. Linked' = {} /\ Tables' = {}
    BY <1>3, <2>9, <2>10 DEF DirectoryFacts, Linked, Tables
  <2>12. Usable' = Usable
    BY <1>3 DEF Usable
  <2>13. KernelApart'
    BY <2>6, <2>7, <2>11, <2>12 DEF KernelApart
  <2>14. Stock'
    BY <2>8, <2>9 DEF Stock
  <2>15. Apart'
    <3>1. env' = env /\ env = NoEnv /\ npages' > nextfree'
      BY <1>1, <1>2, <1>3, <2>1 DEF BInv, Apart, program
    <3> QED BY <3>1, <2>9, <2>13 DEF Apart, NoEnv
  <2> QED BY <1>8, <2>10, <2>14, <2>15 DEF BInv
<1> QED BY <1>9, <1>10
(* A list whose elements are elements of another, no place taken twice.    *)
Picks(t, s, q) ==
    /\ \A i \in 1 .. Len(t) : q[i] \in 1 .. Len(s) /\ t[i] = s[q[i]]
    /\ \A i, j \in 1 .. Len(t) : q[i] = q[j] => i = j

LEMMA Chosen ==
    ASSUME NEW s, Distinct(s), NEW q, NEW t, Picks(t, s, q)
    PROVE  Distinct(t)
<1> SUFFICES ASSUME NEW i \in 1 .. Len(t), NEW j \in 1 .. Len(t), t[i] = t[j] PROVE i = j
  BY DEF Distinct
<1>1. q[i] \in 1 .. Len(s) /\ q[j] \in 1 .. Len(s) /\ s[q[i]] = s[q[j]]
  BY DEF Picks
<1>2. q[i] = q[j]
  BY <1>1 DEF Distinct
<1> QED BY <1>2 DEF Picks

(* What follows the three pages that a check takes from the list.          *)
Replaced(h, s) == h \o SubSeq(s, 4, Len(s))

Long(s) == 3 <= Len(s)

ReplacedFacts(t, h, s, S) ==
    /\ t \in Seq(S) /\ Len(t) = Len(h) + (Len(s) - 3)
    /\ \A i \in 1 .. Len(h) : t[i] = h[i]
    /\ \A i \in 1 .. Len(s) : 3 < i => t[Len(h) + (i - 3)] = s[i]

LEMMA ReplacedValues ==
    ASSUME NEW S, NEW s \in Seq(S), NEW h \in Seq(S), Long(s)
    PROVE  ReplacedFacts(Replaced(h, s), h, s, S)
<1>1. PICK z \in Nat, k \in Nat : z = Len(s) /\ k = Len(h) /\ 3 <= z
  BY LenProperties DEF Long
<1> DEFINE A == SubSeq(s, 4, Len(s))
           t == Replaced(h, s)
<1>2. A \in Seq(S) /\ Len(A) = z - 3 /\ \A i \in 1 .. z - 3 : A[i] = s[3 + i]
  <2>1. PICK n \in 0 .. Len(s) : n = 3
    BY <1>1
  <2>2. /\ SubSeq(s, n + 1, Len(s)) \in Seq(S) /\ Len(SubSeq(s, n + 1, Len(s))) = Len(s) - n
        /\ \A i \in 1 .. Len(s) - n : SubSeq(s, n + 1, Len(s))[i] = s[n + i]
    BY Dropped
  <2>3. n + 1 = 4
    BY <2>1
  <2> QED BY <2>1, <2>2, <2>3, <1>1
<1>3. t = h \o A
  BY DEF Replaced
<1> HIDE DEF A, t
<1>4. /\ t \in Seq(S) /\ Len(t) = k + (z - 3)
      /\ \A i \in 1 .. k + (z - 3) : t[i] = IF i <= k THEN h[i] ELSE A[i - k]
  <2>1. t \in Seq(S) /\ Joined(t, h, A)
    BY <1>2, <1>3, Joining
  <2> QED BY <2>1, <1>1, <1>2 DEF Joined
<1>5. \A i \in 1 .. k : t[i] = h[i]
  BY <1>1, <1>4
<1>6. ASSUME NEW i \in 1 .. z, 3 < i PROVE t[k + (i - 3)] = s[i]
  <2>1. k + (i - 3) \in 1 .. k + (z - 3) /\ ~(k + (i - 3) <= k) /\ (k + (i - 3)) - k = i - 3
    BY <1>1, <1>6
  <2>2. i - 3 \in 1 .. z - 3 /\ 3 + (i - 3) = i
    BY <1>1, <1>6
  <2> QED BY <2>1, <2>2, <1>2, <1>4
<1> QED BY <1>1, <1>4, <1>5, <1>6 DEF t, ReplacedFacts

LEMMA CheckPageKeeps ==
    ASSUME BInv, check_page
    PROVE  BInv'
<1>1. /\ pc = "check_page" /\ pc' = "map" /\ done' = 0
      /\ UNCHANGED <<machine, npages_basemem, npages, nextfree, ptes, program>>
      /\ mmio' = mmio + 3 /\ mmio = MMIOBASE
      /\ highest \in Nat /\ highest < NPTENTRIES
  BY DEF BInv, TypeFacts, DirectoryFacts, check_page, Goto, program
<1>2. /\ free \in Seq(Usable) /\ Distinct(free) /\ npages > nextfree
      /\ DOMAIN kern_pgdir = {957} /\ kern_pgdir \in [{957} -> Entries]
      /\ Usable \subseteq Nat
  BY <1>1, Layout DEF BInv, Apart, KernelApart, DirectoryFacts, Usable, Spare
<1>3. PICK z \in Nat : /\ z = Len(free) /\ 158 <= z
                       /\ \A i \in 1 .. z : free[i] \in Usable
                       /\ \A i \in 1 .. z : i <= 158 => free[i] < NPTENTRIES
  <2>1. \A i \in 1 .. 158 : i \in 1 .. Len(free) /\ free[i] < NPTENTRIES
    BY <1>1 DEF BInv, Stock, LowFirst
  <2>2. PICK z \in Nat : z = Len(free)
    BY <1>2, LenProperties
  <2>3. 158 \in 1 .. z
    <3>1. 158 \in 1 .. 158
      OBVIOUS
    <3> QED BY <3>1, <2>1, <2>2
  <2>4. \A i \in 1 .. z : free[i] \in Usable
    BY <2>2, <1>2, ElementOfSeq
  <2>5. 158 <= z /\ \A i \in 1 .. z : i <= 158 => i \in 1 .. 158
    BY <2>3
  <2>6. \A i \in 1 .. z : i <= 158 => free[i] < NPTENTRIES
    BY <2>1, <2>5
  <2> QED BY <2>2, <2>4, <2>5, <2>6
<1> DEFINE table == free[3]
<1>4. /\ 1 \in 1 .. z /\ 2 \in 1 .. z /\ 3 \in 1 .. z
      /\ free[1] \in Usable /\ free[2] \in Usable /\ free[3] \in Usable
      /\ free[1] < NPTENTRIES /\ free[2] < NPTENTRIES /\ free[3] < NPTENTRIES
  BY <1>3
<1>5. TypeFacts' /\ Sizes' /\ Allocated'
  <2>1. highest' \in {highest, free[1], free[2], free[3]}
    <3>1. highest' \in {highest} \cup {free[i] : i \in 1 .. 3}
      BY DEF check_page, Reach
    <3> QED BY <3>1
  <2>2. highest' \in Nat /\ highest' < NPTENTRIES
    BY <2>1, <1>1, <1>2, <1>4
  <2>3. envs' = envs
    BY <1>1 DEF envs, pages, directory
  <2> QED BY <1>1, <2>2, <2>3 DEF BInv, TypeFacts, Sizes, Allocated
<1>6. /\ DOMAIN kern_pgdir' = {957, 958} /\ kern_pgdir' \in [{957, 958} -> Entries]
      /\ kern_pgdir'[958].table = table
  <2> DEFINE ent == [table |-> table, perm |-> {"W", "PCD", "PWT", "P"}]
  <2>1. ent \in Entries /\ ent.table = table
    BY <1>2, <1>4, ZenonT(30) DEF Entries, Perms
  <2>2. PICK x : x = PDX(MMIOBASE) /\ x = 958
    BY Layout
  <2>3. kern_pgdir' = Over(Entry(x, ent), kern_pgdir)
    BY <2>2 DEF check_page
  <2> HIDE DEF ent
  <2>4. Added(kern_pgdir', x, ent, kern_pgdir)
    BY <2>3, EntryAdded
  <2>6. {x} \cup DOMAIN kern_pgdir = {957, 958} /\ 957 # x
    BY <2>2, <1>2
  <2>7. kern_pgdir' \in [{x} \cup DOMAIN kern_pgdir -> Entries]
    <3>1. kern_pgdir \in [DOMAIN kern_pgdir -> Entries]
      BY <1>2
    <3> QED BY <3>1, <2>1, <2>3, EntryTyped
  <2> QED BY <2>1, <2>2, <2>4, <2>6, <2>7 DEF Added
<1>7. free' = Replaced(<<free[2], free[1]>>, free)
  BY DEF check_page, Replaced
<1>8. PICK h \in Seq(Usable) : h = <<free[2], free[1]>> /\ Len(h) = 2 /\ h[1] = free[2] /\ h[2] = free[1]
  <2>1. /\ <<free[2], free[1]>> \in Seq(Usable) /\ Len(<<free[2], free[1]>>) = 2
        /\ <<free[2], free[1]>>[1] = free[2] /\ <<free[2], free[1]>>[2] = free[1]
    BY <1>4, Pairs
  <2> QED BY <2>1
<1>9. /\ free' \in Seq(Usable) /\ Len(free') = z - 1
      /\ free'[1] = free[2] /\ free'[2] = free[1]
      /\ \A i \in 1 .. z : 3 < i => free'[2 + (i - 3)] = free[i]
  <2>1. ReplacedFacts(Replaced(h, free), h, free, Usable)
    <3>1. Long(free)
      BY <1>3 DEF Long
    <3> QED BY <3>1, <1>2, ReplacedValues
  <2>2. 1 \in 1 .. Len(h) /\ 2 \in 1 .. Len(h) /\ Len(h) = 2 /\ 2 + (z - 3) = z - 1
    BY <1>8, <1>3
  <2>3. free' = Replaced(h, free)
    BY <1>7, <1>8
  <2>4. free' \in Seq(Usable) /\ Len(free') = z - 1
    BY <2>1, <2>2, <2>3, <1>3 DEF ReplacedFacts
  <2>5. free'[1] = free[2] /\ free'[2] = free[1]
    BY <2>1, <2>2, <2>3, <1>8 DEF ReplacedFacts
  <2>6. \A i \in 1 .. z : 3 < i => free'[2 + (i - 3)] = free[i]
    BY <2>1, <2>2, <2>3, <1>3 DEF ReplacedFacts
  <2> QED BY <2>4, <2>5, <2>6
<1> DEFINE q == [i \in 1 .. z - 1 |-> IF i = 1 THEN 2 ELSE IF i = 2 THEN 1 ELSE i + 1]
<1>10. /\ q \in [1 .. z - 1 -> 1 .. Len(free)] /\ z - 1 \in Nat
       /\ \A i, j \in 1 .. z - 1 : q[i] = q[j] => i = j
       /\ \A i \in 1 .. z - 1 : q[i] # 3 /\ (i < 158 => q[i] <= 158)
  BY <1>3
<1>11. \A i \in 1 .. z - 1 : free'[i] = free[q[i]]
  <2> SUFFICES ASSUME NEW i \in 1 .. z - 1 PROVE free'[i] = free[q[i]]
    OBVIOUS
  <2>1. CASE i = 1 \/ i = 2
    BY <2>1, <1>9
  <2>2. CASE i # 1 /\ i # 2
    <3>1. q[i] = i + 1 /\ i + 1 \in 1 .. z /\ 3 < i + 1 /\ 2 + (i + 1 - 3) = i
      BY <2>2
    <3> QED BY <3>1, <1>9
  <2> QED BY <2>1, <2>2
<1> HIDE DEF q
<1>12. Distinct(free)'
  <2>1. Picks(free', free, q)
    BY <1>9, <1>10, <1>11 DEF Picks
  <2>2. PICK t : t = free'
    OBVIOUS
  <2>3. Distinct(t)
    BY <2>1, <2>2, <1>2, Chosen
  <2> QED BY <2>2, <2>3 DEF Distinct
<1>13. Linked' = {958} /\ Tables' = {table}
  BY <1>6, Layout DEF Linked, Tables
<1>14. table \notin List'
  <2> SUFFICES ASSUME NEW i \in 1 .. z - 1, free'[i] = table PROVE FALSE
    BY <1>9 DEF List
  <2>1. q[i] \in 1 .. Len(free) /\ 3 \in 1 .. Len(free) /\ free[q[i]] = free[3]
    BY <1>3, <1>4, <1>10, <1>11
  <2> QED BY <2>1, <1>2, <1>10 DEF Distinct
<1>15. Usable' = Usable
  BY <1>1 DEF Usable
<1>16. KernelApart'
  BY <1>4, <1>9, <1>12, <1>13, <1>14, <1>15 DEF KernelApart
<1>17. Stock'
  <2>1. Cardinality(DOMAIN kern_pgdir') = 2
    <3>1. PICK x, y : x = 957 /\ y = 958
      OBVIOUS
    <3>2. x # y
      BY <3>1
    <3>3. Cardinality(Pair(x, y)) = 2
      BY <3>2, PairSize
    <3> QED BY <3>1, <3>3, <1>6 DEF Pair
  <2>2. LowFirst(157)'
    <3> SUFFICES ASSUME NEW i \in 1 .. 157 PROVE i \in 1 .. Len(free') /\ free'[i] < NPTENTRIES
      BY DEF LowFirst
    <3>1. i \in 1 .. z - 1 /\ i < 158
      BY <1>3
    <3>2. q[i] \in 1 .. z /\ q[i] <= 158
      BY <3>1, <1>3, <1>10
    <3> QED BY <3>1, <3>2, <1>3, <1>9, <1>11
  <2>3. 159 - 2 = 157
    OBVIOUS
  <2> QED BY <2>1, <2>2, <2>3, <1>1 DEF Stock
<1>18. DirectoryFacts'
  <2>1. mmio' = MMIOBASE + 3
    BY <1>1
  <2>2. 957 \in Dirs /\ 958 \in Dirs
    BY Layout
  <2> QED BY <2>1, <2>2, <1>1, <1>6, Layout DEF DirectoryFacts
<1>19. Apart' /\ Progress'
  <2>1. env' = env /\ env = NoEnv /\ npages' > nextfree'
    BY <1>1, <1>2 DEF BInv, Apart, program
  <2> QED BY <2>1, <1>1, <1>16 DEF Apart, NoEnv, Progress
<1> QED BY <1>5, <1>17, <1>18, <1>19 DEF BInv
-----------------------------------------------------------------------------
(* boot_map_region().                                                      *)

Covered(r) == PDX(r.va) .. PDX(r.va + r.n - 1)
New(r) == Covered(r) \ DOMAIN kern_pgdir

(* The directory and the list of a kernel whose mappings are being made.   *)
KernelFacts ==
    /\ kern_pgdir \in [DOMAIN kern_pgdir -> Entries]
    /\ DOMAIN kern_pgdir \subseteq Dirs
    /\ PDX(UVPT) \in DOMAIN kern_pgdir
    /\ KernelApart
    /\ highest \in Nat /\ highest < NPTENTRIES

MayMap(r, k) ==
    /\ Covered(r) \subseteq Dirs /\ IsFiniteSet(Covered(r)) /\ r.perm \subseteq Perms
    /\ LowFirst(k) /\ Cardinality(New(r)) <= k

MapDone(r, k, n) ==
    /\ KernelFacts' /\ DOMAIN kern_pgdir' = Covered(r) \cup DOMAIN kern_pgdir
    /\ n \in Nat /\ LowFirst(k - n)'

LEMMA Mapping ==
    ASSUME KernelFacts, NEW r, NEW k \in Nat, MayMap(r, k), MapRegion(r), UNCHANGED <<npages, nextfree>>,
           NEW n, n = Cardinality(New(r))
    PROVE  MapDone(r, k, n)
<1> DEFINE dirs == Covered(r)
           new  == New(r)
           rank(d) == Cardinality({e \in new : e <= d})
           old(d) == IF d \in new THEN [table |-> free[rank(d)], perm |-> {}] ELSE kern_pgdir[d]
<1>1. /\ kern_pgdir' = Over([d \in dirs |-> [old(d) EXCEPT !.perm = @ \cup r.perm]], kern_pgdir)
      /\ free' = SubSeq(free, n + 1, Len(free))
      /\ Reach({old(d).table : d \in dirs})
  BY DEF MapRegion, Covered, New
<1>2. /\ new \in SUBSET Nat /\ IsFiniteSet(new) /\ n \in Nat /\ new \subseteq dirs
      /\ new \cap DOMAIN kern_pgdir = {}
  <2>1. new \in SUBSET dirs /\ dirs \subseteq Nat /\ IsFiniteSet(dirs)
    BY Layout DEF MayMap, New
  <2>2. IsFiniteSet(new)
    BY <2>1, FS_Subset
  <2>3. n \in Nat
    BY <2>2, FS_CardinalityType
  <2> QED BY <2>1, <2>2, <2>3 DEF New
<1>3. /\ \A d \in new : rank(d) \in 1 .. n
      /\ \A d, f \in new : rank(d) = rank(f) => d = f
  <2>1. n = Cardinality(new)
    OBVIOUS
  <2> HIDE DEF new
  <2>2. /\ \A d \in new : rank(d) \in 1 .. Cardinality(new)
        /\ \A d, f \in new : rank(d) = rank(f) => d = f
    BY <1>2, Rank
  <2> QED BY <2>1, <2>2
<1>4. \A d \in new : old(d) = [table |-> free[rank(d)], perm |-> {}]
  OBVIOUS
<1>5. \A d \in dirs \ new : old(d) = kern_pgdir[d] /\ d \in DOMAIN kern_pgdir
  BY DEF New
<1>6. PICK z \in Nat : z = Len(free) /\ free \in Seq(Usable) /\ Usable \subseteq Nat
                       /\ \A i \in 1 .. z : free[i] \in Usable
  <2>1. free \in Seq(Usable) /\ Usable \subseteq Nat
    BY DEF KernelFacts, KernelApart, Usable, Spare
  <2>2. Len(free) \in Nat /\ \A i \in 1 .. Len(free) : free[i] \in Usable
    BY <2>1, LenProperties, ElementOfSeq
  <2> QED BY <2>1, <2>2
<1>7. n <= k /\ \A i \in 1 .. k : i \in 1 .. z /\ free[i] < NPTENTRIES
  BY <1>6 DEF MayMap, LowFirst
<1> HIDE DEF new, old, rank
<1>8. n <= z /\ \A i \in 1 .. n : i \in 1 .. z /\ free[i] < NPTENTRIES
  <2>1. \A i \in 1 .. n : i \in 1 .. k
    BY <1>2, <1>7
  <2>2. n = 0 \/ n \in 1 .. n
    BY <1>2
  <2> QED BY <1>2, <1>6, <1>7, <2>1, <2>2
<1>9. \A d \in new : rank(d) \in 1 .. z /\ free[rank(d)] \in Usable /\ free[rank(d)] < NPTENTRIES
  BY <1>3, <1>6, <1>8
<1>10. \A d \in dirs : old(d) \in Entries
  <2> SUFFICES ASSUME NEW d \in dirs PROVE old(d) \in Entries
    OBVIOUS
  <2>1. CASE d \in new
    <3>1. free[rank(d)] \in Nat /\ free[rank(d)] < NPTENTRIES
      BY <2>1, <1>6, <1>9
    <3> QED BY <3>1, <2>1, <1>4 DEF Entries
  <2>2. CASE d \notin new
    BY <2>2, <1>5 DEF KernelFacts
  <2> QED BY <2>1, <2>2
<1>11. /\ DOMAIN kern_pgdir' = dirs \cup DOMAIN kern_pgdir
       /\ \A d \in dirs : kern_pgdir'[d] = [old(d) EXCEPT !.perm = @ \cup r.perm]
       /\ \A d \in DOMAIN kern_pgdir \ dirs : kern_pgdir'[d] = kern_pgdir[d]
       /\ kern_pgdir' = [d \in DOMAIN kern_pgdir' |-> kern_pgdir'[d]]
  BY <1>1 DEF Over
<1>12. \A d \in dirs : kern_pgdir'[d] \in Entries /\ kern_pgdir'[d].table = old(d).table
  BY <1>10, <1>11 DEF Entries, MayMap
<1>13. kern_pgdir' \in [DOMAIN kern_pgdir' -> Entries]
  <2>1. \A d \in DOMAIN kern_pgdir' : kern_pgdir'[d] \in Entries
    BY <1>11, <1>12 DEF KernelFacts
  <2> QED BY <2>1, <1>11
<1>14. \A d \in DOMAIN kern_pgdir : kern_pgdir'[d].table = kern_pgdir[d].table /\ d \notin new
  BY <1>2, <1>5, <1>11, <1>12
<1>15. \A d \in new : kern_pgdir'[d].table = free[rank(d)]
  BY <1>2, <1>4, <1>12
<1>16. DOMAIN kern_pgdir' = new \cup DOMAIN kern_pgdir
  BY <1>2, <1>5, <1>11
<1>17. Linked' = new \cup Linked /\ Linked \subseteq DOMAIN kern_pgdir
  <2>1. PDX(UVPT) \notin new
    BY <1>2 DEF KernelFacts
  <2> QED BY <2>1, <1>16 DEF Linked
<1>18. /\ free' \in Seq(Usable) /\ Len(free') = z - n
       /\ \A i \in 1 .. z - n : free'[i] = free[n + i]
  <2>1. n \in 0 .. Len(free)
    BY <1>2, <1>6, <1>8
  <2> QED BY <2>1, <1>1, <1>6, Dropped
<1>19. Distinct(free)'
  <2> DEFINE q == [i \in 1 .. z - n |-> n + i]
  <2>1. Picks(free', free, q)
    <3>1. \A i \in 1 .. z - n : q[i] \in 1 .. z /\ q[i] = n + i
      BY <1>2, <1>8
    <3>2. \A i, j \in 1 .. z - n : n + i = n + j => i = j
      BY <1>2
    <3> HIDE DEF q
    <3> QED BY <3>1, <3>2, <1>6, <1>18 DEF Picks
  <2> HIDE DEF q
  <2>2. PICK t : t = free'
    OBVIOUS
  <2>3. Distinct(t)
    BY <2>1, <2>2, Chosen DEF KernelFacts, KernelApart
  <2> QED BY <2>2, <2>3 DEF Distinct
<1>20. \A i \in 1 .. z - n : n + i \in 1 .. z /\ n < n + i
  BY <1>2, <1>8
<1>21. \A d \in new : \A i \in 1 .. z - n : free'[i] # free[rank(d)]
  <2> SUFFICES ASSUME NEW d \in new, NEW i \in 1 .. z - n, free'[i] = free[rank(d)] PROVE FALSE
    OBVIOUS
  <2>1. n + i \in 1 .. Len(free) /\ rank(d) \in 1 .. Len(free) /\ free[n + i] = free[rank(d)]
    BY <1>6, <1>9, <1>18, <1>20
  <2>2. n + i = rank(d)
    BY <2>1 DEF KernelFacts, KernelApart, Distinct
  <2> QED BY <2>2, <1>2, <1>3, <1>20
<1>22. Usable' = Usable
  BY DEF Usable
<1>23. KernelApart'
  <2>1. Tables' \subseteq Usable
    <3> SUFFICES ASSUME NEW d \in Linked' PROVE kern_pgdir'[d].table \in Usable
      BY DEF Tables
    <3>1. CASE d \in new
      BY <3>1, <1>9, <1>15
    <3>2. CASE d \in Linked
      BY <3>2, <1>14, <1>17 DEF KernelFacts, KernelApart, Tables
    <3> QED BY <3>1, <3>2, <1>17
  <2>2. ASSUME NEW d \in new, NEW e \in Linked PROVE kern_pgdir'[d].table # kern_pgdir'[e].table
    <3>1. free[rank(d)] \in List
      BY <1>6, <1>9 DEF List
    <3>2. kern_pgdir'[e].table \in Tables
      BY <1>14, <1>17 DEF Tables
    <3> QED BY <3>1, <3>2, <1>15 DEF KernelFacts, KernelApart
  <2>3. ASSUME NEW d \in new, NEW e \in new, kern_pgdir'[d].table = kern_pgdir'[e].table PROVE d = e
    <3>1. rank(d) = rank(e)
      BY <2>3, <1>6, <1>9, <1>15 DEF KernelFacts, KernelApart, Distinct
    <3> QED BY <3>1, <1>3
  <2>4. ASSUME NEW d \in Linked, NEW e \in Linked, kern_pgdir'[d].table = kern_pgdir'[e].table PROVE d = e
    BY <2>4, <1>14, <1>17 DEF KernelFacts, KernelApart
  <2>5. \A d, e \in Linked' : kern_pgdir'[d].table = kern_pgdir'[e].table => d = e
    BY <2>2, <2>3, <2>4, <1>17
  <2>6. List' \cap Tables' = {}
    <3> SUFFICES ASSUME NEW i \in 1 .. z - n, NEW d \in Linked' PROVE free'[i] # kern_pgdir'[d].table
      BY <1>18 DEF List, Tables
    <3>1. CASE d \in new
      BY <3>1, <1>15, <1>21
    <3>2. CASE d \in Linked
      <4>1. free'[i] \in List
        BY <1>6, <1>18, <1>20 DEF List
      <4>2. kern_pgdir'[d].table \in Tables
        BY <3>2, <1>14, <1>17 DEF Tables
      <4> QED BY <4>1, <4>2 DEF KernelFacts, KernelApart
    <3> QED BY <3>1, <3>2, <1>17
  <2> QED BY <2>1, <2>5, <2>6, <1>18, <1>19, <1>22 DEF KernelApart
<1>24. highest' \in Nat /\ highest' < NPTENTRIES
  <2>1. \A d \in dirs : old(d).table \in Nat /\ old(d).table < NPTENTRIES
    BY <1>10 DEF Entries
  <2> QED BY <2>1, <1>1 DEF Reach, KernelFacts
<1>25. LowFirst(k - n)'
  <2> SUFFICES ASSUME NEW i \in 1 .. k - n PROVE i \in 1 .. Len(free') /\ free'[i] < NPTENTRIES
    BY DEF LowFirst
  <2>1. n + i \in 1 .. k
    BY <1>2, <1>7
  <2>2. n + i \in 1 .. z /\ free[n + i] < NPTENTRIES
    BY <2>1, <1>7
  <2>3. i \in 1 .. z - n
    BY <2>2, <1>2, <1>8
  <2> QED BY <2>2, <2>3, <1>18
<1>26. DOMAIN kern_pgdir' \subseteq Dirs /\ PDX(UVPT) \in DOMAIN kern_pgdir'
  BY <1>11 DEF KernelFacts, MayMap
<1> QED BY <1>2, <1>11, <1>13, <1>23, <1>24, <1>25, <1>26 DEF KernelFacts, new, MapDone
(* The mappings below 4MB and from UENVS up.                               *)
Mappable == {r \in [va : Nat, n : Nat \ {0}, pa : Nat, perm : SUBSET Perms] :
                r.va + r.n <= 1024 \/ (977920 <= r.va /\ r.va + r.n <= 1048576)}

LEMMA MappableCovers ==
    ASSUME NEW r \in Mappable
    PROVE  Covered(r) \subseteq Dirs /\ IsFiniteSet(Covered(r)) /\ r.perm \subseteq Perms
<1>1. PICK va \in Nat, n \in Nat : va = r.va /\ n = r.n /\ 1 <= n
  BY DEF Mappable
<1>2. va + n <= 1024 \/ (977920 <= va /\ va + n <= 1048576)
  BY <1>1 DEF Mappable
<1>3. PICK a \in Nat, b \in Nat : a = va \div 1024 /\ b = (va + n - 1) \div 1024
  <2>1. va \div 1024 \in Nat /\ (va + n - 1) \div 1024 \in Nat
    BY <1>1
  <2> QED BY <2>1
<1>4. Covered(r) = a .. b
  BY <1>1, <1>3 DEF Covered, PDX, NPTENTRIES
<1>5. (a = 0 /\ b = 0) \/ (955 <= a /\ b <= 1023)
  BY <1>1, <1>2, <1>3
<1>6. a .. b \subseteq Dirs
  BY <1>5, Layout
<1>7. IsFiniteSet(a .. b)
  BY FS_Interval
<1> QED BY <1>4, <1>6, <1>7 DEF Mappable

LEMMA OneRegion ==
    ASSUME NEW va \in Nat, NEW n \in Nat \ {0}, NEW pa \in Nat, NEW perm \in SUBSET Perms,
           va + n <= 1024 \/ (977920 <= va /\ va + n <= 1048576)
    PROVE  Region(va, n, pa, perm) \in Mappable
BY DEF Region, Mappable, Perms

LEMMA RegionFacts ==
    ASSUME npages \in Nat, 16 <= npages, npages <= 16639
    PROVE  regions \in Seq(Mappable)
<1> DEFINE m == Pages(npages * SizeofPageInfo)
           k == Pages(SizeofEnvs)
           stack(i) == KSTACKTOP - (i - 1) * (KSTKSIZE + KSTKGAP) - KSTKSIZE
           A == <<Region(UPAGES, m, pages, {"U"}), Region(pages, m, pages, {"W"}),
                  Region(UENVS, k, envs, {"U"}), Region(envs, k, envs, {"W"}),
                  Region(KSTACKTOP - KSTKSIZE, KSTKSIZE, bootstack, {"U", "W"})>>
           B == <<Region(KERNBASE, NPTENTRIES * NPTENTRIES - KERNBASE - 1, 0, {"W"})>>
<1>1. /\ m \in Nat \ {0} /\ m <= 33 /\ k = 31 /\ k \in Nat \ {0}
      /\ pages \in Nat /\ pages <= 901 /\ envs \in Nat /\ envs <= 934
      /\ bootstack \in Nat /\ percpu_kstacks \in Nat
  <2>1. bootstack \in Nat /\ percpu_kstacks \in Nat
    BY BootAssumption DEF KernelFits, EXTPHYSMEM
  <2>2. /\ m \in 1 .. 33 /\ k = 31
        /\ pages \in Nat /\ pages <= 901 /\ envs \in Nat /\ envs <= 934
    BY Arrays
  <2> HIDE DEF m, k
  <2> QED BY <2>1, <2>2
<1>2. /\ UPAGES = 978944 /\ UENVS = 977920 /\ KSTACKTOP = 983040 /\ KSTKSIZE = 8 /\ KSTKGAP = 8
      /\ KERNBASE = 983040 /\ NPTENTRIES * NPTENTRIES - KERNBASE - 1 = 65535 /\ NCPU = 8
  BY Layout DEF KSTACKTOP, KSTKSIZE, KSTKGAP, NCPU
<1>3. {"U"} \in SUBSET Perms /\ {"W"} \in SUBSET Perms /\ {"U", "W"} \in SUBSET Perms
  BY DEF Perms
<1>4. A \in Seq(Mappable)
  <2> HIDE DEF m, k
  <2>1. Region(UPAGES, m, pages, {"U"}) \in Mappable
    BY <1>1, <1>2, <1>3, OneRegion
  <2>2. Region(pages, m, pages, {"W"}) \in Mappable
    BY <1>1, <1>2, <1>3, OneRegion
  <2>3. Region(UENVS, k, envs, {"U"}) \in Mappable
    BY <1>1, <1>2, <1>3, OneRegion
  <2>4. Region(envs, k, envs, {"W"}) \in Mappable
    BY <1>1, <1>2, <1>3, OneRegion
  <2>5. Region(KSTACKTOP - KSTKSIZE, KSTKSIZE, bootstack, {"U", "W"}) \in Mappable
    BY <1>1, <1>2, <1>3, OneRegion
  <2> QED BY <2>1, <2>2, <2>3, <2>4, <2>5
<1>5. mem_init_mp \in Seq(Mappable)
  <2>1. ASSUME NEW i \in 1 .. NCPU
        PROVE  Region(stack(i), KSTKSIZE, percpu_kstacks + (i - 1) * KSTKSIZE, {"W"}) \in Mappable
    <3>1. PICK va \in Nat, pa \in Nat : va = stack(i) /\ pa = percpu_kstacks + (i - 1) * KSTKSIZE
      <4>1. stack(i) \in Nat /\ percpu_kstacks + (i - 1) * KSTKSIZE \in Nat
        BY <1>1, <1>2
      <4> QED BY <4>1
    <3>2. 977920 <= va /\ va + KSTKSIZE <= 1048576 /\ KSTKSIZE \in Nat \ {0}
      BY <1>2, <3>1
    <3> QED BY <3>1, <3>2, <1>3, OneRegion
  <2>2. mem_init_mp = [i \in 1 .. NCPU |-> Region(stack(i), KSTKSIZE, percpu_kstacks + (i - 1) * KSTKSIZE, {"W"})]
    BY DEF mem_init_mp
  <2>3. NCPU \in Nat
    BY <1>2
  <2> QED BY <2>1, <2>2, <2>3
<1>6. B \in Seq(Mappable)
  <2>1. Region(KERNBASE, NPTENTRIES * NPTENTRIES - KERNBASE - 1, 0, {"W"}) \in Mappable
    BY <1>1, <1>2, <1>3, OneRegion
  <2> QED BY <2>1
<1>7. regions = A \o mem_init_mp \o B
  BY DEF regions
<1> HIDE DEF A, B
<1> QED BY <1>4, <1>5, <1>6, <1>7, Joining
(* What the later calls of mem_init() keep, each for its own place pc'.    *)
LEMMA KernelKept ==
    ASSUME BInv, pc \in Late \ Loading
    PROVE  /\ KernelFacts /\ npages > nextfree /\ env = NoEnv
           /\ npages \in Nat /\ 16 <= npages /\ npages <= 16639 /\ nextfree = envs + 31 /\ nextfree \in Nat
BY DEF BInv, TypeFacts, Sizes, Allocated, DirectoryFacts, Apart, KernelFacts

LEMMA KernelKeeps ==
    ASSUME BInv, pc \in Late \ Loading, UNCHANGED <<machine, npages_basemem, npages, nextfree, env>>,
           KernelFacts', pc' \in Late \ Loading, done' \in Nat, Stock',
           pc' # "check_page", PDX(MMIOBASE) \in DOMAIN kern_pgdir',
           pc' # "env_create" => mmio' = MMIOBASE + 3
    PROVE  BInv'
<1>1. envs' = envs
  BY DEF envs, pages, directory
<1>2. TypeFacts' /\ Sizes' /\ Allocated'
  BY <1>1, KernelKept DEF BInv, TypeFacts, Sizes, Allocated, KernelFacts
<1>3. DirectoryFacts'
  BY DEF DirectoryFacts, KernelFacts
<1>4. Apart' /\ Progress'
  BY KernelKept DEF Apart, Progress, NoEnv, KernelFacts
<1> QED BY <1>2, <1>3, <1>4 DEF BInv

(* There are 70 of them.                                                   *)
LEMMA DirCount == IsFiniteSet(Dirs) /\ Cardinality(Dirs) = 70
<1>1. Dirs = (955 .. 1023) \cup {0}
  BY Layout
<1>2. IsFiniteSet(955 .. 1023) /\ Cardinality(955 .. 1023) = 69
  <2>1. PICK a \in Int, b \in Int : a = 955 /\ b = 1023
    OBVIOUS
  <2>2. IsFiniteSet(a .. b) /\ Cardinality(a .. b) = IF a > b THEN 0 ELSE b - a + 1
    BY FS_Interval
  <2> QED BY <2>1, <2>2
<1>3. PICK S, x : S = 955 .. 1023 /\ x = 0
  BY ZenonT(30)
<1>4. x \notin S /\ IsFiniteSet(S) /\ Cardinality(S) = 69
  BY <1>2, <1>3
<1>5. IsFiniteSet(S \cup {x}) /\ Cardinality(S \cup {x}) = Cardinality(S) + 1
  BY <1>4, FS_AddElement
<1> QED BY <1>1, <1>3, <1>4, <1>5

(* The entries that are there already, and those that a region adds.       *)
LEMMA Counting ==
    ASSUME NEW D \in SUBSET Dirs, NEW C \in SUBSET Dirs, IsFiniteSet(C)
    PROVE  /\ IsFiniteSet(D) /\ Cardinality(D) \in Nat /\ Cardinality(D) <= 70
           /\ Cardinality(C \ D) \in Nat
           /\ Cardinality(C \cup D) = Cardinality(D) + Cardinality(C \ D)
           /\ Cardinality(C \cup D) <= 70
<1>1. IsFiniteSet(Dirs) /\ Cardinality(Dirs) = 70
  BY DirCount
<1>2. IsFiniteSet(D) /\ Cardinality(D) <= 70 /\ Cardinality(D) \in Nat
  BY <1>1, FS_Subset, FS_CardinalityType
<1>3. C \cup D \in SUBSET Dirs /\ C \cup D = D \cup (C \ D) /\ D \cap (C \ D) = {}
  OBVIOUS
<1>4. Cardinality(C \cup D) <= 70
  BY <1>1, <1>3, FS_Subset
<1>5. IsFiniteSet(C \ D) /\ Cardinality(C \ D) \in Nat
  <2>1. C \ D \in SUBSET C
    OBVIOUS
  <2>2. IsFiniteSet(C \ D)
    BY <2>1, FS_Subset
  <2> QED BY <2>2, FS_CardinalityType
<1>6. Cardinality(D \cup (C \ D)) = Cardinality(D) + Cardinality(C \ D)
  <2> DEFINE E == C \ D
  <2>1. Cardinality(D \cup E) = Cardinality(D) + Cardinality(E) - Cardinality(D \cap E)
    <3> HIDE DEF E
    <3>1. IsFiniteSet(E)
      BY <1>5 DEF E
    <3> QED BY <3>1, <1>2, FS_Union
  <2>2. Cardinality(D \cap E) = 0
    BY <1>3, FS_EmptySet
  <2> QED BY <2>1, <2>2, <1>2, <1>5
<1> QED BY <1>2, <1>3, <1>4, <1>5, <1>6

LEMMA MapKeeps ==
    ASSUME BInv, boot_map_region
    PROVE  BInv'
<1>1. /\ pc = "map" /\ pc' = "map" /\ done' = done + 1 /\ done \in Nat /\ done < Len(regions)
      /\ UNCHANGED <<machine, npages_basemem, npages, nextfree, mmio, env>>
      /\ MapRegion(regions[done + 1])
  BY DEF BInv, TypeFacts, boot_map_region, program
<1>2. KernelFacts /\ npages \in Nat /\ 16 <= npages /\ npages <= 16639
  BY <1>1, KernelKept
<1>3. PICK r : r = regions[done + 1] /\ r \in Mappable
  <2>1. regions \in Seq(Mappable)
    BY <1>2, RegionFacts
  <2>2. done + 1 \in 1 .. Len(regions)
    <3>1. Len(regions) \in Nat
      BY <2>1, LenProperties
    <3> QED BY <3>1, <1>1
  <2> QED BY <2>1, <2>2, ElementOfSeq
<1>4. Covered(r) \subseteq Dirs /\ IsFiniteSet(Covered(r)) /\ r.perm \subseteq Perms
  BY <1>3, MappableCovers
<1> DEFINE D == DOMAIN kern_pgdir
<1>5. PICK m, n, k : m = Cardinality(D) /\ n = Cardinality(New(r)) /\ k = 159 - m
  OBVIOUS
<1>6. /\ m \in Nat /\ n \in Nat /\ m + n <= 70
      /\ Cardinality(Covered(r) \cup D) = m + n
  BY <1>2, <1>4, <1>5, Counting DEF KernelFacts, New
<1>7. k \in Nat /\ n <= k /\ k - n = 159 - (m + n)
  BY <1>5, <1>6
<1>8. LowFirst(k)
  BY <1>1, <1>5 DEF BInv, Stock
<1>9. MayMap(r, k)
  BY <1>4, <1>5, <1>7, <1>8 DEF MayMap
<1>10. KernelFacts' /\ DOMAIN kern_pgdir' = Covered(r) \cup D /\ LowFirst(k - n)'
  <2>1. MapRegion(r)
    BY <1>1, <1>3
  <2>2. UNCHANGED <<npages, nextfree>> /\ n = Cardinality(New(r))
    BY <1>1, <1>5
  <2>3. MapDone(r, k, n)
    BY <2>1, <2>2, <1>2, <1>7, <1>9, Mapping
  <2> QED BY <2>3 DEF MapDone
<1>11. Stock'
  <2>1. Cardinality(DOMAIN kern_pgdir') = m + n
    BY <1>6, <1>10
  <2> QED BY <2>1, <1>1, <1>7, <1>10 DEF Stock
<1>12. mmio' = MMIOBASE + 3 /\ PDX(MMIOBASE) \in DOMAIN kern_pgdir'
  BY <1>1, <1>10 DEF BInv, DirectoryFacts
<1> QED BY <1>1, <1>10, <1>11, <1>12, KernelKeeps

LEMMA ClearKeeps ==
    ASSUME BInv, ClearFirst
    PROVE  BInv'
<1>1. /\ pc = "map" /\ pc' = "check_kern_pgdir" /\ done' = 0
      /\ UNCHANGED <<machine, npages_basemem, npages, nextfree, free, highest, mmio, env>>
      /\ kern_pgdir' = [d \in DOMAIN kern_pgdir \ {0} |-> kern_pgdir[d]]
  BY DEF ClearFirst, UnlinkFirst, Goto, program
<1>2. KernelFacts
  BY <1>1, KernelKept
<1>3. Linked' \subseteq Linked /\ Linked \subseteq DOMAIN kern_pgdir
      /\ \A d \in Linked' : kern_pgdir'[d] = kern_pgdir[d]
  BY <1>1 DEF Linked
<1>4. KernelFacts'
  <2>1. kern_pgdir' \in [DOMAIN kern_pgdir' -> Entries] /\ DOMAIN kern_pgdir' \subseteq Dirs
    BY <1>1, <1>2 DEF KernelFacts
  <2>2. PDX(UVPT) \in DOMAIN kern_pgdir'
    BY <1>1, <1>2, Layout DEF KernelFacts
  <2>3. Tables' \subseteq Tables
    BY <1>3 DEF Tables
  <2>4. Usable' = Usable /\ List' = List /\ (Distinct(free))' = Distinct(free)
    BY <1>1 DEF Usable, List, Distinct
  <2>5. KernelApart'
    BY <2>3, <2>4, <1>1, <1>2, <1>3 DEF KernelFacts, KernelApart
  <2> QED BY <2>1, <2>2, <2>5, <1>1, <1>2 DEF KernelFacts
<1>5. Stock'
  <2>1. PICK m : m = 159 - Cardinality(DOMAIN kern_pgdir)
    OBVIOUS
  <2>2. m \in Nat /\ 80 <= m
    <3>1. PICK C : C = {}
      OBVIOUS
    <3>2. C \in SUBSET Dirs /\ IsFiniteSet(C)
      BY <3>1, FS_EmptySet
    <3>3. Cardinality(DOMAIN kern_pgdir) \in Nat /\ Cardinality(DOMAIN kern_pgdir) <= 70
      BY <3>2, <1>2, Counting DEF KernelFacts
    <3> QED BY <3>3, <2>1
  <2>3. LowFirst(m)
    BY <2>1, <1>1 DEF BInv, Stock
  <2>4. LowFirst(80)'
    BY <2>2, <2>3, <1>1 DEF LowFirst
  <2> QED BY <2>4, <1>1 DEF Stock
<1>6. mmio' = MMIOBASE + 3 /\ PDX(MMIOBASE) \in DOMAIN kern_pgdir'
  BY <1>1, Layout DEF BInv, DirectoryFacts
<1> QED BY <1>1, <1>4, <1>5, <1>6, KernelKeeps
LEMMA MmioKept ==
    ASSUME BInv, pc \in Late \ Loading, pc # "check_page"
    PROVE  PDX(MMIOBASE) \in DOMAIN kern_pgdir /\ (pc # "env_create" => mmio = MMIOBASE + 3)
BY DEF BInv, DirectoryFacts

LEMMA PanicKeeps ==
    ASSUME BInv, pc' = "panic", done' \in Nat, UNCHANGED <<machine, npages_basemem, npages, nextfree, highest>>
    PROVE  BInv'
<1>1. TypeFacts'
  BY DEF BInv, TypeFacts
<1> QED BY <1>1, Panics

(* A check that finds nothing, and leaves nothing behind.                  *)
LEMMA CheckKeeps ==
    ASSUME BInv, check_kern_pgdir \/ lcr3
    PROVE  BInv'
<1>1. /\ pc \in {"check_kern_pgdir", "lcr3"} /\ pc' \in {"lcr3", "check_installed", "panic"} /\ done' = 0
      /\ UNCHANGED <<machine, npages_basemem, npages, nextfree, free, kern_pgdir, highest, mmio, env>>
  BY DEF check_kern_pgdir, lcr3, Goto, memory, program
<1>2. CASE pc' = "panic"
  BY <1>1, <1>2, PanicKeeps
<1>3. CASE pc' # "panic"
  <2>1. KernelFacts'
    <3>1. KernelFacts
      BY <1>1, KernelKept
    <3>2. Usable' = Usable /\ List' = List /\ Linked' = Linked /\ Tables' = Tables /\ (Distinct(free))' = Distinct(free)
      BY <1>1 DEF Usable, List, Distinct, Linked, Tables
    <3> QED BY <3>1, <3>2, <1>1 DEF KernelFacts, KernelApart
  <2>2. Stock'
    BY <1>1, <1>3, ZenonT(30) DEF BInv, Stock, LowFirst
  <2>3. mmio' = MMIOBASE + 3 /\ PDX(MMIOBASE) \in DOMAIN kern_pgdir'
    BY <1>1, MmioKept
  <2> QED BY <2>1, <2>2, <2>3, <1>1, <1>3, KernelKeeps
<1> QED BY <1>2, <1>3

LEMMA InstalledKeeps ==
    ASSUME BInv, check_page_installed_pgdir
    PROVE  BInv'
<1>1. /\ pc = "check_installed" /\ pc' = "lapic_init" /\ done' = 0
      /\ UNCHANGED <<machine, npages_basemem, npages, nextfree, kern_pgdir, highest, mmio, env>>
      /\ free' = Replaced(<<free[1], free[3], free[2]>>, free)
  BY DEF check_page_installed_pgdir, Goto, Replaced
<1>2. KernelFacts /\ free \in Seq(Usable) /\ Distinct(free)
  BY <1>1, KernelKept DEF KernelFacts, KernelApart
<1>3. PICK z \in Nat : /\ z = Len(free) /\ 80 <= z
                       /\ \A i \in 1 .. z : free[i] \in Usable
                       /\ \A i \in 1 .. z : i <= 80 => free[i] < NPTENTRIES
  <2>1. \A i \in 1 .. 80 : i \in 1 .. Len(free) /\ free[i] < NPTENTRIES
    BY <1>1 DEF BInv, Stock, LowFirst
  <2>2. PICK z \in Nat : z = Len(free)
    BY <1>2, LenProperties
  <2>3. 80 \in 1 .. z
    <3>1. 80 \in 1 .. 80
      OBVIOUS
    <3> QED BY <3>1, <2>1, <2>2
  <2>4. \A i \in 1 .. z : free[i] \in Usable
    BY <2>2, <1>2, ElementOfSeq
  <2>5. 80 <= z /\ \A i \in 1 .. z : i <= 80 => i \in 1 .. 80
    BY <2>3
  <2>6. \A i \in 1 .. z : i <= 80 => free[i] < NPTENTRIES
    BY <2>1, <2>5
  <2> QED BY <2>2, <2>4, <2>5, <2>6
<1>4. 1 \in 1 .. z /\ 2 \in 1 .. z /\ 3 \in 1 .. z /\ free[1] \in Usable /\ free[2] \in Usable /\ free[3] \in Usable
  BY <1>3
<1>5. PICK h \in Seq(Usable) : h = <<free[1], free[3], free[2]>> /\ Len(h) = 3
                               /\ h[1] = free[1] /\ h[2] = free[3] /\ h[3] = free[2]
  <2>1. PICK a \in Usable, b \in Usable, c \in Usable : a = free[1] /\ b = free[3] /\ c = free[2]
    BY <1>4
  <2>2. /\ <<a, b, c>> \in Seq(Usable) /\ Len(<<a, b, c>>) = 3
        /\ <<a, b, c>>[1] = a /\ <<a, b, c>>[2] = b /\ <<a, b, c>>[3] = c
    OBVIOUS
  <2> QED BY <2>1, <2>2
<1>6. /\ free' \in Seq(Usable) /\ Len(free') = z
      /\ free'[1] = free[1] /\ free'[2] = free[3] /\ free'[3] = free[2]
      /\ \A i \in 1 .. z : 3 < i => free'[i] = free[i]
  <2>1. Long(free)
    BY <1>3 DEF Long
  <2>2. ReplacedFacts(free', h, free, Usable)
    BY <2>1, <1>1, <1>2, <1>5, ReplacedValues
  <2>3. 1 \in 1 .. Len(h) /\ 2 \in 1 .. Len(h) /\ 3 \in 1 .. Len(h) /\ 3 + (z - 3) = z
        /\ \A i \in 1 .. z : 3 + (i - 3) = i
    BY <1>3, <1>5
  <2>4. free' \in Seq(Usable) /\ Len(free') = z
    BY <2>2, <2>3, <1>3, <1>5 DEF ReplacedFacts
  <2>5. free'[1] = free[1] /\ free'[2] = free[3] /\ free'[3] = free[2]
    BY <2>2, <2>3, <1>5 DEF ReplacedFacts
  <2>6. \A i \in 1 .. z : 3 < i => free'[i] = free[i]
    BY <2>2, <2>3, <1>3, <1>5 DEF ReplacedFacts
  <2> QED BY <2>4, <2>5, <2>6
<1> DEFINE q == [i \in 1 .. z |-> IF i = 2 THEN 3 ELSE IF i = 3 THEN 2 ELSE i]
<1>7. /\ \A i \in 1 .. z : q[i] \in 1 .. z /\ (i <= 80 => q[i] <= 80)
      /\ \A i, j \in 1 .. z : q[i] = q[j] => i = j
  BY <1>3
<1>8. \A i \in 1 .. z : free'[i] = free[q[i]]
  <2> SUFFICES ASSUME NEW i \in 1 .. z PROVE free'[i] = free[q[i]]
    OBVIOUS
  <2>1. CASE i = 1 \/ i = 2 \/ i = 3
    BY <2>1, <1>6
  <2>2. CASE i # 1 /\ i # 2 /\ i # 3
    <3>1. q[i] = i /\ 3 < i
      BY <2>2
    <3> QED BY <3>1, <1>6
  <2> QED BY <2>1, <2>2
<1> HIDE DEF q
<1>9. Distinct(free)'
  <2>1. Picks(free', free, q)
    BY <1>3, <1>6, <1>7, <1>8 DEF Picks
  <2>2. PICK t : t = free'
    OBVIOUS
  <2>3. Distinct(t)
    BY <2>1, <2>2, <1>2, Chosen
  <2> QED BY <2>2, <2>3 DEF Distinct
<1>10. List' \subseteq List
  BY <1>3, <1>6, <1>7, <1>8 DEF List
<1>11. KernelFacts'
  <2>1. Usable' = Usable /\ Linked' = Linked /\ Tables' = Tables
    BY <1>1 DEF Usable, Linked, Tables
  <2> QED BY <2>1, <1>1, <1>2, <1>6, <1>9, <1>10 DEF KernelFacts, KernelApart
<1>12. Stock'
  <2>1. LowFirst(80)'
    <3> SUFFICES ASSUME NEW i \in 1 .. 80 PROVE i \in 1 .. Len(free') /\ free'[i] < NPTENTRIES
      BY DEF LowFirst
    <3>1. i \in 1 .. z /\ i <= 80
      BY <1>3
    <3> QED BY <3>1, <1>3, <1>6, <1>7, <1>8
  <2> QED BY <2>1, <1>1 DEF Stock
<1>13. mmio' = MMIOBASE + 3 /\ PDX(MMIOBASE) \in DOMAIN kern_pgdir'
  BY <1>1, MmioKept
<1> QED BY <1>1, <1>11, <1>12, <1>13, KernelKeeps

LEMMA LapicKeeps ==
    ASSUME BInv, lapic_init
    PROVE  BInv'
<1>1. /\ pc = "lapic_init" /\ pc' \in {"env_create", "panic"} /\ done' = 0
      /\ UNCHANGED <<machine, npages_basemem, npages, nextfree, env>>
  BY DEF lapic_init, Goto, program
<1>2. KernelFacts /\ PDX(MMIOBASE) \in DOMAIN kern_pgdir /\ mmio = MMIOBASE + 3 /\ LowFirst(80)
  BY <1>1, KernelKept, MmioKept DEF BInv, Stock
<1>3. CASE UNCHANGED memory
  <2>1. CASE pc' = "panic"
    BY <1>1, <1>3, <2>1, PanicKeeps DEF memory
  <2>2. CASE pc' # "panic"
    <3>1. KernelFacts'
      <4>1. Usable' = Usable /\ List' = List /\ Linked' = Linked /\ Tables' = Tables /\ (Distinct(free))' = Distinct(free)
        BY <1>1, <1>3 DEF Usable, List, Distinct, Linked, Tables, memory
      <4> QED BY <4>1, <1>2, <1>3 DEF KernelFacts, KernelApart, memory
    <3>2. Stock' /\ PDX(MMIOBASE) \in DOMAIN kern_pgdir'
      BY <1>1, <1>2, <1>3, <2>2 DEF Stock, LowFirst, memory
    <3> QED BY <3>1, <3>2, <1>1, <2>2, KernelKeeps
  <2> QED BY <2>1, <2>2
<1>4. CASE ~UNCHANGED memory
  <2> DEFINE P == {"W", "PCD", "PWT"}
  <2>1. /\ pc' = "env_create"
        /\ MapRegion(Region(mmio, 1, machine.lapicaddr, P))
    BY <1>4 DEF lapic_init, Goto
  <2>2. PICK r : r = Region(mmio, 1, machine.lapicaddr, P) /\ r.perm \subseteq Perms /\ Covered(r) = {958}
    <3>1. PICK r : r = Region(mmio, 1, machine.lapicaddr, P)
      OBVIOUS
    <3>2. r.va = 980995 /\ r.n = 1 /\ r.perm \subseteq Perms
      BY <3>1, <1>2, Layout DEF Region, Perms
    <3>3. Covered(r) = {958}
      BY <3>2 DEF Covered, PDX, NPTENTRIES
    <3> QED BY <3>1, <3>2, <3>3
  <2>3. New(r) = {} /\ Covered(r) \subseteq Dirs /\ IsFiniteSet(Covered(r))
    <3>1. New(r) = {} /\ Covered(r) \subseteq Dirs
      BY <2>2, <1>2, Layout DEF New, KernelFacts
    <3>2. IsFiniteSet(Covered(r))
      <4>1. PICK x : x = 958
        OBVIOUS
      <4>2. IsFiniteSet({x})
        BY FS_Singleton
      <4> QED BY <4>1, <4>2, <2>2
    <3> QED BY <3>1, <3>2
  <2>4. PICK n, k \in Nat : n = Cardinality(New(r)) /\ k = 80 /\ n = 0
    BY <2>3, FS_EmptySet
  <2>5. MapDone(r, k, n)
    <3>1. MayMap(r, k)
      BY <2>2, <2>3, <2>4, <1>2 DEF MayMap
    <3>2. MapRegion(r) /\ UNCHANGED <<npages, nextfree>> /\ n = Cardinality(New(r))
      BY <2>1, <2>2, <2>4, <1>1
    <3> QED BY <3>1, <3>2, <1>2, <2>4, Mapping
  <2>6. KernelFacts' /\ PDX(MMIOBASE) \in DOMAIN kern_pgdir'
    BY <2>5, <1>2 DEF MapDone
  <2>7. Stock'
    <3>1. k - n = 80
      BY <2>4
    <3> QED BY <3>1, <2>1, <2>5 DEF MapDone, Stock
  <2> QED BY <2>1, <2>6, <2>7, <1>1, KernelKeeps
<1> QED BY <1>3, <1>4
-----------------------------------------------------------------------------
(* The first environment.                                                  *)

LEMMA LoadKeeps ==
    ASSUME BInv, pc \in {"env_create", "load", "region_alloc"}, pc' \in Loading, done' \in Nat,
           UNCHANGED <<machine, npages_basemem, npages, nextfree, kern_pgdir, highest>>,
           KernelApart', EnvApart', Progress'
    PROVE  BInv'
<1>1. envs' = envs
  BY DEF envs, pages, directory
<1>2. TypeFacts' /\ Sizes' /\ Allocated'
  BY <1>1 DEF BInv, TypeFacts, Sizes, Allocated
<1>3. DirectoryFacts' /\ Stock'
  BY DEF BInv, DirectoryFacts, Stock
<1>4. Apart'
  BY DEF BInv, Apart
<1> QED BY <1>2, <1>3, <1>4 DEF BInv

(* Taking the first page of a list.                                        *)
ListOf(s) == {s[i] : i \in 1 .. Len(s)}

Taken(s, S) ==
    /\ Head(s) \in S /\ Tail(s) \in Seq(S) /\ Distinct(Tail(s))
    /\ ListOf(s) = {Head(s)} \cup ListOf(Tail(s)) /\ Head(s) \notin ListOf(Tail(s))
    /\ Len(s) \in Nat /\ Len(s) > 0 /\ Len(Tail(s)) = Len(s) - 1

LEMMA Taking ==
    ASSUME NEW S, NEW s \in Seq(S), Distinct(s), s # <<>>
    PROVE  Taken(s, S)
<1>1. PICK z \in Nat : z = Len(s) /\ z > 0
  BY LenProperties, EmptySeq
<1> DEFINE t == Tail(s)
<1>2. Head(s) = s[1] /\ Head(s) \in S
  BY HeadTailProperties, <1>1, ElementOfSeq
<1>3. t \in Seq(S) /\ Len(t) = z - 1 /\ \A i \in 1 .. z - 1 : t[i] = s[i + 1]
  BY <1>1, HeadTailProperties
<1> HIDE DEF t
<1>4. \A i \in 1 .. z - 1 : i + 1 \in 1 .. z /\ i + 1 # 1
  BY <1>1
<1>5. Distinct(t)
  BY <1>1, <1>3, <1>4 DEF Distinct
<1>6. s[1] \notin ListOf(t)
  <2>1. 1 \in 1 .. z
    BY <1>1
  <2> QED BY <2>1, <1>1, <1>3, <1>4 DEF Distinct, ListOf
<1>7. ListOf(s) = {s[1]} \cup ListOf(t)
  <2>1. 1 \in 1 .. z /\ \A i \in 1 .. z : i # 1 => i - 1 \in 1 .. z - 1 /\ (i - 1) + 1 = i
    BY <1>1
  <2>2. ListOf(t) = {s[i + 1] : i \in 1 .. z - 1}
    BY <1>3 DEF ListOf
  <2>3. ListOf(s) \subseteq {s[1]} \cup ListOf(t)
    <3> SUFFICES ASSUME NEW i \in 1 .. z PROVE s[i] \in {s[1]} \cup ListOf(t)
      BY <1>1 DEF ListOf
    <3>1. i # 1 => s[i] = t[i - 1] /\ i - 1 \in 1 .. z - 1
      BY <2>1, <1>3
    <3> QED BY <3>1, <1>3 DEF ListOf
  <2>4. {s[1]} \cup ListOf(t) \subseteq ListOf(s)
    BY <2>1, <2>2, <1>1, <1>4 DEF ListOf
  <2> QED BY <2>3, <2>4
<1> QED BY <1>1, <1>2, <1>3, <1>5, <1>6, <1>7 DEF Taken, t

LEMMA SetupKeeps ==
    ASSUME BInv, env_setup_vm
    PROVE  BInv'
<1>1. /\ pc = "env_create" /\ pc' = "load" /\ done' = 0 /\ image' \in Images
      /\ env' = [NoEnv EXCEPT !.pgdir = Head(free)] /\ free' = Tail(free)
      /\ UNCHANGED <<machine, npages_basemem, npages, nextfree, kern_pgdir, highest>>
  BY DEF env_setup_vm, Goto
<1>2. KernelApart /\ LowFirst(80)
  BY <1>1 DEF BInv, Apart, Stock
<1>3. Taken(free, Usable) /\ List = ListOf(free)
  <2>1. free # <<>>
    <3>1. 1 \in 1 .. 80
      OBVIOUS
    <3> QED BY <3>1, <1>2 DEF LowFirst
  <2> QED BY <2>1, <1>2, Taking DEF KernelApart, List, ListOf
<1>4. Usable' = Usable /\ Tables' = Tables /\ Linked' = Linked /\ List' = ListOf(Tail(free))
  BY <1>1 DEF Usable, Tables, Linked, List, ListOf
<1>5. KernelApart'
  <2>1. (Distinct(free))' = Distinct(Tail(free))
    BY <1>1 DEF Distinct
  <2> QED BY <2>1, <1>1, <1>2, <1>3, <1>4 DEF KernelApart, Taken
<1>6. env' = [pgdir |-> Head(free), tables |-> <<>>, pages |-> <<>>, mem |-> <<>>]
  BY <1>1 DEF NoEnv
<1>7. EnvApart'
  <2>1. /\ env'.pgdir = Head(free) /\ env'.tables = <<>> /\ env'.pages = <<>>
        /\ DOMAIN env'.tables = {} /\ DOMAIN env'.pages = {}
    BY <1>6
  <2>2. UserTables' = {} /\ UserPages' = {}
    BY <2>1 DEF UserTables, UserPages
  <2>3. IsFiniteSet(DOMAIN env'.tables) /\ IsFiniteSet(DOMAIN env'.pages)
    BY <2>1, FS_EmptySet
  <2>4. env'.tables \in [DOMAIN env'.tables -> Usable'] /\ env'.pages \in [DOMAIN env'.pages -> Usable']
    BY <2>1
  <2>5. Head(free) \in Usable /\ Head(free) \in List /\ Head(free) \notin List' /\ Head(free) \notin Tables
    BY <1>2, <1>3, <1>4 DEF Taken, KernelApart
  <2> QED BY <2>1, <2>2, <2>3, <2>4, <2>5, <1>4, <1>6 DEF EnvApart
<1>8. Progress'
  <2>1. image' \in Seq(Segment)
    BY <1>1, BootAssumption
  <2>2. 0 <= Len(image') /\ DOMAIN env'.pages = {} /\ 1 .. 0 = {}
    BY <2>1, <1>6
  <2> QED BY <2>2, <1>1 DEF Progress
<1> QED BY <1>1, <1>5, <1>7, <1>8, LoadKeeps

(* The segment in progress.                                                *)
LEMMA Heading ==
    ASSUME BInv, pc \in {"load", "region_alloc"}
    PROVE  /\ image \in Images /\ image \in Seq(Segment) /\ WellLinked(image) /\ Len(image) \in Nat
           /\ done \in Nat /\ done <= Len(image)
           /\ done < Len(image) => done + 1 \in DOMAIN image /\ ph = image[done + 1] /\ ph \in Segment
           /\ done = Len(image) => ph = Stack /\ ph.load /\ ph.va = 2 * (USTACKTOP - 1) /\ Touched(ph) = {USTACKTOP - 1}
<1>1. image \in Images /\ done \in Nat /\ done <= Len(image)
  BY DEF BInv, Progress, TypeFacts
<1>2. image \in Seq(Segment) /\ WellLinked(image)
  BY <1>1, BootAssumption
<1>3. PICK z \in Nat : z = Len(image) /\ DOMAIN image = 1 .. z
  BY <1>2, LenProperties
<1>4. ASSUME done < z PROVE done + 1 \in 1 .. z /\ ph = image[done + 1] /\ image[done + 1] \in Segment
  <2>1. done + 1 \in 1 .. z
    BY <1>1, <1>4
  <2>2. image[done + 1] \in Segment
    BY <2>1, <1>2, <1>3, ElementOfSeq
  <2> QED BY <2>1, <2>2, <1>2, <1>3 DEF ph
<1>5. ASSUME done = z PROVE ph = Stack
  BY <1>2, <1>3, <1>5 DEF ph
<1>6. Stack.load /\ Stack.va = 2 * (USTACKTOP - 1) /\ Touched(Stack) = {USTACKTOP - 1}
  <2>1. Stack.va = 2 * 977917 /\ Stack.memsz = 2 /\ Stack.load
    BY Layout DEF Stack
  <2> QED BY <2>1, Layout DEF Touched
<1> QED BY <1>1, <1>2, <1>3, <1>4, <1>5, <1>6

(* No segment that is loaded has a page of the one in progress.            *)
LEMMA PagesApart ==
    ASSUME BInv, pc \in {"load", "region_alloc"}, ph.load, NEW i \in 1 .. done, image[i].load
    PROVE  Touched(image[i]) \cap Touched(ph) = {}
<1>1. i \in DOMAIN image /\ i \in Nat /\ i <= done /\ done \in Nat /\ done <= Len(image)
  BY Heading
<1>2. CASE done < Len(image)
  BY <1>1, <1>2, Heading DEF WellLinked
<1>3. CASE done = Len(image)
  <2>1. Touched(image[i]) \subseteq 1 .. USTACKTOP - 2
    BY <1>1, Heading DEF WellLinked
  <2>2. USTACKTOP - 1 \notin 1 .. USTACKTOP - 2
    <3>1. PICK u \in Nat : u = USTACKTOP
      BY Layout
    <3>2. u - 1 \notin 1 .. u - 2
      OBVIOUS
    <3> QED BY <3>1, <3>2
  <2> QED BY <2>1, <2>2, <1>3, Heading
<1> QED BY <1>1, <1>2, <1>3, Heading

(* A byte of a segment is in a page that it touches.                       *)
LEMMA InTouched ==
    ASSUME NEW p, p.va \in Nat, p.memsz \in Nat, NEW u \in Int, p.va <= u, u < p.va + p.memsz
    PROVE  u \div 2 \in Touched(p)
<1>1. PICK va \in Nat, n \in Nat : va = p.va /\ n = p.memsz
  OBVIOUS
<1>2. u \div 2 \in va \div 2 .. (va + n + 1) \div 2 - 1
  BY <1>1
<1> QED BY <1>1, <1>2 DEF Touched

(* What holds while a program is loaded.                                   *)
LEMMA WhileLoading ==
    ASSUME BInv, pc \in {"load", "region_alloc"}
    PROVE  /\ KernelApart /\ EnvApart
           /\ \A v \in DOMAIN env.pages : Mapped(v)
           /\ \A i \in 1 .. done : image[i].load => InMemory(i)
BY DEF BInv, Apart, Progress

LEMMA Unmoved ==
    ASSUME KernelApart, EnvApart, UNCHANGED <<free, kern_pgdir, env, npages, nextfree>>
    PROVE  KernelApart' /\ EnvApart'
<1>1. /\ Usable' = Usable /\ Linked' = Linked /\ Tables' = Tables /\ List' = List
      /\ (Distinct(free))' = Distinct(free) /\ UserTables' = UserTables /\ UserPages' = UserPages
  BY DEF Usable, Linked, Tables, List, Distinct, UserTables, UserPages
<1> QED BY <1>1 DEF KernelApart, EnvApart

LEMMA NextSegmentKeeps ==
    ASSUME BInv, NextSegment
    PROVE  BInv'
<1>1. /\ pc = "load" /\ UNCHANGED <<machine, npages_basemem, npages, nextfree, free, kern_pgdir, highest, image, env>>
      /\ IF ph.load THEN pc' = "region_alloc" /\ next_va' = ph.va \div 2 /\ done' = done
         ELSE done' = done + 1 /\ pc' = pc
  BY DEF NextSegment, memory
<1>2. /\ KernelApart /\ EnvApart /\ \A v \in DOMAIN env.pages : Mapped(v)
      /\ \A i \in 1 .. done : image[i].load => InMemory(i)
  BY <1>1, WhileLoading
<1>3. KernelApart' /\ EnvApart'
  BY <1>1, <1>2, Unmoved
<1>4. /\ image \in Images /\ Len(image) \in Nat /\ done \in Nat /\ done <= Len(image)
      /\ done < Len(image) => ph = image[done + 1] /\ ph \in Segment
      /\ done = Len(image) => ph.load /\ ph.va = 2 * (USTACKTOP - 1)
  BY <1>1, Heading
<1>5. CASE ph.load
  <2>1. PICK va \in Nat : va = ph.va /\ (done = Len(image) => va \div 2 = USTACKTOP - 1)
    BY <1>4, Layout DEF Segment
  <2>2. next_va' \in Nat /\ next_va' >= va \div 2 /\ next_va' = va \div 2
    BY <2>1, <1>1, <1>5
  <2>3. ph' = ph /\ pc' = "region_alloc" /\ done' = done
    BY <1>1, <1>5 DEF ph
  <2>4. \A v \in DOMAIN env.pages : Mapped(v)'
    BY <1>1, <1>2, <2>3 DEF Mapped
  <2>5. \A i \in 1 .. done : image[i].load => InMemory(i)'
    BY <1>1, <1>2 DEF InMemory
  <2>6. ~(done = Len(image) /\ next_va' > USTACKTOP - 1)
    BY <2>1, <2>2, Layout
  <2>7. Progress'
    BY <1>1, <1>4, <1>5, <2>1, <2>2, <2>3, <2>4, <2>5, <2>6 DEF Progress
  <2> QED BY <2>3, <2>7, <1>1, <1>3, <1>4, LoadKeeps
<1>6. CASE ~ph.load
  <2>1. done' = done + 1 /\ done + 1 <= Len(image) /\ done + 1 \in Nat /\ ~image[done + 1].load /\ pc' = "load"
    BY <1>1, <1>4, <1>6
  <2>2. \A i \in 1 .. done + 1 : i \in 1 .. done \/ i = done + 1
    BY <1>4
  <2>3. \A v \in DOMAIN env.pages : Mapped(v)'
    <3>1. \A i \in 1 .. done : i \in 1 .. done + 1
      BY <1>4
    <3> QED BY <1>1, <1>2, <2>1, <3>1 DEF Mapped
  <2>4. \A i \in 1 .. done + 1 : image[i].load => InMemory(i)'
    BY <1>1, <1>2, <2>1, <2>2 DEF InMemory
  <2>5. Progress'
    BY <1>1, <1>4, <2>1, <2>3, <2>4 DEF Progress
  <2> QED BY <2>1, <2>5, <1>1, <1>3, LoadKeeps
<1> QED BY <1>5, <1>6

(* One more value in an injective function.                                *)
OneToOne(f, T) ==
    /\ IsFiniteSet(DOMAIN f) /\ f \in [DOMAIN f -> T]
    /\ \A x, y \in DOMAIN f : f[x] = f[y] => x = y

Values(f) == {f[x] : x \in DOMAIN f}

Grown(g, x, y, f, T) ==
    OneToOne(g, T) /\ Values(g) = {y} \cup Values(f) /\ DOMAIN g = {x} \cup DOMAIN f

LEMMA Growing ==
    ASSUME NEW T, NEW f, OneToOne(f, T), NEW x, x \notin DOMAIN f, NEW y \in T, y \notin Values(f)
    PROVE  Grown(Over(Entry(x, y), f), x, y, f, T)
<1> DEFINE g == Over(Entry(x, y), f)
<1>1. DOMAIN g = {x} \cup DOMAIN f /\ g[x] = y /\ \A z \in DOMAIN f : g[z] = f[z]
  BY DEF Over, Entry
<1>2. g \in [{x} \cup DOMAIN f -> T]
  BY EntryTyped DEF OneToOne
<1>3. IsFiniteSet({x} \cup DOMAIN f)
  BY FS_AddElement DEF OneToOne
<1> HIDE DEF g
<1>4. Values(g) = {y} \cup Values(f)
  BY <1>1 DEF Values
<1>5. \A a, b \in DOMAIN g : g[a] = g[b] => a = b
  BY <1>1 DEF Values, OneToOne
<1>6. OneToOne(g, T)
  BY <1>1, <1>2, <1>3, <1>5 DEF OneToOne
<1> QED BY <1>1, <1>4, <1>6 DEF Grown, g

(* The bytes of a file over zeros, over what was there.                    *)
Loads(g, m, va, f, n, j) ==
    /\ \A k \in 0 .. n - 1 : va + k \in DOMAIN g /\ g[va + k] = IF k < f THEN <<j, k>> ELSE "zero"
    /\ \A u \in DOMAIN m : u \notin Units(va, n) => u \in DOMAIN g /\ g[u] = m[u]

LEMMA LoadedValues ==
    ASSUME NEW m, NEW va \in Nat, NEW f \in Nat, NEW n \in Nat, f <= n, NEW j
    PROVE  Loads(Over([u \in Units(va + f, n - f) |-> "zero"], Over([u \in Units(va, f) |-> <<j, u - va>>], m)),
                 m, va, f, n, j)
<1> DEFINE c == [u \in Units(va, f) |-> <<j, u - va>>]
           z == [u \in Units(va + f, n - f) |-> "zero"]
           h == Over(c, m)
           g == Over(z, h)
<1>1. DOMAIN c = Units(va, f) /\ \A u \in Units(va, f) : c[u] = <<j, u - va>>
  OBVIOUS
<1>2. DOMAIN z = Units(va + f, n - f) /\ \A u \in Units(va + f, n - f) : z[u] = "zero"
  OBVIOUS
<1>3. /\ DOMAIN h = DOMAIN c \cup DOMAIN m
      /\ \A x \in DOMAIN c : h[x] = c[x]
      /\ \A x \in DOMAIN m \ DOMAIN c : h[x] = m[x]
  BY OverValues, ZenonT(30)
<1>4. /\ DOMAIN g = DOMAIN z \cup DOMAIN h
      /\ \A x \in DOMAIN z : g[x] = z[x]
      /\ \A x \in DOMAIN h \ DOMAIN z : g[x] = h[x]
  BY OverValues, ZenonT(30)
<1> HIDE DEF c, z, h, g
<1>5. ASSUME NEW k \in 0 .. n - 1 PROVE va + k \in DOMAIN g /\ g[va + k] = IF k < f THEN <<j, k>> ELSE "zero"
  <2>1. CASE k < f
    <3>1. va + k \in Units(va, f) /\ va + k \notin Units(va + f, n - f) /\ (va + k) - va = k
      BY <2>1 DEF Units
    <3>2. c[va + k] = <<j, k>>
      BY <3>1, <1>1
    <3> QED BY <3>1, <3>2, <1>1, <1>2, <1>3, <1>4, <2>1
  <2>2. CASE ~(k < f)
    <3>1. va + k \in Units(va + f, n - f)
      BY <2>2 DEF Units
    <3> QED BY <3>1, <1>2, <1>4, <2>2
  <2> QED BY <2>1, <2>2
<1>6. Units(va, f) \subseteq Units(va, n) /\ Units(va + f, n - f) \subseteq Units(va, n)
  BY DEF Units
<1>7. \A u \in DOMAIN m : u \notin Units(va, n) => u \in DOMAIN g /\ g[u] = m[u]
  BY <1>1, <1>2, <1>3, <1>4, <1>6
<1>8. Loads(g, m, va, f, n, j)
  BY <1>5, <1>7 DEF Loads
<1> QED BY <1>8 DEF g, h, c, z

(* The bytes of the loaded segments are not in the pages of the next.      *)
LEMMA BytesApart ==
    ASSUME BInv, pc \in {"load", "region_alloc"}, ph.load, NEW i \in 1 .. done, image[i].load,
           NEW k \in 0 .. image[i].memsz - 1
    PROVE  /\ image[i].va + k \in Nat
           /\ (image[i].va + k) \div 2 \notin Touched(ph)
<1>1. i \in DOMAIN image /\ image \in Seq(Segment)
  BY Heading
<1>2. image[i] \in Segment
  BY <1>1, ElementOfSeq
<1>3. PICK p \in Segment : p = image[i]
  BY <1>2
<1>4. p.va \in Nat /\ p.memsz \in Nat
  BY DEF Segment
<1>5. PICK u \in Nat : u = p.va + k /\ p.va <= u /\ u < p.va + p.memsz
  BY <1>3, <1>4
<1>6. u \div 2 \in Touched(p)
  BY <1>4, <1>5, InTouched
<1>7. Touched(p) \cap Touched(ph) = {}
  BY <1>3, PagesApart
<1> QED BY <1>3, <1>5, <1>6, <1>7

(* A turn of region_alloc()'s loop that maps a page.                       *)
LEMMA NewPageKeeps ==
    ASSUME BInv, pc = "region_alloc", next_va \in Touched(ph), free # <<>>,
           PDX(next_va) \in DOMAIN env.tables \/ Len(free) >= 2, NewPage(next_va),
           UNCHANGED <<kern_pgdir, npages, nextfree, done, image>>
    PROVE  /\ KernelApart' /\ EnvApart'
           /\ DOMAIN env'.pages = {next_va} \cup DOMAIN env.pages
           /\ \A i \in 1 .. done : image[i].load => InMemory(i)'
<1> DEFINE v == next_va
           h == Head(free)
           t == Tail(free)
           known == PDX(v) \in DOMAIN env.tables
<1>1. KernelApart /\ EnvApart /\ ph.load /\ next_va \in Nat
  BY WhileLoading DEF BInv, Progress
<1>2. v \notin DOMAIN env.pages
  <2> SUFFICES ASSUME NEW w \in DOMAIN env.pages PROVE w # v
    OBVIOUS
  <2>1. Mapped(w)
    BY WhileLoading
  <2>2. CASE \E i \in 1 .. done : image[i].load /\ w \in Touched(image[i])
    <3>1. PICK i \in 1 .. done : image[i].load /\ w \in Touched(image[i])
      BY <2>2
    <3>2. Touched(image[i]) \cap Touched(ph) = {}
      BY <3>1, <1>1, PagesApart
    <3> QED BY <3>1, <3>2
  <2>3. CASE w < v
    <3>1. ~(v < v)
      BY <1>1
    <3> QED BY <2>3, <3>1
  <2> QED BY <2>1, <2>2, <2>3 DEF Mapped
<1>3. /\ h \in Usable /\ t \in Seq(Usable) /\ Distinct(t)
      /\ List = {h} \cup ListOf(t) /\ h \notin ListOf(t)
      /\ Len(free) \in Nat /\ Len(t) = Len(free) - 1
  <2>1. Taken(free, Usable)
    BY <1>1, Taking DEF KernelApart
  <2> QED BY <2>1 DEF Taken, List, ListOf
<1>4. /\ free' = IF known THEN t ELSE Tail(t)
      /\ env' = [env EXCEPT
            !.tables = IF known THEN @ ELSE Over(Entry(PDX(v), Head(t)), @),
            !.pages = Over(Entry(v, h), @),
            !.mem = Over([u \in Units(2 * v, 2) |-> "stale"], @)]
  <2>1. <<>> \o t = t
    BY <1>3, ConcatEmptySeq
  <2> QED BY <1>2, <2>1 DEF NewPage
<1>5. OneToOne(env.tables, Usable) /\ OneToOne(env.pages, Usable)
      /\ UserTables = Values(env.tables) /\ UserPages = Values(env.pages)
  BY <1>1 DEF EnvApart, OneToOne, UserTables, UserPages, Values
<1> DEFINE T == env'.tables
           P == env'.pages
           M == env'.mem
<1>6. /\ env' = [pgdir |-> env.pgdir, tables |-> T, pages |-> P, mem |-> M]
      /\ T = IF known THEN env.tables ELSE Over(Entry(PDX(v), Head(t)), env.tables)
      /\ P = Over(Entry(v, h), env.pages)
      /\ M = Over([u \in Units(2 * v, 2) |-> "stale"], env.mem)
  BY <1>1, <1>4 DEF EnvApart
<1> HIDE DEF h, t, T, P, M
<1>7. /\ h \notin UserTables \cup UserPages \cup Tables \cup {env.pgdir}
      /\ ListOf(t) \cap (UserTables \cup UserPages \cup Tables \cup {env.pgdir}) = {}
  BY <1>1, <1>3 DEF KernelApart, EnvApart
<1>8. OneToOne(P, Usable) /\ Values(P) = {h} \cup UserPages /\ DOMAIN P = {v} \cup DOMAIN env.pages
  <2>1. Grown(P, v, h, env.pages, Usable)
    <3>1. h \notin Values(env.pages)
      BY <1>5, <1>7
    <3> QED BY <3>1, <1>2, <1>3, <1>5, <1>6, Growing
  <2> QED BY <2>1, <1>5 DEF Grown
<1>9. Usable' = Usable /\ Tables' = Tables /\ Linked' = Linked /\ List' = ListOf(free')
      /\ (Distinct(free))' = Distinct(free') /\ UserTables' = Values(T) /\ UserPages' = Values(P)
  BY <1>6 DEF Usable, Tables, Linked, List, ListOf, Distinct, UserTables, UserPages, Values, T, P
<1>10. /\ free' \in Seq(Usable) /\ Distinct(free') /\ ListOf(free') \subseteq ListOf(t)
       /\ OneToOne(T, Usable) /\ Values(T) \cap ListOf(free') = {}
       /\ Values(T) \subseteq UserTables \cup ListOf(t)
  <2>1. CASE known
    BY <2>1, <1>3, <1>4, <1>5, <1>6, <1>7
  <2>2. CASE ~known
    <3>1. Taken(t, Usable)
      <4>1. t # <<>>
        BY <2>2, <1>3, EmptySeq
      <4> QED BY <4>1, <1>3, Taking
    <3>2. /\ Head(t) \in Usable /\ Tail(t) \in Seq(Usable) /\ Distinct(Tail(t))
          /\ ListOf(t) = {Head(t)} \cup ListOf(Tail(t)) /\ Head(t) \notin ListOf(Tail(t))
      BY <3>1 DEF Taken
    <3>3. Head(t) \notin UserTables
      BY <3>2, <1>7
    <3>4. OneToOne(T, Usable) /\ Values(T) = {Head(t)} \cup UserTables
      <4>0. PICK x : x = PDX(v)
        OBVIOUS
      <4>1. PICK y \in Usable : x = PDX(v) /\ y = Head(t)
        BY <3>2, <4>0
      <4>2. x \notin DOMAIN env.tables /\ y \notin Values(env.tables)
        BY <4>1, <2>2, <3>3, <1>5
      <4>3. T = Over(Entry(x, y), env.tables)
        BY <4>1, <2>2, <1>6
      <4>4. Grown(T, x, y, env.tables, Usable)
        BY <4>2, <4>3, <1>5, Growing
      <4> QED BY <4>1, <4>4, <1>5 DEF Grown
    <3>5. free' = Tail(t)
      BY <2>2, <1>4
    <3> QED BY <3>2, <3>4, <3>5, <1>7
  <2> QED BY <2>1, <2>2
<1>11. KernelApart'
  BY <1>1, <1>7, <1>9, <1>10 DEF KernelApart
<1>12. EnvApart'
  <2>1. env'.pgdir = env.pgdir /\ env.pgdir \in Usable
    BY <1>1, <1>6 DEF EnvApart
  <2>2. Values(T) \cap Values(P) = {} /\ env.pgdir \notin Values(T) \cup Values(P)
    BY <1>1, <1>3, <1>7, <1>8, <1>10 DEF EnvApart, KernelApart
  <2>3. ({env.pgdir} \cup Values(T) \cup Values(P)) \cap (ListOf(free') \cup Tables) = {}
    BY <1>1, <1>3, <1>7, <1>8, <1>10 DEF EnvApart, KernelApart
  <2> QED BY <2>1, <2>2, <2>3, <1>6, <1>8, <1>9, <1>10 DEF EnvApart, OneToOne, T, P, M
<1>13. ASSUME NEW i \in 1 .. done, image[i].load PROVE InMemory(i)'
  <2>1. InMemory(i)
    BY <1>13, WhileLoading
  <2>2. \A k \in 0 .. image[i].memsz - 1 : image[i].va + k \notin Units(2 * v, 2)
    <3> SUFFICES ASSUME NEW k \in 0 .. image[i].memsz - 1 PROVE image[i].va + k \notin Units(2 * v, 2)
      OBVIOUS
    <3>1. PICK u \in Nat : u = image[i].va + k /\ u \div 2 \notin Touched(ph)
      BY <1>1, <1>13, BytesApart
    <3>2. u \div 2 # v
      BY <3>1
    <3>3. u \in 2 * v .. 2 * v + 2 - 1 => u \div 2 = v
      BY <1>1
    <3> QED BY <3>1, <3>2, <3>3 DEF Units
  <2>3. \A u \in DOMAIN env.mem : u \notin Units(2 * v, 2) => u \in DOMAIN M /\ M[u] = env.mem[u]
    BY <1>6 DEF Over
  <2>4. image' = image /\ env'.mem = M
    BY DEF M
  <2> QED BY <2>1, <2>2, <2>3, <2>4 DEF InMemory
<1> QED BY <1>8, <1>11, <1>12, <1>13 DEF P

LEMMA RegionAllocKeeps ==
    ASSUME BInv, region_alloc
    PROVE  BInv'
<1>1. /\ pc = "region_alloc" /\ next_va \in Touched(ph) /\ next_va' = next_va + 1
      /\ UNCHANGED <<machine, npages_basemem, npages, nextfree, kern_pgdir, highest, image>>
  BY DEF region_alloc
<1>2. /\ KernelApart /\ EnvApart /\ \A v \in DOMAIN env.pages : Mapped(v)
      /\ \A i \in 1 .. done : image[i].load => InMemory(i)
  BY <1>1, WhileLoading
<1>3. /\ image \in Images /\ Len(image) \in Nat /\ done \in Nat /\ done <= Len(image)
      /\ done = Len(image) => Touched(ph) = {USTACKTOP - 1}
      /\ ph.load /\ next_va \in Nat /\ next_va >= ph.va \div 2 /\ ph.va \in Nat
  <2>1. ph.va \in Nat
    <3>1. CASE done < Len(image)
      BY <3>1, <1>1, Heading DEF Segment
    <3>2. CASE done = Len(image)
      BY <3>2, <1>1, Heading, Layout
    <3> QED BY <3>1, <3>2, <1>1, Heading
  <2> QED BY <2>1, <1>1, Heading DEF BInv, Progress
(* What every turn that goes on leaves to be shown.                        *)
<1>4. ASSUME pc' = pc, done' = done, KernelApart', EnvApart',
             DOMAIN env'.pages \subseteq {next_va} \cup DOMAIN env.pages,
             next_va \in DOMAIN env'.pages \/ free' = <<>>,
             \A i \in 1 .. done : image[i].load => InMemory(i)'
      PROVE  BInv'
  <2>1. ph' = ph /\ next_va' \in Nat /\ next_va < next_va'
    BY <1>1, <1>3, <1>4 DEF ph
  <2>2. \A v \in DOMAIN env'.pages : Mapped(v)'
    <3> SUFFICES ASSUME NEW v \in DOMAIN env'.pages PROVE Mapped(v)'
      OBVIOUS
    <3>1. CASE v = next_va
      BY <3>1, <2>1, <1>1, <1>4 DEF Mapped
    <3>2. CASE v \in DOMAIN env.pages
      <4>1. Mapped(v)
        BY <3>2, <1>2
      <4>2. v \in Touched(ph) => v \in Int
        BY DEF Touched
      <4>3. v \in Touched(ph) /\ v < next_va => v < next_va'
        BY <4>2, <1>1, <1>3
      <4> QED BY <4>1, <4>3, <2>1, <1>1, <1>4 DEF Mapped
    <3> QED BY <3>1, <3>2, <1>4
  <2>3. done = Len(image) => USTACKTOP - 1 \in DOMAIN env'.pages \/ free' = <<>>
    BY <1>1, <1>3, <1>4
  <2>4. next_va' >= ph.va \div 2
    <3>1. PICK a \in Nat : a = ph.va
      BY <1>3
    <3>2. next_va >= a \div 2 => next_va + 1 >= a \div 2
      BY <1>3
    <3> QED BY <3>1, <3>2, <1>1, <1>3
  <2>5. Progress'
    BY <2>1, <2>2, <2>3, <2>4, <1>1, <1>3, <1>4 DEF Progress
  <2> QED BY <2>5, <1>1, <1>3, <1>4, LoadKeeps
<1>5. CASE PDX(next_va) \notin DOMAIN env.tables /\ Len(free) < 2
  <2>1. free' = <<>> /\ pc' = pc /\ done' = done /\ env' = env
    BY <1>5 DEF region_alloc
  <2>2. Usable' = Usable /\ Tables' = Tables /\ Linked' = Linked /\ List' = {} /\ (Distinct(free))' = Distinct(<<>>)
        /\ UserTables' = UserTables /\ UserPages' = UserPages
    BY <1>1, <2>1 DEF Usable, Tables, Linked, List, Distinct, UserTables, UserPages
  <2>3. <<>> \in Seq(Usable) /\ Distinct(<<>>)
    BY DEF Distinct
  <2>4. KernelApart'
    BY <2>1, <2>2, <2>3, <1>1, <1>2 DEF KernelApart
  <2>5. EnvApart'
    BY <2>1, <2>2, <1>1, <1>2 DEF EnvApart
  <2>6. \A i \in 1 .. done : image[i].load => InMemory(i)'
    BY <2>1, <1>1, <1>2 DEF InMemory
  <2> QED BY <2>1, <2>4, <2>5, <2>6, <1>4
<1>6. CASE ~(PDX(next_va) \notin DOMAIN env.tables /\ Len(free) < 2) /\ free = <<>>
  <2>1. pc' = "panic" /\ done' = 0
    BY <1>6 DEF region_alloc, Goto
  <2> QED BY <2>1, <1>1, PanicKeeps
<1>7. CASE ~(PDX(next_va) \notin DOMAIN env.tables /\ Len(free) < 2) /\ free # <<>>
  <2>1. NewPage(next_va) /\ pc' = pc /\ done' = done
    BY <1>7 DEF region_alloc
  <2>2. PDX(next_va) \in DOMAIN env.tables \/ Len(free) >= 2
    <3>1. Len(free) \in Nat
      BY <1>2, LenProperties DEF KernelApart
    <3> QED BY <3>1, <1>7
  <2>3. /\ KernelApart' /\ EnvApart' /\ DOMAIN env'.pages = {next_va} \cup DOMAIN env.pages
        /\ \A i \in 1 .. done : image[i].load => InMemory(i)'
    BY <2>1, <2>2, <1>1, <1>7, NewPageKeeps
  <2> QED BY <2>1, <2>3, <1>4
<1> QED BY <1>5, <1>6, <1>7

(* The bytes of a segment are copied, and the rest of it is cleared.       *)
LEMMA CopySegmentKeeps ==
    ASSUME BInv, CopySegment
    PROVE  BInv'
<1>1. /\ pc = "region_alloc" /\ next_va \notin Touched(ph)
      /\ UNCHANGED <<machine, npages_basemem, npages, nextfree, free, kern_pgdir, highest, image>>
  BY DEF CopySegment, memory
<1>2. /\ KernelApart /\ EnvApart /\ \A v \in DOMAIN env.pages : Mapped(v)
      /\ \A i \in 1 .. done : image[i].load => InMemory(i)
  BY <1>1, WhileLoading
<1>3. /\ image \in Images /\ Len(image) \in Nat /\ done \in Nat /\ done <= Len(image)
      /\ image \in Seq(Segment) /\ DOMAIN image = 1 .. Len(image)
      /\ done < Len(image) => ph = image[done + 1] /\ ph \in Segment
      /\ done = Len(image) => ph.va = 2 * (USTACKTOP - 1) /\ Touched(ph) = {USTACKTOP - 1}
      /\ ph.load /\ next_va \in Nat /\ next_va >= ph.va \div 2
      /\ done = Len(image) /\ next_va > USTACKTOP - 1 => USTACKTOP - 1 \in DOMAIN env.pages \/ free = <<>>
  BY <1>1, Heading, LenProperties DEF BInv, Progress
<1>4. CASE done = Len(image)
  <2>1. pc' = "run" /\ done' = 0 /\ env' = env
    BY <1>4 DEF CopySegment, Goto
  <2>2. next_va > USTACKTOP - 1
    <3>1. PICK a \in Nat, b \in Nat : a = ph.va /\ b = next_va /\ a \div 2 = USTACKTOP - 1
      BY <1>3, <1>4, Layout
    <3>2. b # a \div 2 /\ b >= a \div 2
      BY <3>1, <1>1, <1>3, <1>4
    <3>3. b > a \div 2
      BY <3>2
    <3> QED BY <3>1, <3>3
  <2>3. USTACKTOP - 1 \in DOMAIN env.pages \/ free = <<>>
    BY <2>2, <1>3, <1>4
  <2>4. ImageLoaded'
    BY <2>1, <2>3, <1>1, <1>2, <1>3, <1>4 DEF ImageLoaded, InMemory
  <2>5. Progress'
    BY <2>1, <2>4, <1>1, <1>3 DEF Progress
  <2>6. KernelApart' /\ EnvApart'
    BY <2>1, <1>1, <1>2, Unmoved
  <2> QED BY <2>1, <2>5, <2>6, <1>1, LoadKeeps
<1>5. CASE done # Len(image) /\ (ph.filesz > ph.memsz \/ ~(Units(ph.va, ph.memsz) \subseteq DOMAIN env.mem))
  <2>1. pc' = "panic" /\ done' = 0
    BY <1>5 DEF CopySegment, Goto
  <2> QED BY <2>1, <1>1, PanicKeeps
<1>6. CASE done # Len(image) /\ ~(ph.filesz > ph.memsz \/ ~(Units(ph.va, ph.memsz) \subseteq DOMAIN env.mem))
  <2>0. done < Len(image)
    <3>1. PICK z \in Nat, d \in Nat : z = Len(image) /\ d = done /\ d <= z
      BY <1>3
    <3>2. d # z
      BY <3>1, <1>6
    <3>3. d < z
      BY <3>1, <3>2
    <3> QED BY <3>1, <3>3
  <2> DEFINE M == Over(Cleared, Over(Copied, env.mem))
  <2>1. pc' = "load" /\ done' = done + 1 /\ env' = [env EXCEPT !.mem = M]
    BY <1>6 DEF CopySegment
  <2>2. PICK va \in Nat, f \in Nat, n \in Nat : va = ph.va /\ f = ph.filesz /\ n = ph.memsz /\ f <= n
    <3>1. ph \in Segment
      BY <2>0, <1>3
    <3>2. ph.va \in Nat /\ ph.filesz \in Nat /\ ph.memsz \in Nat
      BY <3>1 DEF Segment
    <3>3. PICK va, f, n \in Nat : va = ph.va /\ f = ph.filesz /\ n = ph.memsz
      BY <3>2
    <3>4. f <= n
      BY <3>3, <1>6
    <3> QED BY <3>3, <3>4
  <2>3. PICK j \in Nat : /\ j = done + 1 /\ j <= Len(image) /\ ph = image[j] /\ image[j].load
                         /\ \A i \in 1 .. j : i = j \/ i \in 1 .. done
                         /\ \A i \in 1 .. done : i \in 1 .. j
                         /\ j \in 1 .. j
    <3>1. PICK z \in Nat, d \in Nat : z = Len(image) /\ d = done /\ d < z
      BY <2>0, <1>3
    <3>2. /\ d + 1 \in Nat /\ d + 1 <= z /\ d + 1 \in 1 .. d + 1
          /\ \A i \in 1 .. d + 1 : i = d + 1 \/ i \in 1 .. d
          /\ \A i \in 1 .. d : i \in 1 .. d + 1
      BY <3>1
    <3>3. ph = image[d + 1] /\ ph.load
      BY <2>0, <3>1, <1>3
    <3> QED BY <3>1, <3>2, <3>3
  <2>4. M = Over([u \in Units(va + f, n - f) |-> "zero"], Over([u \in Units(va, f) |-> <<j, u - va>>], env.mem))
    BY <2>2, <2>3 DEF Cleared, Copied
  <2> HIDE DEF M
  <2>5. Loads(M, env.mem, va, f, n, j)
    BY <2>2, <2>4, LoadedValues
  <2>6. env' = [pgdir |-> env.pgdir, tables |-> env.tables, pages |-> env.pages, mem |-> M]
    BY <2>1, <1>2 DEF EnvApart
  <2>7. EnvApart' /\ KernelApart'
    <3>1. /\ Usable' = Usable /\ Linked' = Linked /\ Tables' = Tables /\ List' = List
          /\ (Distinct(free))' = Distinct(free) /\ UserTables' = UserTables /\ UserPages' = UserPages
      BY <1>1, <2>6 DEF Usable, Linked, Tables, List, Distinct, UserTables, UserPages
    <3>2. env'.pgdir = env.pgdir /\ env'.tables = env.tables /\ env'.pages = env.pages /\ env'.mem = M
      BY <2>6
    <3> QED BY <3>1, <3>2, <2>6, <1>1, <1>2 DEF KernelApart, EnvApart
  <2>8. ASSUME NEW i \in 1 .. j, image[i].load PROVE InMemory(i)'
    <3>1. env'.mem = M /\ image' = image
      BY <2>6, <1>1
    <3>2. CASE i = j
      <4>1. image[i].va = va /\ image[i].memsz = n /\ image[i].filesz = f
        BY <3>2, <2>2, <2>3
      <4> QED BY <4>1, <3>1, <3>2, <2>5 DEF Loads, InMemory
    <3>3. CASE i # j
      <4>1. i \in 1 .. done
        BY <3>3, <2>3
      <4>2. InMemory(i)
        BY <4>1, <2>8, <1>2
      <4>3. \A k \in 0 .. image[i].memsz - 1 : image[i].va + k \notin Units(va, n)
        <5> SUFFICES ASSUME NEW k \in 0 .. image[i].memsz - 1 PROVE image[i].va + k \notin Units(va, n)
          OBVIOUS
        <5>1. PICK u \in Nat : u = image[i].va + k /\ u \div 2 \notin Touched(ph)
          BY <4>1, <2>8, <1>1, <1>3, BytesApart
        <5>2. u \in Units(va, n) => va <= u /\ u < va + n
          BY DEF Units
        <5>3. u \in Units(va, n) => u \div 2 \in Touched(ph)
          BY <5>2, <2>2, InTouched
        <5> QED BY <5>1, <5>3
      <4> QED BY <4>2, <4>3, <3>1, <2>5 DEF Loads, InMemory
    <3> QED BY <3>2, <3>3
  <2>9. \A v \in DOMAIN env.pages : Mapped(v)'
    <3> SUFFICES ASSUME NEW v \in DOMAIN env.pages PROVE Mapped(v)'
      OBVIOUS
    <3>1. Mapped(v)
      BY <1>2
    <3>0. /\ done' = j /\ image' = image
          /\ (\E i \in 1 .. j : i <= Len(image) /\ image[i].load /\ v \in Touched(image[i])) => Mapped(v)'
      BY <2>1, <2>3, <1>1 DEF Mapped
    <3>2. CASE v \in Touched(ph)
      <4>1. v \in Touched(image[j])
        BY <3>2, <2>3
      <4> QED BY <4>1, <3>0, <2>3
    <3>3. CASE \E i \in 1 .. done : i <= Len(image) /\ image[i].load /\ v \in Touched(image[i])
      BY <3>3, <3>0, <2>3
    <3> QED BY <3>1, <3>2, <3>3 DEF Mapped
  <2>10. Progress'
    <3>1. env'.pages = env.pages
      BY <2>6
    <3> QED BY <3>1, <2>1, <2>3, <2>8, <2>9, <1>1, <1>3 DEF Progress
  <2> QED BY <2>1, <2>3, <2>7, <2>10, <1>1, LoadKeeps
<1> QED BY <1>4, <1>5, <1>6

-----------------------------------------------------------------------------
(* Every step, and the specification.                                      *)

LEMMA StutterBoot ==
    ASSUME BInv, UNCHANGED vars
    PROVE  BInv'
<1>1. /\ UNCHANGED <<machine, pc, done, npages_basemem, npages, nextfree, free, kern_pgdir, ptes, highest>>
      /\ UNCHANGED <<mmio, image, next_va, env>>
  BY DEF vars, memory, program
<1>2. TypeFacts' /\ Sizes' /\ Allocated' /\ DirectoryFacts' /\ Stock'
  BY <1>1 DEF BInv, TypeFacts, Sizes, Allocated, DirectoryFacts, Stock, LowFirst, envs, pages, directory
<1>3. /\ Usable' = Usable /\ Linked' = Linked /\ Tables' = Tables /\ List' = List /\ FirstList' = FirstList
      /\ (Distinct(free))' = Distinct(free) /\ UserTables' = UserTables /\ UserPages' = UserPages
  BY <1>1 DEF Usable, Linked, Tables, List, FirstList, Distinct, UserTables, UserPages
<1>4. Apart'
  BY <1>1, <1>3 DEF BInv, Apart, KernelApart, EnvApart
<1>5. Progress'
  BY <1>1 DEF BInv, Progress, Mapped, InMemory, ImageLoaded, ph
<1> QED BY <1>2, <1>4, <1>5 DEF BInv

LEMMA NextBoot ==
    ASSUME BInv, [Next]_vars
    PROVE  BInv'
<1>1. CASE mem_init
  <2>1. CASE i386_detect_memory
    BY <2>1, DetectKeeps
  <2>2. CASE AllocKernPgdir
    BY <2>2, AllocKernPgdirKeeps
  <2>3. CASE AllocPages
    BY <2>3, AllocPagesKeeps
  <2>4. CASE AllocEnvs
    BY <2>4, AllocEnvsKeeps
  <2>5. CASE page_init
    BY <2>5, PageInitKeeps
  <2>6. CASE check_page_free_list
    BY <2>6, CheckListKeeps
  <2>7. CASE check_page
    BY <2>7, CheckPageKeeps
  <2>8. CASE boot_map_region
    BY <2>8, MapKeeps
  <2>9. CASE ClearFirst
    BY <2>9, ClearKeeps
  <2>10. CASE check_kern_pgdir \/ lcr3
    BY <2>10, CheckKeeps
  <2>11. CASE check_page_installed_pgdir
    BY <2>11, InstalledKeeps
  <2> QED BY <1>1, <2>1, <2>2, <2>3, <2>4, <2>5, <2>6, <2>7, <2>8, <2>9, <2>10, <2>11 DEF mem_init
<1>2. CASE lapic_init
  BY <1>2, LapicKeeps
<1>3. CASE env_create
  BY <1>3, SetupKeeps, NextSegmentKeeps, RegionAllocKeeps, CopySegmentKeeps DEF env_create
<1>4. CASE UNCHANGED vars
  BY <1>4, StutterBoot
<1> QED BY <1>1, <1>2, <1>3, <1>4 DEF Next

(* The invariant holds in every state of the boot (mem_init(), lapic_init(), *)
(* env_create()).                                                          *)
THEOREM BootInvariant == Spec => []BInv
<1>1. BInv /\ [Next]_vars => BInv'
  BY NextBoot
<1> QED BY <1>1, InitBoot, PTL DEF Spec

(* Before a program runs, its memory is its image (load_icode(): the copy, *)
(* the memset() behind it, and the stack).                                 *)
THEOREM ImageIsLoaded == Spec => []ImageLoaded
<1>1. BInv => ImageLoaded
  BY DEF BInv, Progress, ImageLoaded
<1> QED BY <1>1, BootInvariant, PTL

(* mem_init() writes only pages that entry_pgdir maps while it is in use   *)
(* (boot_alloc(), and page_alloc() behind check_page_free_list(1)).        *)
THEOREM TablesAreReachable == Spec => []TablesReachable
<1>1. BInv => TablesReachable
  <2> SUFFICES ASSUME BInv PROVE TablesReachable
    OBVIOUS
  <2>1. PICK h \in Nat : h = highest /\ h < 1024
    BY Layout DEF BInv, TypeFacts
  <2>2. (983040 + h) \div 1024 = 960 /\ (983040 + h) % 1024 = h
    BY <2>1
  <2>3. PDX(KERNBASE + highest) = PDX(KERNBASE) /\ (KERNBASE + highest) % NPTENTRIES = h
    BY <2>1, <2>2, Layout DEF PDX
  <2>4. PDX(KERNBASE) \in DOMAIN entry_pgdir
    BY DEF entry_pgdir, Over, Entry
  <2>5. entry_pgtable[h].pa = h
    <3>1. h \in 0 .. NPTENTRIES - 1
      BY <2>1, Layout
    <3> QED BY <3>1 DEF entry_pgtable
  <2> QED BY <2>1, <2>3, <2>4, <2>5 DEF TablesReachable
<1> QED BY <1>1, BootInvariant, PTL

(* As many values as arguments.                                            *)
LEMMA ImageSize ==
    ASSUME NEW f, IsFiniteSet(DOMAIN f), \A x, y \in DOMAIN f : f[x] = f[y] => x = y, f = [x \in DOMAIN f |-> f[x]]
    PROVE  IsFiniteSet(Values(f)) /\ Cardinality(Values(f)) = Cardinality(DOMAIN f)
<1>1. f \in [DOMAIN f -> Values(f)] /\ \A y \in Values(f) : \E x \in DOMAIN f : f[x] = y
  BY DEF Values
<1>2. f \in Bijection(DOMAIN f, Values(f))
  BY <1>1 DEF Bijection, Injection, IsInjective, Surjection
<1>3. ExistsBijection(DOMAIN f, Values(f))
  BY <1>2 DEF ExistsBijection
<1> QED BY <1>3, FS_Bijection

(* As many pages as places in the list.                                    *)
LEMMA ListSize ==
    ASSUME NEW S, NEW s \in Seq(S), Distinct(s)
    PROVE  ToSet(s) = ListOf(s) /\ Cardinality(ToSet(s)) = Len(s)
<1>1. PICK z \in Nat : z = Len(s) /\ DOMAIN s = 1 .. z
  BY LenProperties
<1>2. s = [i \in DOMAIN s |-> s[i]] /\ \A i, j \in DOMAIN s : s[i] = s[j] => i = j
  BY <1>1 DEF Distinct
<1>3. IsFiniteSet(DOMAIN s) /\ Cardinality(DOMAIN s) = z
  <2>1. PICK a \in Int : a = 1
    OBVIOUS
  <2>2. IsFiniteSet(a .. z) /\ Cardinality(a .. z) = IF a > z THEN 0 ELSE z - a + 1
    BY FS_Interval
  <2>3. (IF a > z THEN 0 ELSE z - a + 1) = z
    BY <2>1
  <2> QED BY <1>1, <2>1, <2>2, <2>3
<1>4. Values(s) = ToSet(s) /\ Values(s) = ListOf(s)
  BY <1>1 DEF Values, ToSet, ListOf
<1> QED BY <1>1, <1>2, <1>3, <1>4, ImageSize

(* As many page tables as directory entries, but for the one of UVPT.      *)
LEMMA TablesSize ==
    ASSUME BInv, pc \in Late
    PROVE  Cardinality(Tables) = Cardinality(DOMAIN kern_pgdir) - 1
<1>1. DOMAIN kern_pgdir \subseteq Dirs /\ PDX(UVPT) \in DOMAIN kern_pgdir /\ KernelApart
  BY DEF BInv, DirectoryFacts, Apart
<1>2. IsFiniteSet(DOMAIN kern_pgdir)
  <2>1. PICK a \in Int, b \in Int : a = 0 /\ b = 1023
    OBVIOUS
  <2>2. DOMAIN kern_pgdir \subseteq a .. b
    BY <1>1, <2>1, Layout
  <2> QED BY <2>2, FS_Interval, FS_Subset
<1>3. IsFiniteSet(Linked) /\ Cardinality(Linked) = Cardinality(DOMAIN kern_pgdir) - 1
  BY <1>1, <1>2, FS_RemoveElement DEF Linked
<1> DEFINE f == [d \in Linked |-> kern_pgdir[d].table]
<1>4. DOMAIN f = Linked /\ Values(f) = Tables /\ f = [x \in DOMAIN f |-> f[x]]
  BY DEF Values, Tables
<1>5. \A x, y \in DOMAIN f : f[x] = f[y] => x = y
  BY <1>1 DEF KernelApart
<1> HIDE DEF f
<1> QED BY <1>3, <1>4, <1>5, ImageSize

(* As many pages of the environment as its directory and tables know.      *)
LEMMA OwnSize ==
    ASSUME EnvApart, npages \in Nat, nextfree \in Nat
    PROVE  Cardinality(UserTables \cup UserPages \cup ({env.pgdir} \ {0}))
             = Cardinality(DOMAIN env.tables) + Cardinality(DOMAIN env.pages) + 1
<1>1. /\ Values(env.tables) = UserTables /\ Values(env.pages) = UserPages
      /\ env.tables = [x \in DOMAIN env.tables |-> env.tables[x]]
      /\ env.pages = [x \in DOMAIN env.pages |-> env.pages[x]]
  BY DEF EnvApart, UserTables, UserPages, Values
<1>2. IsFiniteSet(UserTables) /\ Cardinality(UserTables) = Cardinality(DOMAIN env.tables)
  <2>1. PICK f : f = env.tables
    OBVIOUS
  <2>2. IsFiniteSet(DOMAIN f) /\ f = [x \in DOMAIN f |-> f[x]] /\ \A x, y \in DOMAIN f : f[x] = f[y] => x = y
    BY <1>1, <2>1 DEF EnvApart
  <2>3. IsFiniteSet(Values(f)) /\ Cardinality(Values(f)) = Cardinality(DOMAIN f)
    BY <2>2, ImageSize
  <2> QED BY <1>1, <2>1, <2>3
<1>3. IsFiniteSet(UserPages) /\ Cardinality(UserPages) = Cardinality(DOMAIN env.pages)
  <2>1. PICK f : f = env.pages
    OBVIOUS
  <2>2. IsFiniteSet(DOMAIN f) /\ f = [x \in DOMAIN f |-> f[x]] /\ \A x, y \in DOMAIN f : f[x] = f[y] => x = y
    BY <1>1, <2>1 DEF EnvApart
  <2>3. IsFiniteSet(Values(f)) /\ Cardinality(Values(f)) = Cardinality(DOMAIN f)
    BY <2>2, ImageSize
  <2> QED BY <1>1, <2>1, <2>3
<1>4. IsFiniteSet(UserTables \cup UserPages)
      /\ Cardinality(UserTables \cup UserPages) = Cardinality(DOMAIN env.tables) + Cardinality(DOMAIN env.pages)
  <2>1. UserTables \cap UserPages = {}
    BY DEF EnvApart
  <2>2. PICK a \in Nat, b \in Nat : a = Cardinality(UserTables) /\ b = Cardinality(UserPages)
    BY <1>2, <1>3, FS_CardinalityType
  <2>3. PICK S, T : S = UserTables /\ T = UserPages
    OBVIOUS
  <2>4. IsFiniteSet(S) /\ IsFiniteSet(T) /\ S \cap T = {} /\ Cardinality(S) = a /\ Cardinality(T) = b
    BY <2>1, <2>2, <2>3, <1>2, <1>3
  <2>5. IsFiniteSet(S \cup T) /\ Cardinality(S \cup T) = a + b
    <3>1. /\ IsFiniteSet(S \cup T)
          /\ Cardinality(S \cup T) = Cardinality(S) + Cardinality(T) - Cardinality(S \cap T)
      BY <2>4, FS_Union
    <3>2. Cardinality(S \cap T) = 0
      BY <2>4, FS_EmptySet
    <3>3. a + b - 0 = a + b
      OBVIOUS
    <3> QED BY <2>4, <3>1, <3>2, <3>3
  <2> QED BY <2>2, <2>3, <2>5, <1>2, <1>3
<1>5. env.pgdir # 0 /\ env.pgdir \notin UserTables \cup UserPages
  BY DEF EnvApart, Usable, Spare
<1>6. UserTables \cup UserPages \cup ({env.pgdir} \ {0}) = (UserTables \cup UserPages) \cup {env.pgdir}
  BY <1>5
<1>7. PICK S, x : S = UserTables \cup UserPages /\ x = env.pgdir
  OBVIOUS
<1>8. IsFiniteSet(S) /\ x \notin S
  BY <1>4, <1>5, <1>7
<1>9. Cardinality(S \cup {x}) = Cardinality(S) + 1
  BY <1>8, FS_AddElement
<1> QED BY <1>4, <1>6, <1>7, <1>9

(* Once the checks are passed, the free list, the kernel's page tables,    *)
(* the environment's pages and everything page_init() leaves out are apart *)
(* (page_init(), the checks, boot_map_region() and load_icode()).          *)
THEOREM FreeStaysOutside == Spec => []FreeOutsideKernel
<1>1. ASSUME BInv, pc \in Late PROVE FreeOutsideKernel
  <2> DEFINE used == {0, MPENTRY_PADDR} \cup (IOPHYSMEM .. nextfree - 1)
             own == UserTables \cup UserPages \cup ({env.pgdir} \ {0})
  <2>1. /\ KernelApart /\ npages \in Nat /\ nextfree \in Nat
        /\ pc \in Loading => EnvApart
        /\ pc \notin Loading => env = NoEnv
    BY <1>1 DEF BInv, Apart, TypeFacts
  <2>2. Usable \cap used = {}
    <3>1. ASSUME NEW p \in Usable PROVE p \notin used
      <4>1. /\ p \in Nat /\ p # 0 /\ p # 7 /\ (p < 160 \/ nextfree <= p)
        BY DEF Usable, Spare, MPENTRY_PADDR
      <4>2. p \notin 160 .. nextfree - 1
        BY <4>1, <2>1
      <4> QED BY <4>1, <4>2 DEF MPENTRY_PADDR, IOPHYSMEM
    <3> QED BY <3>1
  <2>3. Cardinality(ToSet(free)) = Len(free) /\ ToSet(free) = List /\ List \subseteq Usable
    <3>1. ToSet(free) = ListOf(free) /\ Cardinality(ToSet(free)) = Len(free)
      BY <2>1, ListSize DEF KernelApart
    <3>2. \A i \in 1 .. Len(free) : free[i] \in Usable
      BY <2>1, ElementOfSeq DEF KernelApart
    <3> QED BY <3>1, <3>2 DEF List, ListOf
  <2>4. Cardinality(Tables) = Cardinality(DOMAIN kern_pgdir) - 1
    BY <1>1, TablesSize
  <2>5. /\ own \cap (List \cup Tables) = {} /\ own \subseteq Usable
        /\ Cardinality(own) = Cardinality(DOMAIN env.tables) + Cardinality(DOMAIN env.pages)
                              + (IF env.pgdir = 0 THEN 0 ELSE 1)
    <3>1. CASE pc \in Loading
      <4>1. EnvApart
        BY <3>1, <2>1
      <4>2. env.pgdir # 0
        BY <4>1 DEF EnvApart, Usable, Spare
      <4>3. UserTables \subseteq Usable /\ UserPages \subseteq Usable
        BY <4>1 DEF EnvApart, UserTables, UserPages
      <4>4. own \cap (List \cup Tables) = {} /\ own \subseteq Usable
        BY <4>1, <4>3 DEF EnvApart
      <4>5. Cardinality(own) = Cardinality(DOMAIN env.tables) + Cardinality(DOMAIN env.pages) + 1
        BY <4>1, <2>1, OwnSize
      <4> QED BY <4>2, <4>4, <4>5
    <3>2. CASE pc \notin Loading
      <4>1. env.pgdir = 0 /\ env.tables = <<>> /\ env.pages = <<>>
        BY <3>2, <2>1 DEF NoEnv
      <4>2. DOMAIN env.tables = {} /\ DOMAIN env.pages = {} /\ own = {}
        BY <4>1 DEF UserTables, UserPages
      <4>3. Cardinality({}) = 0
        BY FS_EmptySet
      <4>4. (IF env.pgdir = 0 THEN 0 ELSE 1) = 0 /\ 0 + 0 + 0 = 0
        BY <4>1
      <4> HIDE DEF own
      <4>5. own \cap (List \cup Tables) = {} /\ own \subseteq Usable
        BY <4>2
      <4>6. Cardinality(own) = 0 /\ Cardinality(DOMAIN env.tables) = 0 /\ Cardinality(DOMAIN env.pages) = 0
        BY <4>2, <4>3
      <4> QED BY <4>4, <4>5, <4>6
    <3> QED BY <3>1, <3>2
  <2>6. List \cap Tables = {} /\ Tables \subseteq Usable
    BY <2>1 DEF KernelApart
  <2> HIDE DEF used, own
  <2>7. /\ Cardinality(ToSet(free)) = Len(free)
        /\ ToSet(free) \cap (used \cup Tables \cup own) = {}
        /\ (Tables \cup own) \cap used = {} /\ Tables \cap own = {}
    BY <2>2, <2>3, <2>5, <2>6
  <2> QED BY <2>4, <2>5, <2>7 DEF FreeOutsideKernel, used, own, Tables, Linked, UserTables, UserPages
<1>2. BInv => FreeOutsideKernel
  <2>1. BInv => pc \in Early \cup {"panic"} \cup Late
    BY DEF BInv, TypeFacts, Early
  <2> QED BY <2>1, <1>1 DEF FreeOutsideKernel
<1> QED BY <1>2, BootInvariant, PTL

-----------------------------------------------------------------------------
(* What is mapped.  MInv says that the page tables hold the first regions  *)
(* of mem_init()'s list, then all of them, and behind them nothing but the *)
(* local APIC; and that every region has its directory entries, but for    *)
(* the first one, which is cleared.                                        *)

MapSteps  == {"check_kern_pgdir", "lcr3", "check_installed", "lapic_init", "env_create"} \cup Loading
BeforeMap == BootSteps \cup {"page_init", "check_low", "check_page"}

Made(n) ==
    /\ ptes \in Seq(Mappable) /\ n <= Len(ptes)
    /\ \A j \in 1 .. n : ptes[j] = regions[j] /\ Covered(ptes[j]) \subseteq DOMAIN kern_pgdir \cup {0}

Device(r) == MMIOBASE <= r.va /\ r.va + r.n <= MMIOLIM /\ "U" \notin r.perm

MInv ==
    /\ pc \in BeforeMap => ptes = <<>>
    /\ pc = "map" => Made(done) /\ Len(ptes) = done /\ done <= Len(regions)
    /\ pc \in MapSteps =>
         Made(Len(regions)) /\ \A j \in 1 .. Len(ptes) : j > Len(regions) => Device(ptes[j])

LEMMA SameRegions ==
    ASSUME npages' = npages
    PROVE  regions' = regions
BY DEF regions, pages, envs, directory

LEMMA Appended ==
    ASSUME NEW S, NEW s \in Seq(S), NEW r \in S
    PROVE  /\ Append(s, r) \in Seq(S) /\ Len(Append(s, r)) = Len(s) + 1
           /\ \A i \in 1 .. Len(s) : Append(s, r)[i] = s[i]
           /\ Append(s, r)[Len(s) + 1] = r
BY AppendProperties

(* One more region.                                                        *)
LEMMA MapMakes ==
    ASSUME NEW r \in Mappable, MapRegion(r), ptes \in Seq(Mappable)
    PROVE  /\ ptes' \in Seq(Mappable) /\ Len(ptes') = Len(ptes) + 1
           /\ \A j \in 1 .. Len(ptes) : ptes'[j] = ptes[j]
           /\ ptes'[Len(ptes) + 1] = r
           /\ DOMAIN kern_pgdir' = Covered(r) \cup DOMAIN kern_pgdir
<1>1. ptes' = Append(ptes, r)
  BY DEF MapRegion
<1>2. DOMAIN kern_pgdir' = Covered(r) \cup DOMAIN kern_pgdir
  BY DEF MapRegion, Over, Covered
<1> QED BY <1>1, <1>2, Appended

LEMMA InitMaps == Init => MInv
BY DEF Init, MInv, MapSteps, BeforeMap

(* The steps that map nothing and clear nothing.                           *)
LEMMA UnmappedKeeps ==
    ASSUME MInv, UNCHANGED <<ptes, npages>>,
           DOMAIN kern_pgdir \ {0} \subseteq DOMAIN kern_pgdir',
           pc' \in MapSteps => pc \in MapSteps \/ (pc = "map" /\ done = Len(regions)),
           pc' = "map" => (pc = "map" /\ done' = done) \/ (pc \in BeforeMap /\ done' = 0),
           pc' \in BeforeMap => pc \in BeforeMap
    PROVE  MInv'
<1>1. regions' = regions
  BY SameRegions
<1>2. ASSUME NEW n, Made(n) PROVE Made(n)'
  BY <1>1, <1>2 DEF Made
<1>3. CASE pc' \in BeforeMap
  BY <1>3 DEF MInv, BeforeMap, MapSteps
<1>4. CASE pc' = "map"
  <2>1. CASE pc = "map"
    <3>1. pc \notin BeforeMap /\ done' = done
      BY <2>1, <1>4 DEF BeforeMap
    <3> QED BY <2>1, <3>1, <1>1, <1>2, <1>4 DEF MInv, Made, BeforeMap, MapSteps
  <2>2. CASE pc \in BeforeMap
    <3>1. done' = 0 /\ ptes = <<>> /\ ptes' = <<>>
      BY <2>2, <1>4 DEF MInv, BeforeMap
    <3>2. Made(0)' /\ Len(<<>>) = 0
      BY <3>1 DEF Made
    <3>3. 0 <= Len(regions)
      BY DEF regions
    <3> QED BY <3>1, <3>2, <3>3, <1>1, <1>4 DEF MInv, BeforeMap, MapSteps
  <2> QED BY <2>1, <2>2, <1>4
<1>5. CASE pc' \in MapSteps
  <2>1. Made(Len(regions)) /\ \A j \in 1 .. Len(ptes) : j > Len(regions) => Device(ptes[j])
    BY <1>5 DEF MInv
  <2> QED BY <2>1, <1>1, <1>2, <1>5 DEF MInv, BeforeMap, MapSteps, Device
<1>6. CASE pc' \notin BeforeMap \cup MapSteps \cup {"map"}
  BY <1>6 DEF MInv
<1> QED BY <1>3, <1>4, <1>5, <1>6

LEMMA RegionCount ==
    ASSUME npages \in Nat, 16 <= npages, npages <= 16639
    PROVE  regions \in Seq(Mappable) /\ Len(regions) \in Nat
BY RegionFacts, LenProperties

LEMMA MapRegionMaps ==
    ASSUME BInv, MInv, boot_map_region
    PROVE  MInv'
<1>1. /\ pc = "map" /\ pc' = "map" /\ done' = done + 1 /\ done \in Nat /\ done < Len(regions)
      /\ npages' = npages /\ MapRegion(regions[done + 1])
  BY DEF BInv, TypeFacts, boot_map_region
<1>2. regions \in Seq(Mappable) /\ Len(regions) \in Nat
  BY <1>1, KernelKept, RegionCount
<1>3. Made(done) /\ Len(ptes) = done /\ regions' = regions
  BY <1>1, SameRegions DEF MInv
<1>4. PICK r \in Mappable, d \in Nat : r = regions[d] /\ d = done + 1 /\ d <= Len(regions)
  <2>1. PICK z \in Nat, d \in Nat : z = Len(regions) /\ d = done + 1 /\ d <= z /\ d \in 1 .. z
    BY <1>1, <1>2
  <2>2. regions[d] \in Mappable
    BY <2>1, <1>2, ElementOfSeq
  <2> QED BY <2>1, <2>2
<1>5. /\ ptes' \in Seq(Mappable) /\ Len(ptes') = d /\ ptes'[d] = r
      /\ \A j \in 1 .. done : ptes'[j] = ptes[j]
      /\ DOMAIN kern_pgdir' = Covered(r) \cup DOMAIN kern_pgdir
  <2>1. MapRegion(r) /\ ptes \in Seq(Mappable)
    BY <1>1, <1>3, <1>4 DEF Made
  <2> QED BY <2>1, <1>3, <1>4, MapMakes
<1>6. \A j \in 1 .. d : j = d \/ j \in 1 .. done
  BY <1>1, <1>4
<1>7. ASSUME NEW j \in 1 .. d
      PROVE  ptes'[j] = regions[j] /\ Covered(ptes'[j]) \subseteq DOMAIN kern_pgdir' \cup {0}
  <2>1. CASE j = d
    BY <2>1, <1>4, <1>5
  <2>2. CASE j \in 1 .. done
    BY <2>2, <1>3, <1>5 DEF Made
  <2> QED BY <2>1, <2>2, <1>6
<1>8. Made(d)' /\ Len(ptes') = d
  BY <1>3, <1>4, <1>5, <1>7 DEF Made, Covered
<1> QED BY <1>1, <1>3, <1>4, <1>8 DEF MInv, BeforeMap, MapSteps

LEMMA ClearMaps ==
    ASSUME MInv, ClearFirst
    PROVE  MInv'
<1>1. /\ pc = "map" /\ pc' = "check_kern_pgdir" /\ done = Len(regions)
      /\ UNCHANGED <<ptes, npages>> /\ DOMAIN kern_pgdir' = DOMAIN kern_pgdir \ {0}
  BY DEF ClearFirst, UnlinkFirst, Goto
<1> QED BY <1>1, UnmappedKeeps DEF BeforeMap, MapSteps

LEMMA LapicMaps ==
    ASSUME BInv, MInv, lapic_init
    PROVE  MInv'
<1>1. pc = "lapic_init" /\ pc' \in {"env_create", "panic"} /\ npages' = npages
  BY DEF lapic_init, Goto
<1>2. CASE UNCHANGED memory
  BY <1>1, <1>2, UnmappedKeeps DEF memory, BeforeMap, MapSteps
<1>3. CASE ~UNCHANGED memory
  <2>1. pc' = "env_create" /\ MapRegion(Region(mmio, 1, machine.lapicaddr, {"W", "PCD", "PWT"}))
    BY <1>3 DEF lapic_init, Goto
  <2>2. mmio = MMIOBASE + 3
    BY <1>1, MmioKept
  <2>3. PICK r \in Mappable : r = Region(mmio, 1, machine.lapicaddr, {"W", "PCD", "PWT"}) /\ Device(r)
    <3>1. PICK pa \in Nat, va \in Nat, perm \in SUBSET Perms :
             pa = machine.lapicaddr /\ va = mmio /\ va = 980995 /\ perm = {"W", "PCD", "PWT"}
      <4>1. machine.lapicaddr \in Nat
        BY BootAssumption DEF BInv, TypeFacts, Machine
      <4>2. {"W", "PCD", "PWT"} \in SUBSET Perms
        BY DEF Perms
      <4>3. mmio = 980995
        BY <2>2, Layout
      <4>4. PICK perm \in SUBSET Perms : perm = {"W", "PCD", "PWT"}
        BY <4>2
      <4>5. PICK va \in Nat : va = mmio /\ va = 980995
        BY <4>3
      <4>6. PICK pa \in Nat : pa = machine.lapicaddr
        BY <4>1
      <4> QED BY <4>4, <4>5, <4>6
    <3>2. Region(va, 1, pa, perm) \in Mappable
      BY <3>1, OneRegion
    <3>3. Device(Region(va, 1, pa, perm))
      BY <3>1, Layout DEF Device, Region
    <3> QED BY <3>1, <3>2, <3>3
  <2>4. PICK z \in Nat : z = Len(regions)
    BY <1>1, KernelKept, RegionCount
  <2>5. /\ ptes \in Seq(Mappable) /\ Made(z)
        /\ \A j \in 1 .. Len(ptes) : j > z => Device(ptes[j])
    BY <2>4, <1>1 DEF MInv, Made, MapSteps
  <2>6. PICK n \in Nat : n = Len(ptes) /\ z <= n
    BY <2>4, <2>5, LenProperties DEF Made
  <2>7. /\ ptes' \in Seq(Mappable) /\ Len(ptes') = n + 1 /\ ptes'[n + 1] = r
        /\ \A j \in 1 .. n : ptes'[j] = ptes[j]
        /\ DOMAIN kern_pgdir' = Covered(r) \cup DOMAIN kern_pgdir
    BY <2>1, <2>3, <2>5, <2>6, MapMakes
  <2>8. regions' = regions /\ \A j \in 1 .. z : j \in 1 .. n
    BY <1>1, <2>4, <2>6, SameRegions
  <2>9. Made(z)'
    <3>1. z <= Len(ptes')
      BY <2>6, <2>7
    <3> QED BY <3>1, <2>5, <2>7, <2>8 DEF Made, Covered
  <2>10. \A j \in 1 .. Len(ptes') : j > z => Device(ptes'[j])
    <3>1. \A j \in 1 .. n + 1 : j = n + 1 \/ j \in 1 .. n
      BY <2>6
    <3> QED BY <3>1, <2>3, <2>5, <2>6, <2>7
  <2> QED BY <2>1, <2>4, <2>8, <2>9, <2>10 DEF MInv, BeforeMap, MapSteps, Device
<1> QED BY <1>2, <1>3

LEMMA NextMaps ==
    ASSUME BInv, MInv, [Next]_vars
    PROVE  MInv'
<1> USE DEF BeforeMap, MapSteps
<1>1. CASE boot_map_region
  BY <1>1, MapRegionMaps
<1>2. CASE ClearFirst
  BY <1>2, ClearMaps
<1>3. CASE lapic_init
  BY <1>3, LapicMaps
<1>4. CASE AllocKernPgdir
  <2>1. pc = "kern_pgdir" /\ pc' \in {"pages", "panic"} /\ UNCHANGED <<ptes, npages>>
    BY <1>4 DEF AllocKernPgdir, boot_alloc, Goto
  <2>2. pc' \in BeforeMap => MInv'
    BY <2>1 DEF MInv
  <2> QED BY <2>1, <2>2 DEF MInv
<1>5. CASE i386_detect_memory
  BY <1>5 DEF i386_detect_memory, Goto, memory, MInv
<1>6. CASE check_page
  <2>1. /\ pc = "check_page" /\ pc' = "map" /\ done' = 0 /\ UNCHANGED <<ptes, npages>>
        /\ DOMAIN kern_pgdir \subseteq DOMAIN kern_pgdir'
    BY <1>6 DEF check_page, Goto, Over
  <2> QED BY <2>1, UnmappedKeeps
<1>7. CASE AllocPages \/ AllocEnvs \/ page_init \/ check_page_free_list
  <2>1. /\ pc \in BeforeMap /\ pc' \in (BeforeMap \cup {"panic"}) /\ UNCHANGED <<ptes, npages, kern_pgdir>>
    BY <1>7 DEF AllocPages, AllocEnvs, page_init, check_page_free_list, boot_alloc, Goto, memory
  <2> QED BY <2>1, UnmappedKeeps
<1>8. CASE check_kern_pgdir \/ lcr3 \/ check_page_installed_pgdir \/ env_create
  <2>1. /\ pc \in MapSteps /\ pc' \in (MapSteps \cup {"panic"}) /\ UNCHANGED <<ptes, npages, kern_pgdir>>
    BY <1>8 DEF check_kern_pgdir, lcr3, check_page_installed_pgdir, env_create, env_setup_vm, NextSegment,
                region_alloc, CopySegment, Goto, memory
  <2> QED BY <2>1, UnmappedKeeps
<1>9. CASE UNCHANGED vars
  <2>1. UNCHANGED <<pc, done, ptes, npages, kern_pgdir>>
    BY <1>9 DEF vars, memory
  <2>2. pc \in BeforeMap \cup MapSteps \cup {"map", "panic"}
    BY DEF BInv, TypeFacts
  <2>3. regions' = regions
    BY <2>1, SameRegions
  <2> QED BY <2>1, <2>3 DEF MInv, Made
<1> QED BY <1>1, <1>2, <1>3, <1>4, <1>5, <1>6, <1>7, <1>8, <1>9 DEF Next, mem_init

(* The page tables hold what mem_init() maps (boot_map_region(),           *)
(* mem_init_mp(), mmio_map_region()).                                      *)
THEOREM MapsWhatItLists == Spec => []MInv
<1>1. BInv /\ MInv /\ [Next]_vars => MInv'
  BY NextMaps
<1> QED BY <1>1, InitMaps, BootInvariant, PTL DEF Spec

(* Where the stacks are, and how many pages from KERNBASE on are mapped.   *)
StackOf(i) == KSTACKTOP - (i - 1) * (KSTKSIZE + KSTKGAP) - KSTKSIZE
TopPages   == NPTENTRIES * NPTENTRIES - KERNBASE - 1

LEMMA Places ==
    /\ UPAGES = 978944 /\ UENVS = 977920 /\ KSTACKTOP = 983040 /\ KSTKSIZE = 8 /\ KSTKGAP = 8
    /\ KERNBASE = 983040 /\ TopPages = 65535 /\ NCPU = 8
    /\ StackOf(1) = 983032 /\ \A i \in 1 .. 8 : StackOf(i) = 983048 - 16 * i
BY Layout DEF KSTACKTOP, KSTKSIZE, KSTKGAP, NCPU, StackOf, TopPages

(* The regions one by one.                                                 *)
RegionList(s, m) ==
    /\ Len(s) = 14
    /\ s[1] = Region(UPAGES, m, pages, {"U"}) /\ s[2] = Region(pages, m, pages, {"W"})
    /\ s[3] = Region(UENVS, 31, envs, {"U"}) /\ s[4] = Region(envs, 31, envs, {"W"})
    /\ s[5] = Region(StackOf(1), 8, bootstack, {"U", "W"})
    /\ \A i \in 1 .. 8 : s[5 + i] = Region(StackOf(i), 8, percpu_kstacks + (i - 1) * 8, {"W"})
    /\ s[14] = Region(KERNBASE, TopPages, 0, {"W"})

LEMMA RegionTable ==
    ASSUME npages \in Nat, 16 <= npages, npages <= 16639
    PROVE  RegionList(regions, Pages(npages * SizeofPageInfo))
<1> DEFINE m == Pages(npages * SizeofPageInfo)
           k == Pages(SizeofEnvs)
           A == <<Region(UPAGES, m, pages, {"U"}), Region(pages, m, pages, {"W"}),
                  Region(UENVS, k, envs, {"U"}), Region(envs, k, envs, {"W"}),
                  Region(KSTACKTOP - KSTKSIZE, KSTKSIZE, bootstack, {"U", "W"})>>
           C == <<Region(KERNBASE, NPTENTRIES * NPTENTRIES - KERNBASE - 1, 0, {"W"})>>
           R == {Region(UPAGES, m, pages, {"U"}), Region(pages, m, pages, {"W"}),
                 Region(UENVS, k, envs, {"U"}), Region(envs, k, envs, {"W"}),
                 Region(KSTACKTOP - KSTKSIZE, KSTKSIZE, bootstack, {"U", "W"})}
                \cup {mem_init_mp[i] : i \in 1 .. 8}
                \cup {Region(KERNBASE, NPTENTRIES * NPTENTRIES - KERNBASE - 1, 0, {"W"})}
<1>1. k = 31
  BY Arrays
<1>2. KSTKSIZE = 8 /\ KSTKGAP = 8 /\ NCPU = 8 /\ KSTACKTOP - KSTKSIZE = StackOf(1)
  BY Places
<1>3. /\ A \in Seq(R) /\ Len(A) = 5
      /\ A[1] = Region(UPAGES, m, pages, {"U"}) /\ A[2] = Region(pages, m, pages, {"W"})
      /\ A[3] = Region(UENVS, 31, envs, {"U"}) /\ A[4] = Region(envs, 31, envs, {"W"})
      /\ A[5] = Region(StackOf(1), 8, bootstack, {"U", "W"})
  <2> HIDE DEF m, k
  <2> QED BY <1>1, <1>2
<1>4. /\ mem_init_mp \in Seq(R) /\ Len(mem_init_mp) = 8
      /\ \A i \in 1 .. 8 : mem_init_mp[i] = Region(StackOf(i), 8, percpu_kstacks + (i - 1) * 8, {"W"})
  <2>1. mem_init_mp = [i \in 1 .. 8 |-> Region(StackOf(i), KSTKSIZE, percpu_kstacks + (i - 1) * KSTKSIZE, {"W"})]
    BY <1>2 DEF mem_init_mp, StackOf
  <2>3. \A i \in 1 .. 8 : mem_init_mp[i] = Region(StackOf(i), 8, percpu_kstacks + (i - 1) * 8, {"W"})
    BY <2>1, <1>2
  <2>4. \A i \in 1 .. 8 : mem_init_mp[i] \in R
    OBVIOUS
  <2>5. mem_init_mp \in [1 .. 8 -> R]
    <3> HIDE DEF R
    <3>1. mem_init_mp = [i \in 1 .. 8 |-> mem_init_mp[i]]
      BY <2>1
    <3> QED BY <3>1, <2>4
  <2> HIDE DEF R
  <2>6. PICK n \in Nat : n = 8
    OBVIOUS
  <2>7. mem_init_mp \in [1 .. n -> R]
    BY <2>5, <2>6
  <2>8. mem_init_mp \in Seq(R) /\ Len(mem_init_mp) = n
    BY <2>7
  <2> QED BY <2>3, <2>6, <2>8
<1>5. C \in Seq(R) /\ Len(C) = 1 /\ C[1] = Region(KERNBASE, TopPages, 0, {"W"})
  BY DEF TopPages
<1>6. regions = (A \o mem_init_mp) \o C
  BY DEF regions
<1> HIDE DEF A, C, R, m, k
<1>7. A \o mem_init_mp \in Seq(R) /\ Joined(A \o mem_init_mp, A, mem_init_mp)
  BY <1>3, <1>4, Joining
<1> DEFINE t == A \o mem_init_mp
<1>8. t \in Seq(R) /\ regions = t \o C /\ Joined(t, A, mem_init_mp)
  BY <1>6, <1>7
<1> HIDE DEF t
<1>9. Joined(t, A, mem_init_mp) /\ Joined(regions, t, C)
  BY <1>5, <1>8, Joining
<1>10. /\ Len(t) = 13
       /\ \A i \in 1 .. 13 : t[i] = IF i <= 5 THEN A[i] ELSE mem_init_mp[i - 5]
  BY <1>3, <1>4, <1>9 DEF Joined
<1>11. /\ Len(regions) = 14
       /\ \A i \in 1 .. 14 : regions[i] = IF i <= 13 THEN t[i] ELSE C[i - 13]
  <2>1. Len(t) = 13 /\ Len(C) = 1
    BY <1>5, <1>10
  <2> HIDE DEF RegionList
  <2>2. Joined(regions, t, C)
    BY <1>9
  <2> QED BY <2>1, <2>2 DEF Joined
<1>12. \A i \in 1 .. 5 : regions[i] = A[i]
  BY <1>10, <1>11
<1>13. \A i \in 1 .. 8 : regions[5 + i] = mem_init_mp[i]
  <2> SUFFICES ASSUME NEW i \in 1 .. 8 PROVE regions[5 + i] = mem_init_mp[i]
    OBVIOUS
  <2>1. PICK j \in 1 .. 13 : j = 5 + i /\ ~(j <= 5) /\ j - 5 = i
    OBVIOUS
  <2> QED BY <2>1, <1>10, <1>11
<1>14. regions[14] = C[1]
  <2>1. PICK j \in 1 .. 14 : j = 14 /\ ~(j <= 13) /\ j - 13 = 1
    OBVIOUS
  <2> QED BY <2>1, <1>11
<1>15. 1 \in 1 .. 5 /\ 2 \in 1 .. 5 /\ 3 \in 1 .. 5 /\ 4 \in 1 .. 5 /\ 5 \in 1 .. 5
  OBVIOUS
<1> QED BY <1>3, <1>4, <1>5, <1>11, <1>12, <1>13, <1>14, <1>15 DEF RegionList, m

(* The page table entries that a page table leads to.                      *)
Covers(j, va) == ptes[j].va <= va /\ va < ptes[j].va + ptes[j].n

LEMMA PteAt ==
    ASSUME ptes \in Seq(Mappable), NEW va \in Nat, PDX(va) \in DOMAIN kern_pgdir,
           NEW i \in 1 .. Len(ptes), Covers(i, va),
           \A j \in 1 .. Len(ptes) : i < j => ~Covers(j, va)
    PROVE  pte(va).pa = ptes[i].pa + va - ptes[i].va /\ pte(va).perm = ptes[i].perm
<1> DEFINE W == {j \in DOMAIN ptes : va >= ptes[j].va /\ va < ptes[j].va + ptes[j].n}
<1>1. DOMAIN ptes = 1 .. Len(ptes) /\ \A j \in 1 .. Len(ptes) : ptes[j].va \in Nat /\ ptes[j].n \in Nat
  <2>1. \A j \in 1 .. Len(ptes) : ptes[j] \in Mappable
    BY ElementOfSeq
  <2> QED BY <2>1, LenProperties, SMTT(30) DEF Mappable
<1>2. \A j \in 1 .. Len(ptes) : j \in W <=> Covers(j, va)
  BY <1>1 DEF Covers
<1>3. W \subseteq 1 .. Len(ptes)
  BY <1>1
<1> HIDE DEF W
<1>4. i \in W /\ \A j \in W : i >= j
  BY <1>2, <1>3
<1>5. Max(W) = i
  <2>1. \A x \in W : (\A y \in W : x >= y) => x = i
    BY <1>3, <1>4
  <2> QED BY <1>4, <2>1 DEF Max
<1>6. pte(va) = [pa |-> ptes[i].pa + va - ptes[i].va, perm |-> ptes[i].perm]
  BY <1>4, <1>5 DEF pte, W
<1> QED BY <1>6

LEMMA NoPte ==
    ASSUME ptes \in Seq(Mappable), NEW va \in Nat, \A j \in 1 .. Len(ptes) : ~Covers(j, va)
    PROVE  pte(va) = Absent
<1> DEFINE W == {j \in DOMAIN ptes : va >= ptes[j].va /\ va < ptes[j].va + ptes[j].n}
<1>1. DOMAIN ptes = 1 .. Len(ptes) /\ \A j \in 1 .. Len(ptes) : ptes[j].va \in Nat /\ ptes[j].n \in Nat
  <2>1. \A j \in 1 .. Len(ptes) : ptes[j] \in Mappable
    BY ElementOfSeq
  <2> QED BY <2>1, LenProperties DEF Mappable
<1>2. W = {}
  BY <1>1 DEF Covers
<1> QED BY <1>2 DEF pte

(* What the page tables hold, once they are installed.                     *)
At(j, va, n, pa, perm) ==
    ptes[j].va = va /\ ptes[j].n = n /\ ptes[j].pa = pa /\ ptes[j].perm = perm \cup {"P"}

Placed(m, z) ==
    /\ At(1, UPAGES, m, pages, {"U"}) /\ At(2, pages, m, pages, {"W"})
    /\ At(3, UENVS, 31, envs, {"U"}) /\ At(4, envs, 31, envs, {"W"})
    /\ At(5, StackOf(1), 8, bootstack, {"U", "W"})
    /\ \A i \in 1 .. 8 : At(5 + i, StackOf(i), 8, percpu_kstacks + (i - 1) * 8, {"W"})
    /\ At(14, KERNBASE, TopPages, 0, {"W"})
    /\ \A j \in 15 .. z : Device(ptes[j])

LaidOut(m, z) ==
    /\ Placed(m, z) /\ ptes \in Seq(Mappable) /\ z \in Nat /\ 14 <= z
    /\ m \in 1 .. 33 /\ pages \in Nat /\ pages <= 901 /\ envs = pages + m /\ envs \in Nat
    /\ envs <= 934 /\ nextfree = envs + 31
    /\ \A d \in 959 .. 1023 : d \in DOMAIN kern_pgdir

LEMMA CoversAll ==
    ASSUME NEW r, NEW lo \in Nat, NEW hi \in Nat, PDX(r.va) = lo, PDX(r.va + r.n - 1) = hi
    PROVE  \A d \in lo .. hi : d \in Covered(r)
BY DEF Covered

LEMMA InPlace ==
    ASSUME BInv, MInv, pc \in MapSteps, NEW m, m = Pages(npages * SizeofPageInfo), NEW z, z = Len(ptes)
    PROVE  LaidOut(m, z)
<1>1. npages \in Nat /\ 16 <= npages /\ npages <= 16639 /\ nextfree = envs + 31
  BY DEF BInv, TypeFacts, Sizes, Allocated, MapSteps
<1>2. /\ m \in 1 .. 33 /\ pages \in Nat /\ pages <= 901 /\ envs = pages + m /\ envs \in Nat /\ envs <= 934
  BY <1>1, Arrays
<1>3. RegionList(regions, m)
  BY <1>1, RegionTable
<1>4. Len(regions) = 14
  BY <1>3 DEF RegionList
<1>5. /\ ptes \in Seq(Mappable) /\ z \in Nat /\ 14 <= z
      /\ \A j \in 1 .. 14 : ptes[j] = regions[j] /\ Covered(ptes[j]) \subseteq DOMAIN kern_pgdir \cup {0}
      /\ \A j \in 1 .. z : j > 14 => Device(ptes[j])
  <2>1. Made(14) /\ \A j \in 1 .. z : j > 14 => Device(ptes[j])
    BY <1>4 DEF MInv, MapSteps
  <2> QED BY <2>1, LenProperties DEF Made
<1>6. Placed(m, z)
  <2>1. 1 \in 1 .. 14 /\ 2 \in 1 .. 14 /\ 3 \in 1 .. 14 /\ 4 \in 1 .. 14 /\ 5 \in 1 .. 14 /\ 14 \in 1 .. 14
        /\ \A i \in 1 .. 8 : 5 + i \in 1 .. 14
    OBVIOUS
  <2>2. At(1, UPAGES, m, pages, {"U"}) /\ At(2, pages, m, pages, {"W"})
    <3>1. ptes[1] = Region(UPAGES, m, pages, {"U"}) /\ ptes[2] = Region(pages, m, pages, {"W"})
      BY <2>1, <1>3, <1>5 DEF RegionList
    <3> QED BY <3>1 DEF At, Region
  <2>3. At(3, UENVS, 31, envs, {"U"}) /\ At(4, envs, 31, envs, {"W"})
    BY <2>1, <1>3, <1>5, SMTT(30) DEF RegionList, At, Region
  <2>4. At(5, StackOf(1), 8, bootstack, {"U", "W"}) /\ At(14, KERNBASE, TopPages, 0, {"W"})
    BY <2>1, <1>3, <1>5, SMTT(30) DEF RegionList, At, Region
  <2>5. \A i \in 1 .. 8 : At(5 + i, StackOf(i), 8, percpu_kstacks + (i - 1) * 8, {"W"})
    <3> SUFFICES ASSUME NEW i \in 1 .. 8
                 PROVE  At(5 + i, StackOf(i), 8, percpu_kstacks + (i - 1) * 8, {"W"})
      OBVIOUS
    <3>1. ptes[5 + i] = Region(StackOf(i), 8, percpu_kstacks + (i - 1) * 8, {"W"})
      BY <2>1, <1>3, <1>5 DEF RegionList
    <3> QED BY <3>1 DEF At, Region
  <2>6. \A j \in 15 .. z : Device(ptes[j])
    <3>1. \A j \in 15 .. z : j \in 1 .. z /\ j > 14
      BY <1>5
    <3> QED BY <3>1, <1>5
  <2> QED BY <2>2, <2>3, <2>4, <2>5, <2>6, Zenon DEF Placed
<1>7. \A d \in 959 .. 1023 : d \in DOMAIN kern_pgdir
  <2>1. /\ ptes[6].va = 983032 /\ ptes[6].va + ptes[6].n - 1 = 983039
        /\ ptes[14].va = 983040 /\ ptes[14].va + ptes[14].n - 1 = 1048574
    <3>1. At(5 + 1, StackOf(1), 8, percpu_kstacks + (1 - 1) * 8, {"W"}) /\ At(14, KERNBASE, TopPages, 0, {"W"})
      BY <1>6 DEF Placed
    <3> QED BY <3>1, Places DEF At
  <2>2. /\ 983032 \div 1024 = 959 /\ 983039 \div 1024 = 959
        /\ 983040 \div 1024 = 960 /\ 1048574 \div 1024 = 1023
    OBVIOUS
  <2>3. PICK a \in Nat : a = 959
    OBVIOUS
  <2>4. PICK b \in Nat : b = 960
    OBVIOUS
  <2>5. PICK c \in Nat : c = 1023
    OBVIOUS
  <2>6. PDX(ptes[6].va) = a /\ PDX(ptes[6].va + ptes[6].n - 1) = a
    BY <2>1, <2>2, <2>3 DEF PDX, NPTENTRIES
  <2>7. PDX(ptes[14].va) = b /\ PDX(ptes[14].va + ptes[14].n - 1) = c
    BY <2>1, <2>2, <2>4, <2>5 DEF PDX, NPTENTRIES
  <2>8. (\A d \in a .. a : d \in Covered(ptes[6])) /\ \A d \in b .. c : d \in Covered(ptes[14])
    BY <2>6, <2>7, CoversAll
  <2>9. 6 \in 1 .. 14 /\ 14 \in 1 .. 14
    OBVIOUS
  <2>10. Covered(ptes[6]) \subseteq DOMAIN kern_pgdir \cup {0} /\ Covered(ptes[14]) \subseteq DOMAIN kern_pgdir \cup {0}
    BY <2>9, <1>5
  <2> SUFFICES ASSUME NEW d \in 959 .. 1023 PROVE d \in DOMAIN kern_pgdir
    BY ZenonT(30)
  <2>11. d # 0 /\ (d \in a .. a \/ d \in b .. c)
    BY <2>3, <2>4, <2>5
  <2>12. d \in Covered(ptes[6]) \/ d \in Covered(ptes[14])
    BY <2>8, <2>11
  <2> QED BY <2>10, <2>11, <2>12
<1> QED BY <1>1, <1>2, <1>5, <1>6, <1>7 DEF LaidOut

(* Above 4MB every address has its region: the arrays at UENVS and UPAGES, *)
(* the devices, the stacks and all of memory.                              *)
Region1(j, va, m) ==
    \/ j = 1 /\ 978944 <= va /\ va < 978944 + m
    \/ j = 3 /\ 977920 <= va /\ va < 977951
    \/ j = 5 /\ 983032 <= va /\ va < 983040
    \/ 6 <= j /\ j <= 13 /\ 983128 - 16 * j <= va /\ va < 983136 - 16 * j
    \/ j = 14 /\ 983040 <= va
    \/ j > 14 /\ 980992 <= va /\ va < 982016

OneByOne(m) ==
    /\ ptes[1].va = UPAGES /\ ptes[1].n = m /\ ptes[1].pa = pages /\ ptes[1].perm = {"U", "P"}
    /\ ptes[2].va = pages /\ ptes[2].n = m /\ ptes[2].perm = {"W", "P"}
    /\ ptes[3].va = UENVS /\ ptes[3].n = 31 /\ ptes[3].pa = envs /\ ptes[3].perm = {"U", "P"}
    /\ ptes[4].va = envs /\ ptes[4].n = 31 /\ ptes[4].perm = {"W", "P"}
    /\ ptes[5].va = StackOf(1) /\ ptes[5].n = 8
    /\ ptes[14].va = KERNBASE /\ ptes[14].n = TopPages /\ ptes[14].pa = 0 /\ ptes[14].perm = {"W", "P"}

LEMMA PlacedAt ==
    ASSUME NEW m, NEW z, Placed(m, z)
    PROVE  OneByOne(m)
<1>1. {"U"} \cup {"P"} = {"U", "P"} /\ {"W"} \cup {"P"} = {"W", "P"}
  OBVIOUS
<1> QED BY <1>1 DEF Placed, At, OneByOne

LEMMA StackPlaced ==
    ASSUME NEW m, NEW z, Placed(m, z), NEW i \in 1 .. 8
    PROVE  At(5 + i, StackOf(i), 8, percpu_kstacks + (i - 1) * 8, {"W"})
BY Zenon DEF Placed

LEMMA WhichRegion ==
    ASSUME NEW m \in 1 .. 33, NEW z \in Nat, Placed(m, z), z = Len(ptes), ptes \in Seq(Mappable),
           pages \in Nat, pages <= 901, envs \in Nat, envs <= 934,
           NEW va \in Nat, 1024 <= va, NEW j \in 1 .. z, Covers(j, va)
    PROVE  Region1(j, va, m)
<1>1. PICK v \in Nat, n \in Nat : v = ptes[j].va /\ n = ptes[j].n /\ v <= va /\ va < v + n
  <2>1. ptes[j] \in Mappable
    BY ElementOfSeq
  <2>2. ptes[j].va \in Nat /\ ptes[j].n \in Nat
    BY <2>1 DEF Mappable
  <2> QED BY <2>2 DEF Covers
<1>0. /\ ptes[1].va = UPAGES /\ ptes[1].n = m /\ ptes[2].va = pages /\ ptes[2].n = m
      /\ ptes[3].va = UENVS /\ ptes[3].n = 31 /\ ptes[4].va = envs /\ ptes[4].n = 31
      /\ ptes[5].va = StackOf(1) /\ ptes[5].n = 8 /\ ptes[14].va = KERNBASE
  <2>1. OneByOne(m)
    BY PlacedAt
  <2> QED BY <2>1 DEF OneByOne
<1>2. CASE j = 1
  <2>1. v = 978944 /\ n = m
    BY <1>0, <1>1, <1>2, Places
  <2> QED BY <2>1, <1>1, <1>2 DEF Region1
<1>3. CASE j = 2
  <2>1. v = pages /\ n = m
    BY <1>0, <1>1, <1>3
  <2>2. v <= 901 /\ n <= 33
    BY <2>1
  <2>3. v <= va /\ va < v + n
    BY <1>1
  <2>4. va < 1024
    BY <2>2, <2>3
  <2> QED BY <2>4
<1>4. CASE j = 3
  <2>1. v = 977920 /\ n = 31
    BY <1>0, <1>1, <1>4, Places
  <2> QED BY <2>1, <1>1, <1>4 DEF Region1
<1>5. CASE j = 4
  <2>1. v = envs /\ n = 31
    BY <1>0, <1>1, <1>5
  <2>2. v <= 934 /\ n <= 33
    BY <2>1
  <2>3. v <= va /\ va < v + n
    BY <1>1
  <2>4. va < 1024
    BY <2>2, <2>3
  <2> QED BY <2>4
<1>6. CASE j = 5
  <2>1. v = 983032 /\ n = 8
    BY <1>0, <1>1, <1>6, Places
  <2> QED BY <2>1, <1>1, <1>6 DEF Region1
<1>7. CASE 6 <= j /\ j <= 13
  <2>1. PICK i \in 1 .. 8 : j = 5 + i
    <3>1. j - 5 \in 1 .. 8 /\ j = 5 + (j - 5)
      BY <1>7
    <3> QED BY <3>1
  <2>2. At(5 + i, StackOf(i), 8, percpu_kstacks + (i - 1) * 8, {"W"})
    BY StackPlaced, ZenonT(30)
  <2>3. v = 983048 - 16 * i /\ n = 8
    <3>1. ptes[5 + i].va = StackOf(i) /\ ptes[5 + i].n = 8
      BY <2>2, ZenonT(30) DEF At
    <3>2. StackOf(i) = 983048 - 16 * i
      BY Places, SMTT(30)
    <3> QED BY <3>1, <3>2, <2>1, <1>1
  <2>4. 983128 - 16 * j <= va /\ va < 983136 - 16 * j
    BY <2>1, <2>3, <1>1
  <2> QED BY <2>4, <1>7 DEF Region1
<1>8. CASE j = 14
  <2>1. v = 983040
    BY <1>0, <1>1, <1>8, Places
  <2> QED BY <2>1, <1>1, <1>8 DEF Region1
<1>9. CASE j > 14
  <2>1. j \in 15 .. z
    BY <1>9
  <2>2. 980992 <= v /\ v + n <= 982016
    <3>1. MMIOBASE <= ptes[j].va /\ ptes[j].va + ptes[j].n <= MMIOLIM
      BY <2>1, ZenonT(30) DEF Placed, Device
    <3>2. MMIOBASE = 980992 /\ MMIOLIM = 982016
      BY Layout
    <3> QED BY <3>1, <3>2, <1>1
  <2> QED BY <2>2, <1>1, <1>9 DEF Region1
<1>10. j = 1 \/ j = 2 \/ j = 3 \/ j = 4 \/ j = 5 \/ (6 <= j /\ j <= 13) \/ j = 14 \/ j > 14
  OBVIOUS
<1> QED BY <1>2, <1>3, <1>4, <1>5, <1>6, <1>7, <1>8, <1>9, <1>10

(* User mode: the two arrays, to read.                                     *)
LEMMA UserArrays ==
    ASSUME BInv, MInv, pc \in Installed, NEW i \in DOMAIN ptes, "U" \in ptes[i].perm,
           NEW va \in ptes[i].va .. ptes[i].va + ptes[i].n - 1, PDX(va) \in DOMAIN kern_pgdir
    PROVE  /\ ~UserMay("W", va)
           /\ UserMay("P", va) => \/ pte(va).pa \in pages .. envs - 1 /\ PDX(va) = PDX(UPAGES)
                                  \/ pte(va).pa \in envs .. nextfree - 1 /\ PDX(va) = PDX(UENVS)
<1>0. pc \in MapSteps
  BY DEF Installed, MapSteps
<1>1. PICK m, z : m = Pages(npages * SizeofPageInfo) /\ z = Len(ptes)
  OBVIOUS
<1>2. /\ Placed(m, z) /\ ptes \in Seq(Mappable) /\ z \in Nat /\ 14 <= z
      /\ m \in 1 .. 33 /\ pages \in Nat /\ pages <= 901 /\ envs = pages + m /\ envs \in Nat
      /\ envs <= 934 /\ nextfree = envs + 31
  <2>1. LaidOut(m, z)
    BY <1>0, <1>1, InPlace
  <2> QED BY <2>1 DEF LaidOut
<1>2a. /\ ptes[1].va = UPAGES /\ ptes[1].n = m /\ ptes[1].pa = pages /\ ptes[1].perm = {"U", "P"}
       /\ ptes[3].va = UENVS /\ ptes[3].n = 31 /\ ptes[3].pa = envs /\ ptes[3].perm = {"U", "P"}
       /\ ptes[5].va = StackOf(1) /\ ptes[2].perm = {"W", "P"} /\ ptes[4].perm = {"W", "P"} /\ ptes[14].perm = {"W", "P"}
  <2>1. OneByOne(m)
    BY <1>2, PlacedAt
  <2> QED BY <2>1 DEF OneByOne
<1>3. i \in 1 .. z /\ ptes[i].va \in Nat /\ ptes[i].n \in Nat
  <2>1. i \in 1 .. z
    BY <1>1, <1>2, LenProperties
  <2>2. ptes[i] \in Mappable
    BY <2>1, <1>1, <1>2, ElementOfSeq
  <2> QED BY <2>1, <2>2 DEF Mappable
<1>4. va \in Nat /\ Covers(i, va)
  <2>1. va \in Nat /\ ptes[i].va <= va /\ va < ptes[i].va + ptes[i].n
    BY <1>3
  <2> QED BY <2>1 DEF Covers
<1>5. i = 1 \/ i = 3 \/ i = 5
  <2>1. i # 2 /\ i # 4 /\ i # 14
    BY <1>2a
  <2>2. ~(i \in 15 .. z)
    BY <1>2, Zenon DEF Placed, Device
  <2>3. ~(6 <= i /\ i <= 13)
    <3> SUFFICES ASSUME 6 <= i, i <= 13 PROVE FALSE
      OBVIOUS
    <3>1. PICK k \in 1 .. 8 : i = 5 + k
      <4>1. i - 5 \in 1 .. 8 /\ i = 5 + (i - 5)
        BY <1>3
      <4> QED BY <4>1
    <3>2. ptes[5 + k].perm = {"W"} \cup {"P"}
      <4>1. At(5 + k, StackOf(k), 8, percpu_kstacks + (k - 1) * 8, {"W"})
        BY <1>2, StackPlaced, Zenon
      <4> QED BY <4>1 DEF At
    <3> QED BY <3>1, <3>2
  <2>4. z \in Nat /\ 14 <= z /\ i \in 1 .. z
    BY <1>2, <1>3
  <2> QED BY <2>1, <2>2, <2>3, <2>4
<1>6. 1024 <= va
  <2>1. (i = 1 => ptes[i].va = 978944) /\ (i = 3 => ptes[i].va = 977920) /\ (i = 5 => ptes[i].va = 983032)
    BY <1>2a, Places
  <2> QED BY <2>1, <1>4, <1>5 DEF Covers
<1>7. \A j \in 1 .. z : Covers(j, va) => Region1(j, va, m)
  <2> SUFFICES ASSUME NEW j \in 1 .. z, Covers(j, va) PROVE Region1(j, va, m)
    OBVIOUS
  <2>1. z = Len(ptes)
    BY <1>1
  <2> QED BY <2>1, <1>2, <1>4, <1>6, WhichRegion, ZenonT(30)
<1>7a. i \in 1 .. Len(ptes)
  BY <1>1, <1>3
<1>8. Region1(i, va, m)
  BY <1>3, <1>4, <1>7
<1>9. CASE i = 1
  <2>1. 978944 <= va /\ va < 978944 + m
    BY <1>8, <1>9 DEF Region1
  <2>2. \A j \in 1 .. z : i < j => ~Covers(j, va)
    BY <2>1, <1>2, <1>7, <1>9 DEF Region1
  <2>3. ptes[i].va = 978944 /\ ptes[i].pa = pages /\ ptes[i].perm = {"U", "P"}
    BY <1>2a, <1>9, Places
  <2>3a. pte(va).pa = ptes[i].pa + va - ptes[i].va /\ pte(va).perm = ptes[i].perm
    BY <2>2, <1>1, <1>2, <1>4, <1>7a, PteAt, ZenonT(30)
  <2>4. pte(va).pa = pages + va - 978944 /\ pte(va).perm = {"U", "P"}
    BY <2>3, <2>3a
  <2>5. pages + va - 978944 \in pages .. envs - 1 /\ va \div 1024 = 956
    <3>0a. PICK c \in 1 .. 33 : c = m
      BY <1>2
    <3>0b. PICK a \in Nat : a = pages
      BY <1>2
    <3>0c. PICK b \in Nat : b = envs
      BY <1>2
    <3>1. a = pages /\ b = envs /\ b = a + c
      BY <3>0a, <3>0b, <3>0c, <1>2
    <3>2. 978944 <= va /\ va < 978944 + c /\ va \in Nat
      BY <2>1, <1>4, <3>0a
    <3>3. a + va - 978944 \in a .. b - 1 /\ va \div 1024 = 956
      BY <3>1, <3>2
    <3> QED BY <3>1, <3>3
  <2>6. PDX(va) = PDX(UPAGES)
    BY <2>5, Layout DEF PDX
  <2>7. "W" \notin pte(va).perm
    BY <2>4
  <2> QED BY <2>4, <2>5, <2>6, <2>7 DEF UserMay
<1>10. CASE i = 3
  <2>1. 977920 <= va /\ va < 977951
    BY <1>8, <1>10 DEF Region1
  <2>2. \A j \in 1 .. z : i < j => ~Covers(j, va)
    BY <2>1, <1>2, <1>7, <1>10 DEF Region1
  <2>3. ptes[i].va = 977920 /\ ptes[i].pa = envs /\ ptes[i].perm = {"U", "P"}
    BY <1>2a, <1>10, Places
  <2>3a. pte(va).pa = ptes[i].pa + va - ptes[i].va /\ pte(va).perm = ptes[i].perm
    BY <2>2, <1>1, <1>2, <1>4, <1>7a, PteAt, ZenonT(30)
  <2>4. pte(va).pa = envs + va - 977920 /\ pte(va).perm = {"U", "P"}
    BY <2>3, <2>3a
  <2>5. envs + va - 977920 \in envs .. nextfree - 1 /\ va \div 1024 = 955
    BY <2>1, <1>2, <1>4
  <2>6. PDX(va) = PDX(UENVS)
    BY <2>5, Layout DEF PDX
  <2>7. "W" \notin pte(va).perm
    BY <2>4
  <2> QED BY <2>4, <2>5, <2>6, <2>7 DEF UserMay
<1>11. CASE i = 5
  <2>1. 983032 <= va /\ va < 983040
    BY <1>8, <1>11 DEF Region1
  <2>2. 6 \in 1 .. z /\ At(5 + 1, StackOf(1), 8, percpu_kstacks + (1 - 1) * 8, {"W"})
    <3>1. PICK k \in 1 .. 8 : k = 1
      OBVIOUS
    <3>2. At(5 + k, StackOf(k), 8, percpu_kstacks + (k - 1) * 8, {"W"})
      BY <1>2, StackPlaced, ZenonT(30)
    <3> QED BY <3>1, <3>2, <1>2
  <2>3. ptes[6].va = 983032 /\ ptes[6].n = 8 /\ ptes[6].perm = {"W", "P"}
    BY <2>2, Places DEF At
  <2>4. Covers(6, va)
    BY <2>1, <2>3 DEF Covers
  <2>5. \A j \in 1 .. z : 6 < j => ~Covers(j, va)
    BY <2>1, <1>2, <1>7 DEF Region1
  <2>5a. z = Len(ptes)
    BY <1>1
  <2>6. pte(va).perm = ptes[6].perm
    BY <2>2, <2>4, <2>5, <2>5a, <1>2, <1>4, PteAt, Zenon
  <2>7. "U" \notin pte(va).perm
    BY <2>3, <2>6
  <2> QED BY <2>7 DEF UserMay
<1> QED BY <1>5, <1>9, <1>10, <1>11

(* The addresses from the lowest stack up have page tables.                *)
LEMMA HighEntries ==
    ASSUME NEW va \in Nat, 982016 <= va, va < 1048576, \A d \in 959 .. 1023 : d \in DOMAIN kern_pgdir
    PROVE  PDX(va) \in DOMAIN kern_pgdir
<1>1. va \div 1024 \in 959 .. 1023
  OBVIOUS
<1> QED BY <1>1 DEF PDX, NPTENTRIES

(* Each CPU has its stack, and nothing below it.                           *)
LEMMA StacksMapped ==
    ASSUME BInv, MInv, pc \in MapSteps, NEW c \in 0 .. NCPU - 1
    PROVE  LET top == KSTACKTOP - c * (KSTKSIZE + KSTKGAP)
           IN  /\ \A i \in 1 .. KSTKSIZE : Maps(top - i, percpu_kstacks + (c + 1) * KSTKSIZE - i)
               /\ \A i \in 1 .. KSTKGAP : pte(top - KSTKSIZE - i) = Absent
<1>1. PICK m, z : m = Pages(npages * SizeofPageInfo) /\ z = Len(ptes)
  OBVIOUS
<1>2. /\ Placed(m, z) /\ ptes \in Seq(Mappable) /\ z \in Nat /\ 14 <= z
      /\ m \in 1 .. 33 /\ pages \in Nat /\ pages <= 901 /\ envs \in Nat /\ envs <= 934
      /\ \A d \in 959 .. 1023 : d \in DOMAIN kern_pgdir
  <2>1. LaidOut(m, z)
    BY <1>1, InPlace
  <2> QED BY <2>1 DEF LaidOut
<1>3. KSTACKTOP = 983040 /\ KSTKSIZE = 8 /\ KSTKGAP = 8 /\ NCPU = 8 /\ percpu_kstacks \in Nat
  BY Layout, BootAssumption DEF KSTACKTOP, KSTKSIZE, KSTKGAP, NCPU, KernelFits, EXTPHYSMEM
<1>4. PICK top \in Nat, k \in 1 .. 8 : top = 983040 - c * 16 /\ k = c + 1 /\ top = 983056 - 16 * k
                                       /\ 982928 <= top /\ top <= 983040
  <2>1. c \in 0 .. 7
    BY <1>3
  <2>2. /\ 983040 - c * 16 \in Nat /\ c + 1 \in 1 .. 8 /\ 983040 - c * 16 = 983056 - 16 * (c + 1)
        /\ 982928 <= 983040 - c * 16 /\ 983040 - c * 16 <= 983040
    BY <2>1
  <2> QED BY <2>2
<1>5. At(5 + k, StackOf(k), 8, percpu_kstacks + (k - 1) * 8, {"W"}) /\ 5 + k \in 1 .. z
  <2>1. \A i \in 1 .. 8 : At(5 + i, StackOf(i), 8, percpu_kstacks + (i - 1) * 8, {"W"})
    BY <1>2, ZenonT(30) DEF Placed
  <2>2. At(5 + k, StackOf(k), 8, percpu_kstacks + (k - 1) * 8, {"W"})
    BY <2>1, Zenon
  <2>3. 5 + k \in 1 .. z
    <3>1. z \in Nat /\ 14 <= z /\ k \in 1 .. 8
      BY <1>2, <1>4
    <3> QED BY <3>1
  <2> QED BY <2>2, <2>3, Zenon
<1>5a. StackOf(k) = 983048 - 16 * k
  BY <1>4, Places
<1>6. \A va \in Nat : 1024 <= va => \A j \in 1 .. z : Covers(j, va) => Region1(j, va, m)
  <2> SUFFICES ASSUME NEW va \in Nat, 1024 <= va, NEW j \in 1 .. z, Covers(j, va) PROVE Region1(j, va, m)
    OBVIOUS
  <2>1. z = Len(ptes)
    BY <1>1
  <2>2. /\ Placed(m, z) /\ ptes \in Seq(Mappable) /\ z \in Nat /\ m \in 1 .. 33
        /\ pages \in Nat /\ pages <= 901 /\ envs \in Nat /\ envs <= 934
    BY <1>2
  <2> QED BY <2>1, <2>2, WhichRegion, ZenonT(30)
<1>7. ASSUME NEW i \in 1 .. 8 PROVE Maps(top - i, percpu_kstacks + k * 8 - i)
  <2>1. PICK va \in Nat : va = top - i /\ 983048 - 16 * k <= va /\ va < 983056 - 16 * k
                          /\ 982016 <= va /\ va < 983040
    <3>1. top - i \in Nat /\ 983048 - 16 * k <= top - i /\ top - i < 983056 - 16 * k
          /\ 982016 <= top - i /\ top - i < 983040
      BY <1>4
    <3> QED BY <3>1
  <2>2. Covers(5 + k, va)
    BY <2>1, <1>5, <1>5a DEF Covers, At
  <2>3. \A j \in 1 .. z : 5 + k < j => ~Covers(j, va)
    <3> SUFFICES ASSUME NEW j \in 1 .. z, 5 + k < j, Region1(j, va, m) PROVE FALSE
      BY <2>1, <1>6
    <3> QED BY <2>1 DEF Region1
  <2>4. PDX(va) \in DOMAIN kern_pgdir
    BY <2>1, <1>2, HighEntries
  <2>4a. z = Len(ptes)
    BY <1>1
  <2>5. pte(va).pa = ptes[5 + k].pa + va - ptes[5 + k].va /\ pte(va).perm = ptes[5 + k].perm
    BY <2>2, <2>3, <2>4, <2>4a, <1>2, <1>5, PteAt, ZenonT(30)
  <2>6. pte(va).perm = {"W", "P"} /\ pte(va).pa = percpu_kstacks + (k - 1) * 8 + va - (983048 - 16 * k)
    BY <2>5, <1>5, <1>5a DEF At
  <2>7. percpu_kstacks + (k - 1) * 8 + va - (983048 - 16 * k) = percpu_kstacks + k * 8 - i
    BY <2>1, <1>3, <1>4
  <2>8. pte(va).pa = percpu_kstacks + k * 8 - i /\ "P" \in pte(va).perm
    BY <2>6, <2>7
  <2> QED BY <2>1, <2>8 DEF Maps
<1>8. ASSUME NEW i \in 1 .. 8 PROVE pte(top - 8 - i) = Absent
  <2>1. PICK va \in Nat : va = top - 8 - i /\ 983040 - 16 * k <= va /\ va < 983048 - 16 * k
                          /\ 982016 <= va /\ va < 983032
    <3>1. top - 8 - i \in Nat /\ 983040 - 16 * k <= top - 8 - i /\ top - 8 - i < 983048 - 16 * k
          /\ 982016 <= top - 8 - i /\ top - 8 - i < 983032
      BY <1>4
    <3> QED BY <3>1
  <2>2. \A j \in 1 .. z : ~Covers(j, va)
    <3> SUFFICES ASSUME NEW j \in 1 .. z, Region1(j, va, m) PROVE FALSE
      BY <2>1, <1>6
    <3>1. PICK b \in 1 .. 33 : b = m
      BY <1>2
    <3>2. Region1(j, va, b)
      BY <3>1
    <3>3. j \in Nat /\ va \in Nat /\ k \in 1 .. 8
      BY <1>4
    <3> QED BY <2>1, <3>2, <3>3 DEF Region1
  <2>2a. z = Len(ptes)
    BY <1>1
  <2>3. pte(va) = Absent
    BY <2>2, <2>2a, <1>2, NoPte, ZenonT(30)
  <2> QED BY <2>1, <2>3
<1>9. KSTACKTOP - c * (KSTKSIZE + KSTKGAP) = top /\ (c + 1) * KSTKSIZE = k * 8
  BY <1>3, <1>4
<1> QED BY <1>3, <1>7, <1>8, <1>9

(* All of memory is at KERNBASE.                                           *)
LEMMA MemoryMapped ==
    ASSUME BInv, MInv, pc \in MapSteps, NEW p \in Nat, p < TopPages
    PROVE  Maps(KERNBASE + p, p)
<1>1. PICK m, z : m = Pages(npages * SizeofPageInfo) /\ z = Len(ptes)
  OBVIOUS
<1>2. /\ Placed(m, z) /\ ptes \in Seq(Mappable) /\ z \in Nat /\ 14 <= z
      /\ m \in 1 .. 33 /\ pages \in Nat /\ pages <= 901 /\ envs \in Nat /\ envs <= 934
      /\ \A d \in 959 .. 1023 : d \in DOMAIN kern_pgdir
  <2>1. LaidOut(m, z)
    BY <1>1, InPlace
  <2> QED BY <2>1 DEF LaidOut
<1>3. PICK va \in Nat : va = KERNBASE + p /\ va = 983040 + p
  BY Layout
<1>3a. va >= 1024 /\ 982016 <= va /\ va < 1048576
  BY <1>3, Places
<1>4. ptes[14].va = 983040 /\ ptes[14].n = 65535 /\ ptes[14].pa = 0 /\ ptes[14].perm = {"W", "P"}
  <2>1. OneByOne(m)
    BY <1>2, PlacedAt
  <2> QED BY <2>1, Places DEF OneByOne
<1>5. Covers(14, va)
  BY <1>3, <1>4, Places DEF Covers
<1>5a. 14 \in 1 .. z
  BY <1>2
<1>5b. z = Len(ptes)
  BY <1>1
<1>6. \A j \in 1 .. z : 14 < j => ~Covers(j, va)
  <2> SUFFICES ASSUME NEW j \in 1 .. z, 14 < j, Covers(j, va) PROVE FALSE
    OBVIOUS
  <2>0. /\ Placed(m, z) /\ ptes \in Seq(Mappable) /\ z \in Nat /\ m \in 1 .. 33
        /\ pages \in Nat /\ pages <= 901 /\ envs \in Nat /\ envs <= 934 /\ 1024 <= va
    BY <1>2, <1>3a
  <2>1. Region1(j, va, m)
    BY <2>0, <1>5b, WhichRegion, ZenonT(30)
  <2> QED BY <2>1, <1>3 DEF Region1
<1>7. PDX(va) \in DOMAIN kern_pgdir
  BY <1>2, <1>3a, HighEntries
<1>8. pte(va).pa = ptes[14].pa + va - ptes[14].va /\ pte(va).perm = ptes[14].perm
  BY <1>2, <1>5, <1>5a, <1>5b, <1>6, <1>7, PteAt, ZenonT(30)
<1>9. pte(va).pa = p /\ "P" \in pte(va).perm
  BY <1>3, <1>4, <1>8
<1> QED BY <1>3, <1>9 DEF Maps

(* In the installed page tables user mode reads the two arrays and writes  *)
(* nothing, each CPU has its own stack above a guard, and all of memory is *)
(* at KERNBASE (mem_init(), mem_init_mp(), boot_map_region()).             *)
THEOREM KernelStaysIsolated == Spec => []KernelIsolated
<1>1. ASSUME BInv, MInv, pc \in Installed PROVE KernelIsolated
  <2>0. pc \in MapSteps
    BY <1>1 DEF Installed, MapSteps
  <2>1. \A p \in {0, end, nextfree, npages - 1} : Maps(KERNBASE + p, p)
    <3>1. npages \in Nat /\ 16 <= npages /\ npages <= 16639 /\ nextfree = envs + 31
      BY <1>1 DEF BInv, TypeFacts, Sizes, Allocated, Installed
    <3>2. envs \in Nat /\ envs <= 934 /\ end \in Nat /\ end <= 900
      BY <3>1, Arrays, BootAssumption DEF KernelFits, EXTPHYSMEM
    <3>3. 0 \in Nat /\ 0 < TopPages /\ end < TopPages /\ nextfree \in Nat /\ nextfree < TopPages
          /\ npages - 1 \in Nat /\ npages - 1 < TopPages
      BY <3>1, <3>2, Places
    <3> QED BY <3>2, <3>3, <2>0, <1>1, MemoryMapped
  <2> QED BY <2>0, <2>1, <1>1, UserArrays, StacksMapped DEF KernelIsolated
<1>2. BInv /\ MInv => KernelIsolated
  BY <1>1 DEF KernelIsolated
<1> QED BY <1>2, BootInvariant, MapsWhatItLists, PTL

-----------------------------------------------------------------------------
(* When the machine boots.  FInv relates what the CMOS reports to the      *)
(* pages that mem_init() has left: the list before lcr3 is in the order of *)
(* page_init(), behind the pages that became tables, so that the last      *)
(* check of it finds a page above 1MB exactly when there were more of them *)
(* than mem_init() makes tables.                                           *)

HasRoom == npages_basemem = 160 /\ envs + 100 < npages

Detected ==
    pc # "detect" =>
      /\ npages_basemem = machine.base \div 4
      /\ npages = IF machine.ext \div 4 # 0 THEN 256 + machine.ext \div 4 ELSE machine.base \div 4

(* How many pages between the kernel and 4MB the list had first; the base  *)
(* memory follows them, and the pages above 4MB come last.                 *)
Behind == (IF npages <= 1024 THEN npages ELSE 1024) - nextfree

(* taken pages are gone from the head of the list.  check_page() gives the *)
(* first of them back in another order.                                    *)
InOrder(taken) ==
    /\ Len(free) + taken = npages - nextfree + 158
    /\ \A i \in 1 .. Len(free) : i + taken > 3 =>
         (256 <= free[i] <=> i + taken <= Behind \/ i + taken > Behind + 158)

Queue ==
    /\ pc \in {"check_page", "map", "check_kern_pgdir", "lcr3"} => npages_basemem = 160
    /\ pc = "check_page" => InOrder(0)
    /\ pc = "map" => InOrder(Cardinality(DOMAIN kern_pgdir) - 1)
    /\ pc \in {"check_kern_pgdir", "lcr3"} => InOrder(69)

Granted ==
    \A d \in DOMAIN kern_pgdir : "P" \in kern_pgdir[d].perm /\ (960 <= d => "W" \in kern_pgdir[d].perm)

Directory ==
    /\ pc \in {"pages", "envs", "page_init", "check_low", "check_page", "map", "check_kern_pgdir"} => Granted
    /\ pc = "map" /\ 2 <= done => 0 \in DOMAIN kern_pgdir
    /\ pc = "check_kern_pgdir" => 0 \notin DOMAIN kern_pgdir

Sized(i) == image[i].load => image[i].filesz <= image[i].memsz

(* Both halves of every page are in memory, and while there are free pages *)
(* no page of a segment was left out.                                      *)
Paged ==
    /\ \A v \in DOMAIN env.pages : 2 * v \in DOMAIN env.mem /\ 2 * v + 1 \in DOMAIN env.mem
    /\ pc = "region_alloc" => free = <<>> \/ \A v \in Touched(ph) : v < next_va => v \in DOMAIN env.pages

Fate ==
    /\ pc \in Installed => HasRoom
    /\ pc = "panic" /\ HasRoom /\ (\A i \in DOMAIN image : Sized(i)) => env # NoEnv /\ free = <<>>
    /\ pc \in {"load", "region_alloc"} => Paged /\ \A i \in 1 .. done : Sized(i)
    /\ pc = "run" => \A i \in DOMAIN image : Sized(i)

FInv == Detected /\ Queue /\ Directory /\ Fate

LEMMA SameRoom ==
    ASSUME UNCHANGED <<npages_basemem, npages>>
    PROVE  HasRoom' = HasRoom
BY DEF HasRoom, envs, pages, directory

LEMMA StillDetected ==
    ASSUME Detected, pc # "detect", UNCHANGED <<machine, npages_basemem, npages>>
    PROVE  Detected'
BY DEF Detected

LEMMA InitFate == Init => FInv
BY DEF Init, FInv, Detected, Queue, Directory, Fate, Installed

(* Before there is a free list, only the directory counts.                 *)
LEMMA BeforeList ==
    ASSUME Detected', pc' \in {"kern_pgdir", "pages", "envs", "page_init", "check_low"},
           pc' # "kern_pgdir" => Granted'
    PROVE  FInv'
BY DEF FInv, Queue, Directory, Fate, Installed

(* A panic on a machine without room.                                      *)
LEMMA NoRoomPanics ==
    ASSUME Detected', pc' = "panic", ~HasRoom'
    PROVE  FInv'
BY DEF FInv, Queue, Directory, Fate, Installed

LEMMA DetectDecides ==
    ASSUME BInv, FInv, i386_detect_memory
    PROVE  FInv'
<1>1. machine \in Machine
  BY BootAssumption DEF BInv, TypeFacts
<1>2. machine.base \in Nat /\ machine.ext \in Nat
  BY <1>1 DEF Machine, CMOS
<1>3. /\ npages_basemem' = machine.base \div 4
      /\ npages' = IF machine.ext \div 4 # 0 THEN 256 + machine.ext \div 4 ELSE npages_basemem'
      /\ machine' = machine /\ pc' = "kern_pgdir"
  BY <1>2, Kilobytes DEF i386_detect_memory, EXTPHYSMEM, Goto
<1> QED BY <1>3, BeforeList DEF Detected

LEMMA AllocDecides ==
    ASSUME BInv, FInv, AllocKernPgdir \/ AllocPages \/ AllocEnvs \/ page_init
    PROVE  FInv'
<1>1. /\ pc \in {"kern_pgdir", "pages", "envs", "page_init"}
      /\ UNCHANGED <<machine, npages_basemem, npages>>
  BY DEF AllocKernPgdir, AllocPages, AllocEnvs, page_init
<1>2. npages \in Nat /\ 16 <= npages /\ npages <= 16639
  BY <1>1 DEF BInv, TypeFacts, Sizes
<1>3. Detected'
  BY <1>1, StillDetected DEF FInv
<1>4. CASE AllocKernPgdir
  <2>1. ~(PGSIZE > npages * PGSIZE)
    BY <1>2 DEF PGSIZE
  <2>2. pc' = "pages"
    BY <2>1, <1>4 DEF AllocKernPgdir, boot_alloc, Goto
  <2>3. kern_pgdir' = Entry(957, [table |-> nextfree, perm |-> {"U", "P"}])
    BY <1>4, Layout DEF AllocKernPgdir
  <2>4. DOMAIN kern_pgdir' = {957} /\ kern_pgdir'[957].perm = {"U", "P"}
    BY <2>3 DEF Entry
  <2>5. Granted'
    BY <2>4 DEF Granted
  <2> QED BY <2>2, <2>5, <1>3, BeforeList
<1>5. CASE AllocPages
  <2>1. ~(npages * SizeofPageInfo > npages * PGSIZE)
    BY <1>2 DEF PGSIZE, SizeofPageInfo
  <2>2. pc = "pages" /\ pc' = "envs" /\ kern_pgdir' = kern_pgdir
    BY <2>1, <1>5 DEF AllocPages, boot_alloc, Goto, memory
  <2>3. Granted'
    BY <2>2 DEF FInv, Directory, Granted
  <2> QED BY <2>2, <2>3, <1>3, BeforeList
<1>6. CASE AllocEnvs
  <2>1. pc = "envs" /\ kern_pgdir' = kern_pgdir
    BY <1>6 DEF AllocEnvs, memory
  <2>2. Granted'
    BY <2>1 DEF FInv, Directory, Granted
  <2>3. CASE SizeofEnvs > npages * PGSIZE
    <3>1. pc' = "panic"
      BY <2>3, <1>6 DEF AllocEnvs, boot_alloc, Goto
    <3>2. npages < 31
      BY <2>3, <1>2 DEF SizeofEnvs, PGSIZE
    <3>3. envs \in Nat /\ 258 <= envs
      BY <1>2, Arrays
    <3>4. ~HasRoom
      BY <3>2, <3>3, <1>2 DEF HasRoom
    <3> QED BY <3>1, <3>4, <1>1, <1>3, SameRoom, NoRoomPanics
  <2>4. CASE ~(SizeofEnvs > npages * PGSIZE)
    <3>1. pc' = "page_init"
      BY <2>4, <1>6 DEF AllocEnvs, boot_alloc, Goto
    <3> QED BY <3>1, <2>2, <1>3, BeforeList
  <2> QED BY <2>3, <2>4
<1>7. CASE page_init
  <2>1. pc = "page_init" /\ pc' = "check_low" /\ kern_pgdir' = kern_pgdir
    BY <1>7 DEF page_init, Goto
  <2>2. Granted'
    BY <2>1 DEF FInv, Directory, Granted
  <2> QED BY <2>1, <2>2, <1>3, BeforeList
<1> QED BY <1>4, <1>5, <1>6, <1>7

(* With 69 pages or fewer behind the kernel's tables, memory ends below 4MB. *)
LEMMA Crowding ==
    ASSUME npages \in Nat, 16 <= npages, npages <= 16639, npages <= envs + 100
    PROVE  npages <= 1024
<1>1. PICK n \in Nat, k \in Nat : n = npages /\ k = Pages(npages * SizeofPageInfo) /\ k <= 33
  BY Arrays
<1>2. k = (n * 8 + 4095) \div 4096
  BY <1>1 DEF Pages, PGSIZE, SizeofPageInfo
<1>3. n <= 1001 + k
  <2>1. envs = pages + k /\ pages <= 901 /\ pages \in Nat
    BY <1>1, Arrays
  <2> QED BY <2>1, <1>1
<1>4. n <= 1034
  BY <1>1, <1>3
<1>5. n * 8 + 4095 <= 12367
  BY <1>4
<1>6. k <= 3
  BY <1>1, <1>2, <1>5
<1> QED BY <1>1, <1>3, <1>6

(* A list of usable pages, on both sides of 1MB, has nothing to find.      *)
LEMMA PassesCheck ==
    ASSUME free \in Seq(Usable), nextfree \in Nat, 289 <= nextfree,
           NEW i \in 1 .. Len(free), free[i] < 256, NEW j \in 1 .. Len(free), 256 <= free[j]
    PROVE  FreeListFine
<1>1. DOMAIN free = 1 .. Len(free) /\ \A k \in 1 .. Len(free) : free[k] \in Usable
  BY LenProperties, ElementOfSeq
<1>2. ASSUME NEW p \in Usable PROVE ~Unusable(p) /\ p < npages
  <2>1. p \in Nat /\ 1 <= p /\ p < npages /\ p # 7 /\ (p < 160 \/ nextfree <= p)
    BY <1>2 DEF Usable, Spare, MPENTRY_PADDR
  <2>2. p \notin {0, 160, 255, 256, 7} /\ p \notin 256 .. nextfree - 1
    BY <2>1
  <2> QED BY <2>1, <2>2 DEF Unusable, IOPHYSMEM, EXTPHYSMEM, MPENTRY_PADDR
<1>3. free[i] < EXTPHYSMEM /\ free[j] >= EXTPHYSMEM
  <2>1. free[j] \in Nat
    BY <1>1 DEF Usable, Spare
  <2> QED BY <2>1 DEF EXTPHYSMEM
<1> QED BY <1>1, <1>2, <1>3 DEF FreeListFine

(* The order of the list behind check_page_free_list(1).                   *)
LEMMA RotatedOrder ==
    ASSUME NEW h \in Nat, NEW n \in Nat, n <= h, NEW total \in Nat, 256 <= total - h,
           NEW s, RunFacts(s, h, 152, total), NEW i \in 1 .. h + 158
    PROVE  256 <= Rotated(s, n)[i] <=> i <= h - n \/ i > (h - n) + 158
<1>1. /\ s \in Seq(Nat) /\ Len(s) = h + 152 + 6
      /\ \A k \in 1 .. h : s[k] = total - k
      /\ \A k \in 1 .. 152 : s[h + k] = 152 + 8 - k
      /\ \A k \in 1 .. 6 : s[h + 152 + k] = 7 - k
  BY DEF RunFacts
<1>2. PICK z \in Nat : z = h + 158 /\ Len(s) = z /\ n <= z
  BY <1>1
<1>3. /\ i <= z - n => Rotated(s, n)[i] = s[n + i]
      /\ z - n < i => Rotated(s, n)[i] = s[i - (z - n)]
  <2>1. i \in 1 .. Len(s) /\ n <= Len(s)
    BY <1>2
  <2>2. /\ \A k \in 1 .. Len(s) : k <= Len(s) - n => Rotated(s, n)[k] = s[n + k]
        /\ \A k \in 1 .. Len(s) : Len(s) - n < k => Rotated(s, n)[k] = s[k - (Len(s) - n)]
    <3>1. s \in Seq(Nat)
      BY <1>1
    <3> QED BY <2>1, <3>1, RotatedValues, SMTT(30)
  <2> QED BY <2>1, <2>2, <1>2
<1>4. ASSUME NEW k \in 1 .. z PROVE 256 <= s[k] <=> k <= h
  <2>1. CASE k <= h
    <3>1. k \in 1 .. h
      BY <2>1
    <3>2. s[k] = total - k
      BY <3>1, <1>1
    <3>3. 256 <= total - k
      BY <2>1
    <3> QED BY <2>1, <3>2, <3>3
  <2>2. CASE h < k /\ k <= h + 152
    <3>1. PICK j \in 1 .. 152 : k = h + j
      <4>1. k - h \in 1 .. 152 /\ k = h + (k - h)
        BY <2>2
      <4> QED BY <4>1
    <3>2. s[k] = 152 + 8 - j
      BY <3>1, <1>1
    <3> QED BY <3>2, <2>2
  <2>3. CASE h + 152 < k
    <3>1. PICK j \in 1 .. 6 : k = h + 152 + j
      <4>1. k - (h + 152) \in 1 .. 6 /\ k = h + 152 + (k - (h + 152))
        BY <2>3, <1>2
      <4> QED BY <4>1
    <3>2. s[k] = 7 - j
      BY <3>1, <1>1
    <3> QED BY <3>2, <2>3
  <2> QED BY <2>1, <2>2, <2>3
<1>5. CASE i <= z - n
  <2>1. n + i \in 1 .. z
    BY <1>5
  <2>2. 256 <= Rotated(s, n)[i] <=> n + i <= h
    BY <2>1, <1>3, <1>4, <1>5
  <2> QED BY <2>2, <1>2, <1>5
<1>6. CASE z - n < i
  <2>1. i - (z - n) \in 1 .. z /\ i - (z - n) <= h /\ i > (h - n) + 158
    BY <1>2, <1>6
  <2> QED BY <2>1, <1>3, <1>4, <1>6
<1> QED BY <1>5, <1>6, <1>2

LEMMA FirstSizes ==
    ASSUME BInv, pc = "check_low"
    PROVE  /\ npages \in Nat /\ 16 <= npages /\ npages <= 16639
           /\ npages_basemem \in Nat /\ 16 <= npages_basemem /\ npages_basemem <= 160
           /\ nextfree = envs + 31 /\ nextfree \in Nat /\ 289 <= nextfree /\ nextfree <= 965
           /\ free = Runs(npages_basemem + (nextfree - 160), npages, npages_basemem)
<1>1. /\ npages \in Nat /\ 16 <= npages /\ npages <= 16639 /\ nextfree = envs + 31
      /\ npages_basemem \in Nat /\ 16 <= npages_basemem /\ npages_basemem <= 160
      /\ free = FirstList
  BY DEF BInv, TypeFacts, Sizes, Allocated, Apart
<1>2. nextfree \in Nat /\ 289 <= nextfree /\ nextfree <= 965
  BY <1>1, Arrays
<1> QED BY <1>1, <1>2 DEF FirstList, Runs

LEMMA FineMachine ==
    ASSUME BInv, pc = "check_low", FreeListFine
    PROVE  npages_basemem = 160 /\ nextfree < npages
<1>1. PICK a \in Nat : a = npages_basemem + (nextfree - 160)
  BY FirstSizes
<1>2. RunFacts(Runs(a, npages, npages_basemem), High(a, npages), npages_basemem - 8, npages)
  BY FirstSizes, RunValues
<1>3. free \in Seq(Nat) /\ DOMAIN free = 1 .. Len(free) /\ \A i \in 1 .. Len(free) : free[i] \in Nat
  <2>1. free \in Seq(Nat)
    BY <1>1, <1>2, FirstSizes DEF RunFacts
  <2> QED BY <2>1, ElementOfSeq, LenProperties
<1>4. AvoidsKernel(free, nextfree)
  <2>1. \A i \in 1 .. Len(free) : free[i] \notin EXTPHYSMEM .. nextfree - 1
    BY <1>3 DEF FreeListFine, Unusable
  <2>2. \A p \in Nat : 256 <= p /\ p < nextfree => p \in EXTPHYSMEM .. nextfree - 1
    BY FirstSizes DEF EXTPHYSMEM
  <2> QED BY <2>1, <2>2, <1>3 DEF AvoidsKernel
<1>5. PICK k \in 1 .. Len(free) : 256 <= free[k]
  BY <1>3 DEF FreeListFine, EXTPHYSMEM
<1> QED BY <1>1, <1>4, <1>5, FirstSizes, SixForty, SMTT(30)

(* The list of a machine with all of its base memory, before and after its *)
(* first check.                                                            *)
LEMMA CheckRotates ==
    ASSUME BInv, check_page_free_list, npages_basemem = 160, nextfree < npages
    PROVE  /\ RunFacts(free, npages - nextfree, 152, npages)
           /\ free \in Seq(Usable) /\ free' = Rotated(free, Above(npages))
<1>1. pc = "check_low"
  BY DEF check_page_free_list
<1>2. PICK b \in Nat : b = 160 /\ b = npages_basemem
  OBVIOUS
<1>3. PICK a \in Nat : a = nextfree /\ a = b + (nextfree - 160)
  BY <1>1, <1>2, FirstSizes
<1>4. free = Runs(nextfree, npages, 160)
  BY <1>1, <1>2, <1>3, FirstSizes
<1>5. RunFacts(free, npages - nextfree, 152, npages)
  <2>1. RunFacts(Runs(a, npages, b), High(a, npages), b - 8, npages)
    BY <1>1, <1>2, <1>3, FirstSizes, RunValues
  <2>2. High(a, npages) = npages - nextfree /\ b - 8 = 152
    BY <1>2, <1>3 DEF High
  <2>3. free = Runs(a, npages, b)
    BY <1>2, <1>3, <1>4
  <2> QED BY <2>1, <2>2, <2>3
<1> DEFINE n == Above(npages)
<1>6. /\ free \in Seq(Usable) /\ n \in Nat /\ n + 158 <= Len(free)
      /\ \A i \in 1 .. Len(free) : free[i] < NPTENTRIES <=> n < i
  <2>1. /\ free \in Seq(Spare(nextfree, npages)) /\ n \in Nat /\ n + 158 <= Len(free)
        /\ \A i \in 1 .. Len(free) : free[i] < NPTENTRIES <=> n < i
    BY <1>1, <1>4, FirstSizes, FirstPages, SMTT(30)
  <2> QED BY <2>1 DEF Usable
<1> HIDE DEF n
<1>7. Len(free) \in Nat /\ DOMAIN free = 1 .. Len(free) /\ \A i \in 1 .. Len(free) : free[i] \in Nat
  <2>1. Usable \subseteq Nat
    BY DEF Usable, Spare
  <2> QED BY <2>1, <1>6, LenProperties, ElementOfSeq
<1>8. \A i \in 1 .. Len(free) : Low(free[i]) <=> free[i] < NPTENTRIES
  <2>1. \A p \in Nat : Low(p) <=> p < NPTENTRIES
    BY DEF Low, PDX, NPTENTRIES
  <2> QED BY <2>1, <1>7
<1>9. {i \in DOMAIN free : ~Low(free[i])} = 1 .. n
  BY <1>6, <1>7, <1>8
<1>10. Cardinality(1 .. n) = n
  BY <1>6, FS_Interval
<1>11. free' = Rotated(free, n)
  BY <1>9, <1>10 DEF check_page_free_list, Rotated
<1> QED BY <1>5, <1>6, <1>11 DEF n

LEMMA CheckListDecides ==
    ASSUME BInv, FInv, check_page_free_list
    PROVE  FInv'
<1>1. /\ pc = "check_low" /\ pc' = IF FreeListFine THEN "check_page" ELSE "panic"
      /\ UNCHANGED <<machine, npages_basemem, npages, nextfree, kern_pgdir>>
  BY DEF check_page_free_list, Goto
<1>2. Detected' /\ Granted'
  <2>1. Detected'
    BY <1>1, StillDetected DEF FInv
  <2> QED BY <2>1, <1>1 DEF FInv, Directory, Granted
<1>3. HasRoom => npages_basemem = 160 /\ nextfree < npages
  <2>1. nextfree = envs + 31 /\ envs \in Nat
    BY <1>1, FirstSizes, Arrays
  <2> QED BY <2>1, <1>1, FirstSizes DEF HasRoom
<1>4. CASE ~FreeListFine
  <2>1. ASSUME npages_basemem = 160, nextfree < npages PROVE FALSE
    <3>1. /\ free \in Seq(Usable) /\ RunFacts(free, npages - nextfree, 152, npages)
      BY <2>1, CheckRotates
    <3>2. PICK h \in Nat : h = npages - nextfree /\ 1 <= h
      BY <2>1, <1>1, FirstSizes
    <3>3. PICK k \in 1 .. 6 : k = 6
      OBVIOUS
    <3>4. /\ Len(free) = h + 158 /\ free[1] = npages - 1 /\ free[h + 152 + k] = 1
          /\ 1 \in 1 .. Len(free) /\ h + 152 + k \in 1 .. Len(free)
      <4>1. /\ Len(free) = h + 152 + 6 /\ \A i \in 1 .. h : free[i] = npages - i
            /\ \A i \in 1 .. 6 : free[h + 152 + i] = 7 - i
        BY <3>1, <3>2 DEF RunFacts
      <4>2. 1 \in 1 .. h
        BY <3>2
      <4> QED BY <4>1, <4>2, <3>3
    <3>5. 256 <= free[1] /\ free[h + 152 + k] < 256
      BY <3>4, <2>1, <1>1, FirstSizes
    <3>6. FreeListFine
      <4>1. PICK i \in 1 .. Len(free), j \in 1 .. Len(free) : free[i] < 256 /\ 256 <= free[j]
        BY <3>4, <3>5
      <4>2. free \in Seq(Usable) /\ nextfree \in Nat /\ 289 <= nextfree
        BY <3>1, <1>1, FirstSizes
      <4> QED BY <4>1, <4>2, PassesCheck
    <3> QED BY <3>6, <1>4
  <2>2. ~HasRoom
    BY <2>1, <1>3
  <2> QED BY <2>2, <1>1, <1>2, <1>4, SameRoom, NoRoomPanics
<1>5. CASE FreeListFine
  <2>1. npages_basemem = 160 /\ nextfree < npages
    BY <1>1, <1>5, FineMachine
  <2>2. /\ RunFacts(free, npages - nextfree, 152, npages) /\ free \in Seq(Usable)
        /\ free' = Rotated(free, Above(npages))
    BY <2>1, CheckRotates
  <2>3. PICK h \in Nat, n \in Nat : /\ h = npages - nextfree /\ n = Above(npages) /\ n <= h
                                    /\ 256 <= npages - h /\ Behind = h - n
    <3>1. PICK h \in Nat : h = npages - nextfree /\ 256 <= npages - h
      BY <2>1, <1>1, FirstSizes
    <3>2. PICK n \in Nat : n = Above(npages) /\ n <= h /\ Behind = h - n
      BY <3>1, <1>1, FirstSizes DEF Above, Behind
    <3> QED BY <3>1, <3>2
  <2>4. Len(free') = h + 158
    <3>1. Len(free) = h + 152 + 6 /\ n <= Len(free) /\ Len(free) \in Nat
      BY <2>2, <2>3 DEF RunFacts
    <3>2. Len(Rotated(free, n)) = Len(free)
      BY <3>1, <2>2, <2>3, RotatedValues
    <3> QED BY <3>1, <3>2, <2>2, <2>3
  <2>5. ASSUME NEW i \in 1 .. h + 158
        PROVE  256 <= free'[i] <=> i <= Behind \/ i > Behind + 158
    <3>1. 256 <= Rotated(free, n)[i] <=> i <= h - n \/ i > (h - n) + 158
      <4>1. PICK t \in Nat : t = npages /\ 256 <= t - h
        BY <2>3, <1>1, FirstSizes
      <4>2. RunFacts(free, h, 152, t)
        BY <4>1, <2>2, <2>3
      <4> QED BY <4>1, <4>2, <2>3, RotatedOrder
    <3> QED BY <3>1, <2>2, <2>3
  <2>6. Behind' = Behind /\ npages' - nextfree' = h
    BY <2>3, <1>1 DEF Behind
  <2>7. InOrder(0)'
    <3>1. Behind \in Int /\ \A i \in 1 .. h + 158 : i + 0 = i
      BY <2>3
    <3>2. \A i \in 1 .. h + 158 : i + 0 > 3 =>
             (256 <= free'[i] <=> i + 0 <= Behind \/ i + 0 > Behind + 158)
      BY <3>1, <2>5
    <3>3. Len(free') + 0 = npages' - nextfree' + 158
      BY <2>4, <2>6
    <3> QED BY <3>2, <3>3, <2>4, <2>6 DEF InOrder
  <2> QED BY <2>1, <2>7, <1>1, <1>2, <1>5 DEF FInv, Queue, Directory, Fate, Installed
<1> QED BY <1>4, <1>5

(* check_page() takes the third page of the list and turns the first two.  *)
LEMMA CheckPageTakes ==
    ASSUME BInv, check_page
    PROVE  /\ Len(free) \in Nat /\ Len(free') = Len(free) - 1
           /\ \A i \in 1 .. Len(free) : 3 < i => free'[i - 1] = free[i]
           /\ DOMAIN kern_pgdir' = {957, 958} /\ DOMAIN kern_pgdir = {957}
           /\ kern_pgdir'[957] = kern_pgdir[957]
           /\ kern_pgdir'[958].perm = {"W", "PCD", "PWT", "P"}
<1>1. pc = "check_page" /\ free \in Seq(Usable) /\ DOMAIN kern_pgdir = {957}
  BY Layout DEF BInv, Apart, KernelApart, DirectoryFacts, check_page
<1>2. PICK z \in Nat : z = Len(free) /\ 158 <= z
  <2>1. 158 \in 1 .. 158
    OBVIOUS
  <2>2. 158 \in 1 .. Len(free)
    BY <2>1, <1>1 DEF BInv, Stock, LowFirst
  <2> QED BY <2>2, <1>1, LenProperties
<1>3. free[1] \in Usable /\ free[2] \in Usable
  <2>1. 1 \in 1 .. z /\ 2 \in 1 .. z
    BY <1>2
  <2> QED BY <2>1, <1>1, <1>2, ElementOfSeq
<1>4. PICK h \in Seq(Usable) : h = <<free[2], free[1]>> /\ Len(h) = 2
  <2>1. <<free[2], free[1]>> \in Seq(Usable) /\ Len(<<free[2], free[1]>>) = 2
    BY <1>3, Pairs
  <2> QED BY <2>1
<1>5. ReplacedFacts(free', h, free, Usable)
  <2>1. Long(free)
    BY <1>2 DEF Long
  <2>2. free' = Replaced(h, free)
    BY <1>4 DEF check_page, Replaced
  <2> QED BY <2>1, <2>2, <1>1, ReplacedValues
<1>6. Len(free') = z - 1
  BY <1>2, <1>4, <1>5 DEF ReplacedFacts
<1>7. ASSUME NEW i \in 1 .. z, 3 < i PROVE free'[i - 1] = free[i]
  <2>1. 2 + (i - 3) = i - 1
    OBVIOUS
  <2>2. free'[Len(h) + (i - 3)] = free[i]
    BY <1>2, <1>5, <1>7 DEF ReplacedFacts
  <2> QED BY <2>1, <2>2, <1>4
<1> DEFINE ent == [table |-> free[3], perm |-> {"W", "PCD", "PWT", "P"}]
<1>8. kern_pgdir' = Over(Entry(958, ent), kern_pgdir)
  BY Layout DEF check_page
<1>9. Added(kern_pgdir', 958, ent, kern_pgdir)
  BY <1>8, EntryAdded
<1>10. /\ DOMAIN kern_pgdir' = {957, 958} /\ kern_pgdir'[957] = kern_pgdir[957]
       /\ kern_pgdir'[958] = ent
  BY <1>1, <1>9 DEF Added
<1> QED BY <1>1, <1>2, <1>6, <1>7, <1>10

(* One page less at the head.                                              *)
LEMMA CheckPageDecides ==
    ASSUME BInv, FInv, check_page
    PROVE  FInv'
<1>1. /\ pc = "check_page" /\ pc' = "map" /\ done' = 0
      /\ UNCHANGED <<machine, npages_basemem, npages, nextfree>>
  BY DEF check_page, Goto
<1>2. Detected' /\ npages_basemem' = 160 /\ InOrder(0) /\ Granted
  BY <1>1, StillDetected DEF FInv, Queue, Directory
<1>3. PICK z \in Nat : z = Len(free) /\ Len(free') = z - 1
                       /\ \A i \in 1 .. z : 3 < i => free'[i - 1] = free[i]
  BY CheckPageTakes
<1>4. InOrder(1)'
  <2>1. Behind' = Behind /\ npages' - nextfree' = npages - nextfree
    BY <1>1 DEF Behind
  <2>2. z + 0 = npages - nextfree + 158
    BY <1>2, <1>3 DEF InOrder
  <2>3. ASSUME NEW i \in 1 .. z - 1, i + 1 > 3
        PROVE  256 <= free'[i] <=> i + 1 <= Behind \/ i + 1 > Behind + 158
    <3>1. i + 1 \in 1 .. z /\ 3 < i + 1 /\ (i + 1) - 1 = i /\ (i + 1) + 0 = i + 1
      BY <2>3
    <3>2. free'[i] = free[i + 1]
      BY <3>1, <1>3
    <3>3. 256 <= free[i + 1] <=> (i + 1) + 0 <= Behind \/ (i + 1) + 0 > Behind + 158
      BY <3>1, <1>2, <1>3 DEF InOrder
    <3> QED BY <3>1, <3>2, <3>3
  <2>4. (z - 1) + 1 = z + 0
    OBVIOUS
  <2> QED BY <2>1, <2>2, <2>3, <2>4, <1>3 DEF InOrder
<1>5. Cardinality(DOMAIN kern_pgdir') - 1 = 1
  <2>1. PICK x, y : x = 957 /\ y = 958 /\ x # y
    OBVIOUS
  <2>2. Cardinality(Pair(x, y)) = 2
    BY <2>1, PairSize
  <2>3. DOMAIN kern_pgdir' = Pair(x, y)
    BY <2>1, CheckPageTakes DEF Pair
  <2> QED BY <2>2, <2>3
<1>6. Granted'
  <2>1. "P" \in kern_pgdir[957].perm
    BY <1>2, CheckPageTakes DEF Granted
  <2> QED BY <2>1, CheckPageTakes DEF Granted
<1>7. InOrder(Cardinality(DOMAIN kern_pgdir) - 1)'
  BY <1>4, <1>5
<1> QED BY <1>1, <1>2, <1>6, <1>7 DEF FInv, Queue, Directory, Fate, Installed

(* A region takes as many pages from the head as it has new entries, and   *)
(* adds its permissions to all of its entries.                             *)
LEMMA RegionTakes ==
    ASSUME NEW r, MapRegion(r), free \in Seq(Usable), NEW n \in Nat, n = Cardinality(New(r)), n <= Len(free)
    PROVE  /\ Len(free') = Len(free) - n
           /\ \A i \in 1 .. Len(free) - n : free'[i] = free[n + i]
<1>1. free' = SubSeq(free, n + 1, Len(free))
  BY DEF MapRegion, New, Covered
<1>2. n \in 0 .. Len(free)
  BY LenProperties
<1> QED BY <1>1, <1>2, Dropped

LEMMA RegionGrants ==
    ASSUME NEW r, MapRegion(r), KernelFacts, r.perm \subseteq Perms
    PROVE  /\ DOMAIN kern_pgdir' = Covered(r) \cup DOMAIN kern_pgdir
           /\ \A d \in DOMAIN kern_pgdir' : d \notin Covered(r) => kern_pgdir'[d] = kern_pgdir[d]
           /\ \A d \in Covered(r) : r.perm \subseteq kern_pgdir'[d].perm
           /\ \A d \in Covered(r) \cap DOMAIN kern_pgdir : kern_pgdir[d].perm \subseteq kern_pgdir'[d].perm
<1> DEFINE dirs == Covered(r)
           new  == New(r)
           old(d) == IF d \in new THEN [table |-> free[Cardinality({e \in new : e <= d})], perm |-> {}]
                     ELSE kern_pgdir[d]
<1>1. kern_pgdir' = Over([d \in dirs |-> [old(d) EXCEPT !.perm = @ \cup r.perm]], kern_pgdir)
  BY DEF MapRegion, Covered, New
<1>2. \A d \in dirs \ new : old(d) = kern_pgdir[d] /\ d \in DOMAIN kern_pgdir
  BY DEF New
<1>3. \A d \in new : old(d) = [table |-> free[Cardinality({e \in new : e <= d})], perm |-> {}]
  OBVIOUS
<1> HIDE DEF new, old
<1>4. /\ DOMAIN kern_pgdir' = dirs \cup DOMAIN kern_pgdir
      /\ \A d \in dirs : kern_pgdir'[d] = [old(d) EXCEPT !.perm = @ \cup r.perm]
      /\ \A d \in DOMAIN kern_pgdir \ dirs : kern_pgdir'[d] = kern_pgdir[d]
  BY <1>1 DEF Over
<1>5. ASSUME NEW d \in dirs
      PROVE  /\ r.perm \subseteq kern_pgdir'[d].perm
             /\ d \in DOMAIN kern_pgdir => kern_pgdir[d].perm \subseteq kern_pgdir'[d].perm
  <2>1. CASE d \in new
    <3>0. PICK t : old(d) = [table |-> t, perm |-> {}]
      BY <2>1, <1>3
    <3>a. kern_pgdir'[d] = [[table |-> t, perm |-> {}] EXCEPT !.perm = @ \cup r.perm]
      BY <3>0, <1>4
    <3>1. kern_pgdir'[d].perm = {} \cup r.perm
      BY <3>a
    <3>2. d \notin DOMAIN kern_pgdir
      BY <2>1 DEF new, New
    <3> QED BY <3>1, <3>2
  <2>2. CASE d \notin new
    <3>1. old(d) = kern_pgdir[d] /\ kern_pgdir[d] \in Entries
      BY <2>2, <1>2 DEF KernelFacts
    <3>2. kern_pgdir'[d].perm = kern_pgdir[d].perm \cup r.perm
      BY <3>1, <1>4 DEF Entries
    <3> QED BY <3>2
  <2> QED BY <2>1, <2>2
<1> QED BY <1>4, <1>5

(* Every region is present, and those from KERNBASE up may be written.     *)
Solid(r) == "P" \in r.perm /\ ("W" \in r.perm \/ r.va + r.n <= 983040)

LEMMA SolidRegions ==
    ASSUME npages \in Nat, 16 <= npages, npages <= 16639, NEW j \in 1 .. 14
    PROVE  Solid(regions[j])
<1>1. PICK m \in 1 .. 33 : m = Pages(npages * SizeofPageInfo)
  BY Arrays
<1>2. RegionList(regions, m)
  BY <1>1, RegionTable
<1>3. \A va, n, pa, perm : /\ Region(va, n, pa, perm).va = va /\ Region(va, n, pa, perm).n = n
                           /\ Region(va, n, pa, perm).perm = perm \cup {"P"}
  BY DEF Region
<1>4. CASE j = 1 \/ j = 3
  <2>1. \/ regions[j] = Region(978944, m, pages, {"U"})
        \/ regions[j] = Region(977920, 31, envs, {"U"})
    BY <1>2, <1>4, Places DEF RegionList
  <2>2. \/ regions[j].va = 978944 /\ regions[j].n = m /\ "P" \in regions[j].perm
        \/ regions[j].va = 977920 /\ regions[j].n = 31 /\ "P" \in regions[j].perm
    BY <2>1, <1>3
  <2>3. regions[j].va + regions[j].n <= 983040
    BY <2>2
  <2> QED BY <2>2, <2>3 DEF Solid
<1>5. CASE 6 <= j /\ j <= 13
  <2>1. PICK i \in 1 .. 8 : j = 5 + i
    <3>1. j - 5 \in 1 .. 8 /\ j = 5 + (j - 5)
      BY <1>5
    <3> QED BY <3>1
  <2>2. regions[j] = Region(StackOf(i), 8, percpu_kstacks + (i - 1) * 8, {"W"})
    BY <2>1, <1>2 DEF RegionList
  <2>3. regions[j].perm = {"W"} \cup {"P"}
    BY <2>2, <1>3
  <2> QED BY <2>3 DEF Solid
<1>6. CASE j = 2 \/ j = 4 \/ j = 5 \/ j = 14
  <2>1. \E va, n, pa : regions[j] = Region(va, n, pa, {"W"}) \/ regions[j] = Region(va, n, pa, {"U", "W"})
    BY <1>2, <1>6 DEF RegionList
  <2>2. regions[j].perm = {"W"} \cup {"P"} \/ regions[j].perm = {"U", "W"} \cup {"P"}
    BY <2>1, <1>3
  <2> QED BY <2>2 DEF Solid
<1>7. j = 1 \/ j = 3 \/ (6 <= j /\ j <= 13) \/ j = 2 \/ j = 4 \/ j = 5 \/ j = 14
  OBVIOUS
<1> QED BY <1>4, <1>5, <1>6, <1>7

(* Below KERNBASE nothing reaches into its entries.                        *)
LEMMA SolidGrants ==
    ASSUME NEW r \in Mappable, Solid(r), NEW d \in Covered(r)
    PROVE  "P" \in r.perm /\ (960 <= d => "W" \in r.perm)
<1>1. PICK va \in Nat, n \in Nat : va = r.va /\ n = r.n /\ 1 <= n
  BY DEF Mappable
<1>2. d \in Int /\ d <= (va + n - 1) \div 1024
  BY <1>1 DEF Covered, PDX, NPTENTRIES
<1>3. ASSUME va + n <= 983040 PROVE ~(960 <= d)
  BY <1>1, <1>2, <1>3
<1> QED BY <1>1, <1>3 DEF Solid

(* The directory is full when all regions are mapped.                      *)
LEMMA AllEntries ==
    ASSUME BInv, pc \in Late \ Loading, pc # "check_page", Made(14)
    PROVE  \A d \in 955 .. 1023 : d \in DOMAIN kern_pgdir
<1>1. npages \in Nat /\ 16 <= npages /\ npages <= 16639
  BY KernelKept
<1>2. PICK m \in 1 .. 33 : m = Pages(npages * SizeofPageInfo)
  BY <1>1, Arrays
<1>3. RegionList(regions, m)
  BY <1>1, <1>2, RegionTable
<1>4. \A va, n, pa, perm : Region(va, n, pa, perm).va = va /\ Region(va, n, pa, perm).n = n
  BY DEF Region
<1>5. PICK one, three, six, last : /\ one = ptes[1] /\ three = ptes[3] /\ six = ptes[6] /\ last = ptes[14]
  OBVIOUS
<1>6. /\ one.va = 978944 /\ one.n = m /\ three.va = 977920 /\ three.n = 31
      /\ six.va = 983032 /\ six.n = 8 /\ last.va = 983040 /\ last.n = 65535
  <2>1. /\ 1 \in 1 .. 14 /\ 3 \in 1 .. 14 /\ 6 \in 1 .. 14 /\ 14 \in 1 .. 14
    OBVIOUS
  <2>2. one = regions[1] /\ three = regions[3] /\ six = regions[6] /\ last = regions[14]
    BY <2>1, <1>5 DEF Made
  <2>3. PICK i \in 1 .. 8 : i = 1 /\ 5 + i = 6
    OBVIOUS
  <2>4. regions[6] = Region(StackOf(1), 8, percpu_kstacks + (1 - 1) * 8, {"W"})
    BY <2>3, <1>3 DEF RegionList
  <2>5. regions[1] = Region(UPAGES, m, pages, {"U"}) /\ regions[3] = Region(UENVS, 31, envs, {"U"})
        /\ regions[14] = Region(KERNBASE, TopPages, 0, {"W"})
    BY <1>3 DEF RegionList
  <2> QED BY <2>2, <2>4, <2>5, <1>4, Places
<1>7. /\ Covered(one) \cup Covered(three) \cup Covered(six) \cup Covered(last) \subseteq DOMAIN kern_pgdir \cup {0}
  <2>1. 1 \in 1 .. 14 /\ 3 \in 1 .. 14 /\ 6 \in 1 .. 14 /\ 14 \in 1 .. 14
    OBVIOUS
  <2> QED BY <2>1, <1>5 DEF Made
<1>8. 957 \in DOMAIN kern_pgdir /\ 958 \in DOMAIN kern_pgdir
  BY KernelKept, MmioKept, Layout DEF KernelFacts
<1>9. 956 \in Covered(one)
  <2>1. PDX(978944) = 956 /\ PDX(978944 + m - 1) = 956
    BY DEF PDX, NPTENTRIES
  <2> QED BY <2>1, <1>6 DEF Covered
<1>10. 955 \in Covered(three) /\ 959 \in Covered(six)
  BY <1>6 DEF Covered, PDX, NPTENTRIES
<1>11. \A d \in 960 .. 1023 : d \in Covered(last)
  <2>1. PDX(last.va) = 960 /\ PDX(last.va + last.n - 1) = 1023
    BY <1>6 DEF PDX, NPTENTRIES
  <2>2. Covered(last) = 960 .. 1023
    BY <2>1 DEF Covered
  <2> QED BY <2>2
<1> SUFFICES ASSUME NEW d \in 955 .. 1023 PROVE d \in DOMAIN kern_pgdir
  OBVIOUS
<1>12. d # 0 /\ (d = 955 \/ d = 956 \/ d = 957 \/ d = 958 \/ d = 959 \/ d \in 960 .. 1023)
  OBVIOUS
<1> QED BY <1>7, <1>8, <1>9, <1>10, <1>11, <1>12

LEMMA MapDecides ==
    ASSUME BInv, MInv, FInv, boot_map_region
    PROVE  FInv'
<1>1. /\ pc = "map" /\ pc' = "map" /\ done' = done + 1 /\ done \in Nat /\ done < Len(regions)
      /\ UNCHANGED <<machine, npages_basemem, npages, nextfree>>
      /\ MapRegion(regions[done + 1])
  BY DEF BInv, TypeFacts, boot_map_region
<1>2. /\ KernelFacts /\ npages \in Nat /\ 16 <= npages /\ npages <= 16639
      /\ free \in Seq(Usable)
  BY <1>1, KernelKept DEF KernelFacts, KernelApart
<1>3. Detected' /\ npages_basemem' = 160 /\ Granted
  BY <1>1, StillDetected DEF FInv, Queue, Directory
<1>4. PICK d \in 1 .. 14 : d = done + 1
  <2>1. Len(regions) = 14
    BY <1>2, RegionTable DEF RegionList
  <2>2. done + 1 \in 1 .. 14
    BY <2>1, <1>1
  <2> QED BY <2>2
<1>5. PICK r \in Mappable : r = regions[d] /\ Solid(r) /\ MapRegion(r)
  <2>1. regions \in Seq(Mappable) /\ Len(regions) = 14
    BY <1>2, RegionFacts, RegionTable DEF RegionList
  <2>2. regions[d] \in Mappable
    BY <2>1, ElementOfSeq
  <2>3. Solid(regions[d])
    BY <1>2, SolidRegions
  <2>4. MapRegion(regions[d])
    BY <1>1, <1>4
  <2>5. PICK r \in Mappable : r = regions[d]
    BY <2>2
  <2> QED BY <2>3, <2>4, <2>5
<1>6. Covered(r) \subseteq Dirs /\ IsFiniteSet(Covered(r)) /\ r.perm \subseteq Perms
  BY MappableCovers
<1>7. /\ DOMAIN kern_pgdir' = Covered(r) \cup DOMAIN kern_pgdir
      /\ \A e \in DOMAIN kern_pgdir' : e \notin Covered(r) => kern_pgdir'[e] = kern_pgdir[e]
      /\ \A e \in Covered(r) : r.perm \subseteq kern_pgdir'[e].perm
  <2>1. MapRegion(r) /\ KernelFacts /\ r.perm \subseteq Perms
    BY <1>2, <1>5, <1>6
  <2> QED BY <2>1, RegionGrants, ZenonT(30)
<1>8. Granted'
  <2> SUFFICES ASSUME NEW e \in DOMAIN kern_pgdir'
               PROVE  "P" \in kern_pgdir'[e].perm /\ (960 <= e => "W" \in kern_pgdir'[e].perm)
    BY DEF Granted
  <2>1. CASE e \in Covered(r)
    <3>1. "P" \in r.perm /\ (960 <= e => "W" \in r.perm)
      BY <2>1, <1>5, SolidGrants
    <3> QED BY <3>1, <2>1, <1>7
  <2>2. CASE e \notin Covered(r)
    BY <2>2, <1>3, <1>7 DEF Granted
  <2> QED BY <2>1, <2>2
<1>9. 2 <= done' => 0 \in DOMAIN kern_pgdir'
  <2>1. CASE 2 <= done
    BY <2>1, <1>1, <1>7 DEF FInv, Directory
  <2>2. CASE done = 1
    <3>1. PICK m \in 1 .. 33 : m = Pages(npages * SizeofPageInfo)
      BY <1>2, Arrays
    <3>2. r = Region(pages, m, pages, {"W"})
      BY <2>2, <3>1, <1>2, <1>4, <1>5, RegionTable DEF RegionList
    <3>3. PICK p \in Nat : p = pages /\ p <= 901
      BY <1>2, Arrays
    <3>4. PDX(p) = 0 /\ PDX(p + m - 1) = 0
      BY <3>3 DEF PDX, NPTENTRIES
    <3>5. r.va = p /\ r.n = m
      BY <3>2, <3>3 DEF Region
    <3>6. 0 \in Covered(r)
      BY <3>4, <3>5 DEF Covered
    <3> QED BY <3>6, <1>7
  <2>3. CASE done = 0
    BY <2>3, <1>1
  <2> QED BY <2>1, <2>2, <2>3, <1>1
<1> DEFINE D == DOMAIN kern_pgdir
<1>10. PICK m \in Nat, n \in Nat : /\ m = Cardinality(D) /\ n = Cardinality(New(r)) /\ m + n <= 70
                                   /\ Cardinality(DOMAIN kern_pgdir') = m + n
  <2>1. D \in SUBSET Dirs
    BY <1>2 DEF KernelFacts
  <2> HIDE DEF D
  <2>2. /\ Cardinality(D) \in Nat /\ Cardinality(Covered(r) \ D) \in Nat
        /\ Cardinality(Covered(r) \cup D) = Cardinality(D) + Cardinality(Covered(r) \ D)
        /\ Cardinality(Covered(r) \cup D) <= 70
    BY <2>1, <1>6, Counting
  <2> QED BY <2>2, <1>7 DEF New, D
<1>11. InOrder(m - 1) /\ LowFirst(159 - m)
  BY <1>1, <1>10 DEF FInv, Queue, BInv, Stock
<1>12. PICK z \in Nat : z = Len(free) /\ n <= z
  <2>1. n \in 1 .. 159 - m => n \in 1 .. Len(free)
    BY <1>11 DEF LowFirst
  <2>2. n = 0 \/ n \in 1 .. 159 - m
    BY <1>10
  <2> QED BY <2>1, <2>2, <1>2, LenProperties
<1>13. Len(free') = z - n /\ \A i \in 1 .. z - n : free'[i] = free[n + i]
  BY <1>2, <1>5, <1>10, <1>12, RegionTakes
<1>14. InOrder(m + n - 1)'
  <2>1. Behind' = Behind /\ npages' - nextfree' = npages - nextfree
    BY <1>1 DEF Behind
  <2>2. z + (m - 1) = npages - nextfree + 158
    BY <1>11, <1>12 DEF InOrder
  <2>3. ASSUME NEW i \in 1 .. z - n, i + (m + n - 1) > 3
        PROVE  256 <= free'[i] <=> i + (m + n - 1) <= Behind \/ i + (m + n - 1) > Behind + 158
    <3>1. n + i \in 1 .. z /\ (n + i) + (m - 1) = i + (m + n - 1)
      BY <1>12
    <3>2. 256 <= free[n + i] <=> (n + i) + (m - 1) <= Behind \/ (n + i) + (m - 1) > Behind + 158
      BY <3>1, <2>3, <1>11, <1>12 DEF InOrder
    <3> QED BY <3>1, <3>2, <1>13
  <2>4. (z - n) + (m + n - 1) = z + (m - 1)
    OBVIOUS
  <2> QED BY <2>1, <2>2, <2>3, <2>4, <1>13 DEF InOrder
<1>15. InOrder(Cardinality(DOMAIN kern_pgdir) - 1)'
  BY <1>10, <1>14
<1> QED BY <1>1, <1>3, <1>8, <1>9, <1>15 DEF FInv, Queue, Directory, Fate, Installed

LEMMA ClearDecides ==
    ASSUME BInv, MInv, FInv, ClearFirst
    PROVE  FInv'
<1>1. /\ pc = "map" /\ pc' = "check_kern_pgdir" /\ done = Len(regions)
      /\ UNCHANGED <<machine, npages_basemem, npages, nextfree, free>>
      /\ kern_pgdir' = [d \in DOMAIN kern_pgdir \ {0} |-> kern_pgdir[d]]
  BY DEF ClearFirst, UnlinkFirst, Goto
<1>2. Detected' /\ npages_basemem' = 160 /\ Granted
  BY <1>1, StillDetected DEF FInv, Queue, Directory
<1>3. done = 14 /\ Made(14)
  <2>1. Len(regions) = 14
    <3>1. npages \in Nat /\ 16 <= npages /\ npages <= 16639
      BY <1>1, KernelKept
    <3>2. RegionList(regions, Pages(npages * SizeofPageInfo))
      BY <3>1, RegionTable
    <3> QED BY <3>2 DEF RegionList
  <2> QED BY <2>1, <1>1 DEF MInv
<1>4. DOMAIN kern_pgdir = Dirs
  <2>1. \A d \in 955 .. 1023 : d \in DOMAIN kern_pgdir
    BY <1>1, <1>3, AllEntries
  <2>2. 0 \in DOMAIN kern_pgdir
    BY <1>1, <1>3 DEF FInv, Directory
  <2>3. \A d \in Dirs : d = 0 \/ d \in 955 .. 1023
    BY Layout
  <2>4. DOMAIN kern_pgdir \subseteq Dirs
    BY <1>1, KernelKept DEF KernelFacts
  <2> QED BY <2>1, <2>2, <2>3, <2>4
<1>5. InOrder(69)
  <2>1. Cardinality(DOMAIN kern_pgdir) - 1 = 69
    BY <1>4, DirCount
  <2> QED BY <2>1, <1>1 DEF FInv, Queue
<1>6. InOrder(69)'
  BY <1>1, <1>5 DEF InOrder, Behind
<1>7. Granted' /\ 0 \notin DOMAIN kern_pgdir'
  BY <1>1, <1>2 DEF Granted
<1> QED BY <1>1, <1>2, <1>6, <1>7 DEF FInv, Queue, Directory, Fate, Installed

(* The two arrays are where user mode looks for them.                      *)
LEMMA ArraysMapped ==
    ASSUME BInv, MInv, pc \in MapSteps, 955 \in DOMAIN kern_pgdir, 956 \in DOMAIN kern_pgdir
    PROVE  /\ \A i \in 0 .. Pages(npages * SizeofPageInfo) - 1 : Maps(UPAGES + i, pages + i)
           /\ \A i \in 0 .. Pages(SizeofEnvs) - 1 : Maps(UENVS + i, envs + i)
<1>1. PICK m, z : m = Pages(npages * SizeofPageInfo) /\ z = Len(ptes)
  OBVIOUS
<1>2. LaidOut(m, z)
  BY <1>1, InPlace
<1>3. /\ Placed(m, z) /\ ptes \in Seq(Mappable) /\ z \in Nat /\ 14 <= z
      /\ m \in 1 .. 33 /\ pages \in Nat /\ pages <= 901 /\ envs \in Nat /\ envs <= 934
  BY <1>2 DEF LaidOut
<1>4. /\ ptes[1].va = 978944 /\ ptes[1].n = m /\ ptes[1].pa = pages /\ ptes[1].perm = {"U", "P"}
      /\ ptes[3].va = 977920 /\ ptes[3].n = 31 /\ ptes[3].pa = envs /\ ptes[3].perm = {"U", "P"}
  <2>1. OneByOne(m)
    BY <1>3, PlacedAt
  <2> QED BY <2>1, Places DEF OneByOne
<1>5. ASSUME NEW va \in Nat, 1024 <= va, NEW j \in 1 .. z, Covers(j, va) PROVE Region1(j, va, m)
  <2>1. z = Len(ptes)
    BY <1>1
  <2> QED BY <2>1, <1>3, <1>5, WhichRegion, ZenonT(30)
<1>6. Pages(SizeofEnvs) = 31
  BY DEF Pages, PGSIZE, SizeofEnvs
<1>7. ASSUME NEW j \in {1, 3}, NEW i \in Nat, i < ptes[j].n PROVE Maps(ptes[j].va + i, ptes[j].pa + i)
  <2>a. PICK v \in Nat, n \in Nat : v = ptes[j].va /\ n = ptes[j].n /\ 1024 <= v
                                    /\ ((j = 1 /\ v = 978944 /\ n <= 33) \/ (j = 3 /\ v = 977920 /\ n = 31))
    <3>1. CASE j = 1
      <4>1. ptes[j].va = 978944 /\ ptes[j].n = m /\ m \in Nat /\ m <= 33
        BY <3>1, <1>3, <1>4
      <4> QED BY <3>1, <4>1
    <3>2. CASE j = 3
      <4>1. ptes[j].va = 977920 /\ ptes[j].n = 31
        BY <3>2, <1>4
      <4> QED BY <3>2, <4>1
    <3> QED BY <3>1, <3>2
  <2>1. PICK va \in Nat : va = ptes[j].va + i /\ 1024 <= va /\ va = v + i /\ v <= va /\ va < v + n
    <3>1. v + i \in Nat /\ 1024 <= v + i /\ v <= v + i /\ v + i < v + n
      BY <1>7, <2>a
    <3> QED BY <3>1, <2>a
  <2>2. j \in 1 .. z /\ j \in 1 .. Len(ptes) /\ Covers(j, va)
    <3>1. j \in 1 .. z /\ z = Len(ptes)
      BY <1>1, <1>3
    <3> QED BY <3>1, <2>a, <2>1 DEF Covers
  <2>3. PDX(va) \in DOMAIN kern_pgdir
    <3>1. va \div 1024 = 956 \/ va \div 1024 = 955
      BY <2>a, <2>1
    <3> QED BY <3>1 DEF PDX, NPTENTRIES
  <2>4. \A k \in 1 .. Len(ptes) : j < k => ~Covers(k, va)
    <3> SUFFICES ASSUME NEW k \in 1 .. z, j < k, Covers(k, va) PROVE FALSE
      BY <1>1
    <3>1. Region1(k, va, m)
      BY <1>5, <2>1
    <3>2. k \in Nat /\ (j = 1 => va < 978977 /\ 978944 <= va) /\ (j = 3 => va < 977951 /\ 977920 <= va)
      BY <2>a, <2>1
    <3> QED BY <3>1, <3>2 DEF Region1
  <2>5. pte(va).pa = ptes[j].pa + va - ptes[j].va /\ pte(va).perm = ptes[j].perm
    BY <2>2, <2>3, <2>4, <1>3, PteAt, ZenonT(30)
  <2>6. ptes[j].pa \in Nat /\ "P" \in ptes[j].perm
    <3>1. CASE j = 1
      BY <3>1, <1>3, <1>4
    <3>2. CASE j = 3
      BY <3>2, <1>3, <1>4
    <3> QED BY <3>1, <3>2
  <2>7. ptes[j].pa + va - ptes[j].va = ptes[j].pa + i
    BY <2>a, <2>1, <2>6
  <2>8. pte(va).pa = ptes[j].pa + i /\ "P" \in pte(va).perm
    BY <2>5, <2>6, <2>7
  <2> QED BY <2>1, <2>8 DEF Maps
<1>8. \A i \in 0 .. m - 1 : Maps(UPAGES + i, pages + i)
  <2> SUFFICES ASSUME NEW i \in 0 .. m - 1 PROVE Maps(UPAGES + i, pages + i)
    OBVIOUS
  <2>1. i \in Nat /\ i < ptes[1].n
    BY <1>3, <1>4
  <2>2. Maps(ptes[1].va + i, ptes[1].pa + i)
    BY <2>1, <1>7
  <2>3. ptes[1].va = UPAGES /\ ptes[1].pa = pages
    BY <1>4, Places
  <2> QED BY <2>2, <2>3
<1>9. \A i \in 0 .. 30 : Maps(UENVS + i, envs + i)
  <2> SUFFICES ASSUME NEW i \in 0 .. 30 PROVE Maps(UENVS + i, envs + i)
    OBVIOUS
  <2>1. i \in Nat /\ i < ptes[3].n
    BY <1>3, <1>4
  <2>2. Maps(ptes[3].va + i, ptes[3].pa + i)
    BY <2>1, <1>7
  <2>3. ptes[3].va = UENVS /\ ptes[3].pa = envs
    BY <1>4, Places
  <2> QED BY <2>2, <2>3
<1> QED BY <1>1, <1>6, <1>8, <1>9

(* What check_kern_pgdir() asserts holds when it runs.                     *)
LEMMA PassesKernPgdir ==
    ASSUME BInv, MInv, FInv, pc = "check_kern_pgdir"
    PROVE  KernPgdirFine
<1>1. pc \in MapSteps /\ KernelFacts /\ npages \in Nat /\ 16 <= npages /\ npages <= 16639
  BY KernelKept DEF MapSteps
<1>2. Granted /\ 0 \notin DOMAIN kern_pgdir
  BY DEF FInv, Directory
<1>3. \A d \in 955 .. 1023 : d \in DOMAIN kern_pgdir
  <2>1. Made(Len(regions))
    BY <1>1 DEF MInv
  <2>2. RegionList(regions, Pages(npages * SizeofPageInfo))
    BY <1>1, RegionTable
  <2>3. Len(regions) = 14
    BY <2>2 DEF RegionList
  <2>4. Made(14)
    BY <2>1, <2>3
  <2> QED BY <2>4, AllEntries
<1>4. 955 \in DOMAIN kern_pgdir /\ 956 \in DOMAIN kern_pgdir
  <2>1. 955 \in 955 .. 1023 /\ 956 \in 955 .. 1023
    OBVIOUS
  <2> QED BY <2>1, <1>3
<1>5. /\ \A i \in 0 .. Pages(npages * SizeofPageInfo) - 1 : Maps(UPAGES + i, pages + i)
      /\ \A i \in 0 .. Pages(SizeofEnvs) - 1 : Maps(UENVS + i, envs + i)
  BY <1>1, <1>4, ArraysMapped
<1>6. \A p \in 0 .. npages - 1 : Maps(KERNBASE + p, p)
  <2> SUFFICES ASSUME NEW p \in 0 .. npages - 1 PROVE Maps(KERNBASE + p, p)
    OBVIOUS
  <2>1. p \in Nat /\ p < TopPages
    BY <1>1, Places
  <2> QED BY <2>1, <1>1, MemoryMapped
<1>7. ASSUME NEW n \in 0 .. NCPU - 1
      PROVE  LET base == KSTACKTOP - (KSTKSIZE + KSTKGAP) * (n + 1) IN
             /\ \A i \in 0 .. KSTKSIZE - 1 : Maps(base + KSTKGAP + i, percpu_kstacks + n * KSTKSIZE + i)
             /\ \A i \in 0 .. KSTKGAP - 1 : "P" \notin pte(base + i).perm
  <2>1. KSTACKTOP = 983040 /\ KSTKSIZE = 8 /\ KSTKGAP = 8 /\ NCPU = 8 /\ percpu_kstacks \in Nat
    BY Places, BootAssumption DEF KernelFits, EXTPHYSMEM
  <2>2. PICK top \in Int, base \in Int, c \in 0 .. 7 :
           c = n /\ top = 983040 - c * (8 + 8) /\ base = 983040 - (8 + 8) * (c + 1) /\ base = top - 16
    <3>1. PICK c \in 0 .. 7 : c = n
      BY <2>1
    <3>2. 983040 - (8 + 8) * (c + 1) = (983040 - c * (8 + 8)) - 16
      OBVIOUS
    <3> QED BY <3>1, <3>2
  <2>3. /\ \A i \in 1 .. 8 : Maps(top - i, percpu_kstacks + (n + 1) * 8 - i)
        /\ \A i \in 1 .. 8 : pte(top - 8 - i) = Absent
    BY <2>1, <2>2, <1>1, StacksMapped
  <2>4. ASSUME NEW i \in 0 .. 7 PROVE Maps(base + 8 + i, percpu_kstacks + n * 8 + i)
    <3>1. PICK k \in 1 .. 8 : k = 8 - i /\ top - k = base + 8 + i
      <4>1. 8 - i \in 1 .. 8 /\ top - (8 - i) = base + 8 + i
        BY <2>2
      <4> QED BY <4>1
    <3>2. percpu_kstacks + (n + 1) * 8 - k = percpu_kstacks + n * 8 + i
      BY <3>1, <2>1, <2>2
    <3>3. Maps(top - k, percpu_kstacks + (n + 1) * 8 - k)
      BY <2>3
    <3> QED BY <3>1, <3>2, <3>3
  <2>5. ASSUME NEW i \in 0 .. 7 PROVE "P" \notin pte(base + i).perm
    <3>1. PICK k \in 1 .. 8 : k = 8 - i /\ top - 8 - k = base + i
      <4>1. 8 - i \in 1 .. 8 /\ top - 8 - (8 - i) = base + i
        BY <2>2
      <4> QED BY <4>1
    <3>2. pte(base + i) = Absent
      BY <3>1, <2>3
    <3> QED BY <3>2 DEF Absent
  <2>6. KSTACKTOP - (KSTKSIZE + KSTKGAP) * (n + 1) = base
    BY <2>1, <2>2
  <2>7. KSTKSIZE - 1 = 7 /\ KSTKGAP - 1 = 7
    BY <2>1
  <2> QED BY <2>1, <2>4, <2>5, <2>6, <2>7
<1>8. ASSUME NEW d \in 0 .. NPTENTRIES - 1
      PROVE  LET perm == IF d \in DOMAIN kern_pgdir THEN kern_pgdir[d].perm ELSE {}
             IN  IF d \in {PDX(UVPT), PDX(KSTACKTOP - 1), PDX(UPAGES), PDX(UENVS), PDX(MMIOBASE)} THEN "P" \in perm
                 ELSE IF d >= PDX(KERNBASE) THEN {"P", "W"} \subseteq perm ELSE perm = {}
  <2>1. /\ PDX(UVPT) = 957 /\ PDX(KSTACKTOP - 1) = 959 /\ PDX(UPAGES) = 956 /\ PDX(UENVS) = 955
        /\ PDX(MMIOBASE) = 958 /\ PDX(KERNBASE) = 960
    <3>1. 983039 \div 1024 = 959 /\ 978944 \div 1024 = 956
      OBVIOUS
    <3> QED BY <3>1, Layout, Places DEF PDX
  <2>2. d \in Nat /\ d <= 1023
    BY Layout
  <2>3. CASE d \in 955 .. 1023
    <3>1. d \in DOMAIN kern_pgdir
      BY <2>3, <1>3
    <3>2. "P" \in kern_pgdir[d].perm /\ (960 <= d => "W" \in kern_pgdir[d].perm)
      BY <3>1, <1>2 DEF Granted
    <3>3. d < 960 => d \in {957, 959, 956, 955, 958}
      BY <2>3
    <3>4. d < 960 \/ 960 <= d
      BY <2>2
    <3> QED BY <2>1, <2>2, <3>1, <3>2, <3>3, <3>4
  <2>4. CASE d \notin 955 .. 1023
    <3>1. d < 955
      BY <2>2, <2>4
    <3>2. d \notin DOMAIN kern_pgdir
      <4>1. d \in Dirs => d = 0
        BY <3>1, Layout
      <4> QED BY <4>1, <1>1, <1>2 DEF KernelFacts
    <3>3. d \notin {957, 959, 956, 955, 958} /\ ~(d >= 960)
      BY <3>1, <2>2
    <3> QED BY <2>1, <3>2, <3>3
  <2> QED BY <2>3, <2>4
<1> QED BY <1>5, <1>6, <1>7, <1>8, Zenon DEF KernPgdirFine

LEMMA KernPgdirDecides ==
    ASSUME BInv, MInv, FInv, check_kern_pgdir
    PROVE  FInv'
<1>1. /\ pc = "check_kern_pgdir" /\ pc' = IF KernPgdirFine THEN "lcr3" ELSE "panic"
      /\ UNCHANGED <<machine, npages_basemem, npages, nextfree, free, kern_pgdir>>
  BY DEF check_kern_pgdir, Goto, memory
<1>2. pc' = "lcr3"
  BY <1>1, PassesKernPgdir
<1>3. Detected' /\ npages_basemem' = 160 /\ InOrder(69)'
  BY <1>1, StillDetected DEF FInv, Queue, InOrder, Behind
<1> QED BY <1>2, <1>3 DEF FInv, Queue, Directory, Fate, Installed

(* The last check of the list finds pages above 1MB exactly when there is  *)
(* room, and always pages below.                                           *)
LEMMA LastCheckDecides ==
    ASSUME BInv, FInv, lcr3
    PROVE  FInv'
<1>1. /\ pc = "lcr3" /\ pc' = IF FreeListFine THEN "check_installed" ELSE "panic"
      /\ UNCHANGED <<machine, npages_basemem, npages, nextfree, free>>
  BY DEF lcr3, Goto, memory
<1>2. Detected' /\ npages_basemem = 160 /\ InOrder(69)
  BY <1>1, StillDetected DEF FInv, Queue
<1>3. /\ KernelFacts /\ npages > nextfree /\ npages \in Nat /\ 16 <= npages /\ npages <= 16639
      /\ nextfree = envs + 31 /\ nextfree \in Nat /\ envs \in Nat /\ 258 <= envs /\ envs <= 934
  BY <1>1, KernelKept, Arrays
<1>4. free \in Seq(Usable) /\ 289 <= nextfree /\ nextfree <= 965
  BY <1>3 DEF KernelFacts, KernelApart
<1>5. PICK z \in Nat, b \in Int : /\ z = Len(free) /\ b = Behind /\ z = npages - nextfree + 89
                                  /\ b = (IF npages <= 1024 THEN npages ELSE 1024) - nextfree
                                  /\ \A i \in 1 .. z : 256 <= free[i] <=> i + 69 <= b \/ i + 69 > b + 158
  <2>1. PICK z \in Nat : z = Len(free)
    BY <1>4, LenProperties
  <2>2. PICK b \in Int : b = Behind
    BY <1>3 DEF Behind
  <2>3. z + 69 = npages - nextfree + 158
    BY <2>1, <1>2 DEF InOrder
  <2>4. \A i \in 1 .. z : i + 69 > 3
    OBVIOUS
  <2>5. \A i \in 1 .. z : 256 <= free[i] <=> i + 69 <= b \/ i + 69 > b + 158
    BY <2>1, <2>2, <2>4, <1>2 DEF InOrder
  <2> QED BY <2>1, <2>2, <2>3, <2>5, <1>3 DEF Behind
<1>6. DOMAIN free = 1 .. z /\ \A i \in 1 .. z : free[i] \in Nat
  <2>1. Usable \subseteq Nat
    BY DEF Usable, Spare
  <2>2. free \in Seq(Usable) /\ z = Len(free)
    BY <1>4, <1>5
  <2>3. DOMAIN free = 1 .. z
    BY <2>2, LenProperties
  <2>4. \A i \in 1 .. z : free[i] \in Usable
    BY <2>2, ElementOfSeq
  <2> QED BY <2>1, <2>3, <2>4
<1>7. CASE HasRoom
  <2>1. npages > nextfree + 69
    BY <1>3, <1>7 DEF HasRoom
  <2>2. PICK i \in 1 .. z : 256 <= free[i]
    <3>1. CASE npages <= 1024
      <4>1. 1 \in 1 .. z /\ 1 + 69 <= b
        BY <3>1, <2>1, <1>3, <1>5
      <4> QED BY <4>1, <1>5
    <3>2. CASE ~(npages <= 1024)
      <4>1. z \in 1 .. z /\ z + 69 > b + 158
        BY <3>2, <1>3, <1>4, <1>5
      <4> QED BY <4>1, <1>5
    <3> QED BY <3>1, <3>2
  <2>3. PICK j \in 1 .. z : free[j] < 256
    <3>1. PICK j \in Int : j = b + 89
      OBVIOUS
    <3>2. j \in 1 .. z /\ j + 69 > b /\ ~(j + 69 > b + 158)
      BY <3>1, <1>3, <1>4, <1>5
    <3>3. ~(j + 69 <= b)
      BY <3>1
    <3>4. ~(256 <= free[j])
      BY <3>2, <3>3, <1>5
    <3>5. free[j] \in Nat
      BY <3>2, <1>6
    <3> QED BY <3>2, <3>4, <3>5
  <2>4. FreeListFine
    <3>1. PICK hi \in 1 .. Len(free), lo \in 1 .. Len(free) : free[lo] < 256 /\ 256 <= free[hi]
      BY <2>2, <2>3, <1>5
    <3>2. free \in Seq(Usable) /\ nextfree \in Nat /\ 289 <= nextfree
      BY <1>3, <1>4
    <3> QED BY <3>1, <3>2, PassesCheck
  <2>5. pc' = "check_installed" /\ HasRoom'
    BY <2>4, <1>1, <1>7, SameRoom
  <2> QED BY <2>5, <1>2 DEF FInv, Queue, Directory, Fate, Installed
<1>8. CASE ~HasRoom
  <2>1. npages <= envs + 100
    BY <1>2, <1>3, <1>8 DEF HasRoom
  <2>2. npages <= 1024
    BY <2>1, <1>3, Crowding
  <2>3. b <= 69 /\ z <= b + 89
    BY <2>1, <2>2, <1>3, <1>5
  <2>4. \A i \in 1 .. z : ~(256 <= free[i])
    <3> SUFFICES ASSUME NEW i \in 1 .. z PROVE ~(256 <= free[i])
      OBVIOUS
    <3>1. ~(i + 69 <= b) /\ ~(i + 69 > b + 158)
      BY <2>3
    <3> QED BY <3>1, <1>5
  <2>5. ~FreeListFine
    BY <2>4, <1>6 DEF FreeListFine, EXTPHYSMEM
  <2>6. pc' = "panic" /\ ~HasRoom'
    BY <2>5, <1>1, <1>8, SameRoom
  <2> QED BY <2>6, <1>2, NoRoomPanics
<1> QED BY <1>7, <1>8
(* Installed tables change nothing about the room.                         *)
LEMMA InstalledDecides ==
    ASSUME BInv, FInv, check_page_installed_pgdir \/ lapic_init \/ env_setup_vm
    PROVE  FInv'
<1>1. /\ pc \in {"check_installed", "lapic_init", "env_create"}
      /\ UNCHANGED <<machine, npages_basemem, npages>>
  BY DEF check_page_installed_pgdir, lapic_init, env_setup_vm
<1>2. Detected' /\ HasRoom'
  <2>1. Detected' /\ HasRoom
    BY <1>1, StillDetected DEF FInv, Fate, Installed
  <2> QED BY <2>1, <1>1, SameRoom
<1>3. CASE check_page_installed_pgdir \/ lapic_init
  <2>1. pc' \in {"lapic_init", "env_create"}
    <3>1. ASSUME lapic_init PROVE ~(mmio + 1 > MMIOLIM)
      <4>1. mmio = MMIOBASE + 3
        BY <3>1, MmioKept DEF lapic_init
      <4> QED BY <4>1, Layout
    <3> QED BY <3>1, <1>3 DEF check_page_installed_pgdir, lapic_init, Goto
  <2> QED BY <2>1, <1>2 DEF FInv, Queue, Directory, Fate, Installed
<1>4. CASE env_setup_vm
  <2>1. pc' = "load" /\ done' = 0 /\ env' = [NoEnv EXCEPT !.pgdir = Head(free)]
    BY <1>4 DEF env_setup_vm, Goto
  <2>2. env' = [pgdir |-> Head(free), tables |-> <<>>, pages |-> <<>>, mem |-> <<>>]
    BY <2>1 DEF NoEnv
  <2>3. DOMAIN env'.pages = {}
    BY <2>2
  <2>4. Paged' /\ 1 .. 0 = {}
    BY <2>1, <2>3 DEF Paged
  <2> QED BY <2>1, <2>4, <1>2 DEF FInv, Queue, Directory, Fate, Installed
<1> QED BY <1>3, <1>4

(* While a program is loaded, what counts are its pages and its sizes.     *)
LEMMA WhileRoom ==
    ASSUME FInv, pc \in {"load", "region_alloc"}
    PROVE  Detected /\ HasRoom /\ Paged /\ \A i \in 1 .. done : Sized(i)
BY DEF FInv, Fate, Installed

LEMMA LoadingDecides ==
    ASSUME Detected', HasRoom', pc' \in {"load", "region_alloc"}, Paged', (\A i \in 1 .. done : Sized(i))'
    PROVE  FInv'
BY DEF FInv, Queue, Directory, Fate, Installed

LEMMA PanicDecides ==
    ASSUME Detected', pc' = "panic", (env # NoEnv /\ free = <<>>)' \/ ~(\A i \in DOMAIN image : Sized(i))'
    PROVE  FInv'
BY DEF FInv, Queue, Directory, Fate, Installed

(* The environment of a program being loaded has its directory.            *)
LEMMA HasDirectory ==
    ASSUME BInv, pc \in {"load", "region_alloc"}
    PROVE  env # NoEnv
<1>1. env.pgdir \in Usable
  BY WhileLoading DEF EnvApart
<1>2. env.pgdir # 0
  BY <1>1 DEF Usable, Spare
<1> QED BY <1>2 DEF NoEnv

LEMMA NextSegmentDecides ==
    ASSUME BInv, FInv, NextSegment
    PROVE  FInv'
<1>1. /\ pc = "load" /\ UNCHANGED <<machine, npages_basemem, npages, free, image, env>>
      /\ IF ph.load THEN pc' = "region_alloc" /\ next_va' = ph.va \div 2 /\ done' = done
         ELSE done' = done + 1 /\ pc' = pc
  BY DEF NextSegment, memory
<1>2. HasRoom /\ Paged /\ \A i \in 1 .. done : Sized(i)
  BY <1>1, WhileRoom
<1>3. Detected' /\ HasRoom'
  BY <1>1, <1>2, StillDetected, SameRoom DEF FInv
<1>4. /\ done \in Nat /\ done <= Len(image) /\ Len(image) \in Nat
      /\ done < Len(image) => ph = image[done + 1] /\ ph \in Segment
      /\ done = Len(image) => ph.load /\ ph.va = 2 * (USTACKTOP - 1)
  BY <1>1, Heading
<1>5. CASE ph.load
  <2>1. pc' = "region_alloc" /\ done' = done /\ next_va' = ph.va \div 2 /\ ph' = ph
    BY <1>1, <1>5 DEF ph
  <2>2. \A v \in Touched(ph) : ~(v < next_va')
    <3>1. PICK va \in Nat : va = ph.va
      BY <1>4, Layout DEF Segment
    <3>2. \A v \in Touched(ph) : v \in Int /\ va \div 2 <= v
      BY <3>1 DEF Touched
    <3> QED BY <2>1, <3>1, <3>2
  <2>3. Paged'
    BY <2>1, <2>2, <1>1, <1>2 DEF Paged
  <2>4. (\A i \in 1 .. done : Sized(i))'
    BY <2>1, <1>1, <1>2 DEF Sized
  <2> QED BY <2>1, <2>3, <2>4, <1>3, LoadingDecides
<1>6. CASE ~ph.load
  <2>1. pc' = "load" /\ done' = done + 1 /\ ~image[done + 1].load
    BY <1>1, <1>4, <1>6
  <2>2. Paged'
    BY <2>1, <1>1, <1>2 DEF Paged
  <2>3. \A i \in 1 .. done + 1 : i \in 1 .. done \/ i = done + 1
    BY <1>4
  <2>4. (\A i \in 1 .. done : Sized(i))'
    BY <2>1, <2>3, <1>1, <1>2 DEF Sized
  <2> QED BY <2>1, <2>2, <2>4, <1>3, LoadingDecides
<1> QED BY <1>5, <1>6

(* A turn of region_alloc()'s loop maps its page, with both of its halves. *)
LEMMA NewPagePages ==
    ASSUME BInv, Paged, pc = "region_alloc", next_va \in Touched(ph), free # <<>>,
           PDX(next_va) \in DOMAIN env.tables \/ Len(free) >= 2, NewPage(next_va),
           UNCHANGED <<kern_pgdir, npages, nextfree, done, image>>
    PROVE  /\ DOMAIN env'.pages = {next_va} \cup DOMAIN env.pages
           /\ \A v \in DOMAIN env'.pages : 2 * v \in DOMAIN env'.mem /\ 2 * v + 1 \in DOMAIN env'.mem
<1>1. DOMAIN env'.pages = {next_va} \cup DOMAIN env.pages
  BY NewPageKeeps
<1>2. EnvApart /\ next_va \in Nat
  BY WhileLoading DEF BInv, Progress
<1> DEFINE M == Over([u \in Units(2 * next_va, 2) |-> "stale"], env.mem)
<1>3. env'.mem = M
  <2>1. DOMAIN env = DOMAIN [pgdir |-> 0, tables |-> <<>>, pages |-> <<>>, mem |-> <<>>]
    BY <1>2 DEF EnvApart
  <2> QED BY <1>2 DEF NewPage, EnvApart
<1>4. DOMAIN M = Units(2 * next_va, 2) \cup DOMAIN env.mem
  BY DEF Over
<1>5. 2 * next_va \in Units(2 * next_va, 2) /\ 2 * next_va + 1 \in Units(2 * next_va, 2)
  BY <1>2 DEF Units
<1>6. \A v \in DOMAIN env.pages : 2 * v \in DOMAIN env.mem /\ 2 * v + 1 \in DOMAIN env.mem
  BY DEF Paged
<1> HIDE DEF M
<1> QED BY <1>1, <1>3, <1>4, <1>5, <1>6

LEMMA RegionAllocDecides ==
    ASSUME BInv, FInv, region_alloc
    PROVE  FInv'
<1>1. /\ pc = "region_alloc" /\ next_va \in Touched(ph) /\ next_va' = next_va + 1 /\ next_va \in Nat
      /\ UNCHANGED <<machine, npages_basemem, npages, nextfree, kern_pgdir, image>>
  BY DEF region_alloc, BInv, Progress
<1>2. HasRoom /\ Paged /\ \A i \in 1 .. done : Sized(i)
  BY <1>1, WhileRoom
<1>3. Detected' /\ HasRoom'
  BY <1>1, <1>2, StillDetected, SameRoom DEF FInv
<1>4. ASSUME pc' = pc, done' = done, Paged' PROVE FInv'
  <2>1. (\A i \in 1 .. done : Sized(i))'
    BY <1>1, <1>2, <1>4 DEF Sized
  <2> QED BY <2>1, <1>1, <1>3, <1>4, LoadingDecides
<1>5. CASE PDX(next_va) \notin DOMAIN env.tables /\ Len(free) < 2
  <2>1. free' = <<>> /\ pc' = pc /\ done' = done /\ env' = env
    BY <1>5 DEF region_alloc
  <2>2. Paged'
    BY <2>1, <1>2 DEF Paged
  <2> QED BY <2>1, <2>2, <1>4
<1>6. CASE ~(PDX(next_va) \notin DOMAIN env.tables /\ Len(free) < 2) /\ free = <<>>
  <2>1. pc' = "panic" /\ UNCHANGED <<free, env>>
    BY <1>6 DEF region_alloc, Goto
  <2>2. (env # NoEnv /\ free = <<>>)'
    BY <2>1, <1>1, <1>6, HasDirectory DEF NoEnv
  <2> QED BY <2>1, <2>2, <1>3, PanicDecides
<1>7. CASE ~(PDX(next_va) \notin DOMAIN env.tables /\ Len(free) < 2) /\ free # <<>>
  <2>1. NewPage(next_va) /\ pc' = pc /\ done' = done
    BY <1>7 DEF region_alloc
  <2>2. PDX(next_va) \in DOMAIN env.tables \/ Len(free) >= 2
    <3>1. Len(free) \in Nat
      BY <1>1, WhileLoading, LenProperties DEF KernelApart
    <3> QED BY <3>1, <1>7
  <2>3. /\ DOMAIN env'.pages = {next_va} \cup DOMAIN env.pages
        /\ \A v \in DOMAIN env'.pages : 2 * v \in DOMAIN env'.mem /\ 2 * v + 1 \in DOMAIN env'.mem
    BY <2>1, <2>2, <1>1, <1>2, <1>7, NewPagePages
  <2>4. ph' = ph
    BY <2>1, <1>1 DEF ph
  <2>5. free' = <<>> \/ \A v \in Touched(ph) : v < next_va + 1 => v \in DOMAIN env'.pages
    <3>1. \A v \in Touched(ph) : v < next_va => v \in DOMAIN env.pages
      BY <1>1, <1>2, <1>7 DEF Paged
    <3>2. \A v \in Touched(ph) : v < next_va + 1 => v < next_va \/ v = next_va
      <4>1. \A v \in Touched(ph) : v \in Int
        BY DEF Touched
      <4> QED BY <4>1, <1>1
    <3> QED BY <3>1, <3>2, <2>3
  <2>6. Paged'
    BY <2>1, <2>3, <2>4, <2>5, <1>1 DEF Paged
  <2> QED BY <2>1, <2>6, <1>4
<1> QED BY <1>5, <1>6, <1>7

(* A copy that faults was left without pages.                              *)
LEMMA CopyFaults ==
    ASSUME BInv, Paged, pc = "region_alloc", next_va \notin Touched(ph), free # <<>>, ph \in Segment
    PROVE  Units(ph.va, ph.memsz) \subseteq DOMAIN env.mem
<1>1. PICK va \in Nat, n \in Nat, b \in Nat : va = ph.va /\ n = ph.memsz /\ b = next_va /\ b >= va \div 2
  BY DEF BInv, Progress, Segment
<1>2. \A v \in Touched(ph) : v \in Int /\ v < next_va
  <2>1. Touched(ph) = va \div 2 .. (va + n + 1) \div 2 - 1
    BY <1>1 DEF Touched
  <2>2. PICK lo \in Int, hi \in Int : lo = va \div 2 /\ hi = (va + n + 1) \div 2 - 1
    BY <1>1
  <2>3. b \notin lo .. hi /\ b >= lo
    BY <1>1, <2>1, <2>2
  <2>4. \A v \in lo .. hi : v \in Int /\ v < b
    BY <2>3
  <2> QED BY <1>1, <2>1, <2>2, <2>4
<1>3. \A v \in Touched(ph) : v \in DOMAIN env.pages
  BY <1>2 DEF Paged
<1> SUFFICES ASSUME NEW u \in Units(ph.va, ph.memsz) PROVE u \in DOMAIN env.mem
  OBVIOUS
<1>4. u \in Int /\ va <= u /\ u < va + n
  BY <1>1 DEF Units
<1>5. u \div 2 \in Touched(ph)
  BY <1>1, <1>4, InTouched
<1>6. 2 * (u \div 2) \in DOMAIN env.mem /\ 2 * (u \div 2) + 1 \in DOMAIN env.mem
  BY <1>3, <1>5 DEF Paged
<1>7. u = 2 * (u \div 2) \/ u = 2 * (u \div 2) + 1
  BY <1>4
<1> QED BY <1>6, <1>7

LEMMA CopyDecides ==
    ASSUME BInv, FInv, CopySegment
    PROVE  FInv'
<1>1. /\ pc = "region_alloc" /\ next_va \notin Touched(ph)
      /\ UNCHANGED <<machine, npages_basemem, npages, free, image>>
  BY DEF CopySegment, memory
<1>2. HasRoom /\ Paged /\ \A i \in 1 .. done : Sized(i)
  BY <1>1, WhileRoom
<1>3. Detected' /\ HasRoom'
  BY <1>1, <1>2, StillDetected, SameRoom DEF FInv
<1>4. /\ done \in Nat /\ done <= Len(image) /\ Len(image) \in Nat /\ DOMAIN image = 1 .. Len(image)
      /\ done < Len(image) => done + 1 \in DOMAIN image /\ ph = image[done + 1] /\ ph \in Segment
      /\ ph.load
  BY <1>1, Heading, LenProperties DEF BInv, Progress
<1>5. CASE done = Len(image)
  <2>1. pc' = "run"
    BY <1>5 DEF CopySegment, Goto
  <2>2. (\A i \in DOMAIN image : Sized(i))'
    BY <1>1, <1>2, <1>4, <1>5 DEF Sized
  <2> QED BY <2>1, <2>2, <1>3 DEF FInv, Queue, Directory, Fate, Installed
<1>6. done # Len(image) => done < Len(image)
  <2>1. PICK z \in Nat, d \in Nat : z = Len(image) /\ d = done /\ d <= z
    BY <1>4
  <2>2. d # z => d < z
    BY <2>1
  <2> QED BY <2>1, <2>2
<1>7. CASE done # Len(image) /\ (ph.filesz > ph.memsz \/ ~(Units(ph.va, ph.memsz) \subseteq DOMAIN env.mem))
  <2>1. pc' = "panic" /\ env' = env
    BY <1>7 DEF CopySegment, Goto
  <2>2. ph \in Segment /\ ph.filesz \in Nat /\ ph.memsz \in Nat
    BY <1>4, <1>6, <1>7 DEF Segment
  <2>3. CASE ph.filesz > ph.memsz
    <3>1. PICK j \in DOMAIN image : j = done + 1 /\ ph = image[j]
      BY <1>4, <1>6, <1>7
    <3>2. image[j].load /\ ~(image[j].filesz <= image[j].memsz)
      BY <2>2, <2>3, <3>1, <1>4
    <3>3. j \in DOMAIN image' /\ ~(Sized(j)')
      BY <3>2, <1>1 DEF Sized
    <3>4. ~(\A i \in DOMAIN image : Sized(i))'
      BY <3>3
    <3> QED BY <3>4, <2>1, <1>3, PanicDecides
  <2>4. CASE ~(ph.filesz > ph.memsz)
    <3>1. free = <<>>
      BY <2>2, <2>4, <1>1, <1>2, <1>7, CopyFaults
    <3>2. (env # NoEnv /\ free = <<>>)'
      BY <2>1, <3>1, <1>1, HasDirectory DEF NoEnv
    <3> QED BY <3>2, <2>1, <1>3, PanicDecides
  <2> QED BY <2>3, <2>4
<1>8. CASE done # Len(image) /\ ~(ph.filesz > ph.memsz \/ ~(Units(ph.va, ph.memsz) \subseteq DOMAIN env.mem))
  <2>1. pc' = "load" /\ done' = done + 1 /\ env' = [env EXCEPT !.mem = Over(Cleared, Over(Copied, @))]
    BY <1>8 DEF CopySegment
  <2>2. env'.pages = env.pages /\ DOMAIN env.mem \subseteq DOMAIN env'.mem
    <3>1. EnvApart
      BY <1>1, WhileLoading
    <3>2. env'.pages = env.pages /\ env'.mem = Over(Cleared, Over(Copied, env.mem))
      BY <2>1, <3>1 DEF EnvApart
    <3>3. DOMAIN env.mem \subseteq DOMAIN Over(Cleared, Over(Copied, env.mem))
      BY DEF Over
    <3> QED BY <3>2, <3>3
  <2>3. Paged'
    BY <2>1, <2>2, <1>2 DEF Paged
  <2>4. Sized(done + 1)
    <3>1. ph = image[done + 1] /\ ph \in Segment
      BY <1>4, <1>6, <1>8
    <3>2. ph.filesz <= ph.memsz
      BY <3>1, <1>8 DEF Segment
    <3> QED BY <3>1, <3>2 DEF Sized
  <2>5. \A i \in 1 .. done + 1 : i \in 1 .. done \/ i = done + 1
    BY <1>4
  <2>6. (\A i \in 1 .. done : Sized(i))'
    BY <2>1, <2>4, <2>5, <1>1, <1>2 DEF Sized
  <2> QED BY <2>1, <2>3, <2>6, <1>3, LoadingDecides
<1> QED BY <1>5, <1>7, <1>8
LEMMA StutterFate ==
    ASSUME FInv, UNCHANGED vars
    PROVE  FInv'
<1>1. /\ UNCHANGED <<machine, pc, done, npages_basemem, npages, nextfree, free, kern_pgdir>>
      /\ UNCHANGED <<image, next_va, env>>
  BY DEF vars, memory, program
<1>2. HasRoom' = HasRoom /\ ph' = ph
  BY <1>1, SameRoom DEF ph
<1>3. Detected' /\ Directory'
  BY <1>1 DEF FInv, Detected, Directory, Granted
<1>4. Queue'
  BY <1>1 DEF FInv, Queue, InOrder, Behind
<1>5. Fate'
  BY <1>1, <1>2 DEF FInv, Fate, Paged, Sized
<1> QED BY <1>3, <1>4, <1>5 DEF FInv

LEMMA NextFate ==
    ASSUME BInv, MInv, FInv, [Next]_vars
    PROVE  FInv'
<1>1. CASE mem_init
  <2>1. CASE i386_detect_memory
    BY <2>1, DetectDecides
  <2>2. CASE AllocKernPgdir \/ AllocPages \/ AllocEnvs \/ page_init
    BY <2>2, AllocDecides
  <2>3. CASE check_page_free_list
    BY <2>3, CheckListDecides
  <2>4. CASE check_page
    BY <2>4, CheckPageDecides
  <2>5. CASE boot_map_region
    BY <2>5, MapDecides
  <2>6. CASE ClearFirst
    BY <2>6, ClearDecides
  <2>7. CASE check_kern_pgdir
    BY <2>7, KernPgdirDecides
  <2>8. CASE lcr3
    BY <2>8, LastCheckDecides
  <2>9. CASE check_page_installed_pgdir
    BY <2>9, InstalledDecides
  <2> QED BY <1>1, <2>1, <2>2, <2>3, <2>4, <2>5, <2>6, <2>7, <2>8, <2>9 DEF mem_init
<1>2. CASE lapic_init
  BY <1>2, InstalledDecides
<1>3. CASE env_create
  BY <1>3, InstalledDecides, NextSegmentDecides, RegionAllocDecides, CopyDecides DEF env_create
<1>4. CASE UNCHANGED vars
  BY <1>4, StutterFate
<1> QED BY <1>1, <1>2, <1>3, <1>4 DEF Next

(* mem_init() makes 69 page tables.                                        *)
LEMMA TableCount ==
    ASSUME npages \in Nat, 16 <= npages, npages <= 16639
    PROVE  PageTables = 69
<1>1. PDX(pages) = 0
  <2>1. pages \in Nat /\ pages <= 901
    BY Arrays
  <2> QED BY <2>1 DEF PDX, NPTENTRIES
<1>2. /\ PDX(MMIOBASE) = 958 /\ PDX(UPAGES) = 956 /\ PDX(UENVS) = 955 /\ PDX(KSTACKTOP - 1) = 959
      /\ NPTENTRIES - PDX(KERNBASE) = 64
  <2>1. 983039 \div 1024 = 959 /\ 978944 \div 1024 = 956
    OBVIOUS
  <2> QED BY <2>1, Layout, Places DEF PDX
<1>3. PICK a \in Nat, b \in Nat, c \in Nat, d \in Nat, x \in Nat : a = 955 /\ b = 956 /\ c = 958 /\ d = 959 /\ x = 0
  OBVIOUS
<1>4. a # b /\ c # d /\ x \notin {a, b} /\ {a, b, x} \cap {c, d} = {}
  BY <1>3
<1>5. /\ IsFiniteSet(Pair(a, b)) /\ Cardinality(Pair(a, b)) = 2
      /\ IsFiniteSet(Pair(c, d)) /\ Cardinality(Pair(c, d)) = 2
  BY <1>4, PairSize
<1>6. x \notin Pair(a, b) /\ (Pair(a, b) \cup {x}) \cap Pair(c, d) = {}
  BY <1>4 DEF Pair
<1>7. IsFiniteSet(Pair(a, b) \cup {x}) /\ Cardinality(Pair(a, b) \cup {x}) = 3
  BY <1>5, <1>6, FS_AddElement
<1>8. Cardinality((Pair(a, b) \cup {x}) \cup Pair(c, d)) = 5
  <2>1. Cardinality((Pair(a, b) \cup {x}) \cup Pair(c, d))
        = Cardinality(Pair(a, b) \cup {x}) + Cardinality(Pair(c, d)) - Cardinality((Pair(a, b) \cup {x}) \cap Pair(c, d))
    BY <1>5, <1>7, FS_Union
  <2>2. Cardinality((Pair(a, b) \cup {x}) \cap Pair(c, d)) = 0
    BY <1>6, FS_EmptySet
  <2> QED BY <2>1, <2>2, <1>5, <1>7
<1>9. Cardinality({958, 956, 0, 955, 959}) = 5
  <2>1. (Pair(a, b) \cup {x}) \cup Pair(c, d) = {d, b, x, a, c} /\ {958, 956, 0, 955, 959} = {d, b, x, a, c}
    BY <1>3 DEF Pair
  <2> QED BY <2>1, <1>8
<1> QED BY <1>1, <1>2, <1>9 DEF PageTables

(* There is room exactly on the machines with enough memory.               *)
LEMMA RoomIsEnough ==
    ASSUME Detected, pc # "detect", machine \in Machines
    PROVE  HasRoom <=> Enough(machine)
<1>1. PICK base \in Nat, ext \in Nat : /\ base = machine.base /\ ext = machine.ext
                                       /\ 64 <= base /\ base <= 640 /\ ext < 65536
  <2>1. machine \in Machine
    BY BootAssumption
  <2> QED BY <2>1 DEF Machine, CMOS
<1>2. /\ npages_basemem = base \div 4
      /\ npages = IF ext \div 4 # 0 THEN 256 + ext \div 4 ELSE base \div 4
  BY <1>1 DEF Detected
<1>3. npages \in Nat /\ 16 <= npages /\ npages <= 16639
  BY <1>1, <1>2
<1>4. npages_basemem = 160 <=> base = 640
  BY <1>1, <1>2
<1>5. /\ Pages(npages * SizeofPageInfo) \in 1 .. 33 /\ Pages(SizeofEnvs) = 31
      /\ envs = end + 1 + Pages(npages * SizeofPageInfo) /\ end \in Nat /\ 256 <= end
  BY <1>3, Arrays, BootAssumption DEF KernelFits, EXTPHYSMEM
<1>6. PageTables = 69
  BY <1>3, TableCount
<1>7. CASE ext \div 4 # 0
  <2>1. npages = EXTPHYSMEM + machine.ext \div 4
    BY <1>1, <1>2, <1>7 DEF EXTPHYSMEM
  <2>2. Enough(machine) <=> base = 640 /\ npages > end + 1 + Pages(npages * SizeofPageInfo) + 31 + 69
    BY <2>1, <1>1, <1>5, <1>6 DEF Enough
  <2>3. HasRoom <=> base = 640 /\ envs + 100 < npages
    BY <1>4 DEF HasRoom
  <2>4. PICK m \in Nat, e \in Nat, n \in Nat : m = Pages(npages * SizeofPageInfo) /\ e = end /\ n = npages
    BY <1>3, <1>5
  <2>5. n > e + 1 + m + 31 + 69 <=> (e + 1 + m) + 100 < n
    OBVIOUS
  <2> QED BY <2>2, <2>3, <2>4, <2>5, <1>5
<1>8. CASE ext \div 4 = 0
  <2>1. ~HasRoom
    <3>1. npages <= 160 /\ 258 <= envs /\ envs \in Nat
      BY <1>1, <1>2, <1>3, <1>8, Arrays
    <3> QED BY <3>1, <1>3 DEF HasRoom
  <2>2. ~Enough(machine)
    <3>1. EXTPHYSMEM + machine.ext \div 4 = 256
      BY <1>1, <1>8 DEF EXTPHYSMEM
    <3>2. Pages(256 * SizeofPageInfo) = 1
      BY DEF Pages, PGSIZE, SizeofPageInfo
    <3>3. ~(256 > end + 1 + 1 + 31 + 69)
      BY <1>5
    <3> QED BY <3>1, <3>2, <3>3, <1>5, <1>6 DEF Enough
  <2> QED BY <2>1, <2>2
<1> QED BY <1>7, <1>8

(* The first program runs on exactly the machines that can boot, and with  *)
(* a program that fits; what stops the others is an assertion or a panic   *)
(* (check_page_free_list(), boot_alloc(), load_icode(), page_insert()).    *)
THEOREM BootsExactlyWhenItCan == Spec => []BootsWhenItCan
<1>1. BInv /\ MInv /\ FInv /\ [Next]_vars => FInv'
  BY NextFate
<1>2. ASSUME BInv, FInv, pc \in {"run", "panic"} PROVE BootsWhenItCan
  <2>1. HasRoom <=> Enough(machine)
    BY <1>2, RoomIsEnough DEF FInv, BInv, TypeFacts
  <2>2. CASE pc = "run"
    BY <2>1, <2>2, <1>2 DEF FInv, Fate, Installed, Sized, BootsWhenItCan
  <2>3. CASE pc = "panic"
    BY <2>1, <2>3, <1>2 DEF FInv, Fate, Sized, BootsWhenItCan
  <2> QED BY <2>2, <2>3, <1>2
<1>3. BInv /\ FInv => BootsWhenItCan
  BY <1>2 DEF BootsWhenItCan
<1> QED BY <1>1, <1>3, InitFate, BootInvariant, MapsWhatItLists, PTL DEF Spec
=============================================================================
