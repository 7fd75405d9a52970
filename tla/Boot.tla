-------------------------------- MODULE Boot --------------------------------
(***************************************************************************)
(* The boot of JOS on one processor: mem_init() with its own checks        *)
(* (kern/pmap.c), the static page tables it starts on (kern/entrypgdir.c)  *)
(* and the first environment, made from an ELF image (kern/env.c).         *)
(*                                                                         *)
(* Addresses are page numbers, with the numbers of the real layout, so     *)
(* that what is below 4MB, in the I/O hole or in the kernel's image is so  *)
(* in the model too.  A page table is the list of the regions written into *)
(* it: the last one that covers an address counts.  A page directory entry *)
(* collects the permissions of every region mapped through it.  Images are *)
(* laid out in half pages: a byte at the start of a page and one within.   *)
(***************************************************************************)
EXTENDS Integers, SequencesExt, FiniteSetsExt

CONSTANTS
    end,             \* first page behind the kernel's image (the linker's end)
    bootstack, percpu_kstacks,   \* pages of the stacks in the image
    Machines,        \* bound: what the CMOS may report, [base, ext] in KB
    Images           \* bound: programs, as sequences of segments

PGSIZE == 4096
NPTENTRIES == 1024
PDX(va) == va \div NPTENTRIES
Pages(bytes) == (bytes + PGSIZE - 1) \div PGSIZE

IOPHYSMEM == 160
EXTPHYSMEM == 256
MPENTRY_PADDR == 7

KERNBASE == 983040
KSTACKTOP == KERNBASE
KSTKSIZE == 8
KSTKGAP == 8
MMIOLIM == KSTACKTOP - NPTENTRIES
MMIOBASE == MMIOLIM - NPTENTRIES
UVPT == MMIOBASE - NPTENTRIES
UPAGES == UVPT - NPTENTRIES
UENVS == UPAGES - NPTENTRIES
UTOP == UENVS
USTACKTOP == UTOP - 2

NCPU == 8
SizeofPageInfo == 8
SizeofEnvs == 1024 * 124

(* The half pages from va on, and the pages that a segment touches.        *)
Units(va, len) == va .. va + len - 1
Touched(ph) == ph.va \div 2 .. (ph.va + ph.memsz + 1) \div 2 - 1

(* The kernel's image fits below 4MB with the tables that follow it.       *)
KernelFits ==
    end \in EXTPHYSMEM .. 900 /\ bootstack \in EXTPHYSMEM .. end /\ percpu_kstacks \in EXTPHYSMEM .. end

(* A program is linked between page 0 and its stack (user/user.ld), and    *)
(* "no two segments will touch the same virtual page" (env.c:382).         *)
WellLinked(im) ==
    \A i \in DOMAIN im : im[i].load =>
        /\ Touched(im[i]) \subseteq 1 .. USTACKTOP - 2
        /\ \A j \in DOMAIN im : i # j /\ im[j].load => Touched(im[i]) \cap Touched(im[j]) = {}

CMOS    == {kb \in Nat : kb < 65536}   \* what two bytes of it hold
Machine == [base : {kb \in CMOS : 64 <= kb /\ kb <= 640}, ext : CMOS, lapicaddr : Nat]
Segment == [load : BOOLEAN, va : Nat, filesz : Nat, memsz : Nat]

ASSUME BootAssumption ==
    KernelFits /\ Machines \subseteq Machine /\ Images \subseteq {im \in Seq(Segment) : WellLinked(im)}

VARIABLES
    machine,
    pc,             \* the next call of mem_init(), i386_init(), env_create()
    done,           \* how many calls of the loop pc is in are done
    npages_basemem, npages,
    nextfree,       \* boot_alloc()'s, as a physical page
    free,           \* page_free_list
    kern_pgdir,     \* page directory index |-> [table, perm]
    ptes,           \* the regions written into the page tables, oldest first
    mmio,           \* mmio_map_region()'s base
    highest,        \* history: the highest page reached so far at KERNBASE
    image,          \* the program to load
    next_va,        \* the next page of region_alloc()'s loop
    env             \* its page directory, user tables, pages and memory

memory  == <<free, kern_pgdir, ptes, highest>>
program == <<image, next_va, env>>
vars == <<machine, pc, done, npages_basemem, npages, nextfree, memory, mmio, program>>

-----------------------------------------------------------------------------
(* A function of one argument, and f with the values of g where it has none. *)
Entry(x, y) == [z \in {x} |-> y]
Over(f, g) == [x \in DOMAIN f \cup DOMAIN g |-> IF x \in DOMAIN f THEN f[x] ELSE g[x]]

(* Page tables.                                                            *)

(* The page tables of entrypgdir.c.                                        *)
entry_pgdir   == Over(Entry(0, {"P"}), Entry(PDX(KERNBASE), {"P", "W"}))
entry_pgtable == [i \in 0 .. NPTENTRIES - 1 |-> [pa |-> i, perm |-> {"P", "W"}]]

Reach(touched) ==
    LET reached == {highest} \cup touched
    IN  highest' \in reached /\ \A p \in reached : p <= highest'

(* boot_map_region(kern_pgdir, ...): pgdir_walk() makes the tables that    *)
(* are missing, from the head of the free list.                            *)
MapRegion(r) ==
    LET dirs == PDX(r.va) .. PDX(r.va + r.n - 1)
        new  == dirs \ DOMAIN kern_pgdir
        old(d) == IF d \in new THEN [table |-> free[Cardinality({e \in new : e <= d})], perm |-> {}]
                  ELSE kern_pgdir[d]
    IN  /\ kern_pgdir' = Over([d \in dirs |-> [old(d) EXCEPT !.perm = @ \cup r.perm]], kern_pgdir)
        /\ free' = SubSeq(free, Cardinality(new) + 1, Len(free))
        /\ ptes' = Append(ptes, r)
        /\ Reach({old(d).table : d \in dirs})

(* kern_pgdir[0] = 0: the first table is not reached any more.             *)
UnlinkFirst == kern_pgdir' = [d \in DOMAIN kern_pgdir \ {0} |-> kern_pgdir[d]]

(* The entry that maps va, as [pa, perm] with perm = {} when it is not     *)
(* present.                                                                *)
Absent == [pa |-> 0, perm |-> {}]
pte(va) ==
    LET Writers == {i \in DOMAIN ptes : va >= ptes[i].va /\ va < ptes[i].va + ptes[i].n}
    IN  IF PDX(va) \notin DOMAIN kern_pgdir \/ Writers = {} THEN Absent
        ELSE LET r == ptes[Max(Writers)] IN [pa |-> r.pa + va - r.va, perm |-> r.perm]

(* check_va2pa(pgdir, va) = pa.                                            *)
Maps(va, pa) == "P" \in pte(va).perm /\ pte(va).pa = pa

-----------------------------------------------------------------------------
(* mem_init(), up to the free list.                                        *)

Goto(next) == pc' = next /\ done' = 0

i386_detect_memory ==
    /\ pc = "detect" /\ Goto("kern_pgdir")
    /\ LET extmem == (machine.ext * 1024) \div PGSIZE IN
       /\ npages_basemem' = (machine.base * 1024) \div PGSIZE
       /\ npages' = IF extmem # 0 THEN EXTPHYSMEM + extmem ELSE npages_basemem'
    /\ UNCHANGED <<machine, nextfree, memory, mmio, program>>

(* boot_alloc(n) and what follows it.                                      *)
boot_alloc(n, next) ==
    IF n > npages * PGSIZE THEN Goto("panic") /\ UNCHANGED nextfree
    ELSE Goto(next) /\ nextfree' = nextfree + Pages(n)

AllocKernPgdir ==
    /\ pc = "kern_pgdir" /\ boot_alloc(PGSIZE, "pages")
    /\ kern_pgdir' = Entry(PDX(UVPT), [table |-> nextfree, perm |-> {"U", "P"}])
    /\ Reach({nextfree})
    /\ UNCHANGED <<machine, npages_basemem, npages, free, ptes, mmio, program>>

AllocPages ==
    /\ pc = "pages" /\ boot_alloc(npages * SizeofPageInfo, "envs")
    /\ UNCHANGED <<machine, npages_basemem, npages, memory, mmio, program>>

AllocEnvs ==
    /\ pc = "envs" /\ boot_alloc(SizeofEnvs, "page_init")
    /\ UNCHANGED <<machine, npages_basemem, npages, memory, mmio, program>>

(* Where boot_alloc() put the three.                                       *)
directory == end
pages == directory + 1
envs  == pages + Pages(npages * SizeofPageInfo)

(* The pages from first to last as a loop over them pushes them.           *)
Pushed(first, last) == [i \in 1 .. last - first + 1 |-> last + 1 - i]

(* Mutant (BootsWhenItCan): the page of the AP entry code is free, too.    *)
Mut_EntryCodeFree ==
    LET hole == EXTPHYSMEM - IOPHYSMEM + nextfree - EXTPHYSMEM
    IN  /\ pc = "page_init" /\ Goto("check_low")
        /\ free' = Pushed(npages_basemem + hole, npages - 1) \o Pushed(1, npages_basemem - 1)
        /\ Reach({pages + Pages(npages * SizeofPageInfo) - 1})
        /\ UNCHANGED <<machine, npages_basemem, npages, nextfree, kern_pgdir, ptes, mmio, program>>

(* The two holes are counted from the end of base memory, wherever it is.  *)
page_init ==
    LET hole == EXTPHYSMEM - IOPHYSMEM + nextfree - EXTPHYSMEM
    IN  /\ pc = "page_init" /\ Goto("check_low")
        /\ free' = Pushed(npages_basemem + hole, npages - 1)
                   \o Pushed(MPENTRY_PADDR + 1, npages_basemem - 1) \o Pushed(1, MPENTRY_PADDR - 1)
        /\ Reach({pages + Pages(npages * SizeofPageInfo) - 1})
        /\ UNCHANGED <<machine, npages_basemem, npages, nextfree, kern_pgdir, ptes, mmio, image, next_va, env>>

-----------------------------------------------------------------------------
(* The checks that mem_init() makes, each with the state it leaves behind. *)

(* The assertions on every page of the free list.                          *)
Unusable(p) ==
    p \in {0, IOPHYSMEM, EXTPHYSMEM - 1, EXTPHYSMEM, MPENTRY_PADDR} \/ p \in EXTPHYSMEM .. nextfree - 1

Low(p) == PDX(p) = 0

FreeListFine ==
    /\ \A i \in DOMAIN free : ~Unusable(free[i]) /\ free[i] < npages
    /\ \E i \in DOMAIN free : free[i] < EXTPHYSMEM
    /\ \E i \in DOMAIN free : free[i] >= EXTPHYSMEM

(* Mutant (TablesReachable): the free list keeps its order.                *)
Mut_KeepOrder ==
    /\ pc = "check_low" /\ Goto(IF FreeListFine THEN "check_page" ELSE "panic")
    /\ UNCHANGED <<machine, npages_basemem, npages, nextfree, memory, mmio, program>>

(* check_page_free_list(1) puts the pages below 4MB first, which the list, *)
(* as it runs downwards, has at its end, and writes to each of them.       *)
(* check_page_alloc() then leaves the list as it finds it.                 *)
check_page_free_list ==
    /\ pc = "check_low" /\ Goto(IF FreeListFine THEN "check_page" ELSE "panic")
    /\ LET high == Cardinality({i \in DOMAIN free : ~Low(free[i])})
       IN  free' = SubSeq(free, high + 1, Len(free)) \o SubSeq(free, 1, high)
    /\ Reach({p \in ToSet(free) : Low(p)})
    /\ UNCHANGED <<machine, npages_basemem, npages, nextfree, kern_pgdir, ptes, mmio, program>>

(* check_page() takes three pages, makes page tables of them, and gives    *)
(* them back in the opposite order.  Of its calls of mmio_map_region() the *)
(* page table stays, and three pages of the region without a mapping.      *)
check_page ==
    LET table == free[3] IN
    /\ pc = "check_page" /\ Goto("map")
    /\ free' = <<free[2], free[1]>> \o SubSeq(free, 4, Len(free))
    /\ kern_pgdir' = Over(Entry(PDX(MMIOBASE), [table |-> table, perm |-> {"W", "PCD", "PWT", "P"}]), kern_pgdir)
    /\ mmio' = mmio + 3
    /\ Reach({free[i] : i \in 1 .. 3})
    /\ UNCHANGED <<machine, npages_basemem, npages, nextfree, ptes, program>>

(* check_kern_pgdir() and check_page_free_list(0).                         *)
KernPgdirFine ==
    /\ \A i \in 0 .. Pages(npages * SizeofPageInfo) - 1 : Maps(UPAGES + i, pages + i)
    /\ \A i \in 0 .. Pages(SizeofEnvs) - 1 : Maps(UENVS + i, envs + i)
    /\ \A p \in 0 .. npages - 1 : Maps(KERNBASE + p, p)
    /\ \A n \in 0 .. NCPU - 1 :
         LET base == KSTACKTOP - (KSTKSIZE + KSTKGAP) * (n + 1) IN
         /\ \A i \in 0 .. KSTKSIZE - 1 : Maps(base + KSTKGAP + i, percpu_kstacks + n * KSTKSIZE + i)
         /\ \A i \in 0 .. KSTKGAP - 1 : "P" \notin pte(base + i).perm
    /\ \A d \in 0 .. NPTENTRIES - 1 :
         LET perm == IF d \in DOMAIN kern_pgdir THEN kern_pgdir[d].perm ELSE {}
         IN  IF d \in {PDX(UVPT), PDX(KSTACKTOP - 1), PDX(UPAGES), PDX(UENVS), PDX(MMIOBASE)} THEN "P" \in perm
             ELSE IF d >= PDX(KERNBASE) THEN {"P", "W"} \subseteq perm ELSE perm = {}

check_kern_pgdir ==
    /\ pc = "check_kern_pgdir" /\ Goto(IF KernPgdirFine THEN "lcr3" ELSE "panic")
    /\ UNCHANGED <<machine, npages_basemem, npages, nextfree, memory, mmio, program>>

(* Mutant (FreeOutsideKernel): the table is freed and stays in kern_pgdir. *)
Mut_KeepsTable ==
    /\ pc = "check_installed" /\ Goto("lapic_init")
    /\ free' = <<free[1], free[3], free[2]>> \o SubSeq(free, 4, Len(free))
    /\ kern_pgdir' = Over(Entry(0, [table |-> free[1], perm |-> {"W", "P"}]), kern_pgdir)
    /\ UNCHANGED <<machine, npages_basemem, npages, nextfree, ptes, highest, mmio, program>>

(* check_page_installed_pgdir() takes three pages; the table it makes for  *)
(* the addresses below 4MB is unlinked before it is freed.                 *)
check_page_installed_pgdir ==
    /\ pc = "check_installed" /\ Goto("lapic_init")
    /\ free' = <<free[1], free[3], free[2]>> \o SubSeq(free, 4, Len(free))
    /\ UNCHANGED <<machine, npages_basemem, npages, nextfree, kern_pgdir, ptes, highest, mmio, image, next_va, env>>

-----------------------------------------------------------------------------
(* The kernel's mappings.                                                  *)

Region(va, n, pa, perm) == [va |-> va, n |-> n, pa |-> pa, perm |-> perm \cup {"P"}]

(* Mutant (KernelIsolated): the permissions of bootstack's mapping.        *)
Mut_UserStacks ==
    [i \in 1 .. NCPU |->
        Region(KSTACKTOP - (i - 1) * (KSTKSIZE + KSTKGAP) - KSTKSIZE, KSTKSIZE,
               percpu_kstacks + (i - 1) * KSTKSIZE, {"U", "W"})]

mem_init_mp ==
    [i \in 1 .. NCPU |->
        Region(KSTACKTOP - (i - 1) * (KSTKSIZE + KSTKGAP) - KSTKSIZE, KSTKSIZE,
               percpu_kstacks + (i - 1) * KSTKSIZE, {"W"})]

(* The last page below 2^32 is not mapped: the size is 0xffffffff - KERNBASE. *)
regions ==
    LET npagesMap == Pages(npages * SizeofPageInfo)
        nenvsMap  == Pages(SizeofEnvs)
    IN  <<Region(UPAGES, npagesMap, pages, {"U"}), Region(pages, npagesMap, pages, {"W"}),
          Region(UENVS, nenvsMap, envs, {"U"}), Region(envs, nenvsMap, envs, {"W"}),
          Region(KSTACKTOP - KSTKSIZE, KSTKSIZE, bootstack, {"U", "W"})>>
        \o mem_init_mp
        \o <<Region(KERNBASE, NPTENTRIES * NPTENTRIES - KERNBASE - 1, 0, {"W"})>>

boot_map_region ==
    /\ pc = "map" /\ done < Len(regions)
    /\ MapRegion(regions[done + 1])
    /\ done' = done + 1
    /\ UNCHANGED <<machine, pc, npages_basemem, npages, nextfree, mmio, program>>

(* The loop that is to clear the directory below KERNBASE steps by PGSIZE. *)
ClearFirst ==
    /\ pc = "map" /\ done = Len(regions) /\ Goto("check_kern_pgdir")
    /\ UnlinkFirst
    /\ UNCHANGED <<machine, npages_basemem, npages, nextfree, free, ptes, highest, mmio, program>>

lcr3 ==
    /\ pc = "lcr3" /\ Goto(IF FreeListFine THEN "check_installed" ELSE "panic")
    /\ UNCHANGED <<machine, npages_basemem, npages, nextfree, memory, mmio, program>>

(* mmio_map_region(lapicaddr, 4096), when the firmware reports a local APIC. *)
lapic_init ==
    /\ pc = "lapic_init"
    /\ IF machine.lapicaddr = 0 THEN Goto("env_create") /\ UNCHANGED <<memory, mmio>>
       ELSE IF mmio + 1 > MMIOLIM THEN Goto("panic") /\ UNCHANGED <<memory, mmio>>
       ELSE /\ Goto("env_create")
            /\ MapRegion(Region(mmio, 1, machine.lapicaddr, {"W", "PCD", "PWT"}))
            /\ mmio' = mmio + 1
    /\ UNCHANGED <<machine, npages_basemem, npages, nextfree, program>>

-----------------------------------------------------------------------------
(* The first environment.  Its memory is a function on half pages.         *)

NoEnv == [pgdir |-> 0, tables |-> <<>>, pages |-> <<>>, mem |-> <<>>]

env_setup_vm ==
    /\ pc = "env_create" /\ Goto("load")
    /\ image' \in Images
    /\ env' = [NoEnv EXCEPT !.pgdir = Head(free)]
    /\ free' = Tail(free)
    /\ UNCHANGED <<machine, npages_basemem, npages, nextfree, kern_pgdir, ptes, highest, mmio, next_va>>

(* load_icode() goes through the program headers; the stack comes last.    *)
Stack == [load |-> TRUE, va |-> 2 * (USTACKTOP - 1), filesz |-> 0, memsz |-> 2]
ph == Append(image, Stack)[done + 1]

NextSegment ==
    /\ pc = "load"
    /\ IF ph.load THEN pc' = "region_alloc" /\ next_va' = ph.va \div 2 /\ UNCHANGED done
       ELSE done' = done + 1 /\ UNCHANGED <<pc, next_va>>
    /\ UNCHANGED <<machine, npages_basemem, npages, nextfree, memory, mmio, image, env>>

(* page_alloc() and page_insert() of one page at next_va.  What the page   *)
(* held stays in it; a page that was there before is freed.                *)
NewPage(va) ==
    LET known == PDX(va) \in DOMAIN env.tables
        rest  == (IF va \in DOMAIN env.pages THEN <<env.pages[va]>> ELSE <<>>) \o Tail(free)
    IN  /\ free' = IF known THEN rest ELSE Tail(rest)
        /\ env' = [env EXCEPT
              !.tables = IF known THEN @ ELSE Over(Entry(PDX(va), Head(rest)), @),
              !.pages = Over(Entry(va, Head(free)), @),
              !.mem = Over([u \in Units(2 * va, 2) |-> "stale"], @)]

(* A turn of region_alloc()'s loop.  Without memory for a new table the    *)
(* last page is lost and the loop goes on; without a page for a table that *)
(* exists, page_insert() dereferences null.                                *)
region_alloc ==
    /\ pc = "region_alloc" /\ next_va \in Touched(ph)
    /\ next_va' = next_va + 1
    /\ IF PDX(next_va) \notin DOMAIN env.tables /\ Len(free) < 2
       THEN free' = <<>> /\ UNCHANGED <<pc, done, env>>
       ELSE IF free = <<>> THEN Goto("panic") /\ UNCHANGED <<free, env>>
       ELSE NewPage(next_va) /\ UNCHANGED <<pc, done>>
    /\ UNCHANGED <<machine, npages_basemem, npages, nextfree, kern_pgdir, ptes, highest, mmio, image>>

(* Mutant (ImageLoaded): pages are taken to be clear already.              *)
Mut_TrustsPages == <<>>

(* What memset() clears behind the bytes of the file.                      *)
Cleared == [u \in Units(ph.va + ph.filesz, ph.memsz - ph.filesz) |-> "zero"]

Copied == [u \in Units(ph.va, ph.filesz) |-> <<done + 1, u - ph.va>>]

(* A copy to an address that is not mapped faults in the kernel, which     *)
(* panics.                                                                 *)
CopySegment ==
    /\ pc = "region_alloc" /\ next_va \notin Touched(ph)
    /\ IF done = Len(image) THEN Goto("run") /\ UNCHANGED env
       ELSE IF ph.filesz > ph.memsz \/ ~(Units(ph.va, ph.memsz) \subseteq DOMAIN env.mem)
       THEN Goto("panic") /\ UNCHANGED env
       ELSE /\ pc' = "load" /\ done' = done + 1
            /\ env' = [env EXCEPT !.mem = Over(Cleared, Over(Copied, @))]
    /\ UNCHANGED <<machine, npages_basemem, npages, nextfree, memory, mmio, image, next_va>>

-----------------------------------------------------------------------------
Init ==
    /\ machine \in Machines
    /\ pc = "detect" /\ done = 0
    /\ npages_basemem = 0 /\ npages = 0 /\ nextfree = end
    /\ free = <<>> /\ kern_pgdir = <<>> /\ ptes = <<>> /\ mmio = MMIOBASE
    /\ highest = 0 /\ image = <<>> /\ next_va = 0 /\ env = NoEnv

mem_init ==
    \/ i386_detect_memory \/ AllocKernPgdir \/ AllocPages \/ AllocEnvs \/ page_init
    \/ check_page_free_list \/ check_page \/ boot_map_region \/ ClearFirst
    \/ check_kern_pgdir \/ lcr3 \/ check_page_installed_pgdir

env_create == env_setup_vm \/ NextSegment \/ region_alloc \/ CopySegment

Next == mem_init \/ lapic_init \/ env_create

Spec == Init /\ [][Next]_vars

-----------------------------------------------------------------------------
(* Properties.                                                             *)

Early     == {"detect", "kern_pgdir", "pages", "envs", "page_init", "check_low"}
Installed == {"check_installed", "lapic_init", "env_create", "load", "region_alloc", "run"}

(* Once the checks are passed, no page on the free list is one that the    *)
(* firmware, the devices, the kernel's image and tables, a page table or   *)
(* the environment use, and none of these is used twice (page_init(), the  *)
(* checks that take pages and give them back, and load_icode()).           *)
FreeOutsideKernel ==
    LET used == {0, MPENTRY_PADDR} \cup (IOPHYSMEM .. nextfree - 1)
        tables == {kern_pgdir[d].table : d \in DOMAIN kern_pgdir \ {PDX(UVPT)}}
        own == {env.tables[d] : d \in DOMAIN env.tables} \cup {env.pages[v] : v \in DOMAIN env.pages}
               \cup ({env.pgdir} \ {0})
        list == ToSet(free)
    IN  pc \notin Early \cup {"panic"} =>
          /\ Cardinality(list) = Len(free)
          /\ list \cap (used \cup tables \cup own) = {}
          /\ (tables \cup own) \cap used = {} /\ tables \cap own = {}
          /\ Cardinality(tables) = Cardinality(DOMAIN kern_pgdir) - 1
          /\ Cardinality(own) = Cardinality(DOMAIN env.tables) + Cardinality(DOMAIN env.pages)
                                + (IF env.pgdir = 0 THEN 0 ELSE 1)

(* Until kern_pgdir is installed, mem_init() reaches memory through        *)
(* entry_pgdir: every page it writes, the page tables it allocates         *)
(* included, is one that entry_pgdir maps at KERNBASE.                     *)
TablesReachable ==
    pc \notin Installed =>
      LET va == KERNBASE + highest
      IN  PDX(va) \in DOMAIN entry_pgdir /\ entry_pgtable[va % NPTENTRIES].pa = highest

(* Of what boot_map_region() has mapped in the installed page tables, user *)
(* mode reads only the two arrays exported to it and writes nothing, as if *)
(* the stack had never been mapped with PTE_U (the tables themselves it    *)
(* reads at UVPT); each CPU has its own stack above a guard; and memory is *)
(* at KERNBASE, at both ends and at those of the kernel's own part         *)
(* (KernPgdirFine looks at every page of it).                              *)
UserMay(bit, va) ==
    {"P", "U", bit} \subseteq kern_pgdir[PDX(va)].perm \cap pte(va).perm

KernelIsolated ==
    pc \in Installed =>
      /\ \A i \in DOMAIN ptes : "U" \in ptes[i].perm =>
           \A va \in ptes[i].va .. ptes[i].va + ptes[i].n - 1 :
             PDX(va) \in DOMAIN kern_pgdir =>
               /\ ~UserMay("W", va)
               /\ UserMay("P", va) => \/ pte(va).pa \in pages .. envs - 1 /\ PDX(va) = PDX(UPAGES)
                                      \/ pte(va).pa \in envs .. nextfree - 1 /\ PDX(va) = PDX(UENVS)
      /\ \A n \in 0 .. NCPU - 1 :
           LET top == KSTACKTOP - n * (KSTKSIZE + KSTKGAP) IN
           /\ \A i \in 1 .. KSTKSIZE : Maps(top - i, percpu_kstacks + (n + 1) * KSTKSIZE - i)
           /\ \A i \in 1 .. KSTKGAP : pte(top - KSTKSIZE - i) = Absent
      /\ \A p \in {0, end, nextfree, npages - 1} : Maps(KERNBASE + p, p)

(* The machine boots exactly when it has all of its base memory, more      *)
(* pages behind the kernel's tables than mem_init() makes page tables, and *)
(* a program that fits and whose segments are no longer in the file than   *)
(* in memory: else an assertion or a panic stops it before a program runs. *)
PageTables == Cardinality({PDX(MMIOBASE), PDX(UPAGES), PDX(pages), PDX(UENVS), PDX(KSTACKTOP - 1)})
              + NPTENTRIES - PDX(KERNBASE)

Enough(mach) ==
    LET total == EXTPHYSMEM + mach.ext \div 4
        tail  == end + 1 + Pages(total * SizeofPageInfo) + Pages(SizeofEnvs)
    IN  mach.base = 640 /\ total > tail + PageTables

BootsWhenItCan ==
    pc \in {"run", "panic"} =>
      LET fine == /\ Enough(machine)
                  /\ \A i \in DOMAIN image : image[i].load => image[i].filesz <= image[i].memsz
      IN  IF pc = "run" THEN fine ELSE fine => env # NoEnv /\ free = <<>>

(* When the environment is ready, its memory is its image: the bytes of    *)
(* the file and then zeros for every loadable segment, whatever the pages  *)
(* held before and wherever in a page a segment starts, and a stack, unless *)
(* memory ran out.                                                         *)
ImageLoaded ==
    pc = "run" =>
      /\ \A i \in DOMAIN image : image[i].load =>
           \A k \in 0 .. image[i].memsz - 1 :
             env.mem[image[i].va + k] = IF k < image[i].filesz THEN <<i, k>> ELSE "zero"
      /\ USTACKTOP - 1 \in DOMAIN env.pages \/ free = <<>>
=============================================================================
