# JOS and its neighbours in TLA+

This directory specifies, model-checks and proves properties of the programs of
this repository, first of all **JOS** (`Operating-Systems/JOS`), a small
multiprocessor kernel: environments (processes) with copy-on-write `fork` in user
space, a preemptive round-robin scheduler, blocking IPC with page transfer, a
physical page allocator and two-level page tables, all under one big kernel lock.

## 1. The system

| Part | Source | State it keeps | Operations |
|---|---|---|---|
| Environments | `kern/env.c`, `inc/env.h` | `envs[]` (status, id, parent, page directory, run count, receive state), `env_free_list` | `env_alloc`, `env_free`, `env_destroy`, `env_run`, `envid2env` |
| Scheduler | `kern/sched.c` | `curenv` and `cpu_status` of each CPU | `sched_yield`, `sched_halt` |
| Traps | `kern/trap.c`, `kern/trapentry.S` | the trap frame of the current environment | `trap`, `trap_dispatch` |
| User page faults | `kern/trap.c`, `lib/pfentry.S`, `lib/pgfault.c` | the exception stack, `env_pgfault_upcall` | `page_fault_handler`, `_pgfault_upcall` |
| System calls | `kern/syscall.c` | none of its own | fork, status, destroy, page, IPC, upcall calls |
| Big kernel lock | `kern/spinlock.c`, `.h` | `kernel_lock.locked`, `.cpu` | `spin_lock`, `spin_unlock` |
| Processor boot | `kern/init.c`, `kern/mpentry.S`, `lapic.c`, `mpconfig.c` | `mpentry_kstack`, `cpu_status`, `panicstr` | `i386_init`, `boot_aps`, `mp_main`, `_panic` |
| Physical pages | `kern/pmap.c` | `pages[].pp_ref`, `page_free_list` | `page_alloc`, `page_free`, `page_decref` |
| Page tables | `kern/pmap.c` | page directories and tables, the TLB of each CPU | `pgdir_walk`, `page_insert`, `page_lookup`, `page_remove` |
| Kernel address space | `kern/pmap.c`, `kern/entrypgdir.c` | `kern_pgdir`, `nextfree`, the first free list | `mem_init`, `boot_map_region`, `mmio_map_region` |
| Program loading | `kern/env.c`, `inc/elf.h` | the first environment's memory | `env_create`, `load_icode`, `region_alloc` |
| Console | `kern/console.c`, `inc/kbdreg.h` | modifier flags, ring buffer `cons`, screen `crt_buf` | `kbd_proc_data`, `serial_intr`, `cons_intr`, `cons_getc`, `cga_putc` |
| Monitor | `kern/monitor.c`, `lib/readline.c` | the line typed so far | `monitor`, `readline`, `runcmd` |
| User fork | `lib/fork.c` | PTE_COW marks, `PFTEMP` | `fork`, `duppage`, `pgfault` |
| User IPC | `lib/ipc.c`, `user/primes.c`, `pingpong.c`, `fairness.c` | the programs' own | `ipc_send` (retry loop), `ipc_recv` |
| User programs | `user/*.c` | | tests of the above |
| Binomial heap | `assign7` | trees and `num` of a heap | `merge`, `insert`, `delete_max` |
| Queue simulator | `5-sem-Programming/Simulator` | entry queue, counters, persons at them, exit queue | one tick of `RunSimulation` |
| Sudoku, Polynomial, Project Euler | `5-sem-Programming`, `Project-Euler` | | sequential exercises |

How they interact. A CPU enters the kernel by a trap, takes the big kernel lock,
runs one handler, and leaves by `env_run()` (unlock, load the frame) or
`sched_halt()` (unlock, halt). Handlers call into environments, pages and the
scheduler; the only things CPUs share outside the lock are the lock word itself,
`cpu_status`, `panicstr`, `mpentry_kstack`, and, through `env_pop_tf()`, the
saved frame and `env_cpunum` of the environment being resumed. User programs
interact with each other only through system calls and the pages they share.

What is hard here: two CPUs acting on one environment (a parent destroys, blocks
or wakes a child at the moment it runs elsewhere); the zombie state and who frees
it; slots reused while old ids, receive flags and parents linger; senders racing
for one receiver; a reference count that must match every mapping on every error
path; a free list and a reference count that must agree; a page remapped while
another CPU has it cached; a fork that copies a running address space page by
page; rival senders that retry; a ring buffer at its limit; scan codes read long
after the keys moved; a boot that works only on machines of the right size, on
page tables that reach a part of memory.


What makes each part correct:

* environments and scheduler: one CPU per environment, a status that says who
  runs, a free list of exactly the free slots, a CPU never on a page directory
  that was freed, nobody started, stopped or killed but by itself or its parent,
  nobody starved;
* IPC: every message arrives once and in order, a receiver is woken by a message
  only and blocked exactly while it waits for one, a send is kept waiting by nothing
  but the success of a rival;
* lock and boot: mutual exclusion, debugging checks that are never wrong, every
  CPU on its own stack, registers that survive every trap, a boot that ends;
* pages: `pp_ref` counts the mappings, the free list holds the unreferenced
  pages, page tables are nobody's data, failure changes nothing, no right is
  gained;
* fork: parent and child see private memory although they share pages;
* page faults: the interrupted instruction resumes with all its registers and an
  unchanged stack, to any depth of faults, as long as the upcall's own stores do
  not fault;
* console: every key enters the character on its cap, in order, up to the
  capacity; the screen shows the line that was typed; a command gets its words;
* kernel address space and loading: no page is handed out that something uses,
  `mem_init()` touches only what its first page tables map, user mode sees what
  is exported to it and no more, the machines that can boot do, and a program's
  memory is its image;
* binomial heap: `delete_max` returns the largest of what was inserted, the trees
  stay binomial and heap-ordered, parent and child pointers agree;
* simulator: nobody and nothing is lost between the queues, each person waits
  for its goods, the simulation ends.

## 2. Plan

Written so far, in this order, the most important behaviour first:

1. `Env` (with `MCEnv`): life cycle, scheduler, traps, IPC, under the lock.
2. `EnvProofs`: its type and safety invariants as theorems.
3. `Smp` and `KernelLock`: why a handler may be one action of `Env`.
4. `Pmap` (with `MCPmap`): physical pages, page tables, the page system calls; `Tlb`
   adds what the CPUs have cached.
5. `Fork` (with `MCFork`) and `PrivateMemory`: copy-on-write fork over the page
   calls, shown to implement memory that nobody shares.
6. `SmpProofs`: mutual exclusion, exact resumption, refinement of `KernelLock`.
7. `UserFault` (with `MCUserFault`): the exception stack and the assembly that returns from it.
8. `BinHeap` (with `MCBinHeap`) and `MaxBag`: the heap of `assign7` on linked
   nodes, shown to implement two bags with a maximum.
9. `Simulator` (with `MCSimulator`): the tick of the queue simulator.

10. `Ipc`: `lib/ipc.c` over `Env`, with the programs that use it.
11. `Console` (with `MCConsole`) and `Typewriter`: from scan codes to commands.
12. `Boot` (with `MCBoot`): `mem_init()` and `load_icode()`.

13. `ControlledByParentOrSelf` and `WokenBySender` in `EnvProofs`, action properties
    that follow from its invariant.
14. `PmapProofs`: counts, free list, tables, rights and failures.
15. `ForkProofs`: `SharingSafe`, and the refinement of `PrivateMemory`.
16. `UserFaultProofs`: `ResumeExact` and `StackIntact`.
17. The second part of `EnvProofs`, on `Ipc`: `InOrderOnce`, and that the programs
    use the kernel as the first part takes programs to do; then `PrimesOnly`.

18. `SimulatorProofs`: `NothingLost` and `WaitsExact`.
19. `BootProofs`: free list, page tables, mappings and program of the boot, and
    when it succeeds.
20. `ConsoleProofs`: `EchoExact`, `ArgvExact`, and the refinement of `Typewriter`.

How the modules fit together. `Smp` shows that at most one CPU is between
`lock_kernel()` and `unlock_kernel()`; on that ground each action of `Env`,
`Pmap` and `Fork` is one whole handler or one whole system call. `Smp` in turn
takes from `Env` that a CPU resumes only an environment no other CPU has
(`OneCpuPerEnv`, proved for library programs). `Env` sees of an address space
only whether it exists and which CPU has loaded it; `Pmap` sees of environments
only their parents and which CPU runs them, and models what is in the address
space. `Fork` uses the system calls of `Pmap` on a flat page table, and takes
from `UserFault` that a fault resumes exactly. `Ipc` EXTENDS `Env`: each call of a
program is the system call's action together with what the program does next.
`Boot` ends where `Env` and `Pmap` begin. A module that INSTANCEs another
does so for refinement: `Smp` of `KernelLock`, `Fork` of `PrivateMemory`,
`BinHeap` of `MaxBag`, `Console` of `Typewriter`. `BinHeap` and `Simulator` are programs of their own.

## 3. Modules and code

### Env (`kern/env.c`, `sched.c`, `trap.c`, `syscall.c`)

State: the fields of `struct Env` that control depends on, one function per
field over `Slot` (the indices of `envs[]`); `env_free_list` as a sequence;
`curenv`, the loaded page directory `cr3` and the mode of each CPU. An
environment id is the pair of generation and slot that `env.h` packs into an
integer, and the generation wraps at `MAXGEN` as `env_alloc()` wraps it.

Actions: one per handler. `Trapped(c)` is the prologue of `trap()`: an
environment that is `ENV_DYING` only ever gets action `Zombie`, which frees it.
Every other action computes the status function the handler leaves and ends as
the handler does, in `trap_return` (resume `curenv` if still RUNNING, else
yield), `sched_yield` (the scan, with its start at slot 0 when there is no
current environment), `env_run`, or `sched_halt` (which enters the monitor, lock
held, when no slot is RUNNABLE or RUNNING). `sys_ipc_try_send` keeps the code's
order: value and permission are stored before the page is checked. The
permission test of `envid2env` is the operator of that name.

Two specifications are made of the handlers. `AnySpec` is of any program, which makes
any call at any time. `LibSpec` is of programs as those of `user/` and `lib/`: they
make any call in any order too, save that `set_status` is made once, on a child that
has not run (`lib/fork.c`, `user/dumbfork.c`), and a child is destroyed once
(`user/spin.c`), so that `destroy` never finds a zombie. No line of the kernel asks
for either. The safety theorems are about `LibSpec`; what the kernel does to
other programs is in section 5. `ForkNext` of `MCEnv` has no IPC, but breakpoints and
a user at the keyboard, who can make `monitor()` return (`MonitorExit`).

### Ipc (`lib/ipc.c`, `user/primes.c`, `pingpong.c`, `fairness.c`)

`prog[e]` is where the program of slot `e` is and the variables it uses later.
`TrySend` and `SendYield` are the loop of `ipc_send()`, with all its errors;
`ipc_recv()` is three steps: the system call, and, after the environment is
scheduled again, the reads of `env_ipc_from` and `env_ipc_value` from user mode,
outside the lock. `AfterFork`, `AfterSend` and `AfterRecv` are what the programs
compute between two calls. `sent` and `got` are history, the values sent and received by
each pair of environments. Of `fairness.c`, three
programs are made at boot: the receiver and two senders, which never end; what an
endless program was sent is forgotten once it has got all of it. None of the three
programs sends a page.

### Smp and KernelLock (`spinlock.c`, `init.c`, `mpentry.S`, ends of `trap.c`, `env.c`, `sched.c`)

One action per access to memory another CPU may touch: the exchange, each of the
two loads of `holding()`, in the order the build makes them, the clearing of `lk->cpu`, `xchg` of `cpu_status`, the store and
load of `mpentry_kstack`, saving the frame, and `env_pop_tf()` reading it after
the unlock. `pc` says where a CPU is, `after` where the lock routine returns.
`progress` is a history variable: how far the environment has really executed.
`KernelLock` has one variable, the owner.

### Pmap (`pmap.c`, parts of `env.c` and `syscall.c`)

Page directories and page tables live in pages taken from the same free list as
user pages. A virtual address is the pair of its two table indices, and
`pp_ref` counts modulo `REFMOD`. The functions of `pmap.c` are operators from one
memory record to the next and are composed as the calls are; the system calls are
the actions. `env_free()` is one action per page it removes, then one per table
and one for the directory, with the lock held throughout, so that no other
system call comes in between, while programs on other CPUs run on.
Permissions are sets of the bits that the properties tell apart, and the test of
`sys_page_alloc()` and `sys_page_map()` is the code's: a comparison of signed
integers (`WEIGHT`), which a permission with bit 31 passes. Its bits then go into the
address of the entry, which names no page of the model. `sys_ipc_try_send()` takes
`unsigned perm` and refuses it. `spoilt` is history: such an entry
has been made, or a page has had `REFMOD` pointers. The kernel's tables are wrong from
then on, and the properties say nothing more.

`Tlb` adds what the programs' accesses have cached on each CPU. A handler empties
the TLB of its own CPU, by `lcr3` on its way out, and of no other.

### Fork and PrivateMemory (`lib/fork.c`)

One action per system call or memory access of `fork()`, `duppage()` and
`pgfault()`; the stack of the calling environment is written, and so faults,
between any two of them. The refinement maps an environment's memory to what its
page table shows, and a child's to the part its parent has finished. Each of the two
mappings of `duppage()` and each allocation may fail and end in `panic()`: the first mapping of a
page for want of a page table (`NoTable`, any mapping that begins a `Region`), `sys_page_alloc()`
for want of a page. The second mapping goes where one is already, so it needs no memory.
A child whose parent gave up never runs.

### UserFault (`page_fault_handler()`, `user_mem_check()`, `lib/pfentry.S`)

Memory as an array of words, each holding the name of the value that was put
there; one action per group of instructions between two that may fault. `ctx` is
history: registers and stack of every instruction a fault has interrupted. The program may
load any word of its stacks, or their ends, into `%esp` (`LoadEsp`), and may map its exception
stack read-write, read-only or not at all at any time (`SetExceptionStack`). The two
pages of the user stack may be copy-on-write, as `fork()` leaves them; the handler of
a fault there makes the page private. `spoilt` is history: the upcall has faulted in a store of its
own, the program has had the very top of the exception stack in `%esp`, or it has
remapped its exception stack while a fault was handled.

### Console and Typewriter (`kern/console.c`, `lib/readline.c`, `kern/monitor.c`)

Nothing takes the interrupts of keyboard and serial line in this kernel:
`cons_getc()` polls the two devices, and each look at one is an action
(`serial_intr`, `kbd_intr`, then the ring). The user strikes, holds and releases
keys at any time and their scan codes queue in the controller: with `E0` escapes,
and the shift codes that a keyboard makes up around the keys of the grey block.
`kbd_proc_data()` is modelled on classes of keys: one letter per class the four
maps tell apart; characters have names (`SP`, `NL`, `DEL7F`), and the serial line
brings those of `LineChars`. `readline()` edits and echoes, `cga_putc()` writes, erases and
scrolls, `runcmd()` splits into `argv` (`scan` is what its loop does with a
character, `parse` the fold of it over the line). `ahead` is history: which characters the
codes not yet read stand for. `Typewriter` knows keys and characters only. A
character enters its queue when its key is struck, and is lost only by `Overrun`,
which takes the oldest `CONSBUFSIZE` at once; the refinement maps the queue to
the unread ring followed by `ahead`.

### Boot (`mem_init()`, `entrypgdir.c`, `load_icode()`)

One action per call of `mem_init()`, including the checks it makes of itself, as
some of them change the free list and one leaves a page table behind. Addresses
are page numbers of the real layout. A page table is the list of regions written
into it. `highest` is history: the highest page written through `entry_pgdir`.
`NextSegment` takes a program header, `region_alloc` is one turn of the loop of that
name, a page, and `CopySegment` the copy and the clearing, in
half pages, so that segments may begin and end inside a page.

### BinHeap and MaxBag (`assign7`)

The memory is one function from nodes to the five fields of `class node`. The
methods are operators from one memory to the next (recursive, as the loops are),
and a choice of the menu is an action. The local heap object of `insert()` and
`delete_max()` is a third root, `"new"`, that exists during the operation only.
`option` is the last choice of the menu with what was typed and what was printed. `MaxBag`
holds the heap to it: an insert inserts what was typed, `delete_max` prints the largest, an
increase increases, a meld leaves B empty. It leaves two things open, both of them
departures of section 5: the key -1, from which `search()` starts, is `Reserved` and is not
increased; and once heap B has been melded into an empty A, nothing is
promised (`share`).

### Simulator (`5-sem-Programming/Simulator`)

`pc` is the call that `RunSimulation()` is in and `turn` the next turn of its
loop; a turn is an action. `JoinExitQueue()` erases from the vector it walks, so
its next turn passes over the person who moved up. `open_counters` is what is left of
the vector that `FindEmptyCounters()` returned. `stock` is history: the goods
there were at first.

## 4. Runs

| Run | Instance | Shows |
|---|---|---|
| `env_lib` | 2 CPUs, 2 slots, ids that wrap, every call of a library program | `OneCpuPerEnv`, `LiveAddressSpace`, `BlockedIffReceiving`, `NoPanic` |
| `env_live` | 2 CPUs, 3 slots, forks and deaths, fair | `FreeListExact`, `ControlledByParentOrSelf`, `ReadyRuns`, `ZombieFreedOrStopped` |
| `ipc` | 2 CPUs, 4 slots, three programs | `InOrderOnce`, `PrimesOnly`, `WokenBySender`, `SendEnds` |
| `smp` | 3 CPUs, 1 environment | `LockTakenOnce`, `ResumeExact`, `OwnStack`, `ImplementsLock`, `BootCompletes` |
| `pmap` | 5 pages, 2 environments, 2 CPUs, 2 page tables of one entry | `TablesPrivate`, `CountsExact`, `FailureChangesNothing`, `NoWriteGained` |
| `fork` | 3 environments, 6 pages, 1 data page and a stack | `SharingSafe`, `ImplementsPrivate` |
| `fork_twice` | the same, 7 pages | violation of `ChildCanWrite` |
| `userfault` | a page of 46 words, three frames deep | `ResumeExact`, `StackIntact` |
| `binheap` | 6 nodes, keys -1 to 2, two heaps | `WellFormed`, `ImplementsBag` |
| `simulator` | 3 counters of up to 3 goods, one arrival a tick | `NothingLost`, `WaitsExact`, `EverythingSold` |
| `console` | six scenarios of keys, a ring of 4, a screen of 4 by 4 | `EchoExact`, `ArgvExact`, `NoModifierStuck`, `ImplementsTypewriter` |
| `boot` | 11 machines, 64 programs | `FreeOutsideKernel`, `TablesReachable`, `KernelIsolated`, `BootsWhenItCan`, `ImageLoaded` |

Every property of a passing run is broken by a mutant of the code (a dropped
guard, a missing reset, a swapped order); the mutants stand beside the
definitions they change, named `Mut_`.

### Bounds and why they are enough

* CPUs: two contend for an environment, a lock or an address space in every way
  two can; `Smp` has three so that one may come in between the check and the
  exchange of the two others, and two APs may take the one stack variable.
* `NENV`: two slots give parent and child, reuse, and an empty free list; three
  give grandchildren, orphans, rival senders and a scan that may pass someone by.
  `MAXGEN` 2 makes ids wrap after two reuses; `NCREATE` has the numbers of environments
  the kernel may start with. One message value is enough, as the sender tells two
  messages apart.
* `env_lib` and `env_live` split the calls, since three slots with every call are
  too many states: `env_lib` has two slots, `env_live` three and no IPC.
* `Ipc`: four slots hold the feeder of the sieve and three filters, so that the
  numbers up to 5 pass two of them and the last finds no slot to fork into. Three
  suffice for ping-pong, and `fairness.c` has an idle program and its three. `MAXGEN` is
  1, as nobody is created in a slot that was used.
* `Pmap`: two directories and two tables use four of the five pages, so that
  every allocation fails somewhere in the run, also in the middle of an insert.
  `REFMOD` is 65536, and the count cannot wrap in so few mappings. The permissions asked
  for include an illegal one and one with bit 31.
* `Fork`: with three environments a child forks while its parent faults. Six
  pages let `sys_page_alloc()` fail. Environment ids are not reused; the reuse of
  slots is `Env`'s subject.
* `UserFault`: 46 words hold three frames with their scratch words and what the
  handler pushes, and a fourth overflows. `CONSTRAINT NotSpoilt` stops where something
  has spoilt the upcall. The two properties say nothing of later states, and no later state
  is unspoilt again, so nothing they speak of is cut off.
* `BinHeap`: six nodes are the fewest with which a carry makes three roots of one
  degree; three keys above -1 let a raised key pass two ancestors. `CONSTRAINT Apart`
  stops after a meld into an empty heap, where `MaxBag` promises nothing, and `VIEW Memory`
  leaves out the last option, which no operation reads; the step that sets it is
  checked all the same.
* `Simulator`: three counters let several persons finish in one tick, in any
  positions of the vector. Nothing bounds the time: every behaviour ends.

* `Console`: each scenario bounds the keys, the number of strokes (5 to 10) and how
  many scan codes may wait unread. A ring of 4 is overrun by four characters typed
  ahead; a screen of 4 by 4 scrolls within a line of `BUFLEN` 10; `MAXARGS` 5 holds four words, and
  ten strokes make five.
* `Boot`: the machines have memory on both sides of every limit: none above 1 MB,
  too little for the kernel's tables, one page too few and just enough for the page tables
  of `mem_init()`, memory that ends below 4 MB and above it, the most the CMOS can report; base
  memory of 64, 512, 639 and 640 KB; with and without a local APIC. `end` and the
  stacks are where a build puts them. The segments share no page, as `ld` lays
  programs out.

`CHECK_DEADLOCK FALSE` stands in all of them because these systems may stop: a
kernel that has gone into the monitor or has panicked makes no step, nor do
environments that have all exited. The simulator ends, and the user of a heap
that is full (there are six nodes) may have nothing left to choose; a scenario of
the console has a last stroke, and a boot ends.

### Fairness

`Env`: weak fairness of `Interrupt(c)` for each CPU. The clock of each CPU is set
periodic by `lapic_init()` and user mode runs with interrupts enabled
(`env_alloc()` sets `FL_IF`, `sched_halt()` executes `sti`), so a CPU that stays
enabled to trap does trap. Handlers are whole actions, so fairness of the lock
enters here: the lock is a plain exchange loop and does not order its waiters,
and `ReadyRuns` rests on the assumption that no CPU loses the race for ever.
`Smp` makes no such assumption: there the exchange is only weakly fair, which
is enough for `BootCompletes`, as the boot CPU releases the lock and is not
asked to win it again. Nothing is assumed of programs, save in
`Ipc`: there strong fairness says that a program which is given a CPU again and
again at its next call makes it one day, that is, that a time slice is long
enough to get from one call to the next. It is per environment and says nothing of who finds
the receiver waiting: `SendEnds` says that a sender which retries for ever sees rivals
succeed for ever, and that one without rivals gets through. `Simulator` is one thread
that never waits, so weak fairness of `Next` is that the program runs.

## 5. Where the code departs from its comments

**`fork_twice`** is a run, which TLC ends with a counterexample: `duppage()`
(`lib/fork.c:80`) gives the child a copy-on-write page when the parent's was
writable, but read-only without the mark when the parent's was itself still
copy-on-write: a second fork in a row makes a child that cannot write its data.

The configurations of this table are not runs of the project: each checks a
claim that the code does not keep, and TLC shows how it fails. They stay beside the
models as a record, and would pass once the code is mended.

| Configuration, module | Refuted | What happens |
|---|---|---|
| `RunTwice.cfg`, `MCEnv` | `RunsOnce` | `sched.c:26` promises never to choose an environment that is running on another CPU. `sys_env_set_status()` (`syscall.c:133`) stores RUNNABLE into a child whatever its status, and a second CPU runs it. |
| `Zombie.cfg`, `MCEnv` | `ZombieFreedByItsTrap` | A zombie "will be freed the next time it traps" (`env.c:511`). `env_destroy()` tests for RUNNING only (`env.c:513`), so a parent that destroys the zombie again frees it, with its page directory, under the CPU that executes it. |
| `Starved.cfg`, `Ipc` | `EverySendEnds` | `ipc_send()` "keeps trying until it succeeds" (`ipc.c:53`) but yields between two tries: of the two senders of `fairness.c`, one may find the receiver waiting every time and the other never. |
| `SignedPerm.cfg`, `MCPmap` | `OnlySyscallBits` | "No other bits may be set" (`syscall.c:169`). The tests at `syscall.c:201` and `:275` compare signed integers; a `perm` with bit 31 passes and is ORed into the addresses of both table entries (`pmap.c:606`, `:618`). |
| `RefCountWraps.cfg`, `MCPmap` | `RefCountExact` | `pp_ref` is 16 bits and is incremented unchecked (`pmap.c:600`): 2^16 mappings of one page make it 0, and an unmap frees it under the others. The configuration counts modulo 3. |
| `Tlb.cfg`, `Tlb` | `TlbFresh` | "The TLB must be invalidated if you remove an entry" (`pmap.c:666`). `tlb_invalidate()` (`pmap.c:769`) reaches its own CPU only; a child that runs on another keeps using the page its parent has taken away. |
| `StoreFault.cfg`, `UserFault` | `StoreMayFault` | `pfentry.S:74` moves `%esp` past the saved registers before the store to the trap-time stack (line 80). If that store faults, as the page is copy-on-write, the kernel pushes the new frame over the registers that are not yet restored. |
| `KernelFault.cfg`, `UserFault` | `NoKernelFault` | `trap.c:324-326` promises to destroy an environment whose exception stack cannot take the frame. The word at `trap.c:354` is written before anything is checked, and `user_mem_assert()` does not ask whether the page may be written: an exception stack that is full, read-only or, with `%esp` in its page, not mapped makes the kernel fault and panic. |
| `MeldEmpty.cfg`, `MCBinHeap` | `Apart` | `merge()` into an empty heap leaves the other heap its root (`binheap.cpp:283-288`): after melding B into an empty A both names hold the same nodes. |
| `MinusOne.cfg`, `MCBinHeap` | `EveryKeyIncreases` | `search()` starts at a helper node whose data is -1, so a key of -1 is never found: `increase_key()` (`binheap.cpp:198`) raises the helper and says nothing. |
| `LateExit.cfg`, `MCSimulator` | `AllFinishedMove` | `JoinExitQueue()` is to move all persons who have finished (`simulator.h:28-30`). It erases from the vector it walks (`simulator.cpp:163`) and so passes over the one after each it moves; two persons may then be at one counter. `WaitsExact` bounds the delay. |

Others are in the models as the code has them.

* A zombie need not be freed at its next trap (`env.c:511`) even if nobody destroys it again:
  when the last other environment exits, its CPU finds no RUNNABLE or RUNNING slot
  (`sched.c:74` does not count DYING) and enters the monitor holding the lock, on which the
  zombie's CPU then spins. `ZombieFreedOrStopped` says what is left of the promise.
* `mem_init()` takes base memory to be 640 KB whatever the CMOS says, as
  `page_init()` counts the I/O hole from its end. And since it takes page tables from the
  highest pages first, a machine with no more than 69 pages behind the kernel's
  tables is left without a free page above 1 MB, which `check_page_free_list()`
  asserts there is. `BootsWhenItCan` has the exact condition; no comment states one.
* The loop of `mem_init()` that is to clear the directory below `KERNBASE` steps by
  `PGSIZE` and so clears entry 0 only, whose page table is never freed; it undoes the
  identity mapping of `pages` and `envs`. The mapping at `KERNBASE` has size
  `0xffffffff - KERNBASE` and leaves out the last page. `bootstack` is mapped with
  `PTE_U | PTE_W` first; `mem_init_mp()` then writes over it. Neither
  `boot_map_region()` nor `region_alloc()` looks whether it was given a page.
  `KernelIsolated` takes the self-map at `UVPT`, through which user mode reads the
  tables, as given, and looks at four pages of what is mapped at `KERNBASE`;
  that every page there is mapped right is `KernPgdirFine`, the assertions the kernel makes itself.
* The ring of the console does not compare `wpos` with `rpos`: `CONSBUFSIZE`
  characters typed ahead look like none (`Overrun` of `Typewriter`). With both
  shift keys down the release of one ends `SHIFT`. `readline()` keeps a `0x7f` that is typed
  at the start of a line. `monitor.c:208` reports a maximum of 16 arguments where 15
  words are the most that are taken.

Further: a send that
fails on its page has already overwritten the receiver's value (`syscall.c:372`);
the scan restarts at slot 0 after an exit (`sched.c:45`);
`pgfault()` leaves `PFTEMP` mapped; `lib/ipc.c:33` and `:36` test for null the
wrong way round; `num` of a heap is not decremented for a root without
children (`binheap.cpp:62-66`), and set from the children when they become the whole heap.
Outside the models: `cprintf()` always returns 0, as
`putch()` increments the pointer (`*cnt++`); `mon_changeperm()` does not return
after its usage message.

## 6. What is proved

TLAPS checks these for every number of CPUs, slots, generations, environments,
pages, table entries, stack words, message values, counters, goods and keys struck, under the assumptions named with the constants (`ConstAssumption`,
`SmpAssumption`: the boot CPU is a CPU, there is at least one slot, `NULL` is
none of the other values).

**`EnvProofs`**, first part, of every behaviour of library programs (`LibSpec`): `TypeCorrect`,
`OneCpu`, `FreeListTheorem`, `AddressSpaceTheorem`, `ReceiveTheorem`,
`NoPanicTheorem`, and of its steps `ControlTheorem` and `WakeTheorem`. None of these invariants is inductive alone: that a CPU never
runs on a freed directory needs that an environment in execution has status
RUNNING or DYING, which needs that `env_destroy()` finds the status right, which
needs that nothing but a receive or a fork makes an environment NOT_RUNNABLE.
`IInv` is their conjunction with two that no run has to name: `PgdirExact` (a slot
has a directory exactly when it is not FREE) and `RunsExact` (what
is RUNNING has been run, and a slot without directory has not). The proof follows the code: lemmas on the free list
as a sequence without duplicates, one lemma for each way a handler can end
(`EnvRunEnds`, `HaltEnds`, `YieldEnds`, `ReturnEnds`) that takes a half-way
invariant `Mid` to `IInv'`, and one lemma per action that establishes `Mid`.

**`SmpProofs`**, of `Smp!Spec`: `TypeCorrect`, `MutualExclusionTheorem`,
`LockTakenOnceTheorem`, `ResumeTheorem`, `OwnStackTheorem`, and
`LockTheorem`, that the spinlock with its checks implements `KernelLock`. The
strengthening says of each `pc` what the CPU knows there (`CpuInv`), that
`locked` is 1 exactly when some CPU holds it and `lk_cpu` names that CPU save in
the two windows next to the exchanges (`LockInv`), that a frame or a register
set is up to date and whose environment is whose (`FrameInv`), and how far the
boot CPU and the AP it waits for have come (`BootInv`). The abstract owner is
chosen by CHOOSE, and `MutualExclusion` makes it unique (lemma `OwnerIsHolder`).

**`PmapProofs`**, of `Pmap!Spec`: `TypeCorrect`, `CountsTheorem`, `TablesTheorem`,
and of its steps `WriteTheorem` and `FailureTheorem`. Each speaks of the states in which
the tables have not been `spoilt`, for the code has two ways to spoil them
(section 5), and `NeverSpoilt` proves that it has no third: where there are too few
table entries for `REFMOD` pointers to one page and no program asks for a permission with
bit 31, they never are. `CountsExact`
is far from inductive. `Sound` is what every call keeps, also between its parts:
a page has one use (`OneUse`), for a write to a table would otherwise change the
mappings of another; a page that is no directory and no table reads as an empty one
(`Zeroed`), since `page_alloc()` clears what becomes a table and `env_free()`
empties it entry by entry; the counts; and a free list without duplicates that
lacks just the pages in the hands of the call (`FreeExact`, whose last argument they
are). `Teardown` adds how far `env_free()` has come, `Cpus` which environments run. The lemmas follow the
calls of `pmap.c`, bottom up, each from a `Sound` memory to a `Sound` one; references
are counted as cardinalities of three sets of slots.

**`ForkProofs`**, of `Fork!Spec`, with no assumption but `ForkAssumption`:
`TypeCorrect`, `SharingTheorem`, and `RefinementTheorem`, that copy-on-write fork
implements `PrivateMemory`. That no page is writable while another running
environment maps it is not inductive: in the middle of `fork()` the parent may
write pages that its child already maps. `OneWriter` says that this is the only
case, and only at or above the page the loop has come to. It needs that a page
is at the same address wherever it is mapped, save through `PFTEMP` (`OneAddress`), that
the child has no writable page (`HasPages`), that `duppage()` is not interrupted by a
fault of its own stack (`InDuppage`), and that the page `pgfault()` fills is mapped
by nobody else (`NewPage`), although `PFTEMP` is copied by `fork()` and stays mapped. The
refinement then goes action by action: a store is `Write`, the second call of `duppage()`
(or the first, of a page that is not writable) is `Copy`, `exit()` is `Exit`, and all
other steps change nothing that a program sees.

**`UserFaultProofs`**, of `UserFault!Spec`, for every memory and any nesting of faults:
`TypeCorrect`, `ResumeTheorem` and `StackTheorem`. They speak of the time before anything has
`spoilt` the upcall, and rest on `Unspoilt`, that until then `IInv` holds. Without that
condition `ResumeExact` is false (section 5), and a stack page that `fork()` left
copy-on-write is enough to make it so. Where the program put its stack pointer is
otherwise free, in the exception stack too. The frame of a fault is rewritten while its upcall
returns: the saved `esp` is lowered by a word, and `eip` put there, next to the
stack that was interrupted. `Upcall` says of the handling of a fault, by the place it has
come to, where its frame lies and what it still needs of registers and memory, and
(`Kept`) that the stack it interrupted is as it was. `Current` says this of the innermost
fault and the processor, `Chain` of every other one and the machine that the next fault
interrupted, which is the machine it gets back when that one ends.

**`EnvProofs`**, second part, of `IpcSpec`: `DeliveryTheorem` (`InOrderOnce`), `ReceiverTheorem`
(`WokenBySender`), `KernelTheorem` and `LibraryTheorem`. The last one closes a gap:
the first part is about programs that start a child once, before it has run, and
destroy it once, and `LibraryTheorem` shows that `primes`, `pingpong` and `fairness`
are such programs (`Starting`: the child a program is about to start has not run). A
program that panics stops the kernel in its monitor, after which `IInv` is false, and
programs on other CPUs go on in user mode; `Stopped` is what remains of it. `Delivery`
makes `InOrderOnce` inductive: a mailbox is full from the send until `ipc_recv()` has read
it (`Pending`), through two reads of user memory outside the lock; what was sent and not
received is the content of the full mailbox of that pair, and nothing if there is none. That
a second send cannot overwrite it rests on `BlockedIffReceiving` of the kernel, and that
a message is not attributed to another sender on `who` being read before the next
receive. No bound on the number of environments, on their reuse or on the values enters.

**`EnvProofs`**, on the sieve, of `IpcSpec`: `SieveInvariance` and `PrimesTheorem` (`PrimesOnly`),
for any number of CPUs, of environments and of chains of them, and any last number. A number
*survives* `p` when it is above `p` and no number from 2 to `p` divides it. `Stream` says of
each environment that what it sends to its child, what is on its way and what it is
about to send are consecutive survivors of its prime; `Filtered` says of the child that
its prime was the first it took, and that what it took since and has not sent on does not
survive its prime. That the first survivor of `p` is the next prime, and that a
filter for it turns survivors of `p` into survivors of that prime, is the lemma
`NextPrime`; it needs no induction, because "no divisor up to `p`" is carried along the
chain, and divisibility is transitive. `Chain` makes the streams private: an
environment is fed by one other, which feeds no other, and nothing is sent but
along the chain, also while a child that `fork()` made with its parent's variables, the
prime included, has taken nothing yet.

**`SimulatorProofs`**, of `Simulator!Spec`, for any number of counters, any goods and
anybody who comes: `TypeTheorem`, `NothingLostTheorem`, `WaitsTheorem`. `Places` says
that each queue holds exactly the persons with its status. `Order` says that entry queue and
counters keep the order of arrival, so that the vector that is erased from has
nobody twice and "ahead" means an earlier arrival. `Times` relates the times of a
person to its place, `Front_` says that only the person at the front of the exit
queue has been told how long to wait, and late enough behind all who have
left, from which `Spaced` follows when it leaves. `Late` bounds what the erasing loop does: who
is finished and still at a counter saw somebody ahead leave in every tick
since, up to the tick before for those the loop has not come to (`Seen`); the person
passed over is behind the one just moved. Goods are sums over finite sets of persons.
What such a sum is, that it does not depend on the order of adding, and that one
more person adds what it has, are lemmas (`SumsUnfold`, `SumsTake`, `CollectedMore`)
proved by induction in the one form open to these provers: a set of naturals that
is not empty has a least element (`WFMin` of the library).

**`BootProofs`**, of `Boot!Spec`, for every kernel image, every machine and all programs that
`BootAssumption` admits: `FreeStaysOutside`, `TablesAreReachable`, `KernelStaysIsolated`,
`ImageIsLoaded` and `BootsExactlyWhenItCan`. `BootAssumption` says what the linker and the firmware see to: the
kernel ends below 4 MB, the CMOS counts in 16 bits and at most 640 KB of base memory, and
segments share no page and lie between page 0 and the stack. That the free list
stays clear of what is in use is not inductive, as until the checks are passed it is not
even true: `page_init()` leaves pages of the kernel free when base memory is less than 640 KB, and
an assertion then stops the boot. `BInv` says of each phase where `boot_alloc()` is
(`Allocated`); that `page_init()` leaves the list `FirstList`, and
after `check_page_free_list()` a list of `Usable` pages without duplicates (`Apart`); which
entries `kern_pgdir` has and that their tables are apart from the list, from each
other and from what the environment holds (`DirectoryFacts`, `Apart`); and how many pages below
4 MB the list still begins with (`Stock`), from which it follows that the 69 tables which
`mem_init()` takes from the list come from there. `Progress` says of the image which segments are in
memory: that those loaded before stay as they are when pages are allocated for a later one
needs that no two share a page, and that a segment whose pages were not
all allocated stops the boot. `MInv` lists the regions
written so far in their order; `KernelIsolated` needs of it that whatever covers a
stack page last was written by `mem_init_mp()`, and that the two exported arrays are the only regions left
with `PTE_U` behind a directory entry that has it. That the machine boots when it can needs more: that
every assertion on the way holds, and that the one which may fail, the last check of the
list for a page above 1 MB, fails only for want of memory. `FInv` keeps for this the order of the
list: behind the pages that became tables come the rest of those between the kernel and
4 MB, then base memory, then what is above 4 MB (`Queue`). With 69 pages taken, a page above
1 MB is left exactly when there were more (`LastCheckDecides`, `Crowding`), which is the
condition on what the CMOS reports (`RoomIsEnough`). `Directory` and `MInv` give what
`check_kern_pgdir()` asserts (`PassesKernPgdir`), and `Fate` that a copy into a page
that is not mapped means that `region_alloc()` had none left.

**`ConsoleProofs`**, of `Console!Spec`, for every size of the ring, the screen, the line
and `argv`, any number of strokes and any number of codes that wait: `ScreenShowsTheLine`,
`ArgvIsTheWords` and `ConsoleIsATypewriter`. `ConsoleAssumption` says that the line fits
on the screen below the first row (`BUFLEN` 1024 on 25 rows of 80), without which a
line may scroll away while it is typed, and that a ring holds two characters. `EInv` is the
invariant of the editor; what makes it inductive is `Shown`, that the line not only
is on the screen but lies wholly before the cursor: a backspace then never meets
the first cell, and a scroll moves the line up by one row and loses none of it.
`parse()` and what waiting codes enter are folds, which the library defines by a
recursion over sets of positions. That a function with this recursion exists
(`FoldExists`) is proved by induction on the number of positions, and with it that a fold
goes over a sequence from left to right; from there `Progress` says of each
prefix of a line which words begin in it and how far the last has come. For the keyboard
`RInv` says that folding `foresee` over the codes that wait, from the flags as
they are, gives `ahead`, and that no whole key leaves the `E0` flag set. The refinement
needs three laws of that fold: over a concatenation (`ForeConcat`: a key is struck),
from its first code (`ForeFirst`: a code is read), and that what was entered before is carried along
(`ForeWith`). Then each key is worked out once (`MakeKey`, `BreakKey`, `FakesDoNothing`,
`CharacterMeant`), and the ring is shown to be a queue that empties itself when it is
full (`RingPut`, `RingGet`).

Model-checked only: `ReadyRuns`, `ZombieFreedOrStopped`, `BootCompletes`,
`SendEnds` and `EverythingSold` (liveness is out of the prover's reach), `NoModifierStuck`, and all of
`BinHeap`: its operators are recursive, and what they compute is known by
induction over the shape of memory.

## 7. What is not modelled

Descriptor tables and the programming of devices (LAPIC, PIC, clock, serial line,
printer, disk) set up a state once and are sequential port I/O; the MP tables are
firmware data that is parsed once. What the commands of the monitor print, the
symbol table search of `kdebug.c` and the formatting of output compute text. The
boot loader runs before there is a system. The start-up code, the strings and the
system call stubs of the user library are straight-line code. The programs under
`user/` other than the three in `Ipc` are tests of single calls, which the models
let any program make. `sys_cputs()` and `sys_cgetc()` only pass characters on, and
`sys_env_set_pgfault_upcall()` stores one field. The exercises outside JOS that
keep no state between steps (`Sudoku`, `Polynomial`, `Project-Euler`) are left out:
what they compute for an input is for tests. Files under `obj/` are build output.
