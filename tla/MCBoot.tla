------------------------------- MODULE MCBoot -------------------------------
(* Machines with the memory QEMU and old firmware report, on both sides of *)
(* each limit, and programs whose segments meet every alignment.           *)
EXTENDS Boot

Mach(base, ext, lapicaddr) == [base |-> base, ext |-> ext, lapicaddr |-> lapicaddr]

SomeMachines ==
    {Mach(640, ext, 1043968) : ext \in {1604, 1876, 1880, 3072, 3076, 65535}}
    \cup {Mach(640, 16384, 0), Mach(640, 0, 0), Mach(64, 0, 0),
          Mach(639, 65535, 1043968), Mach(512, 3072, 0)}

Seg(load, va, filesz, memsz) ==
    [load |-> load, va |-> va, filesz |-> filesz, memsz |-> memsz]

Text == 4096
BigPages == {156, 158}
SomeImages ==
    {<<Seg(TRUE, Text, f1, m1), Seg(load, Text + 6, 1, 9), Seg(TRUE, va, f2, m2)>> :
        f1 \in {0, 3}, m1 \in {3, 6}, load \in BOOLEAN,
        va \in {2 * 1024, Text + 17}, f2 \in {0, 2}, m2 \in {0, 1, 4}}
    \cup {<<Seg(TRUE, Text, 3, 2 * n)>> : n \in BigPages}
=============================================================================
