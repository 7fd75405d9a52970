CONSTANTS
    end = 622
    bootstack = 281
    percpu_kstacks = 557
    Machines <- SomeMachines
    Images <- SomeImages
SPECIFICATION Spec
INVARIANTS
    FreeOutsideKernel
    TablesReachable
    KernelIsolated
    BootsWhenItCan
    ImageLoaded
CHECK_DEADLOCK FALSE
