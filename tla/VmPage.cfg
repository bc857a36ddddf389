\* The kernel one frame above the base of RAM, as in the cold boot of S1
\* (kernbase 1 MiB above physbase), scaled.
CONSTANTS
    PAGE_SIZE <- MCPageSize
    DESC_SIZE <- MCDescSize
    MEM_PAGES <- MCMemPages
    KERN_SIZE <- MCKernSize
    KERN_BASE = 1
SPECIFICATION Spec
INVARIANTS TypeOK KernelFramesReserved
