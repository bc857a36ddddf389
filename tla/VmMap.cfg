CONSTANTS
    PAGE_SIZE <- MCPageSize
    DESC_SIZE <- MCDescSize
    MEM_PAGES <- MCMemPages
    KERN_SIZE <- MCKernSize
    KERN_BASE = 0
    Callers <- MCCallers
    Requests <- MCRequests
    INTERLEAVE = FALSE
    NULL = NULL
    c1 = c1
    c2 = c2
SPECIFICATION Spec
INVARIANTS TypeOK EntriesOrdered
PROPERTIES GuardsFlank
