CONSTANTS
    h1 = h1
    h2 = h2
    e1 = e1
    e2 = e2
    e3 = e3
    NULL = NULL
    Heads <- MCHeads
    Entries <- MCEntries
SPECIFICATION Spec
INVARIANT QueriesAgree
INVARIANT IteratorsAgree
PROPERTY ListSeqSpec
