\* The kernel's printk calls, panics and synchronous exceptions, with the
\* uninitialised opts of __console_emits holding zero.
CONSTANTS
    Calls <- MCCalls
    Panics <- MCPanics
    Esrs <- MCEsrs
    AbortEsrs <- MCAbortEsrs
    JunkFmts <- MCJunkFmts
    JunkVals = {7}
    OptsInit = {0}
    MAX_CALLS = 3
SPECIFICATION Spec
INVARIANT TypeOK
INVARIANT DirectivesRendered
PROPERTY PanicHalts
