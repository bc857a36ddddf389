\* The kernel's printk calls, panics and synchronous exceptions, with the
\* uninitialised opts of __console_emits holding zero or POPT_PADRIGHT.
CONSTANTS
    Calls <- MCCalls
    Panics <- MCPanics
    Esrs <- MCEsrs
    AbortEsrs <- MCAbortEsrs
    JunkFmts <- MCJunkFmts
    JunkVals = {7}
    OptsInit = {0, 8}
    MAX_CALLS = 3
SPECIFICATION Spec
INVARIANT ReportsArguments
