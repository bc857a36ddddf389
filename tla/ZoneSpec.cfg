CONSTANTS
    MAX_NUM_ZONES = 2
    VM_PAGE_SIZE = 64
    META_SIZE = 16
    MAX_CALLS = 5
    Requests <- MCRequests
SPECIFICATION Spec
PROPERTY ZoneSpecRefined
