\* The discipline of kernel_thread_main: threads are created before
\* machine_init_timers; afterwards running threads only destroy others.
CONSTANTS
    THREAD_COUNT_MAX <- MCThreadCountMax
    MAX_THREAD_IDS <- MCMaxThreadIds
    CREATE_AFTER_TIMER = FALSE
    NULL = NULL
SPECIFICATION Spec
INVARIANT TypeOK
INVARIANT ThreadZoneConsistent
INVARIANT ListedThreadsAllocated
INVARIANT UniqueThreadIds
PROPERTY SchedulerReturns
PROPERTY RoundRobin
