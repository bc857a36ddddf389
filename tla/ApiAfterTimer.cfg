\* thread_create called by running threads after machine_init_timers.
CONSTANTS
    THREAD_COUNT_MAX <- MCThreadCountMax
    MAX_THREAD_IDS <- MCMaxThreadIds
    CREATE_AFTER_TIMER = TRUE
    NULL = NULL
SPECIFICATION Spec
INVARIANT ActiveThreadRunnable
