CONSTANTS
    MAX_CPUS = 3
    MAX_CLUSTERS = 2
    Machines <- MCMachines
    GicVersion = 3
    BootArgs <- MCBootArgs
    Calls <- MCCalls
    MAX_GIC_CALLS = 2
SPECIFICATION BootSpec
INVARIANTS TypeOK TopologyMatchesTree RedistFound MappingsTranslate CurrentCpuConsistent
PROPERTIES BootCpuRegistered InterruptsConfigured
