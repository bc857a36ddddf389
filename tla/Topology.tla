------------------------------ MODULE Topology ------------------------------
(***************************************************************************)
(* The boot CPU's walk of the device tree in kernel_init (src/kern/main.c *)
(* 112-137): DeviceTreeInit, platform_get_memory, and                      *)
(* machine_parse_cpu_topology (src/kern/machine.c) with its search of     *)
(* /cpus for cpu-map and its two nested iterator loops, then the boot     *)
(* CPU's registration.  One step is one statement group or one iteration *)
(* of a loop.  The tree and the boot CPU's MPIDR are inputs: a machine is *)
(* a record [tree, mpidr].                                                 *)
(***************************************************************************)
EXTENDS Integers, Sequences, SequencesExt, Bitwise

CONSTANTS
    Machines,       \* the [tree, mpidr] pairs the kernel may boot on
    MAX_CPUS,       \* DEFAULTS_MACHINE_MAX_CPUS: size of cpus[]
    MAX_CLUSTERS    \* DEFAULTS_MACHINE_MAX_CPU_CLUSTERS: size of clusters[]

DT == INSTANCE DeviceTree

\* CPU_NUMBER_MAX is DEFAULTS_MACHINE_MAX_CPUS (cpu.h).
CPU_NUMBER_MAX == MAX_CPUS

NONE == -1

\* The DTNode, iterator and cluster locals before their first assignment
\* (the code never reads them before it).
NoNode == [offset |-> DT!NOTFOUND, name |-> "", nChildren |-> 0, nProperties |-> 0]
NoIter == [baseNode |-> NoNode, currentNode |-> NoNode, count |-> 0, index |-> 0]
NoCluster == [cluster_id |-> 0, num_cpus |-> 0]

VARIABLES
    machine,        \* the machine booted: its tree and boot MPIDR number
    initialised,    \* BootDeviceTree.initialised
    regSwapped,     \* the /memory reg cells in the blob are byte-swapped
    pc,             \* where the boot CPU is
    parent, iter, node, subiter, cluster,   \* machine_parse_cpu_topology's locals
    topo,           \* topology_info's counters and boot pointers
    cpus,           \* cpus[0 .. num_cpus-1]
    clusters,       \* clusters[0 .. num_clusters-1]
    registered      \* CpuDataEntries: the cpu numbers cpu_register stored

vars == <<machine, initialised, regSwapped, pc, parent, iter, node, subiter,
          cluster, topo, cpus, clusters, registered>>

T == machine.tree

\* The affinity fields of MPIDR_EL1 (proc_reg.h).
MPIDR_AFF1_SHIFT == 8
MPIDR_AFF0_SHIFT == 0
MPIDR_AFF1_MASK == (2^8 - 1) * 2^MPIDR_AFF1_SHIFT
MPIDR_AFF0_MASK == (2^8 - 1) * 2^MPIDR_AFF0_SHIFT

\* machine.c: the CPU number is the Aff1 and Aff0 fields of MPIDR_EL1.
MPIDR_TO_CPU_NUM(mpidr) == mpidr & (MPIDR_AFF1_MASK | MPIDR_AFF0_MASK)

\* boot_cpu in machine_parse_cpu_topology.
BootCpuNum == MPIDR_TO_CPU_NUM(machine.mpidr)

\* CPU_ASSERT_VALID in cpu_register: a cpu number past the array panics.
CpuRegisterPanics(n) == n >= CPU_NUMBER_MAX

\* machine_read_prop is a stub that reads nothing and returns 0.
machine_read_prop(node_, prop) == 0

\* kernel_init starts with cpu_create(&boot_cpu): a zeroed descriptor
\* numbered machine_get_cpu_num() (MPIDR's number; the topology is still
\* empty, so nothing is compared) goes through cpu_register, whose
\* CPU_ASSERT_VALID panics on a number past the array.
CpuCreate ==
    IF CpuRegisterPanics(BootCpuNum)
    THEN pc = "panic" /\ registered = {}
    ELSE pc = "dt_init" /\ registered = {BootCpuNum}

Init ==
    /\ machine \in Machines
    /\ initialised = FALSE
    /\ regSwapped = FALSE
    /\ parent = NoNode /\ iter = NoIter /\ node = NoNode /\ subiter = NoIter
    /\ cluster = NoCluster
    /\ topo = [num_cpus |-> 0, num_clusters |-> 0, max_cpu_id |-> 0,
               max_cluster_id |-> 0, boot_cpu |-> NONE, boot_cluster |-> NONE]
    /\ cpus = <<>> /\ clusters = <<>>
    /\ CpuCreate

\* DeviceTreeInit: the header check, then the root node; its result is
\* not checked by kernel_init.
DeviceTreeInit ==
    /\ pc = "dt_init"
    /\ initialised' = (DT!DeviceTreeLookupNode(T, <<>>).res = DT!kDeviceTreeSuccess)
    /\ pc' = "memory"
    /\ UNCHANGED <<machine, regSwapped, parent, iter, node, subiter, cluster,
                   topo, cpus, clusters, registered>>

\* platform_get_memory: assert that /memory exists, then
\* DeviceTreeLookupRegValue, which bswap_32's the reg cells in place in the
\* blob before combining them.
PlatformGetMemory ==
    /\ pc = "memory"
    /\ IF DT!DeviceTreeLookupNode(T, <<"memory">>).res # DT!kDeviceTreeSuccess
       THEN pc' = "panic" /\ UNCHANGED regSwapped
       ELSE pc' = "parse" /\ regSwapped' = DT!DeviceTreeLookupRegValue(regSwapped)
    /\ UNCHANGED <<machine, initialised, parent, iter, node, subiter, cluster,
                   topo, cpus, clusters, registered>>

\* machine_parse_cpu_topology, the libfdt workaround: look up /cpus
\* (asserted) and start an iterator over its children.
ParseBegin ==
    LET r == DT!DeviceTreeLookupNode(T, <<"cpus">>) IN
    /\ pc = "parse"
    /\ IF r.res # DT!kDeviceTreeSuccess
       THEN pc' = "panic" /\ UNCHANGED <<parent, iter>>
       ELSE /\ parent' = r.node
            /\ iter' = DT!DeviceTreeIteratorInit(r.node)
            /\ pc' = "find_map"
    /\ UNCHANGED <<machine, initialised, regSwapped, node, subiter, cluster,
                   topo, cpus, clusters, registered>>

\* One iteration of the search for cpu-map: a child named cpu-map becomes
\* the parent.  When the children are exhausted, an iterator over the
\* parent's children (the clusters) starts and the counters are reset.
FindMapStep ==
    LET s == DT!DeviceTreeIterateNodes(T, iter) IN
    /\ pc = "find_map"
    /\ IF s.res = DT!kDeviceTreeSuccess
       THEN /\ iter' = s.iter
            /\ node' = s.iter.currentNode
            /\ parent' = IF node'.name = "cpu-map" THEN node' ELSE parent
            /\ UNCHANGED <<pc, topo>>
       ELSE /\ iter' = DT!DeviceTreeIteratorInit(parent)
            /\ topo' = [topo EXCEPT !.num_clusters = 0, !.num_cpus = 0]
            /\ pc' = "clusters"
            /\ UNCHANGED <<node, parent>>
    /\ UNCHANGED <<machine, initialised, regSwapped, subiter, cluster, cpus,
                   clusters, registered>>

\* One iteration of the cluster loop: a new cluster record and an iterator
\* over the cluster's children.  After the last cluster, the arrays are
\* published and boot_cpu is asserted non-NULL.
ClusterStep ==
    LET s == DT!DeviceTreeIterateNodes(T, iter) IN
    /\ pc = "clusters"
    /\ IF s.res = DT!kDeviceTreeSuccess
       THEN /\ iter' = s.iter
            /\ node' = s.iter.currentNode
            /\ cluster' = [cluster_id |-> topo.num_clusters, num_cpus |-> 0]
            /\ subiter' = DT!DeviceTreeIteratorInit(node')
            /\ pc' = "cores"
       ELSE /\ pc' = IF topo.boot_cpu = NONE THEN "panic" ELSE "boot_cpu"
            /\ UNCHANGED <<iter, node, cluster, subiter>>
    /\ UNCHANGED <<machine, initialised, regSwapped, parent, topo, cpus,
                   clusters, registered>>

\* Mutant: the boot pointer is taken after num_cpus is incremented.
BootSlotAfterCount(id) == id + 1

\* topology_info.boot_cpu = &cpus[topology_info.num_cpus]: the slot the
\* cpu being parsed is stored in.
BootSlot(id) == id

\* One iteration of the cpu loop: the next logical id, its cluster, a
\* physical id from machine_read_prop (which returns 0), and the boot
\* pointers when the logical id equals the boot CPU's MPIDR number.  After
\* the last cpu the cluster is stored and counted.
CoreStep ==
    LET s == DT!DeviceTreeIterateNodes(T, subiter)
        id == topo.num_cpus
    IN
    /\ pc = "cores"
    /\ IF s.res = DT!kDeviceTreeSuccess
       THEN /\ subiter' = s.iter
            /\ cpus' = Append(cpus, [cpu_id |-> id, cluster_id |-> cluster.cluster_id,
                                     cpu_phys_id |-> machine_read_prop(s.iter.currentNode, "reg")])
            /\ topo' = [topo EXCEPT
                          !.max_cpu_id = IF id > @ THEN id ELSE @,
                          !.boot_cpu = IF id = BootCpuNum THEN BootSlot(id) ELSE @,
                          !.boot_cluster = IF id = BootCpuNum THEN topo.num_clusters ELSE @,
                          !.num_cpus = @ + 1]
            /\ cluster' = [cluster EXCEPT !.num_cpus = @ + 1]
            /\ UNCHANGED <<pc, clusters>>
       ELSE /\ clusters' = Append(clusters, cluster)
            /\ topo' = [topo EXCEPT
                          !.num_clusters = @ + 1,
                          !.max_cluster_id = IF cluster.cluster_id > @
                                             THEN cluster.cluster_id ELSE @]
            /\ pc' = "clusters"
            /\ UNCHANGED <<subiter, cpus, cluster>>
    /\ UNCHANGED <<machine, initialised, regSwapped, parent, iter, node, registered>>

\* kernel_init after the parse: boot_cpu.cpu_num is the boot entry's
\* cpu_id, asserted <= max_cpu_id; cpu_register asserts it is below
\* CPU_NUMBER_MAX and stores the descriptor at that index.
BootCpuRegister ==
    LET n == cpus[topo.boot_cpu + 1].cpu_id IN
    /\ pc = "boot_cpu"
    /\ IF n > topo.max_cpu_id \/ CpuRegisterPanics(n)
       THEN pc' = "panic" /\ UNCHANGED registered
       ELSE pc' = "done" /\ registered' = registered \cup {n}
    /\ UNCHANGED <<machine, initialised, regSwapped, parent, iter, node, subiter,
                   cluster, topo, cpus, clusters>>

\* The boot CPU goes on to vm_configure, or sits in panic's halt loop.
Finished == pc \in {"done", "panic"} /\ UNCHANGED vars

Next ==
    \/ DeviceTreeInit
    \/ PlatformGetMemory
    \/ ParseBegin
    \/ FindMapStep
    \/ ClusterStep
    \/ CoreStep
    \/ BootCpuRegister
    \/ Finished

\* The boot CPU runs alone with interrupts masked: each enabled step is
\* eventually taken.
Spec == Init /\ [][Next]_vars /\ WF_vars(Next)

-----------------------------------------------------------------------------
(* Properties                                                              *)

CpuRec == [cpu_id : Nat, cluster_id : Nat, cpu_phys_id : Nat]
ClusterRec == [cluster_id : Nat, num_cpus : Nat]

\* cpus[] and clusters[] are static arrays of MAX_CPUS and MAX_CLUSTERS.
TypeOK ==
    /\ pc \in {"dt_init", "memory", "parse", "find_map", "clusters", "cores",
               "boot_cpu", "done", "panic"}
    /\ cpus \in Seq(CpuRec) /\ Len(cpus) <= MAX_CPUS
    /\ clusters \in Seq(ClusterRec) /\ Len(clusters) <= MAX_CLUSTERS
    /\ topo.num_cpus \in 0 .. MAX_CPUS /\ topo.num_clusters \in 0 .. MAX_CLUSTERS
    /\ registered \subseteq 0 .. (CPU_NUMBER_MAX - 1)

\* Reference: the cpu-map node the workaround is meant to find under
\* /cpus, its children as clusters and theirs as cpus, numbered in order.
CpusNode == DT!fdt_path_offset(T, <<"cpus">>)
\* A blob the header check accepts, with a cpu-map under /cpus.
WellFormed ==
    T.valid /\ \E m \in DOMAIN T.kids : T.name[m] = "cpu-map" /\ Contains(T.kids[CpusNode], m)
CpuMapNode == CHOOSE m \in DOMAIN T.kids : T.name[m] = "cpu-map" /\ Contains(T.kids[CpusNode], m)
ClusterNodes == T.kids[CpuMapNode]
ClusterOfCpu ==
    FlattenSeq([i \in 1 .. Len(ClusterNodes) |->
                   [j \in 1 .. Len(T.kids[ClusterNodes[i]]) |-> i - 1]])
CoreNodes == FlattenSeq([i \in 1 .. Len(ClusterNodes) |-> T.kids[ClusterNodes[i]]])

\* The core whose cpu phandle names the node with the boot CPU's affinity
\* as its reg: the boot CPU, as spec section 5 identifies it.
BootCore == CHOOSE k \in 1 .. Len(CoreNodes) : T.reg[T.cpu[CoreNodes[k]]] = BootCpuNum

\* Spec section 2 and the topology paragraph: the parse numbers the cores
\* under /cpus/cpu-map 0, 1, ... in tree order with the index of their
\* cluster, counts each cluster's cores, and points boot_cpu and
\* boot_cluster at the entries of the core that is the boot CPU.  This
\* needs the search loop to keep the cpu-map child, the iterator to visit
\* each child once in order (first subnode, then next siblings, for the
\* cached count), both loops to count and store in the right places, and
\* the logical id the code compares with MPIDR to be the core's affinity.
\* A malformed tree never gets this far.
TopologyMatchesTree ==
    pc \in {"boot_cpu", "done"} =>
        /\ WellFormed
        /\ Len(cpus) = Len(ClusterOfCpu)
        /\ \A k \in 1 .. Len(cpus) :
              cpus[k].cpu_id = k - 1 /\ cpus[k].cluster_id = ClusterOfCpu[k]
        /\ clusters = [i \in 1 .. Len(ClusterNodes) |->
                         [cluster_id |-> i - 1, num_cpus |-> Len(T.kids[ClusterNodes[i]])]]
        /\ topo.num_cpus = Len(cpus) /\ topo.num_clusters = Len(clusters)
        /\ topo.boot_cpu = BootCore - 1
        /\ topo.boot_cluster = ClusterOfCpu[BootCore]

\* kernel_init's walk ends.  On a well-formed tree that boots from a core
\* of its first cluster, both iterator loops terminate, no assert fires
\* and the second cpu_register (main.c:134, the topology's cpu_id) stores
\* the same entry as cpu_create's first (MPIDR's number), so
\* CpuDataEntries holds one boot descriptor; on a malformed blob, whose
\* DeviceTreeInit result nobody checks, or without a cpu-map, an assert
\* halts the boot rather than letting it go on without a topology.
BootCpuRegistered ==
    /\ WellFormed => <>(pc = "done" /\ registered = {BootCpuNum})
    /\ ~WellFormed => <>(pc = "panic")
=============================================================================
