-------------------------------- MODULE Boot --------------------------------
(***************************************************************************)
(* kernel_init on the boot CPU from the device-tree walk to the interrupt *)
(* controller: platform_get_memory, arm_vm_init's kernel page tables       *)
(* (src/kern/vm/vm.c, built by Pmap), the topology parse and cpu_register *)
(* of Topology, then machine_init_interrupts (src/kern/machine/machine-irq.c), whose         *)
(* gic_interface_init sizes its redistributor search with the             *)
(* max_cpu_id the parse computed and looks for the frame whose affinity   *)
(* is the boot CPU's MPIDR.  The steps between them (cpu_init, the        *)
(* banner, vm_configure, zone_init) do not touch either state and are     *)
(* left out.                                                               *)
(*                                                                         *)
(* The hardware gives one redistributor per CPU node of the tree, with    *)
(* the node's reg as its affinity; the order of the frames in the GICR    *)
(* region is the machine's, so every order is a possible initial state.   *)
(***************************************************************************)
EXTENDS Topology

CONSTANTS GicVersion, Calls, MAX_GIC_CALLS,
          BootArgs   \* tBoot's struct boot_args, addresses in pages

VARIABLES gpc, gic_data, redist_id, redist_aff, waker, sgis, icc, gcalls, gret,
          pt,        \* the pagetables region and the tables in it
          kpc,       \* where kernel_init is after machine_init_interrupts
          cpu_entries,      \* CpuDataEntries
          idle_processors,  \* processor_zone's processors, in idle list order
          tasks, task_pid   \* task.c's task list and pid counter

G == INSTANCE Gic
P == INSTANCE Pmap
C == INSTANCE Cpu
K == INSTANCE Task

gvars == <<gpc, gic_data, redist_id, redist_aff, waker, sgis, icc, gcalls, gret>>

kvars == <<kpc, cpu_entries, idle_processors, tasks, task_pid>>

allvars == <<vars, gvars, pt, kvars>>

\* kernel_tte, arm_vm_init's first page of the region.
kernel_tte == 0

\* ptokva of pmap.h with the globals arm_vm_init sets from the boot args.
ptokva(p) == p - BootArgs.physbase + BootArgs.virtbase

\* The regions machine_init_interrupts maps, from its fixed GIC base
\* (0x8000000 at 0xffffffff11000000): GICD at +0 for 0x10000 bytes,
\* GICR at +0xa0000 for 0xf60000 bytes.
Gicd == [pbase |-> 32768, vbase |-> 133238784, size |-> 16]
Gicr == [pbase |-> 32928, vbase |-> 133238944, size |-> 3936]

\* The affinities of the CPUs the machine has: the reg of each cpu node.
CpuAffinities == {T.reg[n] : n \in {m \in DOMAIN T.kids : T.name[m] = "cpu"}}

BootInit ==
    /\ Init /\ G!GicInit(SetToSeqs(CpuAffinities)) /\ pt = P!PtInit
    /\ kpc = "interrupts" /\ cpu_entries = C!CpuDataEntriesInit
    /\ idle_processors = <<>> /\ tasks = <<>> /\ task_pid = 0

\* A step of the topology walk; the driver has not started, and the
\* parse waits for arm_vm_init.
TopologyStep == Next /\ (pc = "parse" => pt.init) /\ UNCHANGED <<gvars, pt, kvars>>

\* arm_vm_init, right after platform_get_memory (its assert on membase
\* and memsize is taken to hold): the region is created, kernel_tte and
\* invalid_tte are its first two pages, and the kernel (kernbase at
\* virtbase) and the console (uartbase at DEFAULTS_KERNEL_VM_PERIPH_BASE)
\* are mapped into kernel_tte.  The TTBR writes switch to these tables.
arm_vm_init ==
    LET roots == P!pmap_ptregion_alloc(P!pmap_ptregion_alloc(P!pmap_ptregion_create(pt)))
        kern == P!pmap_tt_create_tte(roots, kernel_tte, BootArgs.kernbase,
                                     BootArgs.virtbase, BootArgs.kernsize)
    IN
    /\ pc = "parse" /\ ~pt.init
    /\ pt' = P!pmap_tt_create_tte(kern, kernel_tte, BootArgs.uartbase,
                                  P!DEFAULTS_KERNEL_VM_PERIPH_BASE, BootArgs.uartsize)
    /\ UNCHANGED <<vars, gvars, kvars>>

\* machine_init_interrupts, once the boot CPU is registered: the GICD and
\* GICR regions are mapped into kernel_tte, then gic_interface_init's
\* frame setup and gic_dist_init.
machine_init_interrupts ==
    /\ pc = "done"
    /\ pt' = P!pmap_tt_create_tte(P!pmap_tt_create_tte(pt, kernel_tte, Gicd.pbase, Gicd.vbase, Gicd.size),
                                  kernel_tte, Gicr.pbase, Gicr.vbase, Gicr.size)
    /\ G!gic_dist_init
    /\ UNCHANGED <<vars, kvars>>

\* gic_redist_init reads machine_get_max_cpu_num() and MPIDR_EL1.
gic_redist_init == G!GicRedistInit(topo.max_cpu_id, machine.mpidr) /\ UNCHANGED <<vars, pt, kvars>>

GicStep ==
    /\ \/ G!GicRedistAwake
       \/ G!gic_cpuif_init
       \/ \E c \in Calls : G!gic_irq_register(c, machine.mpidr)
       \/ \E c \in Calls : G!gic_irq_control(c, machine.mpidr)
    /\ UNCHANGED <<vars, pt, kvars>>

HardwareStep == \E r \in G!Frames : G!RedistWake(r) /\ UNCHANGED <<vars, pt, kvars>>

-----------------------------------------------------------------------------
(* kernel_init after machine_init_interrupts, on the boot CPU.  A step    *)
(* that reaches a panic leaves kpc at "panic" and the CPU halted.         *)

\* The kernel thread and its stack are the first slots of thread_zone and
\* of the stack allocator; the primary processor is processor_zone's first.
KernelThread == 1
KernelStack == 1
PrimaryProcessor == 1

\* The "kernel_task" name passed by task_init.
KernelTaskNameLen == 11

\* boot_cpu_id, set from machine_get_boot_cpu_num() after the parse.
boot_cpu_id == cpus[topo.boot_cpu + 1].cpu_id

\* machine_get_cpu_num: MPIDR_TO_CPU_NUM of MPIDR_EL1; a topology entry
\* whose cpu_phys_id equals it must also be <= max_cpu_id.
CpuNumAsserts(n) ==
    \E i \in 1 .. topo.num_cpus : cpus[i].cpu_phys_id = n /\ n > topo.max_cpu_id
machine_get_cpu_num == BootCpuNum

\* processor_init: the processor, task and thread lists are emptied, the
\* primary processor is created for primary_cpu_id, and cpu_set_processor
\* installs it in that CPU's descriptor.
processor_init ==
    /\ kpc = "interrupts" /\ gpc = "done"
    /\ idle_processors' = C!processor_create(<<>>, C!primary_cpu_id)
    /\ tasks' = <<>>
    /\ IF C!CpuIdInvalid(C!primary_cpu_id)
       THEN kpc' = "panic" /\ UNCHANGED cpu_entries
       ELSE /\ kpc' = "task_init"
            /\ cpu_entries' = C!cpu_set_processor(cpu_entries, C!primary_cpu_id, PrimaryProcessor)
    /\ UNCHANGED task_pid

\* task_init: kernel_task is task_create(kernel map, "kernel_task").
task_init ==
    LET r == K!task_create(tasks, task_pid, KernelTaskNameLen) IN
    /\ kpc = "task_init"
    /\ tasks' = r.tasks /\ task_pid' = r.task_pid
    /\ kpc' = "thread_init"
    /\ UNCHANGED <<cpu_entries, idle_processors>>

\* kernel_thread_create(kernel_thread_main): its thread_create attaches the
\* kernel thread to kernel_task with task_assign_thread (the thread's own
\* fields and thread_zone are Sched's).
kernel_thread_create ==
    /\ kpc = "thread_init"
    /\ tasks' = K!task_assign_thread(tasks, 1, KernelThread)
    /\ kpc' = "sched_tail"
    /\ UNCHANGED <<cpu_entries, idle_processors, task_pid>>

\* thread_load_context ends in sched_tail(kernel thread): the current
\* CPU's descriptor gets the thread, then its stack, each through a
\* machine_get_cpu_num() and a CPU_ASSERT_VALID_ID.
sched_tail ==
    LET n == machine_get_cpu_num IN
    /\ kpc = "sched_tail"
    /\ IF CpuNumAsserts(n) \/ C!CpuIdInvalid(n)
       THEN kpc' = "panic" /\ UNCHANGED cpu_entries
       ELSE /\ kpc' = "kthread"
            /\ cpu_entries' = C!cpu_set_active_stack(
                   C!cpu_set_active_thread(cpu_entries, n, KernelThread), n, KernelStack)
    /\ UNCHANGED <<idle_processors, tasks, task_pid>>

\* kernel_thread_main: cpu_set_flag(boot_cpu_id, CPU_FLAG_THREADING_ENABLED).
kernel_thread_main ==
    /\ kpc = "kthread"
    /\ IF C!CpuIdInvalid(boot_cpu_id)
       THEN kpc' = "panic" /\ UNCHANGED cpu_entries
       ELSE /\ kpc' = "running"
            /\ cpu_entries' = C!cpu_set_flag(cpu_entries, boot_cpu_id, C!CPU_FLAG_THREADING_ENABLED)
    /\ UNCHANGED <<idle_processors, tasks, task_pid>>

KernelStep ==
    /\ \/ processor_init \/ task_init \/ kernel_thread_create
       \/ sched_tail \/ kernel_thread_main
    /\ UNCHANGED <<vars, gvars, pt>>

\* The boot CPU's steps.
CpuStep == TopologyStep \/ arm_vm_init \/ machine_init_interrupts \/ gic_redist_init \/ GicStep
           \/ KernelStep

BootNext == CpuStep \/ HardwareStep

\* The boot CPU runs alone with interrupts masked, and the redistributor
\* completes its wake-up once asked (GICv3 architecture, GICR_WAKER).
BootSpec == BootInit /\ [][BootNext]_allvars /\ WF_allvars(CpuStep) /\ WF_allvars(HardwareStep)

-----------------------------------------------------------------------------
(* Properties                                                              *)

\* gic_redist_init wakes the boot CPU's own redistributor: the search of
\* frames 0 .. max_cpu_id (gic_get_redist_id's do-while) finds the frame
\* whose GICR_TYPER affinity is arm64_read_affinity() of the boot MPIDR,
\* whatever order the machine puts the frames in, so neither the unchecked
\* waker write of irq-gicv3.c:146 nor __gic_irq_control's panic is ever
\* reached.  This needs the topology parse to count every core and the
\* driver's loop bound and affinity computation to agree with it.
RedistFound ==
    /\ gpc \notin {"wild", "panic"}
    /\ gpc \in {"redist_wait", "cpuif", "done"} =>
           redist_aff[redist_id + 1] = G!arm64_read_affinity(machine.mpidr)

\* Once the boot CPU is registered, gic_interface_init returns: the poll
\* of GICR_WAKER.ChildrenAsleep at irq-gicv3.c:152 ends because
\* ProcessorSleep was cleared on that same frame, and the GIC is marked
\* initialised with its redistributor awake.
InterruptsConfigured ==
    (pc = "done") ~> (gic_data.initialised /\ ~waker[redist_id].ca)

\* Every address the kernel reaches memory through once its tables are
\* live translates to the physical page it means: the kernel image
\* through ptokva (which the tables' own descent at pmap.c:134, vm_page
\* and the zones rely on), the console at DEFAULTS_KERNEL_VM_PERIPH_BASE,
\* and after machine_init_interrupts the GICD and GICR frames.  The
\* kernel is mapped at virtbase from kernbase, not at ptokva(kernbase),
\* and its block entries keep the bits below 2 MB; the walk agrees only
\* if the block rounding lands every such address on its frame, and
\* the GIC mappings must reuse the level-2 table the console's left in
\* their shared level-1 slot.
KernelImage == [pbase |-> BootArgs.kernbase, vbase |-> ptokva(BootArgs.kernbase),
                size |-> BootArgs.kernsize]
Console == [pbase |-> BootArgs.uartbase, vbase |-> P!DEFAULTS_KERNEL_VM_PERIPH_BASE,
            size |-> BootArgs.uartsize]
Reached == (IF pt.init THEN {KernelImage, Console} ELSE {})
               \cup (IF gpc # "off" THEN {Gicd, Gicr} ELSE {})

MappingsTranslate == \A r \in Reached : P!MapsTo(pt, kernel_tte, r)

\* Once kernel_thread_main has set the threading flag, the descriptor
\* cpu_get_current() returns (CpuDataEntries[machine_get_cpu_num()]) is
\* the one boot set up: its active thread is the kernel thread sched_tail
\* installed, its processor is the primary processor, whose cpu_id is this
\* CPU, and it carries CPU_FLAG_THREADING_ENABLED.  The three writers index
\* the array three ways: processor_init by primary_cpu_id (0), sched_tail
\* by MPIDR, kernel_thread_main by the topology's boot_cpu_id, so on a
\* machine booting from a core other than 0 they only agree because
\* CPU_ASSERT_VALID_ID's check against cpu_count (never raised from 0)
\* panics first.
CurrentCpuConsistent ==
    kpc = "running" =>
        LET n == machine_get_cpu_num
            cur == C!cpu_get_cpu(cpu_entries, n)   \* cpu_get_current()
        IN
        /\ n \in DOMAIN cpu_entries
        /\ cur.active_thread = KernelThread
        /\ cur.processor = PrimaryProcessor
        /\ idle_processors[PrimaryProcessor].cpu_id = n
        /\ C!CPU_FLAG_THREADING_ENABLED \in cur.flags

\* The enable bits a call leaves on the boot CPU's redistributor, as the
\* driver describes its API: SGIs and PPIs are INTIDs 0-31
\* (irq-gicv3.c:62) and are configured on the redistributor (:244);
\* gic_irq_register and gic_irq_enable enable the one INTID,
\* gic_irq_disable disables it.
Documented(c, en) ==
    CASE c.intid > 31 -> en
      [] c.op \in {"register", "enable"} -> en \cup {c.intid}
      [] c.op = "disable" -> en \ {c.intid}

\* Each register, enable or disable call changes exactly its own INTID's
\* enable bit.  GicApi.cfg shows it fails twice over: PPI 31 is refused by
\* the intid < 31 tests (irq-gicv3.c:213, :248), and the disable path's
\* icenabler[0] |= id (:229) writes back every enabled bit to the
\* clear-enable register, so disabling one interrupt disables them all.
\* The kernel itself never calls gic_irq_disable or passes 31.
IrqControlAsDocumented ==
    [][\A c \in Calls :
          (G!gic_irq_register(c, machine.mpidr) \/ G!gic_irq_control(c, machine.mpidr))
              => sgis'[redist_id].enabled = Documented(c, sgis[redist_id].enabled)]_allvars
=============================================================================
