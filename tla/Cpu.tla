-------------------------------- MODULE Cpu ---------------------------------
(***************************************************************************)
(* The CPU descriptor array of src/kern/cpu.c and the processor           *)
(* descriptors of src/kern/processor.c, as operators over their values:   *)
(* Boot holds them in variables and calls these from kernel_init's steps. *)
(*                                                                         *)
(* A descriptor keeps the fields the kernel reads back after boot: the    *)
(* processor backpointer, the active thread and stack, and the flags (a   *)
(* set of flag bits).  cpu_register copies a descriptor cpu_create has    *)
(* just zeroed, so it leaves these fields as the zeroed static array has  *)
(* them; which numbers it stored is Topology's `registered`.              *)
(***************************************************************************)
EXTENDS Integers, Sequences

CONSTANT CPU_NUMBER_MAX  \* cpu.h: DEFAULTS_MACHINE_MAX_CPUS

\* Pointers to zone objects are named by their slot in the zone, from 1;
\* NULL and THREAD_NULL are 0.
NULL == 0

CpuIds == 0 .. (CPU_NUMBER_MAX - 1)

CPU_FLAG_THREADING_ENABLED == 1

\* cpu_count is initialised to 0 and never written.
cpu_count == 0

\* The zeroed static CpuDataEntries.
CpuDataEntriesInit ==
    [i \in CpuIds |-> [processor |-> NULL, active_thread |-> NULL,
                       active_stack |-> NULL, flags |-> {}]]

\* Mutant: CPU_ASSERT_VALID_ID never fires.
CpuIdInvalidNever(id) == FALSE

\* CPU_ASSERT_VALID_ID panics when the id is above cpu_count.
CpuIdInvalid(id) == id > cpu_count

\* cpu_get_cpu: the descriptor at that index, unchecked.
cpu_get_cpu(e, id) == e[id]

\* The setters, once CPU_ASSERT_VALID_ID has passed.
cpu_set_processor(e, id, p) == [e EXCEPT ![id].processor = p]
cpu_set_active_thread(e, id, t) == [e EXCEPT ![id].active_thread = t]
cpu_set_active_stack(e, id, s) == [e EXCEPT ![id].active_stack = s]
cpu_set_flag(e, id, f) == [e EXCEPT ![id].flags = @ \cup {f}]

-----------------------------------------------------------------------------
(* processor.c                                                             *)

PROCESSOR_STATE_INACTIVE == 0
THREAD_PRIORITY_LOW == 0

primary_cpu_id == 0

\* processor_create: a zeroed processor_t from processor_zone, inactive,
\* with no threads, on cpu_id, appended to idle_processors.  A processor
\* is named by its position in processor_zone, which hands out its slots
\* in order at boot.
processor_create(idle, cpu_id) ==
    Append(idle, [cpu_id |-> cpu_id, state |-> PROCESSOR_STATE_INACTIVE,
                  active_thread |-> NULL, next_thread |-> NULL,
                  idle_thread |-> NULL, priority |-> THREAD_PRIORITY_LOW])
=============================================================================
