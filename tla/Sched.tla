-------------------------------- MODULE Sched --------------------------------
(***************************************************************************)
(* Threads, their zones and the timer-driven scheduler of the Monix kernel *)
(* on its single boot CPU:                                                 *)
(*                                                                         *)
(*   src/kern/thread.c     thread_create, thread_destroy,                 *)
(*                         kernel_thread_create, context save/load         *)
(*   src/kern/task.c       task_assign_thread (kernel task sibling list)   *)
(*   src/kern/mm/stack.c   stack_alloc, stack_free                         *)
(*   src/kern/sched.c      __select_thread, __schedule, sched_tail         *)
(*   src/kern/exception.c  arm64_handler_irq (timer tick)                  *)
(*   src/kern/main.c       kernel_thread_main (machine_init_timers)        *)
(*                                                                         *)
(* A thread is named by its slot in thread_zone.  The thread running on   *)
(* the CPU executes kernel code that may call thread_create and           *)
(* thread_destroy; thread_create runs with interrupts unmasked, so it is  *)
(* split at the statements between which the timer may preempt it.       *)
(* thread_destroy masks interrupts for its whole body and the IRQ handler *)
(* runs masked, so each of them is one action (the retry loop of          *)
(* __schedule excepted, which is its own action).                         *)
(***************************************************************************)
EXTENDS Integers, Sequences, SequencesExt, FiniteSets

CONSTANTS
    THREAD_COUNT_MAX,    \* thread.h THREAD_COUNT_MAX: slots of thread_zone and stacks_zone
    MAX_THREAD_IDS,      \* bound on thread_id_max, i.e. on thread_create calls
    CREATE_AFTER_TIMER,  \* may a running thread call thread_create once the timer ticks?
    NULL

ASSUME THREAD_COUNT_MAX \in Nat \ {0} /\ MAX_THREAD_IDS \in Nat
ASSUME CREATE_AFTER_TIMER \in BOOLEAN

Z == INSTANCE Zalloc

Slots == 1..THREAD_COUNT_MAX

\* thread.h THREAD_STATE_INACTIVE / THREAD_STATE_ACTIVE
INACTIVE == 0
ACTIVE == 1

\* Program locations of a thread: "none" (no thread in the slot), "body"
\* (running its own code), and the points inside thread_create at which
\* the timer may preempt it.
CreatePcs == {"c_move", "c_id", "c_idinc", "c_stack", "c_assign", "c_link", "c_activate"}
Pcs == {"none", "body"} \cup CreatePcs

VARIABLES
    threads,      \* the global `threads` list (processor.c), head first
    siblings,     \* kernel_task->threads, linked through thread->siblings
    tstate,       \* thread->state of the thread structure in each slot
    tid,          \* thread->thread_id of each slot
    threadIdMax,  \* thread.c thread_id_max
    tzone,        \* thread_zone
    szone,        \* stacks_zone
    kthread,      \* slot of the kernel thread made by kernel_thread_create
    active,       \* CpuDataEntries[boot cpu].cpu_active_thread
    timerOn,      \* machine_init_timers has registered and started the timer
    sched,        \* the IRQ handler in __schedule: [phase, thread, next]
    panicked,     \* panic() was called; the CPU spins in cpu_halt
    pc,           \* program location of each thread
    meta,         \* zalloc's local `meta` inside each thread's thread_create
    newt,         \* thread_create's local `thread` of each creating thread
    handles       \* thread pointers returned by thread_create to callers

vars == <<threads, siblings, tstate, tid, threadIdMax, tzone, szone, kthread,
          active, timerOn, sched, panicked, pc, meta, newt, handles>>

-----------------------------------------------------------------------------
(* Helpers                                                                 *)

\* The IRQ handler is not inside __schedule.
SchedIdle == [phase |-> "idle", thread |-> NULL, next |-> NULL]

\* The kernel has stopped: panic, or a zone handed out its own list head
\* and every later list operation works on corrupted memory.
Halted == panicked \/ tzone.corrupt \/ szone.corrupt

\* Index of thread t in the global list.
Pos(t) == CHOOSE i \in 1..Len(threads) : threads[i] = t

\* Mutant: the selection never advances past the head of the list.
SelectThreadHead(t) == IF ~Contains(threads, t) THEN NULL ELSE Head(threads)

\* __select_thread: the successor of t in the global list, wrapping to the
\* first entry after the last.  A thread no longer on the list has had its
\* list node cleared by list_del and zeroed by zfree: its `next` is 0 and
\* the container_of result faults (NULL here; no action of the
\* model continues from it).
SelectThread(t) ==
    IF ~Contains(threads, t) THEN NULL
    ELSE IF Pos(t) = Len(threads) THEN Head(threads)
    ELSE threads[Pos(t) + 1]

\* stack_alloc: zalloc(stack_zone), vm_map_alloc of the guarded stack and
\* list_add_tail onto `stacks`, one step.
StackAlloc(sz) == Z!ZallocMove(sz, Z!ZallocFirst(sz))

\* stack_free: the loop over `stacks` compares the address of each stack_t
\* descriptor (in stacks_zone) with thread->stack_base (the vm_map_alloc'd
\* stack).  The two live in different allocations and never compare equal,
\* so zfree(stack_zone, ...) is never reached.
StackFreeMatches(sz, t) == FALSE
StackFree(sz, t) == IF StackFreeMatches(sz, t) THEN Z!Zfree(sz, t) ELSE sz

\* The thread running kernel code: on the CPU, not inside the IRQ handler.
Running(self) ==
    /\ ~Halted
    /\ active = self
    /\ sched.phase = "idle"

\* Who may call thread_create: kernel_thread_main before machine_init_timers,
\* and, when CREATE_AFTER_TIMER, any running thread afterwards.
MayCreate == ~timerOn \/ CREATE_AFTER_TIMER

-----------------------------------------------------------------------------
(* Boot                                                                    *)

\* State on entry to kernel_thread_create in kernel_init: zone_init,
\* processor_init (empty thread list), task_init (kernel task), thread_init
\* (thread_zone) and stack_init (stacks_zone) have run.  The thread
\* structures in a fresh zone are uninitialised memory, so their state bit
\* is either value.
Init ==
    /\ threads = <<>>
    /\ siblings = <<>>
    /\ tstate \in [Slots -> {INACTIVE, ACTIVE}]
    /\ tid = [s \in Slots |-> 0]
    /\ threadIdMax = 0
    /\ tzone = Z!ZoneCreate(THREAD_COUNT_MAX)
    /\ szone = Z!ZoneCreate(THREAD_COUNT_MAX)
    /\ kthread = NULL
    /\ active = NULL
    /\ timerOn = FALSE
    /\ sched = SchedIdle
    /\ panicked = FALSE
    /\ pc = [s \in Slots |-> "none"]
    /\ meta = [s \in Slots |-> NULL]
    /\ newt = [s \in Slots |-> NULL]
    /\ handles = {}

\* kernel_thread_create (thread_create on the kernel task, state ACTIVE)
\* followed by thread_load_context, whose __fork64_return runs sched_tail:
\* the kernel thread becomes the CPU's active thread and interrupts are
\* unmasked.  Interrupts are masked throughout kernel_init, so this is one
\* step.  It is the first thread_create, so the id-0 check never panics.
KernelThreadCreate ==
    LET t == Z!ZallocFirst(tzone) IN
    /\ active = NULL
    /\ ~Halted
    /\ tzone' = Z!ZallocMove(tzone, t)
    /\ tid' = [tid EXCEPT ![t] = threadIdMax]
    /\ threadIdMax' = threadIdMax + 1
    /\ szone' = StackAlloc(szone)
    /\ siblings' = Append(siblings, t)
    /\ threads' = Append(threads, t)
    /\ tstate' = [tstate EXCEPT ![t] = ACTIVE]
    /\ pc' = [pc EXCEPT ![t] = "body"]
    /\ kthread' = t
    /\ active' = t
    /\ UNCHANGED <<timerOn, sched, panicked, meta, newt, handles>>

-----------------------------------------------------------------------------
(* thread_create, called by the running thread `self`                      *)

\* zalloc(thread_zone): meta = list_first_entry(&zone->free_elems, ...)
ThreadCreateBegin(self) ==
    /\ Running(self)
    /\ pc[self] = "body"
    /\ MayCreate
    /\ threadIdMax < MAX_THREAD_IDS
    /\ meta' = [meta EXCEPT ![self] = Z!ZallocFirst(tzone)]
    /\ pc' = [pc EXCEPT ![self] = "c_move"]
    /\ UNCHANGED <<threads, siblings, tstate, tid, threadIdMax, tzone, szone,
                   kthread, active, timerOn, sched, panicked, newt, handles>>

\* zalloc: list_move onto used_elems, count updates, return the element.
ThreadCreateMove(self) ==
    /\ Running(self)
    /\ pc[self] = "c_move"
    /\ tzone' = Z!ZallocMove(tzone, meta[self])
    /\ newt' = [newt EXCEPT ![self] = meta[self]]
    /\ pc' = [pc EXCEPT ![self] = "c_id"]
    /\ UNCHANGED <<threads, siblings, tstate, tid, threadIdMax, szone, kthread,
                   active, timerOn, sched, panicked, meta, handles>>

\* thread->thread_id = thread_id_max;
ThreadCreateId(self) ==
    /\ Running(self)
    /\ pc[self] = "c_id"
    /\ tid' = [tid EXCEPT ![newt[self]] = threadIdMax]
    /\ pc' = [pc EXCEPT ![self] = "c_idinc"]
    /\ UNCHANGED <<threads, siblings, tstate, threadIdMax, tzone, szone, kthread,
                   active, timerOn, sched, panicked, meta, newt, handles>>

\* Mutant: the increment of thread_id_max is lost.
ThreadCreateIdIncLost(self) ==
    /\ Running(self)
    /\ pc[self] = "c_idinc"
    /\ pc' = [pc EXCEPT ![self] = "c_stack"]
    /\ UNCHANGED <<threads, siblings, tstate, tid, threadIdMax, tzone, szone, kthread,
                   active, timerOn, sched, panicked, meta, newt, handles>>

\* thread_id_max += 1;
ThreadCreateIdInc(self) ==
    /\ Running(self)
    /\ pc[self] = "c_idinc"
    /\ threadIdMax' = threadIdMax + 1
    /\ pc' = [pc EXCEPT ![self] = "c_stack"]
    /\ UNCHANGED <<threads, siblings, tstate, tid, tzone, szone, kthread,
                   active, timerOn, sched, panicked, meta, newt, handles>>

\* stack_alloc(thread) and thread_init_context: the new thread gets a
\* stack and its entry point, from which it starts when first scheduled.
ThreadCreateStack(self) ==
    /\ Running(self)
    /\ pc[self] = "c_stack"
    /\ szone' = StackAlloc(szone)
    /\ pc' = [pc EXCEPT ![newt[self]] = "body", ![self] = "c_assign"]
    /\ UNCHANGED <<threads, siblings, tstate, tid, threadIdMax, tzone, kthread,
                   active, timerOn, sched, panicked, meta, newt, handles>>

\* task_assign_thread(parent_task, thread): list_add_tail on the siblings.
ThreadCreateAssign(self) ==
    /\ Running(self)
    /\ pc[self] = "c_assign"
    /\ siblings' = Append(siblings, newt[self])
    /\ pc' = [pc EXCEPT ![self] = "c_link"]
    /\ UNCHANGED <<threads, tstate, tid, threadIdMax, tzone, szone, kthread,
                   active, timerOn, sched, panicked, meta, newt, handles>>

\* list_add_tail(&thread->threads, &threads) and thread_set_name.
ThreadCreateLink(self) ==
    /\ Running(self)
    /\ pc[self] = "c_link"
    /\ threads' = Append(threads, newt[self])
    /\ pc' = [pc EXCEPT ![self] = "c_activate"]
    /\ UNCHANGED <<siblings, tstate, tid, threadIdMax, tzone, szone, kthread,
                   active, timerOn, sched, panicked, meta, newt, handles>>

\* Mutant: thread_create returns without setting the state ACTIVE.
ThreadCreateActivateMissing(self) ==
    /\ Running(self)
    /\ pc[self] = "c_activate"
    /\ handles' = handles \cup {newt[self]}
    /\ meta' = [meta EXCEPT ![self] = NULL]
    /\ newt' = [newt EXCEPT ![self] = NULL]
    /\ pc' = [pc EXCEPT ![self] = "body"]
    /\ UNCHANGED <<threads, siblings, tstate, tid, threadIdMax, tzone, szone, kthread,
                   active, timerOn, sched, panicked>>

\* Mutant: the local `thread` is cleared before it is published and returned.
ThreadCreateActivateCleared(self) ==
    LET cleared == [newt EXCEPT ![self] = NULL] IN
    /\ Running(self)
    /\ pc[self] = "c_activate"
    /\ tstate' = [tstate EXCEPT ![newt[self]] = ACTIVE]
    /\ handles' = handles \cup {cleared[self]}
    /\ meta' = [meta EXCEPT ![self] = NULL]
    /\ newt' = cleared
    /\ pc' = [pc EXCEPT ![self] = "body"]
    /\ UNCHANGED <<threads, siblings, tid, threadIdMax, tzone, szone, kthread,
                   active, timerOn, sched, panicked>>

\* thread->state = THREAD_STATE_ACTIVE; return thread.
ThreadCreateActivate(self) ==
    /\ Running(self)
    /\ pc[self] = "c_activate"
    /\ tstate' = [tstate EXCEPT ![newt[self]] = ACTIVE]
    /\ handles' = handles \cup {newt[self]}
    /\ meta' = [meta EXCEPT ![self] = NULL]
    /\ newt' = [newt EXCEPT ![self] = NULL]
    /\ pc' = [pc EXCEPT ![self] = "body"]
    /\ UNCHANGED <<threads, siblings, tid, threadIdMax, tzone, szone, kthread,
                   active, timerOn, sched, panicked>>

-----------------------------------------------------------------------------
(* thread_destroy(t), called by the running thread `self`; interrupts are  *)
(* masked by thread_block for the whole body.                              *)

\* The target is the active thread: panic("cannot destroy active thread").
ThreadDestroyActive(self, t) ==
    /\ Running(self)
    /\ pc[self] = "body"
    /\ t = active
    /\ panicked' = TRUE
    /\ UNCHANGED <<threads, siblings, tstate, tid, threadIdMax, tzone, szone,
                   kthread, active, timerOn, sched, pc, meta, newt, handles>>

\* Mutant: thread_destroy forgets list_del(&thread->threads).
ThreadDestroyKeepsListed(self, t) ==
    /\ Running(self)
    /\ pc[self] = "body"
    /\ t # active
    /\ siblings' = Remove(siblings, t)
    /\ szone' = StackFree(szone, t)
    /\ tzone' = Z!Zfree(tzone, t)
    /\ tstate' = [tstate EXCEPT ![t] = INACTIVE]
    /\ tid' = [tid EXCEPT ![t] = 0]
    /\ handles' = handles \ {t}
    /\ pc' = [pc EXCEPT ![t] = "none"]
    /\ meta' = [meta EXCEPT ![t] = NULL]
    /\ newt' = [newt EXCEPT ![t] = NULL]
    /\ UNCHANGED <<threads, threadIdMax, kthread, active, timerOn, sched, panicked>>

\* Mutant: thread_destroy without the check against the active thread.
ThreadDestroyNoActiveCheck(self, t) ==
    /\ Running(self)
    /\ pc[self] = "body"
    /\ siblings' = Remove(siblings, t)
    /\ threads' = Remove(threads, t)
    /\ szone' = StackFree(szone, t)
    /\ IF Z!ZfreePanics(tzone, t)
       THEN /\ panicked' = TRUE
            /\ UNCHANGED <<tzone, tid>>
            /\ tstate' = [tstate EXCEPT ![t] = INACTIVE]
       ELSE /\ tzone' = Z!Zfree(tzone, t)
            /\ tstate' = [tstate EXCEPT ![t] = INACTIVE]
            /\ tid' = IF Z!ZfreeFound(tzone, t) THEN [tid EXCEPT ![t] = 0] ELSE tid
            /\ UNCHANGED panicked
    /\ handles' = handles \ {t}
    /\ pc' = [pc EXCEPT ![t] = "none"]
    /\ meta' = [meta EXCEPT ![t] = NULL]
    /\ newt' = [newt EXCEPT ![t] = NULL]
    /\ UNCHANGED <<threadIdMax, kthread, active, timerOn, sched>>

\* state = INACTIVE, list_del from the siblings and the global list,
\* stack_free, zfree(thread_zone) (which zeroes the structure or panics
\* when the slot is not on the used list), thread_unblock.
ThreadDestroy(self, t) ==
    /\ Running(self)
    /\ pc[self] = "body"
    /\ t # active
    /\ siblings' = Remove(siblings, t)
    /\ threads' = Remove(threads, t)
    /\ szone' = StackFree(szone, t)
    /\ IF Z!ZfreePanics(tzone, t)
       THEN /\ panicked' = TRUE
            /\ UNCHANGED <<tzone, tid>>
            /\ tstate' = [tstate EXCEPT ![t] = INACTIVE]
       ELSE /\ tzone' = Z!Zfree(tzone, t)
            /\ tstate' = [tstate EXCEPT ![t] = INACTIVE]
            /\ tid' = IF Z!ZfreeFound(tzone, t) THEN [tid EXCEPT ![t] = 0] ELSE tid
            /\ UNCHANGED panicked
    /\ handles' = handles \ {t}
    /\ pc' = [pc EXCEPT ![t] = "none"]
    /\ meta' = [meta EXCEPT ![t] = NULL]
    /\ newt' = [newt EXCEPT ![t] = NULL]
    /\ UNCHANGED <<threadIdMax, kthread, active, timerOn, sched>>

\* kernel_thread_main: machine_init_timers registers the timer interrupt
\* and starts the countdown.
InitTimers(self) ==
    /\ Running(self)
    /\ pc[self] = "body"
    /\ self = kthread
    /\ ~timerOn
    /\ timerOn' = TRUE
    /\ UNCHANGED <<threads, siblings, tstate, tid, threadIdMax, tzone, szone,
                   kthread, active, sched, panicked, pc, meta, newt, handles>>

-----------------------------------------------------------------------------
(* The timer interrupt                                                     *)

\* arm64_handler_irq for intid 30: acknowledge, mask, machine_timer_reset,
\* then __schedule: thread = cpu_active_thread, next = __select_thread.
Tick ==
    /\ ~Halted
    /\ timerOn
    /\ sched.phase = "idle"
    /\ sched' = [phase |-> "select", thread |-> active,
                 next |-> SelectThread(active)]
    /\ UNCHANGED <<threads, siblings, tstate, tid, threadIdMax, tzone, szone,
                   kthread, active, timerOn, panicked, pc, meta, newt, handles>>

\* __schedule's loop: while (next_thread->state != ACTIVE)
\*     next_thread = __select_thread(thread);
SchedRetry ==
    /\ sched.phase = "select"
    /\ sched.next # NULL
    /\ tstate[sched.next] # ACTIVE
    /\ sched' = [sched EXCEPT !.next = SelectThread(sched.thread)]
    /\ UNCHANGED <<threads, siblings, tstate, tid, threadIdMax, tzone, szone,
                   kthread, active, timerOn, panicked, pc, meta, newt, handles>>

\* set_current_task, thread_save_context(thread, frame),
\* thread_load_context(next) and, on __fork64_return, sched_tail: the
\* next thread becomes the CPU's active thread and interrupts are unmasked.
SchedSwitch ==
    /\ sched.phase = "select"
    /\ sched.next # NULL
    /\ tstate[sched.next] = ACTIVE
    /\ active' = sched.next
    /\ sched' = SchedIdle
    /\ UNCHANGED <<threads, siblings, tstate, tid, threadIdMax, tzone, szone,
                   kthread, timerOn, panicked, pc, meta, newt, handles>>

\* cpu_halt: `b .` forever.
Halt == Halted /\ UNCHANGED vars

-----------------------------------------------------------------------------
ThreadStep(self) ==
    \/ ThreadCreateBegin(self)
    \/ ThreadCreateMove(self)
    \/ ThreadCreateId(self)
    \/ ThreadCreateIdInc(self)
    \/ ThreadCreateStack(self)
    \/ ThreadCreateAssign(self)
    \/ ThreadCreateLink(self)
    \/ ThreadCreateActivate(self)
    \/ \E t \in handles : ThreadDestroyActive(self, t)
    \/ \E t \in handles : ThreadDestroy(self, t)
    \/ InitTimers(self)

Next ==
    \/ KernelThreadCreate
    \/ \E self \in Slots : ThreadStep(self)
    \/ Tick
    \/ SchedRetry
    \/ SchedSwitch
    \/ Halt

\* The timer is rearmed on every tick and interrupts are unmasked whenever
\* a thread runs, so the tick and the masked IRQ handler are weakly fair.
\* Threads' own steps get no fairness: kernel code may spin.
Fairness ==
    /\ WF_vars(Tick)
    /\ WF_vars(SchedRetry)
    /\ WF_vars(SchedSwitch)

Spec == Init /\ [][Next]_vars /\ Fairness

-----------------------------------------------------------------------------
(* Properties                                                              *)

Threads == ToSet(threads)

TypeOK ==
    /\ threads \in Seq(Slots)
    /\ siblings \in Seq(Slots)
    /\ tstate \in [Slots -> {INACTIVE, ACTIVE}]
    \* creators preempted between the bound check and the increment can
    \* each take one more id
    /\ tid \in [Slots -> 0..(MAX_THREAD_IDS + THREAD_COUNT_MAX)]
    /\ threadIdMax \in 0..(MAX_THREAD_IDS + THREAD_COUNT_MAX)
    /\ kthread \in Slots \cup {NULL}
    /\ active \in Slots \cup {NULL}
    /\ timerOn \in BOOLEAN
    /\ sched.phase \in {"idle", "select"}
    /\ panicked \in BOOLEAN
    /\ pc \in [Slots -> Pcs]
    /\ handles \subseteq Slots

\* zalloc/zfree keep thread_zone's two lists a partition of its slots with
\* no slot on a list twice, and its counters equal to the list lengths.
\* A slot handed to two callers shows up as count exceeding Len(used).
ThreadZoneConsistent ==
    /\ IsInjective(tzone.free \o tzone.used)
    /\ ToSet(tzone.free) \cup ToSet(tzone.used) = Slots
    /\ tzone.count = Len(tzone.used)
    /\ tzone.count_free = Len(tzone.free)

\* thread_destroy unlinks a thread from both lists before zfree, and every
\* zalloc'd thread slot is reachable: the threads on the global list, on
\* the kernel task's sibling list and the CPU's active thread all occupy
\* in-use slots of thread_zone, and every in-use slot is such a thread or
\* one that a thread_create in progress holds.
ListedThreadsAllocated ==
    ~Halted =>
      LET inFlight == {newt[p] : p \in {q \in Slots : newt[q] # NULL}}
      IN  /\ Threads \cup ToSet(siblings) \subseteq Z!InUse(tzone)
          /\ active # NULL => active \in Threads
          /\ Z!InUse(tzone) \subseteq Threads \cup inFlight

\* thread_id_max hands out every id once: the threads on the global list
\* carry distinct ids, and the kernel thread, while listed, has id 0.
UniqueThreadIds ==
    /\ \A s, t \in Threads : s # t => tid[s] # tid[t]
    /\ kthread \in Threads => tid[kthread] = 0

\* The IRQ handler's selection loop in __schedule terminates: a tick that
\* enters it eventually switches to a thread (or the kernel has halted).
SchedulerReturns ==
    sched.phase = "select" ~> (sched.phase = "idle" \/ Halted)

\* Round robin: once the timer runs, every active thread on the global
\* list eventually becomes the CPU's active thread unless it is destroyed.
RoundRobin ==
    \A t \in Slots :
        (timerOn /\ t \in Threads /\ tstate[t] = ACTIVE)
            ~> (active = t \/ t \notin Threads \/ Halted)

\* The CPU only runs a live thread: once the scheduler has switched to a
\* thread, or kernel_thread_create has made one current, that thread stays
\* ACTIVE and on the global list while it runs, however thread_create's
\* preemptible steps, thread_destroy and the IRQ handler interleave
\* (thread_destroy's refusal of the active thread, the state check of
\* __schedule and the order of thread_create's stores keep it).  Its zone
\* slot is another matter: after the zalloc race of ZoneRace.cfg the CPU
\* can run a thread whose slot is back on the free list.
ActiveThreadRunnable ==
    active # NULL =>
        /\ tstate[active] = ACTIVE
        /\ active \in Threads
=============================================================================
