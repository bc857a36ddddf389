-------------------------------- MODULE Gic ---------------------------------
(***************************************************************************)
(* The GICv3 driver of src/drivers/irq/irq-gicv3.c as actions over the    *)
(* driver's gic_data and the registers it programs.  The module has no    *)
(* Spec of its own: Boot composes it with the boot CPU's topology walk,   *)
(* which supplies what the driver reads from the machine layer            *)
(* (machine_get_max_cpu_num) and from the CPU (MPIDR_EL1) as action      *)
(* arguments.                                                              *)
(*                                                                         *)
(* A 32-bit interrupt register is the set of INTIDs whose bit is set.     *)
(* The hardware side follows the GICv3 architecture: GICR_ISENABLER0 and  *)
(* GICR_ICENABLER0 both read as the enable bits, a write to the first     *)
(* sets the bits written and a write to the second clears them; the       *)
(* redistributor clears GICR_WAKER.ChildrenAsleep some time after         *)
(* ProcessorSleep is cleared.                                              *)
(***************************************************************************)
EXTENDS Integers, Sequences, FiniteSets

CONSTANTS
    GicVersion,     \* GICD_PIDR2.ArchRev of the machine
    Calls,          \* the gic_irq_register/enable/disable calls made after init
    MAX_GIC_CALLS   \* bound on the number of those calls

VARIABLES
    gpc,            \* where the driver is: "off" until machine_init_interrupts
    gic_data,       \* struct gicv3_data: version, max_redist_idx, initialised
    redist_id,      \* gic_redist_init's local, once computed
    redist_aff,     \* GICR_TYPER[63:32] of each redistributor frame, frame order
    waker,          \* GICR_WAKER of each frame: [ps, ca]
    sgis,           \* each frame's SGI/PPI registers
    icc,            \* the CPU interface system registers gic_cpuif_init writes
    gcalls,         \* number of API calls made
    gret            \* the kern_return_t of the last gic_irq_register

KERN_RETURN_SUCCESS == 0
KERN_RETURN_FAIL == 1

PLAT_GIC_MIN_VERSION == 3

GIC_IRQ_CONTROL_DISABLE == 0
GIC_IRQ_CONTROL_ENABLE == 1

\* GICD_CTLR bits: ARE_NS (5), DS (6), EnableGrp1NS (1).
GICD_CTLR_ENABLE_G1NS_BIT == 2
GICD_CTLR_ARE_NS_BIT == 32
GICD_CTLR_DS_BIT == 64

\* gic_get_redist_id's "not found", the uint32_t 0xffffffff.  It is above
\* every max_redist_idx, which RedistOutOfRange spells out.
NOT_FOUND == -1
RedistOutOfRange(id, max) == id = NOT_FOUND \/ id > max

\* arm64_read_affinity: Aff2.Aff1.Aff0 stay in bits 0-23 (0xff << 24 is
\* the int 0xff000000, whose complement sign-extends to 0xffffff) and
\* Aff3 moves to bits 24-31.  Aff3 lies in MPIDR bits 32-39, beyond TLC's
\* integers; the machines here have it 0.
arm64_read_affinity(mpidr) == mpidr % 2^24

\* Mutant: the loop stops before max_redist_idx.
RECURSIVE GetRedistIdShort(_, _, _, _)
GetRedistIdShort(aff, layout, max, index) ==
    IF layout[index + 1] = aff THEN index
    ELSE IF index + 1 < max THEN GetRedistIdShort(aff, layout, max, index + 1)
    ELSE NOT_FOUND

\* gic_get_redist_id: do { match typer[1] of frame index } while
\* (++index <= max_redist_idx).
RECURSIVE GetRedistId(_, _, _, _)
GetRedistId(aff, layout, max, index) ==
    IF layout[index + 1] = aff THEN index
    ELSE IF index + 1 <= max THEN GetRedistId(aff, layout, max, index + 1)
    ELSE NOT_FOUND

gic_get_redist_id(mpidr, max) == GetRedistId(arm64_read_affinity(mpidr), redist_aff, max, 0)

\* Frames are numbered from 0.
Frames == 0 .. (Len(redist_aff) - 1)

\* Reset state of a frame's SGI/PPI registers: nothing enabled, all in
\* group 0, priority 0 (QEMU's reset values).
SgiReset == [enabled |-> {}, group |-> {}, grpmod |-> {}, prio |-> [i \in 0 .. 31 |-> 0]]

GicInit(layouts) ==
    /\ gpc = "off"
    /\ gic_data = [version |-> 0, ctlr |-> 0, max_redist_idx |-> 0, initialised |-> FALSE]
    /\ redist_id = 0
    /\ redist_aff \in layouts
    /\ waker = [r \in 0 .. (Len(redist_aff) - 1) |-> [ps |-> TRUE, ca |-> TRUE]]
    /\ sgis = [r \in 0 .. (Len(redist_aff) - 1) |-> SgiReset]
    /\ icc = [sre |-> FALSE, pmr |-> 0, igrpen1 |-> FALSE]
    /\ gcalls = 0
    /\ gret = KERN_RETURN_SUCCESS

\* gic_interface_init: the frame pointers are set and gic_dist_init runs:
\* gic_get_version (a version below 3 is only reported), then GICD_CTLR
\* gets ARE_NS | DS and EnableGrp1NS.
gic_dist_init ==
    /\ gpc = "off"
    /\ gic_data' = [gic_data EXCEPT
                      !.version = GicVersion,
                      !.ctlr = GICD_CTLR_ARE_NS_BIT + GICD_CTLR_DS_BIT + GICD_CTLR_ENABLE_G1NS_BIT]
    /\ gpc' = "redist"
    /\ UNCHANGED <<redist_id, redist_aff, waker, sgis, icc, gcalls, gret>>

\* Mutant: the redistributor is looked up but never woken.
GicRedistInitNoWake(maxCpu, mpidr) ==
    LET rid == GetRedistId(arm64_read_affinity(mpidr), redist_aff, maxCpu, 0) IN
    /\ gpc = "redist"
    /\ gic_data' = [gic_data EXCEPT !.max_redist_idx = maxCpu]
    /\ redist_id' = rid
    /\ gpc' = IF rid = NOT_FOUND THEN "wild" ELSE "redist_wait"
    /\ UNCHANGED <<redist_aff, waker, sgis, icc, gcalls, gret>>

\* gic_redist_init up to its poll: max_redist_idx from the machine
\* layer, the boot CPU's frame, and ProcessorSleep cleared in its
\* GICR_WAKER.  The result of the lookup is not checked: with NOT_FOUND
\* the write lands 0xffffffff frames past the region ("wild").
GicRedistInit(maxCpu, mpidr) ==
    LET rid == GetRedistId(arm64_read_affinity(mpidr), redist_aff, maxCpu, 0) IN
    /\ gpc = "redist"
    /\ gic_data' = [gic_data EXCEPT !.max_redist_idx = maxCpu]
    /\ redist_id' = rid
    /\ IF rid = NOT_FOUND
       THEN gpc' = "wild" /\ UNCHANGED waker
       ELSE gpc' = "redist_wait" /\ waker' = [waker EXCEPT ![rid].ps = FALSE]
    /\ UNCHANGED <<redist_aff, sgis, icc, gcalls, gret>>

\* The poll of GICR_WAKER.ChildrenAsleep: the loop exits once it reads 0
\* (while it reads 1 the CPU only prints).
GicRedistAwake ==
    /\ gpc = "redist_wait"
    /\ ~waker[redist_id].ca
    /\ gpc' = "cpuif"
    /\ UNCHANGED <<gic_data, redist_id, redist_aff, waker, sgis, icc, gcalls, gret>>

\* The redistributor wakes: ChildrenAsleep clears after ProcessorSleep.
RedistWake(r) ==
    /\ ~waker[r].ps /\ waker[r].ca
    /\ waker' = [waker EXCEPT ![r].ca = FALSE]
    /\ UNCHANGED <<gpc, gic_data, redist_id, redist_aff, sgis, icc, gcalls, gret>>

\* gic_cpuif_init (ICC_SRE_EL1.SRE, ICC_PMR_EL1 = 0xff, ICC_IGRPEN1_EL1
\* bit 0), then gic_interface_init marks the GIC initialised.
gic_cpuif_init ==
    /\ gpc = "cpuif"
    /\ icc' = [sre |-> TRUE, pmr |-> 255, igrpen1 |-> TRUE]
    /\ gic_data' = [gic_data EXCEPT !.initialised = TRUE]
    /\ gpc' = "done"
    /\ UNCHANGED <<redist_id, redist_aff, waker, sgis, gcalls, gret>>

\* The enable write of __gic_irq_control: isenabler[0] |= id or
\* icenabler[0] |= id.  Both registers read as the enable bits; the
\* value written goes to set-enable or clear-enable.
IrqControlWrite(s, intid, ctrl) ==
    LET written == s.enabled \cup {intid} IN
    CASE ctrl = GIC_IRQ_CONTROL_ENABLE -> [s EXCEPT !.enabled = @ \cup written]
      [] ctrl = GIC_IRQ_CONTROL_DISABLE -> [s EXCEPT !.enabled = @ \ written]

\* gic_irq_register's writes for an SGI/PPI: the priority byte (uint8_t
\* ipriorityr[intid] = priority), group bit set and modifier bit cleared
\* (Non-secure Group 1), then __gic_irq_control's enable.
RegisterWrites(s, intid, priority) ==
    IrqControlWrite([s EXCEPT !.prio[intid] = priority % 256,
                              !.group = @ \cup {intid},
                              !.grpmod = @ \ {intid}],
                    intid, GIC_IRQ_CONTROL_ENABLE)

\* An API call is made after gic_interface_init, up to MAX_GIC_CALLS.
CallPre == gpc = "done" /\ gcalls < MAX_GIC_CALLS

\* gic_irq_register: INTIDs below 31 are configured on the redistributor
\* found for the CPU, and fail if none is; 31 and above fail (SPIs "not
\* configurable", 1020 and above "extended").
gic_irq_register(c, mpidr) ==
    LET rid == gic_get_redist_id(mpidr, gic_data.max_redist_idx) IN
    /\ CallPre /\ c.op = "register"
    /\ IF c.intid < 31 /\ ~RedistOutOfRange(rid, gic_data.max_redist_idx)
       THEN /\ sgis' = [sgis EXCEPT ![rid] = RegisterWrites(@, c.intid, c.prio)]
            /\ gret' = KERN_RETURN_SUCCESS
       ELSE gret' = KERN_RETURN_FAIL /\ UNCHANGED sgis
    /\ gcalls' = gcalls + 1
    /\ UNCHANGED <<gpc, gic_data, redist_id, redist_aff, waker, icc>>

\* gic_irq_enable and gic_irq_disable: __gic_irq_control ignores INTIDs
\* of 31 and above, and panics when no redistributor is found.
\* (__gic_irq_control's own panic check inside gic_irq_register never
\* fires: the register path has checked the same lookup.)
gic_irq_control(c, mpidr) ==
    LET rid == gic_get_redist_id(mpidr, gic_data.max_redist_idx)
        ctrl == IF c.op = "enable" THEN GIC_IRQ_CONTROL_ENABLE ELSE GIC_IRQ_CONTROL_DISABLE
    IN
    /\ CallPre /\ c.op \in {"enable", "disable"}
    /\ CASE c.intid >= 31 -> UNCHANGED <<gpc, sgis>>
         [] RedistOutOfRange(rid, gic_data.max_redist_idx) -> gpc' = "panic" /\ UNCHANGED sgis
         [] OTHER -> sgis' = [sgis EXCEPT ![rid] = IrqControlWrite(@, c.intid, ctrl)]
                     /\ UNCHANGED gpc
    /\ gcalls' = gcalls + 1
    /\ UNCHANGED <<gic_data, redist_id, redist_aff, waker, icc, gret>>
=============================================================================
