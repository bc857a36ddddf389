-------------------------------- MODULE Zone --------------------------------
(***************************************************************************)
(* The zone table of src/kern/mm/zalloc.c: zone_init, zone_create with    *)
(* its search, panics and sizing arithmetic, and zalloc / zfree on any    *)
(* created zone with any slot address.  A zone descriptor is the record   *)
(* of module Zalloc extended by the fields zone_create writes; slot i is  *)
(* the metadata node carved at base + (i-1) * (elem_size + META_SIZE).     *)
(* The backing pages come from vm_map_alloc, which module VmMap models;   *)
(* here only their number matters.                                         *)
(***************************************************************************)
EXTENDS Integers, Sequences, SequencesExt, FiniteSets

CONSTANTS
    MAX_NUM_ZONES,  \* zalloc.c:35
    VM_PAGE_SIZE,   \* vm_page.h
    META_SIZE,      \* sizeof(struct zone_alloc_metadata): one list_t
    Requests,       \* the [size, max] arguments zone_create is called with
    MAX_CALLS       \* bound on the zalloc and zfree calls of a behaviour

Z == INSTANCE Zalloc

ZoneIds == 0 .. (MAX_NUM_ZONES - 1)

VARIABLES
    zones,          \* zone_array
    numZonesUsed,   \* num_zones_used
    inited,         \* zone_init has run
    panicked,       \* panic() was called
    call,           \* the last zalloc or zfree: op, zone, slot
    calls,          \* zalloc and zfree calls so far
    handed          \* handed[z]: the slots zalloc has returned from z, the
                    \* addresses a caller can pass to zfree

vars == <<zones, numZonesUsed, inited, panicked, call, calls, handed>>

NoCall == [op |-> "none", zone |-> 0, addr |-> 0]

\* memset(zone, 0, sizeof(zone_t)) with state = ZONE_STATE_UNUSED; the
\* static zone_array is zero too before zone_init runs.
UnusedZone ==
    [state |-> "UNUSED", elem_size |-> 0, max_size |-> 0, page_count |-> 0,
     free |-> <<>>, used |-> <<>>, count |-> 0, count_free |-> 0,
     corrupt |-> FALSE]

\* The slots zone_create carved for z.
Capacity(z) == IF z.elem_size = 0 THEN 0 ELSE z.max_size \div z.elem_size

\* Mutant: the spec's sizing, free_count * sizeof(metadata) for the
\* metadata instead of max * sizeof(metadata).
ZonePageCountPerSlot(size, max) ==
    LET pc == ((max \div size) * size + (max \div size) * META_SIZE) \div VM_PAGE_SIZE
    IN  IF pc = 0 THEN 1 ELSE pc

\* zone->page_count = (max_size + max * sizeof(meta)) / VM_PAGE_SIZE, at
\* least one page.
ZonePageCount(size, max) ==
    LET pc == ((max \div size) * size + max * META_SIZE) \div VM_PAGE_SIZE
    IN  IF pc = 0 THEN 1 ELSE pc

\* The descriptor zone_create fills in: count_free = max / size, max_size,
\* page_count, and the carved slots list_add_tail'ed to free_elems.
CreatedZone(r) ==
    LET n == r.max \div r.size
        c == Z!ZoneCreate(n)
    IN  [state |-> "USED", elem_size |-> r.size, max_size |-> n * r.size,
         page_count |-> ZonePageCount(r.size, r.max),
         free |-> c.free, used |-> c.used, count |-> c.count,
         count_free |-> c.count_free, corrupt |-> c.corrupt]

Halted == panicked \/ \E z \in ZoneIds : zones[z].corrupt

Init ==
    /\ zones = [z \in ZoneIds |-> UnusedZone]
    /\ numZonesUsed = 0
    /\ inited = FALSE
    /\ panicked = FALSE
    /\ call = NoCall
    /\ calls = 0
    /\ handed = [z \in ZoneIds |-> {}]

ZoneInit ==
    /\ ~inited
    /\ zones' = [z \in ZoneIds |-> UnusedZone]
    /\ numZonesUsed' = 0
    /\ inited' = TRUE
    /\ UNCHANGED <<panicked, call, calls, handed>>

\* Mutant: num_zones_used is counted before the checks that panic.
ZoneCreateCountsFailed(r) ==
    LET free == {i \in ZoneIds : zones[i].state = "UNUSED"} IN
    /\ inited /\ ~Halted
    /\ numZonesUsed' = numZonesUsed + 1
    /\ IF free = {} \/ r.size = 0 \/ r.max = 0
       THEN panicked' = TRUE /\ UNCHANGED zones
       ELSE LET i == CHOOSE k \in free : \A k2 \in free : k <= k2
            IN  /\ zones' = [zones EXCEPT ![i] = CreatedZone(r)]
                /\ UNCHANGED panicked
    /\ call' = NoCall
    /\ UNCHANGED <<inited, calls, handed>>

\* zone_create: the first unused descriptor, or a panic when there is none,
\* when size is 0 or when max is 0; then the fields, INIT_LIST_HEAD of both
\* lists, the pages, the carving loop and state = USED.
ZoneCreate(r) ==
    LET free == {i \in ZoneIds : zones[i].state = "UNUSED"} IN
    /\ inited /\ ~Halted
    /\ IF free = {} \/ r.size = 0 \/ r.max = 0
       THEN panicked' = TRUE /\ UNCHANGED <<zones, numZonesUsed>>
       ELSE LET i == CHOOSE k \in free : \A k2 \in free : k <= k2
            IN  /\ zones' = [zones EXCEPT ![i] = CreatedZone(r)]
                /\ numZonesUsed' = numZonesUsed + 1
                /\ UNCHANGED panicked
    /\ call' = NoCall
    /\ UNCHANGED <<inited, calls, handed>>

\* zalloc: the first free slot (the list head when none is left) moves to
\* the used list.
Zalloc(z) ==
    LET m == Z!ZallocFirst(zones[z]) IN
    /\ ~Halted /\ zones[z].state = "USED" /\ calls < MAX_CALLS
    /\ zones' = [zones EXCEPT ![z] = Z!ZallocMove(@, m)]
    /\ call' = [op |-> "alloc", zone |-> z, addr |-> m]
    /\ calls' = calls + 1
    /\ handed' = [handed EXCEPT ![z] = @ \cup ({m} \ {Z!ZONE_HEAD})]
    /\ UNCHANGED <<numZonesUsed, inited, panicked>>

\* zfree of a slot z handed out, possibly freed already: found on the used
\* list it moves to the free list; not found it panics, unless the used
\* list is empty.
Zfree(z, a) ==
    /\ ~Halted /\ zones[z].state = "USED" /\ calls < MAX_CALLS
    /\ a \in handed[z]
    /\ IF Z!ZfreePanics(zones[z], a)
       THEN panicked' = TRUE /\ UNCHANGED zones
       ELSE /\ zones' = [zones EXCEPT ![z] = Z!Zfree(@, a)]
            /\ UNCHANGED panicked
    /\ call' = [op |-> "free", zone |-> z, addr |-> a]
    /\ calls' = calls + 1
    /\ UNCHANGED <<numZonesUsed, inited, handed>>

\* After a panic, or once a zone handed out its own list head, nothing
\* the kernel does afterwards is modelled.
Halt == Halted /\ UNCHANGED vars

Next ==
    \/ ZoneInit
    \/ \E r \in Requests : ZoneCreate(r)
    \/ \E z \in ZoneIds : Zalloc(z)
    \/ \E z \in ZoneIds : \E a \in handed[z] : Zfree(z, a)
    \/ Halt

Spec == Init /\ [][Next]_vars

-----------------------------------------------------------------------------
(* Properties                                                              *)

ZoneRec ==
    [state : {"UNUSED", "USED"}, elem_size : Nat, max_size : Nat,
     page_count : Nat, free : Seq(Nat), used : Seq(Nat), count : Int,
     count_free : Int, corrupt : BOOLEAN]

TypeOK ==
    /\ zones \in [ZoneIds -> ZoneRec]
    /\ numZonesUsed \in 0 .. MAX_NUM_ZONES
    /\ inited \in BOOLEAN /\ panicked \in BOOLEAN
    /\ calls \in 0 .. MAX_CALLS
    /\ handed \in [ZoneIds -> SUBSET Nat]

\* Spec section 8, invariants on zones: over any sequence of zalloc and
\* zfree calls, double frees and frees of reused slots included, every
\* created zone that has not handed out its own list head keeps its free
\* and used lists a partition of the slots zone_create carved, each slot on
\* one list once, count and count_free equal to the lists' lengths.  It
\* rests on zfree moving and counting only a node its scan of used_elems
\* found, and on zfree's silent return when used_elems is empty.
ZoneListsSound ==
    \A z \in ZoneIds :
        zones[z].state = "USED" /\ ~zones[z].corrupt =>
            /\ IsInjective(zones[z].free \o zones[z].used)
            /\ ToSet(zones[z].free) \cup ToSet(zones[z].used) = 1 .. Capacity(zones[z])
            /\ zones[z].count = Len(zones[z].used)
            /\ zones[z].count_free = Len(zones[z].free)

\* The carving loop of zone_create writes count_free blocks of
\* elem_size + sizeof(meta) bytes from zone_page_base; they end inside the
\* page_count pages requested from vm_map_alloc.
CarvedWithinBacking ==
    \A z \in ZoneIds :
        zones[z].state = "USED" =>
            Capacity(zones[z]) * (zones[z].elem_size + META_SIZE)
                <= zones[z].page_count * VM_PAGE_SIZE

\* What the spec promises of the zone allocator (ZoneSpec): zalloc beyond
\* capacity and zfree of a slot not in use panic, and every other call
\* hands out or takes back a slot.
ZS == INSTANCE ZoneSpec WITH
        zoneUsed <- {z \in ZoneIds : zones[z].state = "USED"},
        cap <- [z \in ZoneIds |-> Capacity(zones[z])],
        inuse <- [z \in ZoneIds |-> Z!InUse(zones[z])],
        down <- panicked
ZoneSpecRefined == ZS!Spec
=============================================================================
