------------------------------- MODULE Zalloc -------------------------------
(***************************************************************************)
(* The zone allocator of src/kern/mm/zalloc.c as operators over one zone   *)
(* descriptor.  A zone is a record                                         *)
(*                                                                         *)
(*   free, used    the two intrusive lists of slot metadata, head first    *)
(*   count         zone->count       (elements handed out)                *)
(*   count_free    zone->count_free  (elements on the free list)          *)
(*   corrupt       TRUE once the zone's own list head was handed out       *)
(*                                                                         *)
(* A slot is named by its position 1..n in the carved backing region; the *)
(* metadata address of slot i is base + (i-1) * (elem_size + 16), so two  *)
(* slots are equal exactly when their metadata addresses are.  Modules    *)
(* that own a zone hold such a record in a variable and call these        *)
(* operators from the action that models the C caller.                    *)
(***************************************************************************)
LOCAL INSTANCE Integers
LOCAL INSTANCE Sequences
LOCAL INSTANCE SequencesExt

\* list_first_entry(&zone->free_elems, ...) on an empty list yields the
\* list head itself, read as if it were a slot's metadata; 0 is no slot.
ZONE_HEAD == 0

\* zone_create: count_free = max / elem_size slots, each metadata node
\* list_add_tail'ed to free_elems in address order; used_elems empty.
ZoneCreate(n) ==
    [free |-> [i \in 1..n |-> i], used |-> <<>>,
     count |-> 0, count_free |-> n, corrupt |-> FALSE]

\* zalloc, first statement: the first entry of the free list.
ZallocFirst(z) == IF z.free = <<>> THEN ZONE_HEAD ELSE Head(z.free)

\* zalloc, list_move(&meta->alloc, &zone->used_elems) and the two counter
\* updates.  list_move unlinks the node from whichever list it is on and
\* pushes it at the head of used_elems; for the free list's own head the
\* unlink is a no-op and the head is spliced into used_elems, after which
\* both lists share nodes (corrupt).
ZallocMove(z, m) ==
    IF m = ZONE_HEAD
    THEN [z EXCEPT !.corrupt = TRUE, !.count = @ + 1, !.count_free = @ - 1]
    ELSE [z EXCEPT !.free = Remove(@, m),
                   !.used = <<m>> \o Remove(@, m),
                   !.count = @ + 1, !.count_free = @ - 1]

\* zfree: the list_for_each_entry scan over used_elems finds the slot.
ZfreeFound(z, a) == Contains(z.used, a)

\* zfree: the scan reaches the last used entry without a match and panics;
\* on an empty used list the loop body never runs and zfree returns.
ZfreePanics(z, a) == ~ZfreeFound(z, a) /\ z.used # <<>>

\* Mutant: zfree forgets zone->count -= 1.
ZfreeKeepsCount(z, a) ==
    IF ZfreeFound(z, a)
    THEN [z EXCEPT !.used = Remove(@, a), !.free = <<a>> \o @,
                   !.count_free = @ + 1]
    ELSE z

\* Mutant: zfree list_move_tail's the node to the back of free_elems.
ZfreeToTail(z, a) ==
    IF ZfreeFound(z, a)
    THEN [z EXCEPT !.used = Remove(@, a), !.free = Append(@, a),
                   !.count = @ - 1, !.count_free = @ + 1]
    ELSE z

\* Mutant: zfree moves and counts the node without checking that its scan
\* of used_elems found it.
ZfreeUnchecked(z, a) ==
    [z EXCEPT !.used = Remove(@, a), !.free = <<a>> \o Remove(@, a),
              !.count = @ - 1, !.count_free = @ + 1]

\* zfree: the found node is list_move'd to the head of free_elems and the
\* counters updated; otherwise nothing changes.
Zfree(z, a) ==
    IF ZfreeFound(z, a)
    THEN [z EXCEPT !.used = Remove(@, a), !.free = <<a>> \o @,
                   !.count = @ - 1, !.count_free = @ + 1]
    ELSE z

\* The slots a zone has handed out, as its used list records them.
InUse(z) == ToSet(z.used)
=============================================================================
