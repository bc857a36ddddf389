-------------------------------- MODULE VmMap --------------------------------
(***************************************************************************)
(* The kernel's virtual memory map, src/kern/vm/vm_map.c, with the page    *)
(* allocator of src/kern/vm/vm_page.c underneath it.                       *)
(*                                                                         *)
(* vm_configure bootstraps the page descriptors, creates the kernel        *)
(* vm_map and records the kernel image as its first entry.  Callers then   *)
(* run vm_map_alloc: stack_alloc (from thread_create, which may be         *)
(* preempted by the timer) and zone_create (during boot).  The allocation  *)
(* and its calls into vm_page_alloc and vm_map_entry_create are split at   *)
(* the statements between which a preempted caller can be interleaved     *)
(* with another.  INTERLEAVE = FALSE makes each vm_map_alloc run to its    *)
(* end before another starts, as at boot.                                  *)
(*                                                                         *)
(* Addresses and sizes are in an abstract byte unit; virtual addresses     *)
(* are offsets from kernel_virt_base.  The translation-table writes of     *)
(* pmap_tt_create_tte and the guard-page fill are not modelled; entry      *)
(* storage is named by its position after the map (slot 0, 1, ...).        *)
(***************************************************************************)
EXTENDS Integers, Sequences, SequencesExt, FiniteSets

CONSTANTS
    PAGE_SIZE, DESC_SIZE, MEM_PAGES, KERN_BASE, KERN_SIZE,  \* as in VmPage
    Callers,     \* threads or init code calling vm_map_alloc
    Requests,    \* [size, gfirst, glast] requests they may make
    INTERLEAVE,  \* may one vm_map_alloc be preempted by another?
    NULL

ASSUME INTERLEAVE \in BOOLEAN

VARIABLES
    pages, booted, panicked, owned,  \* the page allocator, as in VmPage
    entries,   \* map->entries: entry storage slots in list order
    store,     \* the vm_map_entry_t written in each storage slot
    caller     \* each caller's position and locals in vm_map_alloc

pageVars == <<pages, booted, panicked, owned>>
mapVars == <<entries, store>>
vars == <<pageVars, mapVars, caller>>

VP == INSTANCE VmPage

FREE == VP!FREE
ALLOC == VP!ALLOC

\* Storage slots an entry can occupy: the kernel entry, and at most three
\* entries (guard, body, guard) per allocated frame.
Slots == 0 .. (3 * (MEM_PAGES + 1))

\* Where a vm_map_alloc may stand.  "scan"/"take" are the two halves of
\* vm_page_alloc (the free-descriptor scan, then state = ALLOC); "slot"/
\* "link" the two halves of vm_map_entry_create (choosing the storage after
\* the last entry, then filling and linking it).  Phases: "gf" the leading
\* guard page, "body" the pages of the allocation, "gl" the trailing guard.
Pcs == {"idle", "scan", "take", "slot", "link"}
Phases == {"gf", "body", "gl"}

Idle == [pc |-> "idle", req |-> NULL, phase |-> "body", vbase |-> 0,
         vcursor |-> 0, left |-> 0, j |-> 0, slot |-> 0]

\* VM_ALIGN_ADDR: round up to a multiple of 4.
VmAlignAddr(a) == ((a + 3) \div 4) * 4

\* vm_map_alloc's page_count: size < VM_PAGE_SIZE ? 1 : size / VM_PAGE_SIZE.
PageCount(size) == IF size < PAGE_SIZE THEN 1 ELSE size \div PAGE_SIZE

\* The end of the last entry: base + size + 1, where entry->size holds the
\* size less one (vm_map_entry_create).
LastEntry == store[Last(entries)]
NextBase == VmAlignAddr(LastEntry.base + LastEntry.size + 1)

\* No other vm_map_alloc is under way, unless callers may interleave.
MayRun(c) == INTERLEAVE \/ \A d \in Callers \ {c} : caller[d].pc = "idle"

\* vm_page_alloc's scan: the first FREE descriptor.
FirstFree == LET free == {k \in DOMAIN pages : pages[k].state = FREE}
             IN IF free = {} THEN 0 ELSE CHOOSE k \in free : \A k2 \in free : k <= k2

\* __vm_map_init via vm_map_create: the map's entry list is emptied
\* (INIT_LIST_HEAD); its bounds, pmap, lock bit and counters are read by
\* no code and not kept.
vm_map_create == <<>>

-----------------------------------------------------------------------------
Init ==
    /\ pages = <<>>
    /\ booted = FALSE
    /\ panicked = FALSE
    /\ owned = [f \in VP!Frames |-> 0]
    /\ entries = <<>>
    /\ store = [s \in Slots |-> [base |-> 0, size |-> 0, guard |-> FALSE]]
    /\ caller = [c \in Callers |-> Idle]

\* vm_configure: vm_page_bootstrap, vm_map_create and vm_map_entry_create
\* for the kernel image, at slot 0 directly after the map.  map->lock,
\* map->nentries and map->size are written but read by no code, and are
\* left out: vm_map_lock sets a bit and excludes nobody.
Boot ==
    /\ VP!Bootstrap
    /\ entries' = Append(vm_map_create, 0)
    /\ store' = [store EXCEPT ![0] = [base |-> 0, size |-> KERN_SIZE - 1, guard |-> FALSE]]
    /\ UNCHANGED caller

\* Mutant: the page loop starts at i = 1 and maps one page too few.
StartLoopFromOne(c, r) ==
    /\ booted /\ ~panicked
    /\ caller[c].pc = "idle"
    /\ MayRun(c)
    /\ caller' = [caller EXCEPT ![c] =
                    [Idle EXCEPT !.pc = "scan", !.req = r,
                                 !.phase = IF r.gfirst THEN "gf" ELSE "body",
                                 !.vbase = NextBase, !.vcursor = NextBase,
                                 !.left = PageCount(r.size) - 1]]
    /\ UNCHANGED <<pageVars, mapVars>>

\* vm_map_alloc entry: vbase = vcursor = the aligned end of the last entry;
\* the first step is a guard page's or the body's first page allocation.
Start(c, r) ==
    /\ booted /\ ~panicked
    /\ caller[c].pc = "idle"
    /\ MayRun(c)
    /\ caller' = [caller EXCEPT ![c] =
                    [Idle EXCEPT !.pc = "scan", !.req = r,
                                 !.phase = IF r.gfirst THEN "gf" ELSE "body",
                                 !.vbase = NextBase, !.vcursor = NextBase,
                                 !.left = PageCount(r.size)]]
    /\ UNCHANGED <<pageVars, mapVars>>

\* vm_page_alloc, the scan: the first FREE descriptor, or the panic when
\* the last one is not free.
Scan(c) ==
    /\ ~panicked
    /\ caller[c].pc = "scan"
    /\ MayRun(c)
    /\ IF FirstFree = 0
       THEN /\ panicked' = TRUE
            /\ UNCHANGED caller
       ELSE /\ caller' = [caller EXCEPT ![c].j = FirstFree, ![c].pc = "take"]
            /\ UNCHANGED panicked
    /\ UNCHANGED <<pages, booted, owned, mapVars>>

\* Mutant: the body loop forgets vcursor += VM_PAGE_SIZE.
TakeNoAdvance(c) ==
    LET me == caller[c]
        more == me.phase = "body" /\ me.left > 1
    IN
    /\ ~panicked
    /\ me.pc = "take"
    /\ MayRun(c)
    /\ pages' = [pages EXCEPT ![me.j].state = ALLOC]
    /\ owned' = [owned EXCEPT ![pages[me.j].paddr] = @ + 1]
    /\ caller' = [caller EXCEPT
                    ![c].pc = IF more THEN "scan" ELSE "slot",
                    ![c].left = IF me.phase = "body" THEN @ - 1 ELSE @]
    /\ UNCHANGED <<booted, panicked, mapVars>>

\* vm_page_alloc, last->state = ALLOC and return its paddr, which the
\* caller maps at vcursor.  In the body loop vcursor advances a page; the
\* loop ends in vm_map_entry_create once page_count pages are mapped.
Take(c) ==
    LET me == caller[c]
        more == me.phase = "body" /\ me.left > 1
    IN
    /\ ~panicked
    /\ me.pc = "take"
    /\ MayRun(c)
    /\ pages' = [pages EXCEPT ![me.j].state = ALLOC]
    /\ owned' = [owned EXCEPT ![pages[me.j].paddr] = @ + 1]
    /\ caller' = [caller EXCEPT
                    ![c].pc = IF more THEN "scan" ELSE "slot",
                    ![c].left = IF me.phase = "body" THEN @ - 1 ELSE @,
                    ![c].vcursor = IF me.phase = "body" THEN @ + PAGE_SIZE ELSE @]
    /\ UNCHANGED <<booted, panicked, mapVars>>

\* vm_map_entry_create, first half: the new entry is placed after the last
\* one in memory.
Slot(c) ==
    /\ ~panicked
    /\ caller[c].pc = "slot"
    /\ MayRun(c)
    /\ caller' = [caller EXCEPT ![c].slot = Last(entries) + 1, ![c].pc = "link"]
    /\ UNCHANGED <<pageVars, mapVars>>

\* The entry each phase records: a one-page guard at vcursor, or the body
\* of page_count pages at vbase; entry->size is the size less one.
NewEntry(me) ==
    CASE me.phase = "gf" -> [base |-> me.vcursor, size |-> PAGE_SIZE - 1, guard |-> TRUE]
      [] me.phase = "gl" -> [base |-> me.vcursor, size |-> PAGE_SIZE - 1, guard |-> TRUE]
      [] OTHER -> [base |-> me.vbase,
                   size |-> PageCount(me.req.size) * PAGE_SIZE - 1, guard |-> FALSE]

\* Mutant: after the leading guard, vbase and vcursor are not advanced.
LinkNoAdvance(c) ==
    LET me == caller[c] IN
    /\ ~panicked
    /\ me.pc = "link"
    /\ MayRun(c)
    /\ store' = [store EXCEPT ![me.slot] = NewEntry(me)]
    /\ entries' = Append(entries, me.slot)
    /\ caller' = [caller EXCEPT ![c] =
          CASE me.phase = "gf" -> [me EXCEPT !.phase = "body", !.pc = "scan"]
            [] me.phase = "body" /\ me.req.glast ->
                 [me EXCEPT !.phase = "gl", !.pc = "scan"]
            [] OTHER -> Idle]
    /\ UNCHANGED pageVars

\* Where vm_map_alloc goes after each vm_map_entry_create: to the body
\* after the leading guard (vbase = vcursor += VM_PAGE_SIZE), to the
\* trailing guard after the body when VM_ALLOC_GUARD_LAST is set, or it
\* returns vbase.
AfterEntry(me) ==
    CASE me.phase = "gf" ->
           [me EXCEPT !.phase = "body", !.pc = "scan",
                      !.vbase = me.vcursor + PAGE_SIZE,
                      !.vcursor = me.vcursor + PAGE_SIZE]
      [] me.phase = "body" /\ me.req.glast ->
           [me EXCEPT !.phase = "gl", !.pc = "scan"]
      [] OTHER -> Idle

\* vm_map_entry_create, second half: memset and fill the entry and
\* list_add_tail it; vm_map_alloc then goes on as AfterEntry says.
Link(c) ==
    LET me == caller[c] IN
    /\ ~panicked
    /\ me.pc = "link"
    /\ MayRun(c)
    /\ store' = [store EXCEPT ![me.slot] = NewEntry(me)]
    /\ entries' = Append(entries, me.slot)
    /\ caller' = [caller EXCEPT ![c] = AfterEntry(me)]
    /\ UNCHANGED pageVars

\* cpu_halt after a panic.
Halt == panicked /\ UNCHANGED vars

Next ==
    \/ Boot
    \/ \E c \in Callers, r \in Requests : Start(c, r)
    \/ \E c \in Callers : Scan(c) \/ Take(c) \/ Slot(c) \/ Link(c)
    \/ Halt

Spec == Init /\ [][Next]_vars

-----------------------------------------------------------------------------
(* Properties                                                              *)

Entry == [base : Nat, size : Nat, guard : BOOLEAN]

TypeOK ==
    /\ VP!TypeOK
    /\ entries \in Seq(Slots)
    /\ store \in [Slots -> Entry]
    /\ \A c \in Callers : /\ caller[c].pc \in Pcs
                         /\ caller[c].phase \in Phases
                         /\ caller[c].left \in Nat

\* Every list_add_tail links a node not already on map->entries: two
\* vm_map_entry_create calls placing their entry after the same last
\* entry write one node and link it twice, corrupting the list.  Only an
\* interleaving (INTERLEAVE) can break it; VmMapRace.cfg shows it does.
EntriesListSound == IsInjective(entries)

\* Spec 4.3: entries are non-overlapping and strictly increasing in base
\* address, each one starting after the end of the one before.
EntriesOrdered ==
    \A i \in 1 .. (Len(entries) - 1) :
        store[entries[i]].base + store[entries[i]].size < store[entries[i + 1]].base

\* Spec 8, invariant 5: when vm_map_alloc returns v for a guarded request,
\* the map holds one-page guard entries at v - page_size and at
\* v + round_up(size, page_size), and the body between them.
RoundUp(n) == ((n + PAGE_SIZE - 1) \div PAGE_SIZE) * PAGE_SIZE
RecordedNext(e) == \E i \in DOMAIN entries' : store'[entries'[i]] = e
Guard(a) == [base |-> a, size |-> PAGE_SIZE - 1, guard |-> TRUE]
GuardsFlank ==
    [][\A c \in Callers :
          LET me == caller[c]
              v == me.vbase
              body == RoundUp(IF me.req = NULL THEN 0 ELSE me.req.size)
          IN (me.pc = "link" /\ caller'[c].pc = "idle") =>
               /\ me.req.gfirst => RecordedNext(Guard(v - PAGE_SIZE))
               /\ me.req.glast => RecordedNext(Guard(v + body))
      ]_vars

\* The page allocator seen through vm_map_alloc behaves as VmPage's
\* atomic vm_page_alloc: every frame a caller takes is the first FREE one
\* at that moment.  Only an interleaving of the scan and the store
\* (INTERLEAVE) can break it; VmMapRace.cfg shows it does.
VmPageSpec == VP!Spec
====
