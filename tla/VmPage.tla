------------------------------- MODULE VmPage -------------------------------
(***************************************************************************)
(* The physical page allocator of src/kern/vm/vm_page.c.                   *)
(*                                                                         *)
(* Physical addresses are frame numbers relative to memory_phys_base (the  *)
(* base of RAM); sizes are in an abstract byte unit with PAGE_SIZE units   *)
(* to a page.  vm_configure calls vm_page_bootstrap(kernel_phys_base,      *)
(* memory_phys_size, kernel_phys_size): the descriptors start at the       *)
(* kernel's frame KERN_BASE, not at the base of RAM.  Callers of           *)
(* vm_page_alloc (vm_map_alloc, vm_map_entry_create) own what it returns   *)
(* and may hand it back with vm_page_free.                                 *)
(*                                                                         *)
(* The `mapped` bit of a descriptor is written but read by no code, and    *)
(* is left out.                                                            *)
(***************************************************************************)
EXTENDS Integers, Sequences, FiniteSets

CONSTANTS
    PAGE_SIZE,   \* VM_PAGE_SIZE
    DESC_SIZE,   \* sizeof(vm_page_t)
    MEM_PAGES,   \* memory_phys_size / VM_PAGE_SIZE (page_count)
    KERN_BASE,   \* (kernel_phys_base - memory_phys_base) / VM_PAGE_SIZE
    KERN_SIZE    \* kernel_phys_size

ASSUME PAGE_SIZE \in Nat \ {0} /\ DESC_SIZE \in Nat \ {0}
ASSUME MEM_PAGES \in Nat /\ KERN_BASE \in Nat /\ KERN_SIZE \in Nat

\* VM_PAGE_STATE_FREE / VM_PAGE_STATE_ALLOC
FREE == 0
ALLOC == 1

\* sizeof(vm_address_t): &vm_page_region_lower_bound has that pointee type.
PTR_SCALE == 8

\* Frames a descriptor can name: the bootstrap walks from KERN_BASE for
\* page_count + 1 frames.
Frames == KERN_BASE .. (KERN_BASE + MEM_PAGES)

\* The frames of RAM: memory_phys_base .. memory_phys_base + memsize.
RamFrames == 0 .. (MEM_PAGES - 1)

VARIABLES
    pages,     \* the descriptor array vm_page_region[0 .. vm_page_idx-1]
    booted,    \* vm_page_bootstrap has run
    panicked,  \* panic() was called
    owned      \* owned[f]: how many callers hold frame f from vm_page_alloc

vars == <<pages, booted, panicked, owned>>

-----------------------------------------------------------------------------
\* vm_page_region_size = page_count * sizeof(vm_page_t).
RegionSize == MEM_PAGES * DESC_SIZE

\* __vm_page_alloc_internal's bound check: vm_page_region_upper_bound is
\* &vm_page_region_lower_bound + vm_page_region_size, pointer arithmetic on
\* a vm_address_t *, so the cursor is compared with PTR_SCALE times the
\* region size.
RegionFull(ps) == Len(ps) * DESC_SIZE >= PTR_SCALE * RegionSize

\* Mutant: the descriptor is given the frame after the cursor.
DescriptorNextFrame(f) == [paddr |-> f + 1, state |-> FREE]

\* A fresh descriptor: paddr, state FREE.
Descriptor(f) == [paddr |-> f, state |-> FREE]

\* The creation loop: for (i = 0; i < page_count; i++), breaking when
\* __vm_page_alloc_internal finds the region full.  pcursor starts one page
\* past membase because the first descriptor was made by hand.
RECURSIVE CreatePages(_, _)
CreatePages(ps, i) ==
    IF i >= MEM_PAGES \/ RegionFull(ps) THEN [pages |-> ps, i |-> i]
    ELSE CreatePages(Append(ps, Descriptor(KERN_BASE + 1 + i)), i + 1)

\* Mutant: the kernel page count leaves out the descriptor region.
KernPageCountImageOnly == (KERN_SIZE \div PAGE_SIZE) + 1

\* kern_page_count = ((kernsize + vm_page_region_size) / VM_PAGE_SIZE) + 1
KernPageCount == ((KERN_SIZE + RegionSize) \div PAGE_SIZE) + 1

\* The kernel loop: descriptors 0 .. kern_page_count-1 become ALLOC.
MarkKernel(ps) ==
    [j \in DOMAIN ps |-> IF j <= KernPageCount THEN [ps[j] EXCEPT !.state = ALLOC]
                                               ELSE ps[j]]

Init ==
    /\ pages = <<>>
    /\ booted = FALSE
    /\ panicked = FALSE
    /\ owned = [f \in Frames |-> 0]

\* vm_page_bootstrap(membase = kernel frame, memsize, kernsize): the first
\* descriptor by hand, the creation loop, the all-created check, the kernel
\* frames marked allocated.
Bootstrap ==
    LET made == CreatePages(<<Descriptor(KERN_BASE)>>, 0) IN
    /\ ~booted
    /\ booted' = TRUE
    /\ IF made.i # MEM_PAGES
       THEN /\ panicked' = TRUE
            /\ pages' = made.pages
       ELSE /\ pages' = MarkKernel(made.pages)
            /\ UNCHANGED panicked
    /\ UNCHANGED owned

\* vm_page_alloc: the first FREE descriptor in index order; if none, `last`
\* is the final descriptor, which is not FREE, and the allocator panics.
PageAlloc ==
    LET free == {j \in DOMAIN pages : pages[j].state = FREE} IN
    /\ booted /\ ~panicked
    /\ IF free = {}
       THEN /\ panicked' = TRUE
            /\ UNCHANGED <<pages, owned>>
       ELSE LET j == CHOOSE k \in free : \A k2 \in free : k <= k2
                f == pages[j].paddr
            IN /\ pages' = [pages EXCEPT ![j].state = ALLOC]
               /\ owned' = [owned EXCEPT ![f] = @ + 1]
               /\ UNCHANGED panicked
    /\ UNCHANGED booted

\* vm_page_free(paddr): idx = (paddr - memory_phys_base) / VM_PAGE_SIZE and
\* vm_page_region[idx].state = FREE, with no check of idx or of the state.
\* An idx past the array writes memory outside the model's descriptors.
PageFree(f) ==
    LET idx == f + 1 IN
    /\ booted /\ ~panicked
    /\ owned[f] > 0
    /\ pages' = IF idx <= Len(pages) THEN [pages EXCEPT ![idx].state = FREE]
                ELSE pages
    /\ owned' = [owned EXCEPT ![f] = @ - 1]
    /\ UNCHANGED <<booted, panicked>>

\* cpu_halt after panic.
Halt == panicked /\ UNCHANGED vars

Next ==
    \/ Bootstrap
    \/ PageAlloc
    \/ \E f \in Frames : PageFree(f)
    \/ Halt

Spec == Init /\ [][Next]_vars

-----------------------------------------------------------------------------
(* Properties                                                              *)

TypeOK ==
    /\ pages \in Seq([paddr : Frames, state : {FREE, ALLOC}])
    /\ booted \in BOOLEAN
    /\ panicked \in BOOLEAN
    /\ owned \in [Frames -> Nat]

NoDoubleAllocation ==
    \A f \in Frames :
        /\ owned[f] <= 1
        /\ owned[f] = 1 =>
              \A j \in DOMAIN pages : pages[j].paddr = f => pages[j].state = ALLOC

\* Spec 4.1 invariant: the frames of the kernel image and the descriptor
\* region, [kernel base, kernel base + kernel size + region size), are born
\* allocated and no caller of vm_page_alloc ever receives one.
KernelImageFrames ==
    {f \in Frames : (f - KERN_BASE) * PAGE_SIZE < KERN_SIZE + RegionSize}
KernelFramesReserved ==
    booted /\ ~panicked =>
        \A f \in KernelImageFrames :
            /\ owned[f] = 0
            /\ \A j \in DOMAIN pages : pages[j].paddr = f => pages[j].state = ALLOC

\* Spec 4.1: page_free makes the freed frame immediately allocatable, i.e.
\* after vm_page_free(f) the descriptor of frame f is FREE.
FreedFrameReusable ==
    [][\A f \in Frames :
          (owned'[f] < owned[f]) =>
              \A j \in DOMAIN pages' : pages'[j].paddr = f => pages'[j].state = FREE
      ]_vars
=============================================================================
