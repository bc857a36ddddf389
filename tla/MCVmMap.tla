------------------------------- MODULE MCVmMap -------------------------------
(***************************************************************************)
(* Model-checking instance of VmMap.  A page of 8 units and a kernel image *)
(* of 10 units, so the first allocation starts at a 4-aligned address     *)
(* that is not page aligned, as it does when the kernel's size is not a    *)
(* page multiple.  Eight frames of RAM leave six for callers: two guarded  *)
(* one-page stacks (stack_alloc) use all of them, and more calls panic.   *)
(***************************************************************************)
EXTENDS VmMap

CONSTANTS c1, c2

MCCallers == {c1, c2}
MCPageSize == 8
MCDescSize == 1
MCMemPages == 8
MCKernSize == 10

\* stack_alloc: THREAD_STACK_DEFAULT_SIZE (one page), both guards;
\* zone_create: page_count * VM_PAGE_SIZE, no guards, where page_count is
\* at least 1; a one-page zone keeps the frames within the bound.
StackRequest == [size |-> MCPageSize, gfirst |-> TRUE, glast |-> TRUE]
ZoneRequest == [size |-> MCPageSize, gfirst |-> FALSE, glast |-> FALSE]
MCRequests == {StackRequest, ZoneRequest}

\* The calls that can interleave: stack_alloc from thread_create, which
\* runs with interrupts unmasked; zone_create runs during kernel_init.
MCStackRequests == {StackRequest}

\* A guarded request of one and a half pages: no caller in the tree makes
\* one (stack_alloc and zone_create pass page multiples), but the function
\* takes any size and spec 4.3 states its result for every size.
MCOddRequests == {[size |-> MCPageSize + MCPageSize \div 2, gfirst |-> TRUE, glast |-> TRUE]}
=============================================================================
