------------------------------ MODULE MCVmPage ------------------------------
(***************************************************************************)
(* Model-checking instance of VmPage.  A 4 KiB page with 40-byte           *)
(* descriptors is scaled to 4 units per page and 1 per descriptor, which   *)
(* keeps the two facts the code depends on: a descriptor is much smaller   *)
(* than a page, and the kernel plus the descriptor region spans a few      *)
(* frames.  Ten frames of RAM leave seven frames for callers.              *)
(***************************************************************************)
EXTENDS VmPage

MCPageSize == 4
MCDescSize == 1
MCMemPages == 10
MCKernSize == 2
=============================================================================
