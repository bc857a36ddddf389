------------------------------- MODULE MCZone -------------------------------
(***************************************************************************)
(* Zone for TLC.  Two descriptors instead of twelve, so that the table    *)
(* fills.  A scaled-down page of 64 bytes, so that a zone of three slots  *)
(* spans several pages and the floor of the page count matters, as it    *)
(* does for the kernel's zones of a few hundred elements on 4 KiB pages.  *)
(***************************************************************************)
EXTENDS Zone

\* Three slots of 16 bytes; one slot of 32 bytes; a zero size (a panic).
MCRequests ==
    {[size |-> 16, max |-> 48], [size |-> 32, max |-> 32], [size |-> 0, max |-> 16]}
=============================================================================
