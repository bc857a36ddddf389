------------------------------- MODULE MCSched -------------------------------
(***************************************************************************)
(* Model-checking instance of Sched.  THREAD_COUNT_MAX (24 in thread.h) is *)
(* scaled to 4 slots: the kernel thread plus three threads, enough for a     *)
(* destroyed slot to be reused and for a three-thread rotation.            *)
(***************************************************************************)
EXTENDS Sched

MCThreadCountMax == 4
MCMaxThreadIds == 4
=============================================================================
