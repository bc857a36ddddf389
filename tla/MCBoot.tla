------------------------------- MODULE MCBoot -------------------------------
(***************************************************************************)
(* Boot for TLC: the machines of MCTopology, a GICv3 (ArchRev 3), and the  *)
(* driver's API called with the timer PPI machine_init_timers registers   *)
(* (30), the last PPI (31), an SPI (32) and the enable and disable of 30. *)
(* The boot arguments are those of the cold boot of spec.md (S1) with     *)
(* QEMU virt's PL011 (0x9000000, one page), in 4 KB pages, virtual ones   *)
(* as offsets from 0xffffff8000000000.                                     *)
(***************************************************************************)
EXTENDS Boot, MCTopology

\* physbase 0x40000000, virtbase 0xfffffff000000000, kernbase 0x40100000,
\* kernsize 1 MiB.
MCBootArgs ==
    [physbase |-> 262144, virtbase |-> 117440512, kernbase |-> 262400,
     kernsize |-> 256, uartbase |-> 36864, uartsize |-> 1]

MCCalls ==
    {[op |-> "register", intid |-> i, prio |-> 0] : i \in {30, 31, 32}}
    \cup {[op |-> o, intid |-> 30, prio |-> 0] : o \in {"enable", "disable"}}
\* GicApi.cfg: two PPIs registered, PPI 31, and the disable of one of them.
MCApiCalls ==
    {[op |-> "register", intid |-> i, prio |-> 0] : i \in {16, 30, 31}}
    \cup {[op |-> "disable", intid |-> 16, prio |-> 0]}
=============================================================================
