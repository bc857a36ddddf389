------------------------------ MODULE MCPanic -------------------------------
(***************************************************************************)
(* Panic for TLC: call sites of the shapes the kernel uses, literal text   *)
(* abstracted to "t" (the "[   0.0000] " prefix of kprintf included):      *)
(*   kprintf("... 0x%08llx [0x%llx]"), as in kernel_init's banner, with   *)
(*     26 and 0 (the zero llhex's do-while exists for, unpadded);          *)
(*   kprintf("... '%d' ... '%d' ..."), with 12 and 3;                      *)
(*   pr_info("... '%s'") at level 3 and pr_debug at level 4;              *)
(*   zfree's panic("... '0x%lx' ... '%s'") and a panic without arguments.  *)
(* The syndromes cover every branch of arm64_handler_synchronous and of    *)
(* handle_data_abort (translation with WnR set, permission, access flag,   *)
(* alignment, address size) and both of handle_instruction_abort.  The    *)
(* bytes at a frame pointer are read as text or as a "%s".                 *)
(***************************************************************************)
EXTENDS Panic

Str(s) == [type |-> "str", s |-> s]

MCCalls ==
    { [level |-> 0, flags |-> 0, fmt |-> <<"t", "0", "x", "%", "0", "8", "l", "l", "x", "t", "%", "l", "l", "x", "t">>,
       args |-> <<Num(26), Num(0)>>],
      [level |-> 0, flags |-> 0, fmt |-> <<"t", "%", "d", "t", "%", "d", "t">>,
       args |-> <<Num(12), Num(3)>>],
      [level |-> 3, flags |-> 0, fmt |-> <<"t", "%", "s">>, args |-> <<Str(<<"z">>)>>],
      [level |-> 4, flags |-> 0, fmt |-> <<"t", "%", "d">>, args |-> <<Num(5)>>] }

MCPanics ==
    { Msg(<<"t", "0", "x", "%", "l", "x", "t", "%", "s", "t">>, <<Num(26), Str(<<"z">>)>>),
      Msg(<<"t">>, <<>>) }

MCEsrs ==
    { [ec |-> ESR_EC_DABORT_EL1, iss |-> 70], [ec |-> ESR_EC_DABORT_EL0, iss |-> 15],
      [ec |-> ESR_EC_DABORT_EL1, iss |-> 9], [ec |-> ESR_EC_DABORT_EL1, iss |-> 33],
      [ec |-> ESR_EC_DABORT_EL1, iss |-> 2],
      [ec |-> ESR_EC_IABORT_EL1, iss |-> 5], [ec |-> ESR_EC_IABORT_EL0, iss |-> 16],
      [ec |-> ESR_EC_PC_ALIGN, iss |-> 0], [ec |-> ESR_EC_BRK_AARCH64, iss |-> 0],
      [ec |-> ESR_EC_SVC_64, iss |-> 0], [ec |-> ESR_EC_MSR_TRAP, iss |-> 0],
      [ec |-> ESR_EC_UNCATEGORIZED, iss |-> 0], [ec |-> 38, iss |-> 0] }

MCAbortEsrs == {[ec |-> ESR_EC_DABORT_EL1, iss |-> 4], [ec |-> ESR_EC_DABORT_EL1, iss |-> 7]}

MCJunkFmts == {<<"?">>, <<"?", "%", "s">>}
=============================================================================
