------------------------------- MODULE Panic --------------------------------
(***************************************************************************)
(* The console, printk, panic and the synchronous exception path of the    *)
(* Monix kernel (src/kern/trace/printk.c, src/kern/panic.c,                *)
(* src/kern/exception.c).  The kernel, running, calls printk at its call   *)
(* sites, calls panic at its call sites, or takes a synchronous exception  *)
(* whose syndrome arm64_handler_synchronous decodes into a panic.  __panic *)
(* prints its banner through vprintk and may itself fault (a %s of a       *)
(* stale word, a bogus frame-pointer chain in the backtrace); the fault is *)
(* a data abort taken on the same CPU, which re-enters __panic.            *)
(*                                                                         *)
(* A syndrome is a record [ec, iss]: ESR_EC and ESR_ISS of the 32-bit ESR  *)
(* (proc_reg.h), kept apart because EC << 26 is beyond TLC's integers.    *)
(* Message text is abstracted to one-letter tokens, a distinct letter per  *)
(* message; the conversions are kept.                                      *)
(***************************************************************************)
EXTENDS Integers, Sequences, FiniteSets

CONSTANTS
    Calls,       \* printk call sites: [level, flags, fmt, args]
    Panics,      \* panic call sites: [fmt, args]
    Esrs,        \* syndromes of the exceptions the kernel may take
    AbortEsrs,   \* syndromes of a data abort on a stale pointer
    JunkFmts,    \* formats read at a frame pointer's address
    JunkVals,    \* stale words a va_arg past the arguments reads
    OptsInit,    \* values __console_emits' uninitialised opts may hold
    MAX_CALLS    \* bound on the kernel's printk/panic/exception steps

P == INSTANCE Printk

VARIABLES
    console_initialised,  \* printk.c's console_initialised
    panic_active,         \* panic.c's panic_active
    cpu,                  \* "run", "abort" (a fault taken in __panic), "halt"
    pending,              \* the syndrome of that fault
    last,                 \* the last message: what it means, what it shows
    ncalls

vars == <<console_initialised, panic_active, cpu, pending, last, ncalls>>

\* arch.h esr_exception_class_t.
ESR_EC_UNCATEGORIZED == 0
ESR_EC_SVC_64 == 21
ESR_EC_MSR_TRAP == 24
ESR_EC_IABORT_EL0 == 32
ESR_EC_IABORT_EL1 == 33
ESR_EC_PC_ALIGN == 34
ESR_EC_DABORT_EL0 == 36
ESR_EC_DABORT_EL1 == 37
ESR_EC_BRK_AARCH64 == 60

\* ESR_EC and ESR_ISS: the class and syndrome fields of the ESR.
ESR_EC(e) == e.ec
ESR_ISS(e) == e.iss

\* ISS_DA_FSC / ISS_IA_FSC: the low six bits of the ISS.
ISS_FSC(iss) == iss % 64

\* The abort inspectors' fault_code (their fault_type is never read).
inspect_data_abort(iss) == ISS_FSC(iss)
inspect_instruction_abort(iss) == ISS_FSC(iss)

\* arch.h fault_status_t, grouped as exception.c's classifiers test them.
FSC_ADDRESS_SIZE == {0, 1, 2, 3}
FSC_TRANSLATION == {4, 5, 6, 7}
FSC_PERMISSION == {13, 14, 15}
FSC_ALIGNMENT_FAULT == 33

\* vm_fault_get_level: the level of a table-walk fault, -1 otherwise.
vm_fault_get_level(fsc) ==
    CASE fsc \in {0, 4} -> 0
      [] fsc \in {5, 1, 9, 13, 21, 29} -> 1
      [] fsc \in {6, 2, 10, 14, 22, 30} -> 2
      [] fsc \in {7, 3, 11, 15, 23, 31} -> 3
      [] OTHER -> -1

Num(n) == [type |-> "num", v |-> n]
Msg(f, a) == [fmt |-> f, args |-> a]

\* handle_data_abort: translation, permission, alignment, address size,
\* unknown, in that order.
handle_data_abort(fsc) ==
    CASE fsc \in FSC_TRANSLATION -> Msg(<<"T", "%", "d">>, <<Num(vm_fault_get_level(fsc))>>)
      [] fsc \in FSC_PERMISSION -> Msg(<<"P", "%", "d">>, <<Num(vm_fault_get_level(fsc))>>)
      [] fsc = FSC_ALIGNMENT_FAULT -> Msg(<<"G">>, <<>>)
      [] fsc \in FSC_ADDRESS_SIZE -> Msg(<<"S", "%", "d">>, <<Num(vm_fault_get_level(fsc))>>)
      [] OTHER -> Msg(<<"U", "%", "l", "x">>, <<Num(fsc)>>)

\* handle_instruction_abort: translation, otherwise unknown.
handle_instruction_abort(fsc) ==
    IF fsc \in FSC_TRANSLATION
    THEN Msg(<<"I", "%", "d">>, <<Num(vm_fault_get_level(fsc))>>)
    ELSE Msg(<<"J", "%", "x">>, <<Num(fsc)>>)

\* arm64_handler_synchronous's switch on ESR_EC, through handle_abort and
\* the second-stage handlers, to the message its panic call passes.  The
\* MSR trap handler passes frame->fp as the format (the message string
\* lands among the variadic arguments): jf is the format found there.
HandlerMessage(e, jf) ==
    LET class == ESR_EC(e)
    IN  CASE class = ESR_EC_PC_ALIGN -> Msg(<<"W">>, <<>>)
          [] class \in {ESR_EC_DABORT_EL0, ESR_EC_DABORT_EL1} ->
               handle_data_abort(inspect_data_abort(ESR_ISS(e)))
          [] class = ESR_EC_BRK_AARCH64 -> Msg(<<"K">>, <<>>)
          [] class = ESR_EC_SVC_64 -> Msg(<<"V">>, <<>>)
          [] class = ESR_EC_MSR_TRAP -> Msg(jf, <<[type |-> "str", s |-> <<"M">>]>>)
          [] class \in {ESR_EC_IABORT_EL0, ESR_EC_IABORT_EL1} ->
               handle_instruction_abort(inspect_instruction_abort(ESR_ISS(e)))
          [] class = ESR_EC_UNCATEGORIZED -> Msg(<<"N">>, <<>>)
          [] OTHER -> Msg(<<"X">>, <<>>)

\* panic and panic_with_thread_state pass only the format on to __panic:
\* each va_arg of its vprintk reads a stale word.
Dropped(j) == [i \in 1 .. 4 |-> [type |-> "junk", v |-> j]]

\* __panic after its panic_active check: set the flag, mask interrupts,
\* print the banner and the message (vprintk of the format with the
\* arguments that were dropped), the CPU line, the backtrace, the frame and
\* the closing banner, then cpu_halt.  A %s of a stale word or a bogus
\* frame chain faults, and the CPU takes a data abort instead.  The second
\* vprintk reads the same words as the first and faults or not alike.
PanicReport(fmt, want) ==
    /\ panic_active' = TRUE
    /\ \E j \in JunkVals, o \in OptsInit, jf \in BOOLEAN, bogus \in BOOLEAN :
         LET m == P!__vprintk(console_initialised, P!LOGLEVEL_DEFAULT, 0, fmt, Dropped(j), o, jf)
         IN  /\ last' = [kind |-> "panic", shown |-> console_initialised,
                         want |-> want, out |-> m.out]
             /\ IF m.fault \/ bogus
                THEN cpu' = "abort" /\ \E e \in AbortEsrs : pending' = e
                ELSE cpu' = "halt" /\ UNCHANGED pending

\* Mutant: __panic without the panic_active check.
PanicNoGuard(flags, fmt, want) == PanicReport(fmt, want)

\* __panic: a panic inside the panic handler goes straight to cpu_halt.
__panic(flags, fmt, want) ==
    IF panic_active
    THEN cpu' = "halt" /\ UNCHANGED <<panic_active, pending, last>>
    ELSE PanicReport(fmt, want)

(***************************************************************************)
(* The message a decoded exception must report (spec 4.7): the fault kind  *)
(* from the ARM fault-status encoding, whose bits [5:2] name the kind and  *)
(* [1:0] the level, and the fixed message of every other class.            *)
(***************************************************************************)
SpecReport(e) ==
    LET fsc == ISS_FSC(e.iss)
        lvl == <<Num(fsc % 4)>>
    IN  CASE e.ec \in {ESR_EC_DABORT_EL0, ESR_EC_DABORT_EL1} ->
              (CASE fsc < 16 /\ fsc \div 4 = 1 -> Msg(<<"T", "%", "d">>, lvl)
                 [] fsc < 16 /\ fsc \div 4 = 3 -> Msg(<<"P", "%", "d">>, lvl)
                 [] fsc = 33 -> Msg(<<"G">>, <<>>)
                 [] fsc < 4 -> Msg(<<"S", "%", "d">>, lvl)
                 [] OTHER -> Msg(<<"U", "%", "l", "x">>, <<Num(fsc)>>))
          [] e.ec \in {ESR_EC_IABORT_EL0, ESR_EC_IABORT_EL1} ->
               IF fsc \div 4 = 1 THEN Msg(<<"I", "%", "d">>, lvl)
               ELSE Msg(<<"J", "%", "x">>, <<Num(fsc)>>)
          [] e.ec = ESR_EC_MSR_TRAP -> Msg(<<"M">>, <<>>)
          [] OTHER -> HandlerMessage(e, <<>>)

Init ==
    /\ console_initialised = FALSE
    /\ panic_active = FALSE
    /\ cpu = "run"
    /\ pending = [ec |-> 0, iss |-> 0]
    /\ last = [kind |-> "none", shown |-> FALSE, want |-> Msg(<<>>, <<>>), out |-> <<>>]
    /\ ncalls = 0

\* console_setup, once, from kernel_init: pl011_init, a newline, then
\* console_initialised = 1.
console_setup ==
    /\ cpu = "run" /\ ~console_initialised
    /\ console_initialised' = TRUE
    /\ UNCHANGED <<panic_active, cpu, pending, last, ncalls>>

\* _printk(level, flags, fmt, ...) at a call site, its arguments passed.
\* The uninitialised opts of __console_emits holds some o.
_printk(c) ==
    /\ cpu = "run" /\ ncalls < MAX_CALLS
    /\ \E o \in OptsInit :
         LET m == P!__vprintk(console_initialised, c.level, c.flags, c.fmt, c.args, o, FALSE)
         IN  last' = [kind |-> "printk",
                      shown |-> console_initialised /\ c.level <= P!DEFAULTS_KERNEL_LOGLEVEL,
                      want |-> Msg(c.fmt, c.args), out |-> m.out]
    /\ ncalls' = ncalls + 1
    /\ UNCHANGED <<console_initialised, panic_active, cpu, pending>>

\* panic(fmt, ...) at a call site.
panic(p) ==
    /\ cpu = "run" /\ ncalls < MAX_CALLS
    /\ __panic(0, p.fmt, p)
    /\ ncalls' = ncalls + 1
    /\ UNCHANGED console_initialised

\* A synchronous exception taken while the kernel runs:
\* arm64_handler_synchronous decodes it and its handler panics (the
\* default case first prints the class with a correct kprintf).
arm64_handler_synchronous(e) ==
    /\ cpu = "run" /\ ncalls < MAX_CALLS
    /\ \E jf \in JunkFmts :
         LET h == HandlerMessage(e, jf) IN __panic(1, h.fmt, SpecReport(e))
    /\ ncalls' = ncalls + 1
    /\ UNCHANGED console_initialised

\* The data abort raised inside __panic, taken by the same handler.
TakeAbort ==
    /\ cpu = "abort"
    /\ \E jf \in JunkFmts :
         LET h == HandlerMessage(pending, jf) IN __panic(1, h.fmt, SpecReport(pending))
    /\ UNCHANGED <<console_initialised, ncalls>>

\* cpu_halt branches to itself; at MAX_CALLS the kernel is left running.
Halted ==
    /\ cpu = "halt" \/ (cpu = "run" /\ ncalls = MAX_CALLS)
    /\ UNCHANGED vars

Next ==
    \/ console_setup
    \/ \E c \in Calls : _printk(c)
    \/ \E p \in Panics : panic(p)
    \/ \E e \in Esrs : arm64_handler_synchronous(e)
    \/ TakeAbort
    \/ Halted

\* The abort is taken by the hardware on the faulting access.
Spec == Init /\ [][Next]_vars /\ WF_vars(TakeAbort)

-----------------------------------------------------------------------------
(***************************************************************************)
(* A reference rendering: C printf over the directives the kernel uses,    *)
(* %[-0][width][l|ll](d|i|x|p|s|c|%), parsed field by field.               *)
(***************************************************************************)
Digits == {"0", "1", "2", "3", "4", "5", "6", "7", "8", "9"}
HexDigit == <<"0", "1", "2", "3", "4", "5", "6", "7", "8", "9", "a", "b", "c", "d", "e", "f">>

\* The first index from i on whose character is not in S.
RECURSIVE Span(_, _, _)
Span(f, i, S) == IF i <= Len(f) /\ f[i] \in S THEN Span(f, i + 1, S) ELSE i

\* The digits of n in base b, most significant first.
RECURSIVE Numeral(_, _)
Numeral(n, b) == IF n < b THEN <<HexDigit[n + 1]>> ELSE Numeral(n \div b, b) \o <<HexDigit[(n % b) + 1]>>

\* The number a sequence of decimal digits spells.
RECURSIVE DecValue(_)
DecValue(ds) ==
    IF ds = <<>> THEN 0
    ELSE 10 * DecValue(SubSeq(ds, 1, Len(ds) - 1))
         + (CHOOSE d \in 0 .. 9 : HexDigit[d + 1] = ds[Len(ds)])

RECURSIVE RenderFrom(_, _, _, _)
RenderFrom(f, a, i, k) ==
    IF i > Len(f) THEN <<>>
    ELSE IF f[i] # "%" THEN <<f[i]>> \o RenderFrom(f, a, i + 1, k)
    ELSE LET fl == Span(f, i + 1, {"-", "0"})
             wd == Span(f, fl, Digits)
             cv == Span(f, wd, {"l"})
             flags == {f[x] : x \in (i + 1) .. (fl - 1)}
             width == DecValue(SubSeq(f, fl, wd - 1))
             body == CASE f[cv] \in {"d", "i"} -> Numeral(a[k].v, 10)
                       [] f[cv] \in {"x", "p"} -> Numeral(a[k].v, 16)
                       [] f[cv] \in {"s", "c"} -> a[k].s
                       [] OTHER -> <<"%">>
             fill == IF width > Len(body) THEN width - Len(body) ELSE 0
             field == CASE "-" \in flags -> body \o [x \in 1 .. fill |-> " "]
                        [] "0" \in flags -> [x \in 1 .. fill |-> "0"] \o body
                        [] OTHER -> [x \in 1 .. fill |-> " "] \o body
         IN  field \o RenderFrom(f, a, cv + 1, IF f[cv] = "%" THEN k ELSE k + 1)

Rendered(m) == RenderFrom(m.fmt, m.args, 1, 1)

-----------------------------------------------------------------------------
Chars == {"t", "?", "%", "-", "l", "d", "x", "s", " "} \cup Digits
         \cup {"a", "b", "c", "e", "f"}
         \cup {"T", "P", "G", "S", "U", "I", "J", "M", "N", "K", "V", "W", "X", "z"}

TypeOK ==
    /\ console_initialised \in BOOLEAN
    /\ panic_active \in BOOLEAN
    /\ cpu \in {"run", "abort", "halt"}
    /\ pending \in Esrs \cup AbortEsrs \cup {[ec |-> 0, iss |-> 0]}
    /\ last.kind \in {"none", "printk", "panic"}
    /\ last.shown \in BOOLEAN
    /\ last.out \in Seq(Chars)
    /\ ncalls \in 0 .. MAX_CALLS

\* __console_emits and __vprintk: a printk call whose level passes the gate
\* after console_setup shows exactly what C printf makes of its format and
\* arguments (digits of llstr/llhex, width padding, width reset between
\* conversions), and any other printk shows nothing.
DirectivesRendered ==
    last.kind = "printk" =>
        last.out = IF last.shown THEN Rendered(last.want) ELSE <<>>

\* __panic's panic_active check: once a panic has begun, the CPU ends in
\* cpu_halt, also when the panic handler itself faults.
PanicHalts == panic_active ~> (cpu = "halt")

\* Every message shown on the console reports what its call site means:
\* printk and panic their format and arguments, a decoded exception its
\* kind and translation level (spec 4.7 and 7).
ReportsArguments ==
    last.shown => last.out = Rendered(last.want)
=============================================================================
