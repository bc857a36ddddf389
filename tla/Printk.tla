------------------------------- MODULE Printk -------------------------------
(***************************************************************************)
(* The formatter of src/kern/trace/printk.c as operators: llstr, llhex and *)
(* the loop of __console_emits, with __vprintk's level and continuation    *)
(* checks in front of it.  A format is a sequence of one-character strings *)
(* (ordinary text abstracted to "t"); an argument is a tagged record:      *)
(*                                                                         *)
(*   [type |-> "num", v |-> n]    an integer the caller passed             *)
(*   [type |-> "str", s |-> seq]  a string the caller passed               *)
(*   [type |-> "junk", v |-> n]   what va_arg reads past the arguments     *)
(*                                passed: a stale register or stack word   *)
(*                                                                         *)
(* Numbers are kept below 2^28 (TLC's integers are 32-bit), so the         *)
(* unsigned-int and long-long reads of va_arg return the value passed.     *)
(***************************************************************************)
LOCAL INSTANCE Integers
LOCAL INSTANCE Sequences
LOCAL INSTANCE Bitwise

\* printk.h and defaults.h.
LOGLEVEL_DEFAULT == 0
DEFAULTS_KERNEL_LOGLEVEL == 3
PK_FLAGS_CONT == 1

\* The formatting options of printk.c.
POPT_LONG == 2
POPT_LONGLONG == 4
POPT_PADRIGHT == 8

\* digit + '0', and llhex's hextable.
DecChar == <<"0", "1", "2", "3", "4", "5", "6", "7", "8", "9">>

\* Mutant: a hextable with upper-case letters.
hextableUpper == DecChar \o <<"A", "B", "C", "D", "E", "F">>

hextable == DecChar \o <<"a", "b", "c", "d", "e", "f">>

\* c - '0' for the characters '0' .. '9'.
DigitOf == [c \in {DecChar[i] : i \in 1 .. 10} |-> CHOOSE i \in 0 .. 9 : DecChar[i + 1] = c]

\* llstr: buf[--pos] = n % 10 + '0' while n >= 10, then the last digit.
RECURSIVE LlstrLoop(_, _)
LlstrLoop(n, acc) ==
    IF n >= 10 THEN LlstrLoop(n \div 10, <<DecChar[(n % 10) + 1]>> \o acc)
    ELSE <<DecChar[n + 1]>> \o acc

llstr(n) == LlstrLoop(n, <<>>)

\* Mutant: llhex's loop as a while (u != 0), which emits nothing for 0.
RECURSIVE LlhexWhile(_, _)
LlhexWhile(u, acc) ==
    IF u # 0 THEN LlhexWhile(u \div 16, <<hextable[(u % 16) + 1]>> \o acc) ELSE acc

\* llhex: do { buf[--pos] = hextable[u % 16]; u /= 16 } while (u != 0).
RECURSIVE LlhexLoop(_, _)
LlhexLoop(u, acc) ==
    LET acc2 == <<hextable[(u % 16) + 1]>> \o acc
    IN  IF u \div 16 # 0 THEN LlhexLoop(u \div 16, acc2) ELSE acc2

llhex(u) == LlhexLoop(u, <<>>)

\* What va_arg yields for each conversion.  A %s of a stale word
\* dereferences it; when that does not fault it prints whatever bytes are
\* there, "?" here.
VaNum(arg) == arg.v
\* (%c takes a one-character string here.)
VaStr(arg) == IF arg.type = "str" THEN arg.s ELSE <<"?">>
StrFaults(arg, jf) == arg.type = "junk" /\ jf

\* The output: label.  width -= strlen(str); zero padding in front unless
\* POPT_PADRIGHT, the string, space padding behind if POPT_PADRIGHT; then
\* width = 0.
Pad(n, ch) == [i \in 1 .. n |-> ch]
Output(s, str) ==
    LET w == s.width - Len(str)
        n == IF w > 0 THEN w ELSE 0
        right == (s.opts & POPT_PADRIGHT) # 0
    IN  [s EXCEPT !.out = @ \o (IF right THEN str \o Pad(n, " ") ELSE Pad(n, "0") \o str),
                  !.width = 0]

\* The state of __console_emits: the format position, width, opts, the
\* next va_arg, the characters emitted, and whether a %s faulted.
RECURSIVE Text(_, _, _, _), Conv(_, _, _, _)

\* The inner while: emit ordinary characters up to a '%' or the end.
Text(f, a, jf, s) ==
    IF s.pos > Len(f) THEN s
    ELSE IF f[s.pos] = "%" THEN Conv(f, a, jf, [s EXCEPT !.pos = @ + 1])
    ELSE Text(f, a, jf, [s EXCEPT !.pos = @ + 1, !.out = Append(@, f[s.pos])])

\* The next: label and the switch on the character after '%'.  Digits
\* accumulate the width, '-' and 'l' set options, and the conversions
\* take the next argument; any other character is dropped, and the cases
\* that break rather than reach output: leave width as it was.
Conv(f, a, jf, s) ==
    IF s.pos > Len(f) THEN s
    ELSE LET c == f[s.pos]
             t == [s EXCEPT !.pos = @ + 1]
             u == [t EXCEPT !.ai = @ + 1]
             arg == a[s.ai]
         IN  CASE c \in DOMAIN DigitOf ->
                    Conv(f, a, jf, [t EXCEPT !.width = @ * 10 + DigitOf[c]])
               [] c = "%" -> Text(f, a, jf, [t EXCEPT !.out = Append(@, "%")])
               [] c = "-" -> Conv(f, a, jf, [t EXCEPT !.opts = @ | POPT_PADRIGHT])
               [] c = "c" -> Text(f, a, jf, [u EXCEPT !.out = @ \o VaStr(arg)])
               [] c = "l" ->
                    Conv(f, a, jf, [t EXCEPT !.opts = IF (@ & POPT_LONG) # 0
                                                      THEN @ | POPT_LONGLONG | POPT_LONG
                                                      ELSE @ | POPT_LONG])
               [] c \in {"i", "d"} -> Text(f, a, jf, Output(u, llstr(VaNum(arg))))
               [] c \in {"p", "x"} -> Text(f, a, jf, Output(u, llhex(VaNum(arg))))
               [] c = "s" -> IF StrFaults(arg, jf) THEN [u EXCEPT !.fault = TRUE]
                             ELSE Text(f, a, jf, Output(u, VaStr(arg)))
               [] OTHER -> Text(f, a, jf, t)

\* __console_emits(fmt, ap): nothing, and -1, before console_setup; opts0
\* is what the uninitialised local opts holds.
__console_emits(initialised, f, a, opts0, jf) ==
    IF ~initialised
    THEN [pos |-> 1, width |-> -1, opts |-> opts0, ai |-> 1, out |-> <<>>, fault |-> FALSE]
    ELSE Text(f, a, jf, [pos |-> 1, width |-> 0, opts |-> opts0, ai |-> 1,
                         out |-> <<>>, fault |-> FALSE])

\* __vprintk: a level above DEFAULTS_KERNEL_LOGLEVEL returns 0 with no
\* output; PK_FLAGS_CONT and the ordinary path both emit.
__vprintk(initialised, level, flags, f, a, opts0, jf) ==
    IF level > DEFAULTS_KERNEL_LOGLEVEL
    THEN [pos |-> 1, width |-> 0, opts |-> opts0, ai |-> 1, out |-> <<>>, fault |-> FALSE]
    ELSE __console_emits(initialised, f, a, opts0, jf)
=============================================================================
