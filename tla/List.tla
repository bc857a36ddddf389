--------------------------------- MODULE List --------------------------------
(***************************************************************************)
(* The intrusive doubly-linked lists of src/libkern/list.h at the level of *)
(* their pointers.  `link[n]` is the struct list_head n: its next and prev *)
(* fields.  Each list function is an operator on the whole of `link` that *)
(* performs the function's stores in the order the C code does them, each *)
(* later load reading the memory as earlier stores left it, so aliasing   *)
(* between the arguments (moving an entry within its own list, splicing   *)
(* next to the head) is modelled as the code executes it.                 *)
(*                                                                         *)
(* The actions call the functions with arguments that satisfy the         *)
(* contract in list.h's comments; the abstract ListSeq is checked to be   *)
(* implemented under the mapping of each head to the entries that         *)
(* list_for_each visits from it.                                          *)
(***************************************************************************)
EXTENDS Integers, Sequences, SequencesExt, FiniteSets

CONSTANTS
    Heads,      \* list heads: LIST_HEAD objects such as threads, stacks
    Entries,    \* list_head members embedded in elements
    NULL        \* the null pointer that list_del stores

Nodes == Heads \cup Entries

VARIABLE link

vars == <<link>>

-----------------------------------------------------------------------------
(* The functions of list.h, each on the memory m.                          *)

SetNext(m, x, v) == [m EXCEPT ![x].next = v]
SetPrev(m, x, v) == [m EXCEPT ![x].prev = v]

INIT_LIST_HEAD(m, x) == SetPrev(SetNext(m, x, x), x, x)

\* next->prev = new; new->next = next; new->prev = prev; prev->next = new
__list_add(m, new, p, n) ==
    SetNext(SetPrev(SetNext(SetPrev(m, n, new), new, n), new, p), p, new)

\* next->prev = prev; prev->next = next
__list_del(m, p, n) == SetNext(SetPrev(m, n, p), p, n)

list_add(m, new, h) == __list_add(m, new, h, m[h].next)

\* Mutant: list_add_tail passes head and head->prev in the wrong order.
list_add_tail_swapped(m, new, h) == __list_add(m, new, h, m[h].prev)

list_add_tail(m, new, h) == __list_add(m, new, m[h].prev, h)

list_del(m, e) ==
    SetPrev(SetNext(__list_del(m, m[e].prev, m[e].next), e, NULL), e, NULL)

\* new->next = old->next; new->next->prev = new;
\* new->prev = old->prev; new->prev->next = new
list_replace(m, old, new) ==
    LET m1 == SetNext(m, new, m[old].next)
        m2 == SetPrev(m1, m1[new].next, new)
        m3 == SetPrev(m2, new, m2[old].prev)
    IN  SetNext(m3, m3[new].prev, new)

list_replace_init(m, old, new) == INIT_LIST_HEAD(list_replace(m, old, new), old)

list_del_init(m, e) == INIT_LIST_HEAD(__list_del(m, m[e].prev, m[e].next), e)

list_move(m, e, h) == list_add(__list_del(m, m[e].prev, m[e].next), e, h)

list_move_tail(m, e, h) == list_add_tail(__list_del(m, m[e].prev, m[e].next), e, h)

list_is_last(m, e, h) == m[e].next = h

list_empty(m, h) == m[h].next = h

list_empty_careful(m, h) == m[h].next = h /\ m[h].next = m[h].prev

\* Mutant: the emptiness test is dropped, so an empty head is "singular".
list_is_singular_no_empty(m, h) == m[h].next = m[h].prev

list_is_singular(m, h) == ~list_empty(m, h) /\ m[h].next = m[h].prev

\* new_first = entry->next; list->next = head->next; list->next->prev = list;
\* list->prev = entry; entry->next = list; head->next = new_first;
\* new_first->prev = head
__list_cut_position(m, l, h, e) ==
    LET nf == m[e].next
        m1 == SetNext(m, l, m[h].next)
        m2 == SetPrev(m1, m1[l].next, l)
        m3 == SetNext(SetPrev(m2, l, e), e, l)
    IN  SetPrev(SetNext(m3, h, nf), nf, h)

list_cut_position(m, l, h, e) ==
    IF list_empty(m, h) THEN m
    ELSE IF list_is_singular(m, h) /\ m[h].next # e /\ h # e THEN m
    ELSE IF e = h THEN INIT_LIST_HEAD(m, l)
    ELSE __list_cut_position(m, l, h, e)

\* first->prev = prev; prev->next = first; last->next = next; next->prev = last
__list_splice(m, l, p, n) ==
    LET first == m[l].next
        last == m[l].prev
    IN  SetPrev(SetNext(SetNext(SetPrev(m, first, p), p, first), last, n), n, last)

list_splice(m, l, h) ==
    IF list_empty(m, l) THEN m ELSE __list_splice(m, l, h, m[h].next)

list_splice_tail(m, l, h) ==
    IF list_empty(m, l) THEN m ELSE __list_splice(m, l, m[h].prev, h)

list_splice_init(m, l, h) ==
    IF list_empty(m, l) THEN m
    ELSE INIT_LIST_HEAD(__list_splice(m, l, h, m[h].next), l)

list_splice_tail_init(m, l, h) ==
    IF list_empty(m, l) THEN m
    ELSE INIT_LIST_HEAD(__list_splice(m, l, m[h].prev, h), l)

\* list_for_each(pos, head): pos = head->next, then pos->next, until pos is
\* the head again.  A walk that meets NULL or another head, or has not
\* come back after every entry, is not a list and yields NULL at its end.
RECURSIVE Visit(_, _, _, _)
Visit(m, h, x, k) ==
    IF x = h THEN <<>>
    ELSE IF k = 0 \/ x \notin Entries THEN <<NULL>>
    ELSE <<x>> \o Visit(m, h, m[x].next, k - 1)

list_for_each(m, h) == Visit(m, h, m[h].next, Cardinality(Entries))

list_first_entry(m, h) == m[h].next
list_last_entry(m, h) == m[h].prev

\* pos__ = head->next; pos__ != head ? pos__ : NULL
list_first_entry_or_null(m, h) == IF m[h].next # h THEN m[h].next ELSE NULL

\* The walk of the other iterators: from x, following the field f ("next"
\* or "prev") until the head, cut off as Visit is.
RECURSIVE WalkVia(_, _, _, _, _)
WalkVia(m, h, x, k, f) ==
    IF x = h THEN <<>>
    ELSE IF k = 0 \/ x \notin Entries THEN <<NULL>>
    ELSE <<x>> \o WalkVia(m, h, m[x][f], k - 1, f)

N == Cardinality(Entries)

\* __list_for_each and list_for_each_prev (list_for_each_entry_reverse).
__list_for_each(m, h) == WalkVia(m, h, m[h].next, N, "next")
list_for_each_prev(m, h) == WalkVia(m, h, m[h].prev, N, "prev")

\* list_prepare_entry: pos, or the head itself when pos is NULL.
list_prepare_entry(pos, h) == IF pos = NULL THEN h ELSE pos

\* The _continue forms start after pos, the _from form at pos.
list_for_each_entry_continue(m, h, pos) == WalkVia(m, h, m[pos].next, N, "next")
list_for_each_entry_continue_reverse(m, h, pos) == WalkVia(m, h, m[pos].prev, N, "prev")
list_for_each_entry_from(m, h, pos) == WalkVia(m, h, pos, N, "next")

\* Mutant: the step reads pos->f after the body, as the plain loop does.
RECURSIVE SafeDelAfter(_, _, _, _, _, _)
SafeDelAfter(m, h, pos, n, k, f) ==
    IF pos = h THEN [seen |-> <<>>, m |-> m]
    ELSE IF k = 0 \/ pos \notin Entries THEN [seen |-> <<NULL>>, m |-> m]
    ELSE LET m2 == list_del(m, pos)
             nx == m2[pos][f]
             r == SafeDelAfter(m2, h, nx, IF nx \in Nodes THEN m2[nx][f] ELSE NULL, k - 1, f)
         IN  [seen |-> <<pos>> \o r.seen, m |-> r.m]

\* A _safe loop whose body is list_del(pos): n = pos->f is read before the
\* body, and the step is pos = n, n = pos->f in the memory the body left.
\* Yields the entries visited and the memory at the end.
RECURSIVE SafeDel(_, _, _, _, _, _)
SafeDel(m, h, pos, n, k, f) ==
    IF pos = h THEN [seen |-> <<>>, m |-> m]
    ELSE IF k = 0 \/ pos \notin Entries THEN [seen |-> <<NULL>>, m |-> m]
    ELSE LET m2 == list_del(m, pos)
             r == SafeDel(m2, h, n, IF n \in Nodes THEN m2[n][f] ELSE NULL, k - 1, f)
         IN  [seen |-> <<pos>> \o r.seen, m |-> r.m]

\* list_for_each_safe / list_for_each_entry_safe (f = "next") and
\* list_for_each_prev_safe / list_for_each_entry_safe_reverse (f = "prev"),
\* each from the head; _safe_continue starts after pos, _safe_from at pos.
list_for_each_safe_del(m, h, f) == SafeDel(m, h, m[h][f], m[m[h][f]][f], N, f)
list_for_each_entry_safe_continue_del(m, h, pos) ==
    SafeDel(m, h, m[pos].next, m[m[pos].next].next, N, "next")
list_for_each_entry_safe_from_del(m, h, pos) == SafeDel(m, h, pos, m[pos].next, N, "next")

-----------------------------------------------------------------------------
(* The lists the memory holds.                                             *)

\* h heads a list: the forward walk returns to h, and every prev pointer on
\* the way is the inverse of the next pointer before it.
IsList(h) ==
    LET s == list_for_each(link, h)
        ring == <<h>> \o s \o <<h>>
    IN  /\ ~Contains(s, NULL)
        /\ \A i \in 2 .. Len(ring) : link[ring[i]].prev = ring[i - 1]

Valid == {h \in Heads : IsList(h)}
Members(h) == IF h \in Valid THEN list_for_each(link, h) ELSE <<>>
OnList(e) == \E h \in Valid : Contains(Members(h), e)

-----------------------------------------------------------------------------
(* Calls that keep to list.h's contract.                                   *)

\* LIST_HEAD(name): every head starts as an empty list.  Entries are fresh
\* memory from zalloc, which list_add overwrites; they start NULL here.
Init == link = [n \in Nodes |-> IF n \in Heads THEN [next |-> n, prev |-> n]
                                               ELSE [next |-> NULL, prev |-> NULL]]

InitHead(h) == link' = INIT_LIST_HEAD(link, h)

Add(e, h) ==
    /\ h \in Valid /\ ~OnList(e)
    /\ link' = list_add(link, e, h)

AddTail(e, h) ==
    /\ h \in Valid /\ ~OnList(e)
    /\ link' = list_add_tail(link, e, h)

Del(e) == OnList(e) /\ link' = list_del(link, e)

DelInit(e) == OnList(e) /\ link' = list_del_init(link, e)

Move(e, h) == OnList(e) /\ h \in Valid /\ link' = list_move(link, e, h)

MoveTail(e, h) == OnList(e) /\ h \in Valid /\ link' = list_move_tail(link, e, h)

Replace(old, new) ==
    /\ OnList(old) /\ ~OnList(new)
    /\ link' = list_replace(link, old, new)

ReplaceInit(old, new) ==
    /\ OnList(old) /\ ~OnList(new)
    /\ link' = list_replace_init(link, old, new)

\* The four splices, l and h distinct valid heads.
SpliceCall(l, h) == l \in Valid /\ h \in Valid /\ l # h

CutPosition(l, h, e) ==
    /\ h \in Valid /\ l \in Heads \ {h}
    /\ e = h \/ Contains(Members(h), e)
    /\ link' = list_cut_position(link, l, h, e)

Next ==
    \/ \E h \in Heads : InitHead(h)
    \/ \E e \in Entries, h \in Heads : Add(e, h) \/ AddTail(e, h)
    \/ \E e \in Entries : Del(e) \/ DelInit(e)
    \/ \E e \in Entries, h \in Heads : Move(e, h) \/ MoveTail(e, h)
    \/ \E old, new \in Entries : Replace(old, new) \/ ReplaceInit(old, new)
    \/ \E l, h \in Heads :
          /\ SpliceCall(l, h)
          /\ \/ link' = list_splice(link, l, h)
             \/ link' = list_splice_tail(link, l, h)
             \/ link' = list_splice_init(link, l, h)
             \/ link' = list_splice_tail_init(link, l, h)
    \/ \E l, h \in Heads, e \in Nodes : CutPosition(l, h, e)

Spec == Init /\ [][Next]_vars

-----------------------------------------------------------------------------
(* Properties                                                              *)

\* The pointer code implements the sequence operations of ListSeq: under
\* the mapping of each valid head to the entries list_for_each visits, every
\* call, including a move within the entry's own list, a splice next to the
\* head and a cut at the last entry, is the step list.h's comment promises,
\* and only list_splice(_tail) without _init leaves a head unusable.
LS == INSTANCE ListSeq WITH lists <- [h \in Heads |-> Members(h)], valid <- Valid
ListSeqSpec == LS!Spec

\* The O(1) queries the kernel relies on (list_empty in vm_map_entry_create
\* and task code, list_is_last in __select_thread and zfree, list_first_entry
\* and list_last_entry in zalloc and vm_map_alloc) answer what the walk of
\* the list says.
QueriesAgree ==
    \A h \in Valid :
        LET s == Members(h) IN
        /\ list_empty(link, h) <=> s = <<>>
        /\ list_empty_careful(link, h) <=> s = <<>>
        /\ list_is_singular(link, h) <=> Len(s) = 1
        /\ s # <<>> => /\ list_first_entry(link, h) = Head(s)
                       /\ list_last_entry(link, h) = Last(s)
        /\ \A i \in 1 .. Len(s) : list_is_last(link, s[i], h) <=> i = Len(s)

\* The iterator macros visit what the forward walk says, in their order, and
\* the _safe loops survive a body that list_dels the cursor: every entry is
\* visited once, in order, and the head is left empty.  (The kernel's own
\* loops, zfree's and stack_free's, use the plain form and break right
\* after changing the list.)
IteratorsAgree ==
    \A h \in Valid :
        LET s == Members(h)
            Suffix(i) == SubSeq(s, i, Len(s))
            Emptied(r, seen) == r.seen = seen /\ list_empty(r.m, h)
        IN  /\ list_first_entry_or_null(link, h) = IF s = <<>> THEN NULL ELSE Head(s)
            /\ __list_for_each(link, h) = s
            /\ list_for_each_prev(link, h) = Reverse(s)
            /\ Emptied(list_for_each_safe_del(link, h, "next"), s)
            /\ Emptied(list_for_each_safe_del(link, h, "prev"), Reverse(s))
            /\ list_for_each_entry_continue(link, h, list_prepare_entry(NULL, h)) = s
            /\ \A i \in 1 .. Len(s) :
                  /\ list_for_each_entry_continue(link, h, s[i]) = Suffix(i + 1)
                  /\ list_for_each_entry_from(link, h, s[i]) = Suffix(i)
                  /\ list_for_each_entry_continue_reverse(link, h, s[i])
                        = Reverse(SubSeq(s, 1, i - 1))
                  /\ (list_for_each_entry_safe_from_del(link, h, s[i])).seen = Suffix(i)
                  /\ (list_for_each_entry_safe_continue_del(link, h, s[i])).seen
                        = Suffix(i + 1)
=============================================================================
