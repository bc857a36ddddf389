------------------------------- MODULE ListSeq ------------------------------
(***************************************************************************)
(* What the doubly-linked lists of src/libkern/list.h promise, in terms of *)
(* sequences: each list head names a sequence of entries, and every        *)
(* operation is the sequence operation its comment describes.  An entry is *)
(* on at most one list.  A head is `valid` when it may be passed to the    *)
(* operations: list_splice and list_splice_tail leave the spliced-from     *)
(* head pointing into the other list, and it must be re-initialised before *)
(* it is used again.                                                       *)
(***************************************************************************)
EXTENDS Sequences, SequencesExt

CONSTANTS
    Heads,      \* struct list_head objects used as list heads
    Entries     \* struct list_head objects embedded in list elements

VARIABLES
    lists,      \* lists[h]: the entries of h, first to last
    valid       \* the heads that hold a list

vars == <<lists, valid>>

\* The valid head whose list holds e, if any.
OnList(e) == \E h \in valid : Contains(lists[h], e)
HeadOf(e) == CHOOSE h \in valid : Contains(lists[h], e)

\* The lists with e taken out of the one that holds it.
Without(e) == [lists EXCEPT ![HeadOf(e)] = Remove(@, e)]

Init ==
    /\ lists = [h \in Heads |-> <<>>]
    /\ valid = Heads

\* INIT_LIST_HEAD on a head: it holds the empty list.
InitHead(h) ==
    /\ lists' = [lists EXCEPT ![h] = <<>>]
    /\ valid' = valid \cup {h}

\* list_add / list_add_tail: a detached entry becomes the first / last.
Add(e, h) ==
    /\ h \in valid /\ ~OnList(e)
    /\ lists' = [lists EXCEPT ![h] = <<e>> \o @]
    /\ UNCHANGED valid
AddTail(e, h) ==
    /\ h \in valid /\ ~OnList(e)
    /\ lists' = [lists EXCEPT ![h] = Append(@, e)]
    /\ UNCHANGED valid

\* list_del / list_del_init: the entry leaves its list.
Del(e) ==
    /\ OnList(e)
    /\ lists' = Without(e)
    /\ UNCHANGED valid

\* list_move / list_move_tail: delete, then add at the front / back of h,
\* which may be the list the entry was on.
Move(e, h) ==
    /\ OnList(e) /\ h \in valid
    /\ lists' = [Without(e) EXCEPT ![h] = <<e>> \o @]
    /\ UNCHANGED valid
MoveTail(e, h) ==
    /\ OnList(e) /\ h \in valid
    /\ lists' = [Without(e) EXCEPT ![h] = Append(@, e)]
    /\ UNCHANGED valid

\* list_replace / list_replace_init: a detached entry takes old's place.
Replace(old, new) ==
    /\ OnList(old) /\ ~OnList(new)
    /\ lists' = [lists EXCEPT ![HeadOf(old)] = ReplaceAll(@, old, new)]
    /\ UNCHANGED valid

\* list_splice(_tail)(_init)(l, h): l's entries go before (after) h's.  An
\* empty l changes nothing; otherwise l ends empty with _init and invalid
\* without it.
Splice(l, h, tail, init) ==
    /\ l \in valid /\ h \in valid /\ l # h
    /\ IF lists[l] = <<>>
       THEN UNCHANGED vars
       ELSE /\ lists' = [lists EXCEPT
                           ![h] = IF tail THEN @ \o lists[l] ELSE lists[l] \o @,
                           ![l] = <<>>]
            /\ valid' = IF init THEN valid ELSE valid \ {l}

\* list_cut_position(l, h, e): the entries of h up to and including e move
\* to l, whose old entries are dropped; e = h leaves l empty.  Nothing
\* happens when h is empty.
CutPosition(l, h, e) ==
    /\ h \in valid /\ l \in Heads \ {h}
    /\ e = h \/ Contains(lists[h], e)
    /\ IF lists[h] = <<>>
       THEN UNCHANGED vars
       ELSE LET i == IF e = h THEN 0 ELSE SelectInSeq(lists[h], LAMBDA x : x = e)
            IN /\ lists' = [lists EXCEPT ![l] = SubSeq(lists[h], 1, i),
                                         ![h] = SubSeq(lists[h], i + 1, Len(lists[h]))]
               /\ valid' = valid \cup {l}

Next ==
    \/ \E h \in Heads : InitHead(h)
    \/ \E e \in Entries, h \in Heads : Add(e, h) \/ AddTail(e, h)
    \/ \E e \in Entries : Del(e)
    \/ \E e \in Entries, h \in Heads : Move(e, h) \/ MoveTail(e, h)
    \/ \E old, new \in Entries : Replace(old, new)
    \/ \E l, h \in Heads, tail, init \in BOOLEAN : Splice(l, h, tail, init)
    \/ \E l, h \in Heads, e \in Heads \cup Entries : CutPosition(l, h, e)

Spec == Init /\ [][Next]_vars
=============================================================================
