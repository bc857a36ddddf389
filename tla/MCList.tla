-------------------------------- MODULE MCList -------------------------------
(* Two heads (say threads and stacks) and three entries: enough for a move *)
(* within one list and between two, a splice of a two-entry list, and a    *)
(* cut in the middle of a three-entry list.                                *)
EXTENDS List

CONSTANTS h1, h2, e1, e2, e3

MCHeads == {h1, h2}
MCEntries == {e1, e2, e3}
=============================================================================
