-------------------------------- MODULE Pmap --------------------------------
(***************************************************************************)
(* The kernel page-table builder of src/kern/vm/pmap.c: the bump-allocated *)
(* pagetables region and pmap_tt_create_tte, as operators over a record   *)
(* pt = [init, cursor, tabs].  tabs maps a table, named by its page index *)
(* in the region, to its written entries (a table fresh from the region   *)
(* is all zeroes, every entry invalid).                                    *)
(*                                                                         *)
(* Addresses are 4 KB page numbers.  A kernel virtual address is taken as *)
(* its offset from 0xffffff8000000000, the base of the 39-bit TTBR1 range *)
(* whose walk starts at level 1 (TT_L1_INDEX_MASK is bits 38:30), so that *)
(* every address the kernel maps fits TLC's integers and the index masks  *)
(* are exact.  DEFAULTS_KERNEL_VM_USE_L3_TABLE is disabled, so level-2    *)
(* entries are 2 MB blocks.  A table descriptor names the table it points *)
(* to: the physical address written by mmu_translate_kvtop and read back  *)
(* by ptokva is taken to round-trip.                                       *)
(***************************************************************************)
EXTENDS Integers, TLC

\* TT_L1_SIZE (1 GB), TT_L2_SIZE (2 MB) and the 512 entries of a table,
\* in pages.
TT_L1_SIZE == 2^18
TT_L2_SIZE == 2^9
TTE_PAGE_ENTRIES == 512

\* (va & TT_L1_INDEX_MASK) >> TT_L1_SHIFT and the same for level 2.
L1Index(va) == (va \div TT_L1_SIZE) % TTE_PAGE_ENTRIES
L2Index(va) == (va \div TT_L2_SIZE) % TTE_PAGE_ENTRIES

\* 0xfffffff000000000 and 0xffffffff10000000 as TTBR1 page offsets.
DEFAULTS_KERNEL_VM_VIRT_BASE == 117440512
DEFAULTS_KERNEL_VM_PERIPH_BASE == 133234688

Invalid == [type |-> "invalid"]
TableEntry(t) == [type |-> "table", next |-> t]
\* TTE_BLOCK_TEMPLATE | (address & TT_TABLE_MASK): a page address keeps
\* all its bits, those below the 2 MB block included.
BlockEntry(pa) == [type |-> "block", oa |-> pa]

EmptyTable == [i \in {} |-> Invalid]

Entry(table, i) == IF i \in DOMAIN table THEN table[i] ELSE Invalid

PtInit == [init |-> FALSE, cursor |-> 0, tabs |-> [t \in {} |-> EmptyTable]]

\* pmap_ptregion_create: refused once initialised; otherwise the cursor
\* starts at pagetables_region_base.  (The &pagetables_region_base == NULL
\* test cannot hold for a linked symbol.)
pmap_ptregion_create(pt) ==
    IF pt.init THEN pt ELSE [pt EXCEPT !.init = TRUE, !.cursor = 0]

\* pmap_ptregion_alloc: the page at the cursor, and the cursor moves one
\* page on.  Its assert compares the word stored at pagetables_region_end
\* with the address, not the two addresses, and never stops the cursor at
\* the 16th page.
pmap_ptregion_alloc(pt) ==
    [pt EXCEPT !.cursor = @ + 1, !.tabs = (pt.cursor :> EmptyTable) @@ @]

\* The level-2 loop: block entries from map_address_l2 while it stays in
\* the level-1 slot's range and below vend.
RECURSIVE FillL2(_, _, _, _, _, _)
FillL2(l2, a, ma, vend, pbase, vbase) ==
    IF a < ma + TT_L1_SIZE /\ a < vend
    THEN FillL2((L2Index(a) :> BlockEntry(pbase + (a - vbase))) @@ l2,
                a + TT_L2_SIZE, ma, vend, pbase, vbase)
    ELSE l2

\* Link a new level-2 table from the region into slot i of the root.
LinkNew(pt, root, i) ==
    LET new == pmap_ptregion_alloc(pt) IN
    [new EXCEPT !.tabs[root] = (i :> TableEntry(pt.cursor)) @@ @]

\* Mutant: a level-2 table is allocated for every slot, existing or not.
RECURSIVE FillL1AlwaysAlloc(_, _, _, _, _, _)
FillL1AlwaysAlloc(pt, root, ma, vend, pbase, vbase) ==
    IF ma < vend
    THEN LET linked == LinkNew(pt, root, L1Index(ma))
             filled == [linked EXCEPT !.tabs[pt.cursor] = FillL2(@, ma, ma, vend, pbase, vbase)]
         IN FillL1AlwaysAlloc(filled, root, ma + TT_L1_SIZE, vend, pbase, vbase)
    ELSE pt

\* The level-1 loop: a slot that is not a table descriptor gets a new
\* level-2 table, one that is is descended into; map_address then moves
\* on by TT_L1_SIZE from where it started, aligned or not.
RECURSIVE FillL1(_, _, _, _, _, _)
FillL1(pt, root, ma, vend, pbase, vbase) ==
    IF ma < vend
    THEN LET e == Entry(pt.tabs[root], L1Index(ma))
             linked == IF e.type = "table" THEN pt ELSE LinkNew(pt, root, L1Index(ma))
             l2 == IF e.type = "table" THEN e.next ELSE pt.cursor
             filled == [linked EXCEPT !.tabs[l2] = FillL2(@, ma, ma, vend, pbase, vbase)]
         IN FillL1(filled, root, ma + TT_L1_SIZE, vend, pbase, vbase)
    ELSE pt

\* pmap_tt_create_tte(table, pbase, vbase, size).  Its first test,
\* pbase > DEFAULTS_KERNEL_VM_VIRT_BASE, compares a physical address with
\* 0xfffffff000000000 and never holds on a 48-bit physical address.
pmap_tt_create_tte(pt, root, pbase, vbase, size) ==
    FillL1(pt, root, vbase, vbase + size, pbase, vbase)

-----------------------------------------------------------------------------
(* The MMU's walk of a TTBR1 address through the tables, for properties:  *)
(* a block descriptor's output address is taken with the bits below the  *)
(* block cleared, as the kernel's own walker reads it (vm.c:168,          *)
(* TT_BLOCK_MASK) and as QEMU does.                                        *)
NoTranslation == -1

Translate(pt, root, va) ==
    LET e1 == Entry(pt.tabs[root], L1Index(va)) IN
    IF e1.type # "table" THEN NoTranslation
    ELSE LET e2 == Entry(pt.tabs[e1.next], L2Index(va)) IN
         IF e2.type # "block" THEN NoTranslation
         ELSE (e2.oa \div TT_L2_SIZE) * TT_L2_SIZE + (va % TT_L2_SIZE)

\* Within one block both the walk and va |-> pbase + (va - vbase) add one
\* per page, so they agree on every page of [vbase, vbase + size) when
\* they agree on its first page and on the first page of each block after.
Samples(vbase, size) ==
    {vbase} \cup {k * TT_L2_SIZE : k \in (vbase \div TT_L2_SIZE + 1) .. ((vbase + size - 1) \div TT_L2_SIZE)}

MapsTo(pt, root, r) ==
    \A va \in Samples(r.vbase, r.size) : Translate(pt, root, va) = r.pbase + (va - r.vbase)
=============================================================================
