----------------------------- MODULE PageEntry -----------------------------
(***************************************************************************)
(* mm.h, mm64.h and bitops.h: the fields of a page table entry and of an   *)
(* address.  An unsigned number is the set of the positions of its bits    *)
(* that are 1: a mask is an interval, `and', `or' and shifts are set       *)
(* operations.  A mask is a 32-bit number, so the complement of one has no *)
(* bit past 31, also where the number it is applied to has 64.             *)
(***************************************************************************)
EXTENDS Integers

Word == 0 .. 31

Word64 == 0 .. 63

GENMASK(h, l) == l .. h

PAGING_PTE_PRESENT_MASK == {31}
PAGING_PTE_SWAPPED_MASK == {30}
PAGING_PTE_DIRTY_MASK == {28}
PAGING_PTE_FPN_MASK == GENMASK(12, 0)
PAGING_PTE_SWPTYP_MASK == GENMASK(4, 0)
PAGING_PTE_SWPOFF_MASK == GENMASK(25, 5)

SHL(v, n) == {b + n : b \in v}

SHR(v, n) == {b - n : b \in {c \in v : c >= n}}

SETBIT(v, mask) == v \cup mask

CLRBIT(v, mask) == v \cap (Word \ mask)

SETVAL(v, value, mask, offst) == CLRBIT(v, mask) \cup (SHL(value, offst) \cap mask)

GETVAL(v, mask, offst) == SHR(v \cap mask, offst)

PAGING_PAGE_PRESENT(pte) == pte \cap PAGING_PTE_PRESENT_MASK # {}

PAGING_FPN(pte) == GETVAL(pte, PAGING_PTE_FPN_MASK, 0)

PAGING_SWP(pte) == GETVAL(pte, PAGING_PTE_SWPOFF_MASK, 5)

-----------------------------------------------------------------------------
(* What init_pte, pte_set_fpn and pte_set_swap of mm64.c make of an entry. *)
(* The setters get it from malloc and lose it, the walk to the one in the  *)
(* table being a TODO, and init_pte has no caller: so this is the format   *)
(* of an entry and not yet a step of the program.                          *)

\* pte_set_fpn, and init_pte of a page online
Online(pte, fpn) ==
  SETVAL(CLRBIT(SETBIT(pte, PAGING_PTE_PRESENT_MASK), PAGING_PTE_SWAPPED_MASK),
         fpn, PAGING_PTE_FPN_MASK, 0)

SetSwapFields(pte, swptyp, swpoff) ==
  SETVAL(SETVAL(pte, swptyp, PAGING_PTE_SWPTYP_MASK, 0),
         swpoff, PAGING_PTE_SWPOFF_MASK, 5)

\* pte_set_swap, and init_pte of a swapped page, which is marked present, too
Swapped(pte, swptyp, swpoff) ==
  SetSwapFields(SETBIT(SETBIT(pte, PAGING_PTE_PRESENT_MASK), PAGING_PTE_SWAPPED_MASK),
                swptyp, swpoff)

\* init_pte, with pre # 0: -1, and the entry as it was, for an online page in
\* frame 0.
init_pte(pte, swp, fpn, swptyp, swpoff) ==
  IF swp THEN Swapped(CLRBIT(pte, PAGING_PTE_DIRTY_MASK), swptyp, swpoff)
  ELSE IF fpn = {} THEN pte
  ELSE Online(CLRBIT(pte, PAGING_PTE_DIRTY_MASK), fpn)

-----------------------------------------------------------------------------
(* The parts of a 22-bit address of 256-byte pages, mm.h, and the split of *)
(* a 57-bit one of 4096-byte pages into five directory indices, mm64.h.    *)

PAGING_OFFST(addr) == GETVAL(addr, GENMASK(7, 0), 0)

PAGING_PGN(addr) == GETVAL(addr, GENMASK(21, 8), 8)

LevelMask ==
  [pt |-> GENMASK(20, 12), pmd |-> GENMASK(29, 21), pud |-> GENMASK(38, 30),
   p4d |-> GENMASK(47, 39), pgd |-> GENMASK(56, 48)]

LevelLobit == [pt |-> 12, pmd |-> 21, pud |-> 30, p4d |-> 39, pgd |-> 48]

get_pd_from_address(addr) ==
  [level \in DOMAIN LevelMask |-> GETVAL(addr, LevelMask[level], LevelLobit[level])]

get_pd_from_pagenum(pgn) == get_pd_from_address(SHL(pgn, 12) \cap Word64)
=============================================================================
