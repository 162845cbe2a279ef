---------------------------- MODULE PagingProofs ----------------------------
(***************************************************************************)
(* Proofs about the format of page table entries and of addresses, and     *)
(* about the replacement list, for any devices, pages and number of calls. *)
(***************************************************************************)
EXTENDS Paging, MemphyProofs

(* Fields. *)

LEMMA ShiftBack ==
  ASSUME NEW value \in SUBSET Nat, NEW n \in Nat
  PROVE  SHR(SHL(value, n), n) = value
<1>1. \A b \in value : b + n >= n /\ (b + n) - n = b
  OBVIOUS
<1>2. \A x \in SHL(value, n) : x >= n /\ x - n \in value
  BY <1>1 DEF SHL
<1>3. SHR(SHL(value, n), n) \subseteq value
  BY <1>2 DEF SHR
<1>4. ASSUME NEW b \in value PROVE b \in SHR(SHL(value, n), n)
  <2>1. b + n \in SHL(value, n) /\ b + n >= n /\ (b + n) - n = b
    BY <1>1 DEF SHL
  <2> QED BY <2>1 DEF SHR
<1> QED BY <1>3, <1>4

LEMMA ShiftForth ==
  ASSUME NEW n \in Nat, NEW v \in SUBSET {b \in Nat : b >= n}
  PROVE  SHL(SHR(v, n), n) = v
<1>1. \A b \in v : b >= n /\ b - n \in Nat /\ (b - n) + n = b
  OBVIOUS
<1>2. \A x \in SHR(v, n) : x + n \in v
  BY <1>1 DEF SHR
<1>3. SHL(SHR(v, n), n) \subseteq v
  BY <1>2 DEF SHL
<1>4. ASSUME NEW b \in v PROVE b \in SHL(SHR(v, n), n)
  <2>1. b - n \in SHR(v, n) /\ (b - n) + n = b
    BY <1>1 DEF SHR
  <2> QED BY <2>1 DEF SHL
<1> QED BY <1>3, <1>4

LEMMA ShiftBy0 ==
  ASSUME NEW v \in SUBSET Nat
  PROVE  SHR(v, 0) = v
<1>1. \A b \in v : b >= 0 /\ b - 0 = b
  OBVIOUS
<1> QED BY <1>1 DEF SHR

LEMMA MaskSizes ==
  /\ PAGING_PTE_FPN_MASK = 0 .. 12 /\ PAGING_PTE_SWPTYP_MASK = 0 .. 4
  /\ PAGING_PTE_SWPOFF_MASK = 5 .. 25
  BY DEF PAGING_PTE_FPN_MASK, PAGING_PTE_SWPTYP_MASK, PAGING_PTE_SWPOFF_MASK, GENMASK

\* The marks are outside the fields.
LEMMA MarksApart ==
  ASSUME NEW b \in {30, 31}
  PROVE  /\ b \in Word /\ b \notin PAGING_PTE_FPN_MASK
         /\ b \notin PAGING_PTE_SWPTYP_MASK /\ b \notin PAGING_PTE_SWPOFF_MASK
  BY MaskSizes DEF Word

\* What of a value fits into the field is read back, whatever was there.
LEMMA FieldReadBack ==
  ASSUME NEW v, NEW value, NEW mask, NEW n \in Nat, NEW kept \in SUBSET Nat,
         SHL(value, n) \cap mask = SHL(kept, n)
  PROVE  GETVAL(SETVAL(v, value, mask, n), mask, n) = kept
<1>1. SETVAL(v, value, mask, n) \cap mask = SHL(kept, n)
  BY DEF SETVAL, CLRBIT
<1> QED BY <1>1, ShiftBack DEF GETVAL

\* The low bits of a value in a field of that many bits.
LEMMA Kept ==
  ASSUME NEW value \in SUBSET Nat, NEW n \in Nat, NEW h \in Nat
  PROVE  SHL(value, n) \cap n .. h + n = SHL(value \cap 0 .. h, n)
<1>1. \A b \in value : b + n \in n .. h + n <=> b \in 0 .. h
  OBVIOUS
<1>2. SHL(value, n) \cap n .. h + n \subseteq SHL(value \cap 0 .. h, n)
  BY <1>1 DEF SHL
<1>3. SHL(value \cap 0 .. h, n) \subseteq SHL(value, n) \cap n .. h + n
  BY <1>1 DEF SHL
<1> QED BY <1>2, <1>3

\* A bit outside the field stays as it is.
LEMMA FieldKeepsRest ==
  ASSUME NEW v, NEW value, NEW mask, NEW n, NEW b \in Word, b \notin mask
  PROVE  b \in SETVAL(v, value, mask, n) <=> b \in v
  BY DEF SETVAL, CLRBIT

\* The dirty bit is outside the fields, too.
LEMMA DirtyApart ==
  /\ 28 \in Word /\ 28 \notin PAGING_PTE_FPN_MASK
  /\ 28 \notin PAGING_PTE_SWPTYP_MASK /\ 28 \notin PAGING_PTE_SWPOFF_MASK
  BY MaskSizes DEF Word

\* What pte_set_fpn makes of a cell with any contents: a page that is present
\* and not swapped, in the frame of the low 13 bits of the number.  The numbers
\* of a device of more than 2^13 frames share entries.
THEOREM OnlineEntry ==
  ASSUME NEW pte, NEW fpn \in SUBSET Nat
  PROVE  /\ Online(pte, fpn) \in SUBSET Word
         /\ PAGING_PAGE_PRESENT(Online(pte, fpn))
         /\ Online(pte, fpn) \cap PAGING_PTE_SWAPPED_MASK = {}
         /\ PAGING_FPN(Online(pte, fpn)) = fpn \cap 0 .. 12
<1> DEFINE w == CLRBIT(SETBIT(pte, PAGING_PTE_PRESENT_MASK), PAGING_PTE_SWAPPED_MASK)
<1>1. SHL(fpn, 0) \cap PAGING_PTE_FPN_MASK = SHL(fpn \cap 0 .. 12, 0)
  <2>1. SHL(fpn, 0) \cap 0 .. 12 + 0 = SHL(fpn \cap 0 .. 12, 0)
    BY Kept
  <2> QED BY <2>1, MaskSizes
<1>2. PAGING_FPN(Online(pte, fpn)) = fpn \cap 0 .. 12
  <2>1. GETVAL(SETVAL(w, fpn, PAGING_PTE_FPN_MASK, 0), PAGING_PTE_FPN_MASK, 0) = fpn \cap 0 .. 12
    <3>1. fpn \cap 0 .. 12 \in SUBSET Nat
      OBVIOUS
    <3> HIDE DEF w
    <3> QED BY <1>1, <3>1, FieldReadBack
  <2> QED BY <2>1 DEF Online, PAGING_FPN
<1>3. \A b \in {30, 31} : b \in Online(pte, fpn) <=> b \in w
  BY MarksApart, FieldKeepsRest DEF Online
<1>4. 30 \notin w /\ 31 \in w
  BY DEF CLRBIT, SETBIT, PAGING_PTE_PRESENT_MASK, PAGING_PTE_SWAPPED_MASK, Word
<1>5. Online(pte, fpn) \in SUBSET Word
  BY MaskSizes DEF Online, SETVAL, CLRBIT, Word
<1> QED BY <1>2, <1>3, <1>4, <1>5
        DEF PAGING_PAGE_PRESENT, PAGING_PTE_PRESENT_MASK, PAGING_PTE_SWAPPED_MASK

LEMMA SwappedMarks ==
  ASSUME NEW pte, NEW swptyp, NEW swpoff
  PROVE  30 \in Swapped(pte, swptyp, swpoff) /\ 31 \in Swapped(pte, swptyp, swpoff)
<1> DEFINE w == SETBIT(SETBIT(pte, PAGING_PTE_PRESENT_MASK), PAGING_PTE_SWAPPED_MASK)
           x == SETVAL(w, swptyp, PAGING_PTE_SWPTYP_MASK, 0)
<1>1. 30 \in w /\ 31 \in w
  BY DEF SETBIT, PAGING_PTE_PRESENT_MASK, PAGING_PTE_SWAPPED_MASK
<1>2. 30 \in x /\ 31 \in x
  BY <1>1, MarksApart, FieldKeepsRest
<1> HIDE DEF x
<1>3. /\ 30 \in SETVAL(x, swpoff, PAGING_PTE_SWPOFF_MASK, 5)
      /\ 31 \in SETVAL(x, swpoff, PAGING_PTE_SWPOFF_MASK, 5)
  BY <1>2, MarksApart, FieldKeepsRest
<1> QED BY <1>3 DEF Swapped, SetSwapFields, x

\* What pte_set_swap makes of a cell with any contents: a swapped page with the
\* low 5 bits of the type and the low 21 of the offset, which do not disturb
\* each other.  It counts as present, too: who tests PRESENT only, as pg_getpage
\* and free_pcb_memph do, takes it for a page in the frame PAGING_FPN reads,
\* which is the type and the low 8 bits of the offset.
THEOREM SwappedEntry ==
  ASSUME NEW pte, NEW swptyp \in SUBSET Nat, NEW swpoff \in SUBSET Nat
  PROVE  LET e == Swapped(pte, swptyp, swpoff) IN
         /\ e \in SUBSET Word
         /\ PAGING_PAGE_PRESENT(e)
         /\ e \cap PAGING_PTE_SWAPPED_MASK # {}
         /\ PAGING_SWP(e) = swpoff \cap 0 .. 20
         /\ GETVAL(e, PAGING_PTE_SWPTYP_MASK, 0) = swptyp \cap 0 .. 4
         /\ PAGING_FPN(e) = (swptyp \cap 0 .. 4) \cup SHL(swpoff \cap 0 .. 7, 5)
<1> DEFINE w == SETBIT(SETBIT(pte, PAGING_PTE_PRESENT_MASK), PAGING_PTE_SWAPPED_MASK)
           x == SETVAL(w, swptyp, PAGING_PTE_SWPTYP_MASK, 0)
           y == SETVAL(x, swpoff, PAGING_PTE_SWPOFF_MASK, 5)
<1>1. Swapped(pte, swptyp, swpoff) = y
  BY DEF Swapped, SetSwapFields
<1>2. /\ SHL(swptyp, 0) \cap PAGING_PTE_SWPTYP_MASK = SHL(swptyp \cap 0 .. 4, 0)
      /\ SHL(swpoff, 5) \cap PAGING_PTE_SWPOFF_MASK = SHL(swpoff \cap 0 .. 20, 5)
      /\ swptyp \cap 0 .. 4 \in SUBSET Nat /\ swpoff \cap 0 .. 20 \in SUBSET Nat
  <2>1. /\ SHL(swptyp, 0) \cap 0 .. 4 + 0 = SHL(swptyp \cap 0 .. 4, 0)
        /\ SHL(swpoff, 5) \cap 5 .. 20 + 5 = SHL(swpoff \cap 0 .. 20, 5)
    BY Kept
  <2> QED BY <2>1, MaskSizes
<1>3. PAGING_SWP(y) = swpoff \cap 0 .. 20
  <2> HIDE DEF x
  <2>1. GETVAL(y, PAGING_PTE_SWPOFF_MASK, 5) = swpoff \cap 0 .. 20
    BY <1>2, FieldReadBack
  <2> QED BY <2>1 DEF PAGING_SWP
<1>4. GETVAL(x, PAGING_PTE_SWPTYP_MASK, 0) = swptyp \cap 0 .. 4
  <2> HIDE DEF w
  <2> QED BY <1>2, FieldReadBack
<1>5. y \cap PAGING_PTE_SWPTYP_MASK = x \cap PAGING_PTE_SWPTYP_MASK
  <2>1. \A b \in PAGING_PTE_SWPTYP_MASK : b \in Word /\ b \notin PAGING_PTE_SWPOFF_MASK
    BY MaskSizes DEF Word
  <2>2. \A b \in PAGING_PTE_SWPTYP_MASK : b \in y <=> b \in x
    BY <2>1, FieldKeepsRest
  <2> QED BY <2>2
<1>6. GETVAL(y, PAGING_PTE_SWPTYP_MASK, 0) = swptyp \cap 0 .. 4
  BY <1>4, <1>5 DEF GETVAL
<1>7. 30 \in y /\ 31 \in y
  BY <1>1, SwappedMarks
<1>8. y \in SUBSET Word
  BY MaskSizes DEF SETVAL, CLRBIT, Word
<1>9. PAGING_FPN(y) = (swptyp \cap 0 .. 4) \cup SHL(swpoff \cap 0 .. 7, 5)
  <2>1. y \cap 0 .. 4 = swptyp \cap 0 .. 4
    <3>1. SHR(y \cap PAGING_PTE_SWPTYP_MASK, 0) = y \cap PAGING_PTE_SWPTYP_MASK
      BY <1>8, ShiftBy0 DEF Word
    <3> HIDE DEF y
    <3> QED BY <1>6, <3>1, MaskSizes DEF GETVAL
  <2>2. y \cap 5 .. 12 = SHL(swpoff \cap 0 .. 7, 5)
    <3>1. \A b \in 5 .. 12 : b \in y <=> b \in SHL(swpoff, 5)
      BY MaskSizes DEF SETVAL, CLRBIT
    <3>2. \A b \in 5 .. 12 : b \in SHL(swpoff, 5) <=> b \in SHL(swpoff \cap 0 .. 7, 5)
      BY DEF SHL
    <3>3. SHL(swpoff \cap 0 .. 7, 5) \subseteq 5 .. 12
      BY DEF SHL
    <3> HIDE DEF y
    <3> QED BY <3>1, <3>2, <3>3
  <2>3. PAGING_FPN(y) = y \cap 0 .. 12
    <3>1. y \cap 0 .. 12 \in SUBSET Nat
      OBVIOUS
    <3> HIDE DEF y
    <3> QED BY <3>1, ShiftBy0, MaskSizes DEF PAGING_FPN, GETVAL
  <2>4. y \cap 0 .. 12 = (y \cap 0 .. 4) \cup (y \cap 5 .. 12)
    BY <1>8 DEF Word
  <2> HIDE DEF y
  <2> QED BY <2>1, <2>2, <2>3, <2>4
<1> HIDE DEF y
<1> QED BY <1>1, <1>3, <1>6, <1>7, <1>8, <1>9
        DEF PAGING_PAGE_PRESENT, PAGING_PTE_PRESENT_MASK, PAGING_PTE_SWAPPED_MASK

\* What init_pte makes of an entry: a clean page, present, and swapped just when
\* it was told so; for a page online in frame 0 it leaves the entry as it was.
THEOREM InitializedEntry ==
  ASSUME NEW pte, NEW fpn \in SUBSET Nat, NEW swptyp \in SUBSET Nat,
         NEW swpoff \in SUBSET Nat, NEW swp \in BOOLEAN
  PROVE  LET e == init_pte(pte, swp, fpn, swptyp, swpoff) IN
         IF swp \/ fpn # {}
           THEN /\ PAGING_PAGE_PRESENT(e) /\ e \cap PAGING_PTE_DIRTY_MASK = {}
                /\ e \cap PAGING_PTE_SWAPPED_MASK # {} <=> swp
           ELSE e = pte
<1> DEFINE clean == CLRBIT(pte, PAGING_PTE_DIRTY_MASK)
<1>1. 28 \notin clean
  BY DEF CLRBIT, PAGING_PTE_DIRTY_MASK
<1> HIDE DEF clean
<1>2. CASE swp
  <2>1. init_pte(pte, swp, fpn, swptyp, swpoff) = Swapped(clean, swptyp, swpoff)
    BY <1>2 DEF init_pte, clean
  <2>2. 28 \notin Swapped(clean, swptyp, swpoff)
    <3> DEFINE w == SETBIT(SETBIT(clean, PAGING_PTE_PRESENT_MASK), PAGING_PTE_SWAPPED_MASK)
               x == SETVAL(w, swptyp, PAGING_PTE_SWPTYP_MASK, 0)
    <3>1. 28 \notin w
      BY <1>1 DEF SETBIT, PAGING_PTE_PRESENT_MASK, PAGING_PTE_SWAPPED_MASK
    <3>2. 28 \notin x
      BY <3>1, DirtyApart, FieldKeepsRest
    <3> HIDE DEF x
    <3>3. 28 \notin SETVAL(x, swpoff, PAGING_PTE_SWPOFF_MASK, 5)
      BY <3>2, DirtyApart, FieldKeepsRest
    <3> QED BY <3>3 DEF Swapped, SetSwapFields, x
  <2>3. /\ PAGING_PAGE_PRESENT(Swapped(clean, swptyp, swpoff))
        /\ Swapped(clean, swptyp, swpoff) \cap PAGING_PTE_SWAPPED_MASK # {}
    BY SwappedMarks DEF PAGING_PAGE_PRESENT, PAGING_PTE_PRESENT_MASK,
       PAGING_PTE_SWAPPED_MASK
  <2> QED BY <1>2, <2>1, <2>2, <2>3 DEF PAGING_PTE_DIRTY_MASK
<1>3. CASE ~swp /\ fpn # {}
  <2>1. init_pte(pte, swp, fpn, swptyp, swpoff) = Online(clean, fpn)
    BY <1>3 DEF init_pte, clean
  <2>2. 28 \notin Online(clean, fpn)
    <3> DEFINE w == CLRBIT(SETBIT(clean, PAGING_PTE_PRESENT_MASK), PAGING_PTE_SWAPPED_MASK)
    <3>1. 28 \notin w
      BY <1>1 DEF SETBIT, CLRBIT, PAGING_PTE_PRESENT_MASK
    <3> HIDE DEF w
    <3>2. 28 \notin SETVAL(w, fpn, PAGING_PTE_FPN_MASK, 0)
      BY <3>1, DirtyApart, FieldKeepsRest
    <3> QED BY <3>2 DEF Online, w
  <2> QED BY <1>3, <2>1, <2>2, OnlineEntry DEF PAGING_PTE_DIRTY_MASK
<1>4. CASE ~swp /\ fpn = {}
  BY <1>4 DEF init_pte
<1> QED BY <1>2, <1>3, <1>4

-----------------------------------------------------------------------------
(* Addresses. *)

\* An address of the 22-bit bus is its page number and its offset: nothing of
\* it is lost, and the offset is one of a page of 256 bytes.
THEOREM AddressIsPageAndOffset ==
  ASSUME NEW addr \in SUBSET (0 .. 21)
  PROVE  /\ SHL(PAGING_PGN(addr), 8) \cup PAGING_OFFST(addr) = addr
         /\ PAGING_OFFST(addr) \subseteq 0 .. 7 /\ PAGING_PGN(addr) \subseteq 0 .. 13
<1>1. PAGING_OFFST(addr) = addr \cap 0 .. 7
  BY ShiftBy0 DEF PAGING_OFFST, GETVAL, GENMASK
<1>2. PAGING_PGN(addr) = SHR(addr \cap 8 .. 21, 8)
  BY DEF PAGING_PGN, GETVAL, GENMASK
<1>3. SHL(PAGING_PGN(addr), 8) = addr \cap 8 .. 21
  BY <1>2, ShiftForth
<1>4. PAGING_PGN(addr) \subseteq 0 .. 13
  BY <1>2 DEF SHR
<1>5. \A b \in 0 .. 21 : b \in 0 .. 7 \/ b \in 8 .. 21
  OBVIOUS
<1> QED BY <1>1, <1>3, <1>4, <1>5

\* Page numbers of 45 bits, all that a 57-bit bus has, go to different entries
\* of the five-level table: two pages never share the path of indices.
THEOREM PathsApart ==
  ASSUME NEW pgn \in SUBSET (0 .. 44), NEW other \in SUBSET (0 .. 44),
         get_pd_from_pagenum(pgn) = get_pd_from_pagenum(other)
  PROVE  pgn = other
<1> DEFINE a == SHL(pgn, 12)
           b == SHL(other, 12)
<1>1. a \in SUBSET (12 .. 56) /\ b \in SUBSET (12 .. 56)
  BY DEF SHL
<1>2. a \cap Word64 = a /\ b \cap Word64 = b
  BY <1>1 DEF Word64
<1>3. get_pd_from_address(a) = get_pd_from_address(b)
  BY <1>2 DEF get_pd_from_pagenum
<1> HIDE DEF a, b
<1>4. ASSUME NEW level \in DOMAIN LevelMask
      PROVE  a \cap LevelMask[level] = b \cap LevelMask[level]
  <2>1. GETVAL(a, LevelMask[level], LevelLobit[level])
          = GETVAL(b, LevelMask[level], LevelLobit[level])
    BY <1>3 DEF get_pd_from_address
  <2>2. /\ LevelLobit[level] \in Nat
        /\ LevelMask[level] \in SUBSET {n \in Nat : n >= LevelLobit[level]}
    BY DEF LevelMask, LevelLobit, GENMASK
  <2> QED BY <1>1, <2>1, <2>2, ShiftForth DEF GETVAL
<1>5. \A n \in 12 .. 56 : \E level \in DOMAIN LevelMask : n \in LevelMask[level]
  BY DEF LevelMask, GENMASK
<1>6. a = b
  BY <1>1, <1>4, <1>5
<1> QED BY <1>6, ShiftBack DEF a, b

-----------------------------------------------------------------------------
(* The devices under the replacement of pages. *)

LEMMA StepOfDevices == PagingNext => [Next]_vars
<1> SUFFICES ASSUME PagingNext PROVE Next \/ UNCHANGED vars
  OBVIOUS
<1>1. CASE DeviceCall
  BY <1>1 DEF DeviceCall, Next
<1>2. ASSUME NEW p \in Page, enlist_pgn_node(p)
      PROVE  UNCHANGED vars
  BY <1>2 DEF enlist_pgn_node
<1>3. ASSUME NEW p \in Page, pg_getpage(p)
      PROVE  Next \/ UNCHANGED vars
  <2>1. CASE getpage_replace(p)
    BY <2>1, PagingAssumption DEF getpage_replace, Next
  <2>2. CASE victim_crash(p) \/ getpage_no_victim(p) \/ getpage_no_frame(p)
    BY <2>2 DEF victim_crash, getpage_no_victim, getpage_no_frame
  <2> QED BY <1>3, <2>1, <2>2 DEF pg_getpage
<1> QED BY <1>1, <1>2, <1>3 DEF PagingNext

\* Whatever the replacement list does, the devices go through
\* steps of their own specification, so the theorems about them hold here.
THEOREM DevicesImplemented == PagingSpec => Spec
<1>1. PagingInit => Init
  BY DEF PagingInit
<1>2. [PagingNext]_pagingVars => [Next]_vars
  BY StepOfDevices DEF pagingVars, vars
<1> QED BY <1>1, <1>2, PTL DEF PagingSpec, Spec

\* With the frames that pg_getpage takes for victims, too, no frame is handed
\* out twice.
THEOREM PagingKeepsPartition == PagingSpec => []FramesPartition
  BY DevicesImplemented, FramesPartitionHolds, PTL

\* And a holder reads from its frame what it has put there.
THEOREM PagingKeepsData == PagingSpec => []HolderSeesItsData
  BY DevicesImplemented, HolderSeesItsDataHolds, PTL

-----------------------------------------------------------------------------
(* The replacement list. *)

ListType == fifo_pgn \in Seq(Page) /\ arrivals \in Seq(Page)

\* The list is the newest part of arrivals, read backwards.
Newest ==
  /\ Len(fifo_pgn) <= Len(arrivals)
  /\ \A i \in 1 .. Len(fifo_pgn) : fifo_pgn[i] = arrivals[Len(arrivals) - i + 1]

ListInv == ListType /\ Newest

LEMMA NewestOrder == ListInv => VictimsInOrder
<1> SUFFICES ASSUME ListInv PROVE VictimsInOrder
  OBVIOUS
<1> DEFINE n == Len(fifo_pgn)
           m == Len(arrivals)
           s == Reverse(Reverse(fifo_pgn))
           t == Reverse(arrivals)
<1>1. n \in Nat /\ m \in Nat /\ n <= m
  BY DEF ListInv, ListType, Newest
<1>2. /\ Reverse(fifo_pgn) \in Seq(Page) /\ Len(Reverse(fifo_pgn)) = n
      /\ \A i \in 1 .. n : Reverse(fifo_pgn)[i] = fifo_pgn[n - i + 1]
  BY <1>1 DEF Reverse, ListInv, ListType
<1>3. /\ s \in Seq(Page) /\ Len(s) = n
      /\ \A i \in 1 .. n : s[i] = fifo_pgn[i]
  <2>1. /\ s \in Seq(Page) /\ Len(s) = n
        /\ \A i \in 1 .. n : s[i] = Reverse(fifo_pgn)[n - i + 1]
    BY <1>1, <1>2 DEF Reverse
  <2>2. \A i \in 1 .. n : n - i + 1 \in 1 .. n /\ n - (n - i + 1) + 1 = i
    BY <1>1
  <2> QED BY <1>2, <2>1, <2>2
<1>4. /\ t \in Seq(Page) /\ Len(t) = m
      /\ \A i \in 1 .. m : t[i] = arrivals[m - i + 1]
  BY <1>1 DEF Reverse, ListInv, ListType
<1>5. \A i \in 1 .. n : s[i] = t[i]
  BY <1>1, <1>3, <1>4 DEF ListInv, Newest
<1> HIDE DEF s, t
<1>6. SubSeq(s, 1, n) = SubSeq(t, 1, n)
  <2>1. /\ SubSeq(s, 1, n) = [i \in 1 .. n |-> s[i]]
        /\ SubSeq(t, 1, n) = [i \in 1 .. n |-> t[i]]
    BY <1>1, <1>3, <1>4
  <2>2. [i \in 1 .. n |-> s[i]] = [i \in 1 .. n |-> t[i]]
    BY <1>5
  <2> QED BY <2>1, <2>2
<1>7. IsPrefix(s, t)
  BY <1>1, <1>3, <1>4, <1>6 DEF IsPrefix
<1> QED BY <1>7 DEF VictimsInOrder, IsSuffix, s, t

LEMMA EnlistNewest ==
  ASSUME NEW p \in Page, NEW s \in Seq(Page), ListType, Len(s) <= Len(arrivals),
         \A i \in 1 .. Len(s) : s[i] = arrivals[Len(arrivals) - i + 1],
         fifo_pgn' = <<p>> \o s, arrivals' = Append(arrivals, p)
  PROVE  ListInv'
<1> DEFINE n == Len(s)
           m == Len(arrivals)
<1>1. n \in Nat /\ m \in Nat /\ n <= m
  BY DEF ListType
<1>2. /\ fifo_pgn' \in Seq(Page) /\ Len(fifo_pgn') = n + 1 /\ fifo_pgn'[1] = p
      /\ \A i \in 2 .. n + 1 : fifo_pgn'[i] = s[i - 1] /\ i - 1 \in 1 .. n
  BY <1>1
<1>3. /\ arrivals' \in Seq(Page) /\ Len(arrivals') = m + 1 /\ arrivals'[m + 1] = p
      /\ \A i \in 1 .. m : arrivals'[i] = arrivals[i]
  BY <1>1 DEF ListType
<1>4. ASSUME NEW i \in 1 .. n + 1 PROVE fifo_pgn'[i] = arrivals'[(m + 1) - i + 1]
  <2>1. CASE i = 1
    BY <1>1, <1>2, <1>3, <2>1
  <2>2. CASE i # 1
    <3>1. i \in 2 .. n + 1 /\ m - (i - 1) + 1 = (m + 1) - i + 1 /\ (m + 1) - i + 1 \in 1 .. m
      BY <1>1, <2>2
    <3> QED BY <1>2, <1>3, <3>1
  <2> QED BY <2>1, <2>2
<1>5. ListType'
  BY <1>2, <1>3 DEF ListType
<1>6. Newest'
  <2>1. Len(fifo_pgn') <= Len(arrivals')
    BY <1>1, <1>2, <1>3
  <2>2. ASSUME NEW i \in 1 .. Len(fifo_pgn')
        PROVE  fifo_pgn'[i] = arrivals'[Len(arrivals') - i + 1]
    <3>1. i \in 1 .. n + 1 /\ Len(arrivals') = m + 1
      BY <1>2, <1>3
    <3> QED BY <3>1, <1>4
  <2> QED BY <2>1, <2>2 DEF Newest
<1> QED BY <1>5, <1>6 DEF ListInv

LEMMA AfterVictimNewestPart ==
  ASSUME ListInv, Len(fifo_pgn) > 1
  PROVE  /\ AfterVictim \in Seq(Page) /\ Len(AfterVictim) <= Len(arrivals)
         /\ \A i \in 1 .. Len(AfterVictim) :
              AfterVictim[i] = arrivals[Len(arrivals) - i + 1]
<1>1. Len(fifo_pgn) \in Nat /\ Len(fifo_pgn) <= Len(arrivals) /\ Len(arrivals) \in Nat
  BY DEF ListInv, ListType, Newest
<1>2. /\ AfterVictim \in Seq(Page) /\ Len(AfterVictim) = Len(fifo_pgn) - 1
      /\ \A i \in 1 .. Len(AfterVictim) : AfterVictim[i] = fifo_pgn[i]
  BY <1>1 DEF AfterVictim, Front, ListInv, ListType
<1> QED BY <1>1, <1>2 DEF ListInv, Newest

LEMMA StepList == ListInv /\ [PagingNext]_pagingVars => ListInv'
<1> SUFFICES ASSUME ListInv, [PagingNext]_pagingVars PROVE ListInv'
  OBVIOUS
<1>1. CASE UNCHANGED listVars
  BY <1>1 DEF listVars, ListInv, ListType, Newest
<1>2. ASSUME NEW p \in Page, enlist_pgn_node(p) PROVE ListInv'
  BY <1>2, EnlistNewest DEF enlist_pgn_node, ListInv, ListType, Newest
<1>3. ASSUME NEW p \in Page, getpage_no_frame(p) PROVE ListInv'
  BY <1>3, AfterVictimNewestPart DEF getpage_no_frame, ListInv, ListType, Newest
<1>4. ASSUME NEW p \in Page, getpage_replace(p) PROVE ListInv'
  <2>1. Len(fifo_pgn) > 1 /\ fifo_pgn' = <<p>> \o AfterVictim
        /\ arrivals' = Append(arrivals, p)
    BY <1>4 DEF getpage_replace
  <2> HIDE DEF AfterVictim
  <2> QED BY <2>1, AfterVictimNewestPart, EnlistNewest DEF ListInv
<1>5. ASSUME NEW p \in Page, victim_crash(p) \/ getpage_no_victim(p)
      PROVE  UNCHANGED listVars
  BY <1>5 DEF victim_crash, getpage_no_victim
<1>6. DeviceCall \/ UNCHANGED pagingVars => UNCHANGED listVars
  BY DEF DeviceCall, pagingVars
<1> QED BY <1>1, <1>2, <1>3, <1>4, <1>5, <1>6 DEF PagingNext, pg_getpage

\* However often pages are enlisted and victims are taken or lost, the list
\* holds the pages enlisted last, and the next victim is the oldest of them.
THEOREM VictimsInOrderHolds == PagingSpec => []VictimsInOrder
<1>1. PagingInit => ListInv
  BY DEF PagingInit, ListInv, ListType, Newest
<1> QED BY <1>1, StepList, NewestOrder, PTL DEF PagingSpec

-----------------------------------------------------------------------------
(* Type correctness. *)

OtherType == crashed \in BOOLEAN /\ ops \in 0 .. MaxOps

LEMMA StepOther == OtherType /\ [PagingNext]_pagingVars => OtherType'
<1> SUFFICES ASSUME OtherType, [PagingNext]_pagingVars PROVE OtherType'
  OBVIOUS
<1>1. CASE UNCHANGED pagingVars
  BY <1>1 DEF OtherType, pagingVars
<1>2. CASE Call /\ crashed' \in BOOLEAN
  BY <1>2, PagingAssumption DEF OtherType, Call
<1>3. CASE DeviceCall
  BY <1>2, <1>3 DEF DeviceCall, OtherType
<1>4. ASSUME NEW p \in Page, enlist_pgn_node(p) \/ pg_getpage(p) PROVE OtherType'
  BY <1>2, <1>4 DEF enlist_pgn_node, pg_getpage, victim_crash, getpage_no_victim,
     getpage_no_frame, getpage_replace, OtherType
<1> QED BY <1>1, <1>3, <1>4 DEF PagingNext

\* The devices keep their types while the replacement list takes frames from
\* them, and the list holds pages.
THEOREM PagingTypeCorrect == PagingSpec => []PagingTypeOK
<1>1. PagingInit => ListInv /\ OtherType
  <2>1. PagingInit => ListInv
    BY DEF PagingInit, ListInv, ListType, Newest
  <2>2. PagingInit => OtherType
    <3>1. MaxOps \in Nat /\ 0 \in 0 .. MaxOps
      BY PagingAssumption
    <3> QED BY <3>1 DEF PagingInit, OtherType
  <2> QED BY <2>1, <2>2
<1>2. TypeOK /\ ListInv /\ OtherType => PagingTypeOK
  BY DEF PagingTypeOK, ListInv, ListType, OtherType
<1> QED BY <1>1, <1>2, StepList, StepOther, DevicesImplemented, TypeCorrect, PTL DEF PagingSpec
=============================================================================
