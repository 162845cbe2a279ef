---------------------------- MODULE MemphyProofs ----------------------------
(***************************************************************************)
(* Proofs about the memory devices of mm-memphy.c, for any number of       *)
(* devices of any size, any page size and any values of a byte.            *)
(***************************************************************************)
EXTENDS Memphy, TLAPS

-----------------------------------------------------------------------------
(* Addresses. *)

\* A number below a is below b, so a whole page fits between them.
LEMMA PageFits ==
  ASSUME NEW a \in Nat, NEW b \in Nat, a < b
  PROVE  a * PAGESZ + PAGESZ <= b * PAGESZ
<1>1. b - a - 1 \in Nat /\ PAGESZ \in Nat
  BY MemphyAssumption
<1>2. (b - a - 1) * PAGESZ >= 0
  BY <1>1
<1>3. (b - a - 1) * PAGESZ = b * PAGESZ - a * PAGESZ - PAGESZ
  BY <1>1
<1>4. a * PAGESZ \in Nat /\ b * PAGESZ \in Nat
  BY <1>1
<1> QED BY <1>1, <1>2, <1>3, <1>4

\* Cells of two frames, or two cells of one, have two addresses.
LEMMA CellsApart ==
  ASSUME NEW f \in Nat, NEW g \in Nat, NEW c \in Cell, NEW b \in Cell,
         AtCell(f, c) = AtCell(g, b)
  PROVE  f = g /\ c = b
<1>1. f * PAGESZ \in Nat /\ g * PAGESZ \in Nat /\ PAGESZ \in Nat
  BY MemphyAssumption
<1>2. f * PAGESZ + c = g * PAGESZ + b /\ c \in 0 .. PAGESZ - 1 /\ b \in 0 .. PAGESZ - 1
  BY DEF AtCell, Cell
<1>3. ~(f < g)
  BY <1>1, <1>2, PageFits
<1>4. ~(g < f)
  BY <1>1, <1>2, PageFits
<1> QED BY <1>1, <1>2, <1>3, <1>4

\* Every frame of a device lies inside its storage.
LEMMA CellInside ==
  ASSUME NEW d \in Device, NEW f \in Frame(d), NEW c \in Cell
  PROVE  f \in Nat /\ AtCell(f, c) \in Address(d)
<1>1. PAGESZ \in Nat \ {0} /\ maxsz[d] \in Nat
  BY MemphyAssumption
<1>2. numfp(d) \in Nat /\ numfp(d) * PAGESZ <= maxsz[d]
  BY <1>1 DEF numfp
<1>3. f \in Nat /\ f < numfp(d)
  BY <1>2 DEF Frame
<1>4. f * PAGESZ + PAGESZ <= numfp(d) * PAGESZ
  BY <1>2, <1>3, PageFits
<1>5. f * PAGESZ \in Nat /\ c \in 0 .. PAGESZ - 1 /\ numfp(d) * PAGESZ \in Nat
  BY <1>1, <1>2, <1>3 DEF Cell
<1> QED BY <1>1, <1>2, <1>3, <1>4, <1>5 DEF AtCell, Address

-----------------------------------------------------------------------------
(* Type correctness. *)

LEMMA InitType == Init => TypeOK
<1> SUFFICES ASSUME Init PROVE TypeOK
  OBVIOUS
<1> USE MemphyAssumption
<1>1. DOMAIN storage = Device /\ DOMAIN free_fp_list = Device
      /\ DOMAIN used = Device /\ DOMAIN image = Device
  BY DEF Init, init_memphy
<1>2. ASSUME NEW d \in Device
      PROVE  /\ storage[d] \in [Address(d) -> BYTE]
             /\ used[d] \subseteq Frame(d)
             /\ image[d] \in [Frame(d) -> [Cell -> BYTE \cup {UNKNOWN}]]
  BY DEF Init, init_memphy
<1>3. ASSUME NEW d \in Device PROVE free_fp_list[d] \in Seq(Frame(d))
  <2>1. numfp(d) \in Nat
    BY DEF numfp
  <2>2. [i \in 1 .. numfp(d) |-> i - 1] \in [1 .. numfp(d) -> Frame(d)]
    BY <2>1 DEF Frame
  <2>3. [i \in 1 .. numfp(d) |-> i - 1] \in Seq(Frame(d))
    BY <2>1, <2>2
  <2>4. free_fp_list[d] = [i \in 1 .. numfp(d) |-> i - 1]
    BY DEF Init, init_memphy, MEMPHY_format
  <2> QED BY <2>3, <2>4
<1> QED BY <1>1, <1>2, <1>3 DEF TypeOK

LEMMA StepType == TypeOK /\ [Next]_vars => TypeOK'
<1> SUFFICES ASSUME TypeOK, [Next]_vars PROVE TypeOK'
  OBVIOUS
<1>1. ASSUME NEW d \in Device, NEW f \in Frame(d), MEMPHY_get_freefp(d, f)
      PROVE  TypeOK'
  <2> USE <1>1
  <2>1. Tail(free_fp_list[d]) \in Seq(Frame(d))
    BY DEF TypeOK, MEMPHY_get_freefp
  <2> QED BY <2>1 DEF TypeOK, MEMPHY_get_freefp, Forget, Frame, Address, numfp, Cell
<1>2. ASSUME NEW d \in Device, NEW f \in Frame(d), MEMPHY_put_freefp(d, f)
      PROVE  TypeOK'
  <2> USE <1>2
  <2>1. <<f>> \o free_fp_list[d] \in Seq(Frame(d))
    BY DEF TypeOK
  <2> QED BY <2>1 DEF TypeOK, MEMPHY_put_freefp, Forget, Frame, Address, numfp, Cell
<1>3. ASSUME NEW d \in Device, NEW f \in Frame(d), NEW c \in Cell,
             NEW value \in BYTE, MEMPHY_write(d, f, c, value)
      PROVE  TypeOK'
  <2> USE <1>3
  <2>1. ASSUME NEW e \in Device PROVE storage'[e] \in [Address(e) -> BYTE]
    BY DEF TypeOK, MEMPHY_write
  <2>2. ASSUME NEW e \in Device
        PROVE  image'[e] \in [Frame(e) -> [Cell -> BYTE \cup {UNKNOWN}]]
    BY DEF TypeOK, MEMPHY_write
  <2> QED BY <2>1, <2>2 DEF TypeOK, MEMPHY_write, Frame, Address, numfp, Cell
<1>4. ASSUME NEW d \in Device, NEW f \in Frame(d), NEW e \in Device,
             NEW g \in Frame(e), __swap_cp_page(d, f, e, g)
      PROVE  TypeOK'
  <2> USE <1>4
  <2>1. ASSUME NEW a \in Address(e), \E c \in Cell : a = AtCell(g, c)
        PROVE  storage[d][AtCell(f, CHOOSE c \in Cell : a = AtCell(g, c))] \in BYTE
    <3>1. (CHOOSE c \in Cell : a = AtCell(g, c)) \in Cell
      BY <2>1
    <3> QED BY <3>1, CellInside DEF TypeOK
  <2>2. storage'[e] \in [Address(e) -> BYTE]
    BY <2>1 DEF TypeOK, __swap_cp_page
  <2>3. ASSUME NEW h \in Device PROVE storage'[h] \in [Address(h) -> BYTE]
    BY <2>2 DEF TypeOK, __swap_cp_page
  <2>4. ASSUME NEW h \in Device
        PROVE  image'[h] \in [Frame(h) -> [Cell -> BYTE \cup {UNKNOWN}]]
    BY DEF TypeOK, __swap_cp_page
  <2> QED BY <2>3, <2>4 DEF TypeOK, __swap_cp_page, Frame, Address, numfp, Cell
<1>5. ASSUME UNCHANGED vars PROVE TypeOK'
  BY <1>5 DEF TypeOK, vars, Frame, Address, numfp, Cell
<1> QED BY <1>1, <1>2, <1>3, <1>4, <1>5 DEF Next

\* The storage keeps its size and its type, the lists hold frames of their
\* device, for every configuration of devices.
THEOREM TypeCorrect == Spec => []TypeOK
  BY InitType, StepType, PTL DEF Spec

-----------------------------------------------------------------------------
(* The free lists. *)

\* What FramesPartition says of the list s and the set u of held frames of a
\* device with frames F.
Partition(F, s, u) ==
  /\ \A i, j \in DOMAIN s : s[i] = s[j] => i = j
  /\ \A f \in F : f \in u <=> \A i \in DOMAIN s : s[i] # f

LEMMA PartitionTake ==
  ASSUME NEW F, NEW s \in Seq(F), NEW u, s # <<>>, Partition(F, s, u)
  PROVE  Partition(F, Tail(s), u \cup {Head(s)})
<1> DEFINE t == Tail(s)
<1>1. Len(s) \in Nat /\ Len(s) >= 1 /\ DOMAIN s = 1 .. Len(s)
      /\ DOMAIN t = 1 .. Len(s) - 1 /\ Head(s) = s[1]
  OBVIOUS
<1>2. \A i \in DOMAIN t : t[i] = s[i + 1] /\ i + 1 \in DOMAIN s
  BY <1>1
<1>3. \A i, j \in DOMAIN t : t[i] = t[j] => i = j
  BY <1>1, <1>2 DEF Partition
<1>4. ASSUME NEW f \in F
      PROVE  f \in u \cup {Head(s)} <=> \A i \in DOMAIN t : t[i] # f
  <2>1. CASE f = s[1]
    <3>1. \A i \in DOMAIN t : t[i] # f
      BY <1>1, <1>2, <2>1 DEF Partition
    <3> QED BY <1>1, <2>1, <3>1
  <2>2. CASE f # s[1]
    <3>1. (\E i \in DOMAIN s : s[i] = f) => \E i \in DOMAIN t : t[i] = f
      <4> SUFFICES ASSUME NEW i \in DOMAIN s, s[i] = f
                   PROVE  \E j \in DOMAIN t : t[j] = f
        OBVIOUS
      <4>1. i - 1 \in DOMAIN t
        BY <1>1, <2>2
      <4> QED BY <1>1, <1>2, <4>1
    <3>2. (\E i \in DOMAIN t : t[i] = f) => \E i \in DOMAIN s : s[i] = f
      BY <1>2
    <3> QED BY <1>1, <2>2, <3>1, <3>2 DEF Partition
  <2> QED BY <2>1, <2>2
<1> QED BY <1>3, <1>4 DEF Partition

LEMMA PartitionPut ==
  ASSUME NEW F, NEW s \in Seq(F), NEW u, NEW g \in F, g \in u, Partition(F, s, u)
  PROVE  Partition(F, <<g>> \o s, u \ {g})
<1> DEFINE t == <<g>> \o s
<1>1. Len(s) \in Nat /\ DOMAIN s = 1 .. Len(s) /\ DOMAIN t = 1 .. Len(s) + 1
      /\ t[1] = g
  OBVIOUS
<1>2. \A i \in DOMAIN s : t[i + 1] = s[i] /\ i + 1 \in DOMAIN t
  BY <1>1
<1>3. \A i \in DOMAIN t : i = 1 \/ (i - 1 \in DOMAIN s /\ t[i] = s[i - 1])
  BY <1>1
<1>4. \A i \in DOMAIN s : s[i] # g
  BY DEF Partition
<1>5. \A i, j \in DOMAIN t : t[i] = t[j] => i = j
  BY <1>1, <1>3, <1>4 DEF Partition
<1>6. ASSUME NEW f \in F
      PROVE  f \in u \ {g} <=> \A i \in DOMAIN t : t[i] # f
  <2>1. CASE f = g
    BY <1>1, <2>1
  <2>2. CASE f # g
    <3>1. ASSUME \A i \in DOMAIN t : t[i] # f, NEW i \in DOMAIN s PROVE s[i] # f
      <4>1. t[i + 1] # f
        BY <1>2, <3>1
      <4> QED BY <1>2, <4>1
    <3>2. ASSUME \A i \in DOMAIN s : s[i] # f, NEW i \in DOMAIN t PROVE t[i] # f
      <4>1. i = 1 => t[i] # f
        BY <1>1, <2>2
      <4> QED BY <1>3, <3>2, <4>1
    <3> QED BY <2>2, <3>1, <3>2 DEF Partition
  <2> QED BY <2>1, <2>2
<1> QED BY <1>5, <1>6 DEF Partition

LEMMA PartitionForm ==
  FramesPartition <=>
    \A d \in Device : Partition(Frame(d), free_fp_list[d], used[d])
  BY DEF FramesPartition, Partition

LEMMA InitPartition == Init => FramesPartition
<1> SUFFICES ASSUME Init, NEW d \in Device
             PROVE  Partition(Frame(d), free_fp_list[d], used[d])
  BY PartitionForm
<1>1. numfp(d) \in Nat
  BY MemphyAssumption DEF numfp
<1>2. free_fp_list[d] = [i \in 1 .. numfp(d) |-> i - 1] /\ used[d] = {}
  BY DEF Init, init_memphy, MEMPHY_format
<1>3. ASSUME NEW f \in Frame(d) PROVE \E i \in DOMAIN free_fp_list[d] : free_fp_list[d][i] = f
  <2>1. f + 1 \in 1 .. numfp(d) /\ (f + 1) - 1 = f
    BY <1>1 DEF Frame
  <2> QED BY <1>2, <2>1
<1>4. \A i, j \in DOMAIN free_fp_list[d] :
        free_fp_list[d][i] = free_fp_list[d][j] => i = j
  BY <1>1, <1>2
<1> QED BY <1>2, <1>3, <1>4 DEF Partition

LEMMA StepPartition ==
  TypeOK /\ FramesPartition /\ [Next]_vars => FramesPartition'
<1> SUFFICES ASSUME TypeOK, FramesPartition, [Next]_vars
             PROVE  \A e \in Device : Partition(Frame(e), free_fp_list'[e], used'[e])
  BY DEF FramesPartition, Partition, Frame, numfp
<1>1. \A e \in Device : Partition(Frame(e), free_fp_list[e], used[e])
  BY PartitionForm
<1>2. ASSUME NEW d \in Device, NEW f \in Frame(d), MEMPHY_get_freefp(d, f), NEW e \in Device
      PROVE  Partition(Frame(e), free_fp_list'[e], used'[e])
  <2>1. CASE e = d
    <3>1. Partition(Frame(d), Tail(free_fp_list[d]), used[d] \cup {Head(free_fp_list[d])})
      BY <1>1, <1>2, PartitionTake DEF MEMPHY_get_freefp, TypeOK
    <3> QED BY <1>2, <2>1, <3>1 DEF MEMPHY_get_freefp, TypeOK
  <2>2. CASE e # d
    BY <1>1, <1>2, <2>2 DEF MEMPHY_get_freefp, TypeOK
  <2> QED BY <2>1, <2>2
<1>3. ASSUME NEW d \in Device, NEW f \in Frame(d), MEMPHY_put_freefp(d, f), NEW e \in Device
      PROVE  Partition(Frame(e), free_fp_list'[e], used'[e])
  <2>1. CASE e = d
    <3>1. Partition(Frame(d), <<f>> \o free_fp_list[d], used[d] \ {f})
      BY <1>1, <1>3, PartitionPut DEF MEMPHY_put_freefp, TypeOK
    <3> QED BY <1>3, <2>1, <3>1 DEF MEMPHY_put_freefp, TypeOK
  <2>2. CASE e # d
    BY <1>1, <1>3, <2>2 DEF MEMPHY_put_freefp, TypeOK
  <2> QED BY <2>1, <2>2
<1>4. CASE UNCHANGED <<free_fp_list, used>>
  BY <1>1, <1>4
<1>5. (\A d \in Device : \A f \in Frame(d) : ~MEMPHY_get_freefp(d, f) /\ ~MEMPHY_put_freefp(d, f))
        => UNCHANGED <<free_fp_list, used>>
  BY DEF Next, MEMPHY_write, __swap_cp_page, vars
<1> QED BY <1>2, <1>3, <1>4, <1>5

\* No frame is handed out twice and none is lost, whatever the devices, the
\* callers and the order in which they give frames back.
THEOREM FramesPartitionHolds == Spec => []FramesPartition
<1>1. Init => TypeOK /\ FramesPartition
  BY InitType, InitPartition
<1>2. TypeOK /\ FramesPartition /\ [Next]_vars => (TypeOK /\ FramesPartition)'
  BY StepType, StepPartition
<1> QED BY <1>1, <1>2, PTL DEF Spec

-----------------------------------------------------------------------------
(* The contents of the frames. *)

\* What is known of one cell.
Seen(d, f, c) ==
  image[d][f][c] # UNKNOWN => storage[d][AtCell(f, c)] = image[d][f][c]

AllSeen == \A d \in Device : \A f \in used[d] : \A c \in Cell : Seen(d, f, c)

LEMMA SeenForm == TypeOK => (HolderSeesItsData <=> AllSeen)
<1> SUFFICES ASSUME TypeOK PROVE HolderSeesItsData <=> AllSeen
  OBVIOUS
<1>1. \A d \in Device : \A f \in used[d] : \A c \in Cell : AtCell(f, c) \in Address(d)
  BY CellInside DEF TypeOK
<1> QED BY <1>1 DEF HolderSeesItsData, AllSeen, Seen

LEMMA StepSeen == TypeOK /\ AllSeen /\ [Next]_vars => AllSeen'
<1> SUFFICES ASSUME TypeOK, AllSeen, [Next]_vars,
                    NEW e \in Device, NEW k \in used'[e], NEW b \in Cell
             PROVE  Seen(e, k, b)'
  BY DEF AllSeen, Cell
<1>0. k \in Frame(e) /\ k \in Nat /\ AtCell(k, b) \in Address(e)
  BY StepType, CellInside DEF TypeOK, Frame, numfp
<1>1. ASSUME NEW d \in Device, NEW f \in Frame(d), MEMPHY_get_freefp(d, f)
      PROVE  Seen(e, k, b)'
  BY <1>0, <1>1 DEF MEMPHY_get_freefp, Forget, AllSeen, Seen, TypeOK, AtCell
<1>2. ASSUME NEW d \in Device, NEW f \in Frame(d), MEMPHY_put_freefp(d, f)
      PROVE  Seen(e, k, b)'
  BY <1>0, <1>2 DEF MEMPHY_put_freefp, Forget, AllSeen, Seen, TypeOK, AtCell
<1>3. ASSUME NEW d \in Device, NEW f \in Frame(d), NEW c \in Cell,
             NEW value \in BYTE, MEMPHY_write(d, f, c, value)
      PROVE  Seen(e, k, b)'
  <2> USE <1>0, <1>3
  <2>1. Seen(e, k, b) /\ f \in Nat
    BY CellInside DEF AllSeen, MEMPHY_write
  <2>2. CASE e = d /\ k = f /\ b = c
    BY <2>2, CellInside DEF MEMPHY_write, Seen, TypeOK
  <2>3. CASE ~(e = d /\ k = f /\ b = c)
    <3>1. e = d => AtCell(k, b) # AtCell(f, c)
      BY <2>1, <2>3, CellsApart
    <3>2. storage'[e][AtCell(k, b)] = storage[e][AtCell(k, b)]
      BY <3>1 DEF MEMPHY_write, TypeOK
    <3>3. image'[e][k][b] = image[e][k][b]
      BY <2>3 DEF MEMPHY_write, TypeOK
    <3> QED BY <2>1, <3>2, <3>3 DEF Seen, AtCell
  <2> QED BY <2>2, <2>3
<1>4. ASSUME NEW d \in Device, NEW f \in Frame(d), NEW h \in Device,
             NEW g \in Frame(h), __swap_cp_page(d, f, h, g)
      PROVE  Seen(e, k, b)'
  <2> USE <1>0, <1>4
  <2>1. Seen(e, k, b) /\ Seen(d, f, b) /\ g \in Nat
    BY CellInside DEF AllSeen, __swap_cp_page
  <2>2. CASE e = h /\ k = g
    <3>1. (CHOOSE c \in Cell : AtCell(k, b) = AtCell(g, c)) = b
      BY <2>1, <2>2, CellsApart
    <3>2. storage'[e][AtCell(k, b)] = storage[d][AtCell(f, b)]
      BY <2>2, <3>1 DEF __swap_cp_page, TypeOK
    <3>3. image'[e][k][b] = image[d][f][b]
      BY <2>2 DEF __swap_cp_page, TypeOK
    <3> QED BY <2>1, <3>2, <3>3 DEF Seen, AtCell
  <2>3. CASE ~(e = h /\ k = g)
    <3>1. e = h => ~\E c \in Cell : AtCell(k, b) = AtCell(g, c)
      BY <2>1, <2>3, CellsApart
    <3>2. storage'[e][AtCell(k, b)] = storage[e][AtCell(k, b)]
      BY <3>1 DEF __swap_cp_page, TypeOK
    <3>3. image'[e][k][b] = image[e][k][b]
      BY <2>3 DEF __swap_cp_page, TypeOK
    <3> QED BY <2>1, <3>2, <3>3 DEF Seen, AtCell
  <2> QED BY <2>2, <2>3
<1>5. CASE UNCHANGED vars
  BY <1>5 DEF vars, AllSeen, Seen, AtCell
<1> QED BY <1>1, <1>2, <1>3, <1>4, <1>5 DEF Next

\* A holder reads from its frame what it has put there, whatever is written
\* to and copied to the frames of others.
THEOREM HolderSeesItsDataHolds == Spec => []HolderSeesItsData
<1>1. Init => TypeOK /\ AllSeen
  BY InitType DEF Init, AllSeen
<1>2. TypeOK /\ AllSeen /\ [Next]_vars => (TypeOK /\ AllSeen)'
  BY StepType, StepSeen
<1>3. TypeOK /\ AllSeen => HolderSeesItsData
  BY SeenForm
<1> QED BY <1>1, <1>2, <1>3, PTL DEF Spec
=============================================================================
