------------------------------- MODULE Memphy -------------------------------
(***************************************************************************)
(* mm-memphy.c: random access memory devices (RAM and swap), each an array *)
(* of bytes and a list of free page frames, and __swap_cp_page of mm64.c,  *)
(* which copies a page between two of them.  Init is main's init_memphy of *)
(* every device.  The callers hold mmvm_lock, so a call is one step, and   *)
(* use and give back only frames they got.  What they believe to be in     *)
(* their frames is the variable image.                                     *)
(***************************************************************************)
EXTENDS Integers, Sequences, FiniteSets

CONSTANTS
  Device,
  maxsz,      \* size of each device in bytes
  PAGESZ,     \* PAGING_PAGESZ
  BYTE,       \* the values of a byte
  ZERO,       \* the byte 0
  UNKNOWN     \* what a frame holds that nobody has written to yet

\* A device of less than one page has no list, and in the list of a device
\* of exactly one page MEMPHY_format leaves fp_next of the only node
\* uninitialized.  The configurations name no such device ("must have RAM and
\* at least 1 SWAP"; a size of 0 is a swap that is not used).
ASSUME MemphyAssumption ==
  /\ PAGESZ \in Nat \ {0}
  /\ maxsz \in [Device -> Nat]
  /\ \A d \in Device : maxsz[d] >= 2 * PAGESZ
  /\ ZERO \in BYTE /\ UNKNOWN \notin BYTE

VARIABLES
  storage,        \* mp->storage
  free_fp_list,   \* mp->free_fp_list
  used,           \* the frames the callers hold
  image           \* history: what the holders have put into them

vars == <<storage, free_fp_list, used, image>>

Cell == 0 .. PAGESZ - 1

Address(d) == 0 .. maxsz[d] - 1

numfp(d) == maxsz[d] \div PAGESZ

Frame(d) == 0 .. numfp(d) - 1

\* Mutant: the loop runs up to numfp.
MEMPHY_formatTooMany(d) == [i \in 1 .. numfp(d) + 1 |-> i - 1]

MEMPHY_format(d) == [i \in 1 .. numfp(d) |-> i - 1]

init_memphy ==
  /\ storage = [d \in Device |-> [a \in Address(d) |-> ZERO]]
  /\ free_fp_list = [d \in Device |-> MEMPHY_format(d)]

Init ==
  /\ init_memphy
  /\ used = [d \in Device |-> {}]
  /\ image = [d \in Device |-> [f \in Frame(d) |-> [c \in Cell |-> UNKNOWN]]]

-----------------------------------------------------------------------------
Forget(d, f) == image' = [image EXCEPT ![d][f] = [c \in Cell |-> UNKNOWN]]

\* Mutant: the node stays in the list.
MEMPHY_get_freefpPeek(d, f) ==
  /\ free_fp_list[d] # <<>> /\ f = Head(free_fp_list[d])
  /\ used' = [used EXCEPT ![d] = @ \cup {f}]
  /\ Forget(d, f)
  /\ UNCHANGED <<storage, free_fp_list>>

\* Take the first frame.  With an empty list it returns -1.
MEMPHY_get_freefp(d, f) ==
  /\ free_fp_list[d] # <<>> /\ f = Head(free_fp_list[d])
  /\ free_fp_list' = [free_fp_list EXCEPT ![d] = Tail(@)]
  /\ used' = [used EXCEPT ![d] = @ \cup {f}]
  /\ Forget(d, f)
  /\ UNCHANGED storage

MEMPHY_put_freefp(d, f) ==
  /\ f \in used[d]
  /\ free_fp_list' = [free_fp_list EXCEPT ![d] = <<f>> \o @]
  /\ used' = [used EXCEPT ![d] = @ \ {f}]
  /\ Forget(d, f)
  /\ UNCHANGED storage

\* Mutant: the page number is not scaled by the page size.
AtCellUnscaled(f, c) == f + c

\* fpn * PAGING_PAGESZ + offset
AtCell(f, c) == f * PAGESZ + c

MEMPHY_write(d, f, c, value) ==
  /\ f \in used[d]
  /\ storage' = [storage EXCEPT ![d][AtCell(f, c)] = value]
  /\ image' = [image EXCEPT ![d][f][c] = value]
  /\ UNCHANGED <<free_fp_list, used>>

\* Copy page f of device d to page g of device e, cell by cell.
__swap_cp_page(d, f, e, g) ==
  /\ f \in used[d] /\ g \in used[e]
  /\ storage' = [storage EXCEPT ![e] = [a \in Address(e) |->
       IF \E c \in Cell : a = AtCell(g, c)
         THEN storage[d][AtCell(f, CHOOSE c \in Cell : a = AtCell(g, c))]
         ELSE storage[e][a]]]
  /\ image' = [image EXCEPT ![e][g] = image[d][f]]
  /\ UNCHANGED <<free_fp_list, used>>

Next ==
  \E d \in Device : \E f \in Frame(d) :
    \/ MEMPHY_get_freefp(d, f)
    \/ MEMPHY_put_freefp(d, f)
    \/ \E c \in Cell : \E value \in BYTE : MEMPHY_write(d, f, c, value)
    \/ \E e \in Device : \E g \in Frame(e) : __swap_cp_page(d, f, e, g)

Spec == Init /\ [][Next]_vars

-----------------------------------------------------------------------------
TypeOK ==
  /\ \A d \in Device :
       /\ storage[d] \in [Address(d) -> BYTE]
       /\ free_fp_list[d] \in Seq(Frame(d))
       /\ used[d] \subseteq Frame(d)
       /\ image[d] \in [Frame(d) -> [Cell -> BYTE \cup {UNKNOWN}]]
  /\ DOMAIN storage = Device /\ DOMAIN free_fp_list = Device
  /\ DOMAIN used = Device /\ DOMAIN image = Device

\* Every frame is in the list once or held by a caller, never both: no frame
\* is handed out twice and none is lost, in whatever order they come back.
FramesPartition ==
  \A d \in Device :
    /\ \A i, j \in DOMAIN free_fp_list[d] :
         free_fp_list[d][i] = free_fp_list[d][j] => i = j
    /\ \A f \in Frame(d) :
         f \in used[d] <=> \A i \in DOMAIN free_fp_list[d] : free_fp_list[d][i] # f

\* A holder reads from its frame what it has put there, by a write or by a
\* copy from another frame, whatever is written to and copied to the frames
\* of others, and frames lie inside the storage.
HolderSeesItsData ==
  \A d \in Device : \A f \in used[d] : \A c \in Cell :
    /\ AtCell(f, c) \in Address(d)
    /\ image[d][f][c] # UNKNOWN => storage[d][AtCell(f, c)] = image[d][f][c]
=============================================================================
