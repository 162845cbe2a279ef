----------------------------- MODULE LibMemProofs -----------------------------
(***************************************************************************)
(* Proofs about the region lists of libmem.c, for any number of processes  *)
(* and variables, any sizes, any number of instructions, with or without   *)
(* mm->mmap: what holds wherever the loader replaces krnl->mm.             *)
(***************************************************************************)
EXTENDS LibMem, SequenceTheorems, FiniteSetTheorems, TLAPS

RegionList == Seq(Region)

\* The list of one mm_struct, as ListShape wants it.
Shaped(L) ==
  /\ L # <<>>
  /\ L[Len(L)].start = L[Len(L)].end
  /\ \A i \in 1 .. Len(L) - 1 : L[i].start < L[i].end

\* Where the loader is, and that a process runs only when krnl->mm is set.
LoaderInv ==
  /\ mm = IF ld = "init" THEN loaded + 1 ELSE loaded
  /\ ld = "init" => loaded < NumProc
  /\ \A p \in Proc : at[p] # "idle" => p <= loaded

IInv == TypeOK /\ LoaderInv

-----------------------------------------------------------------------------
(* The lists. *)

LEMMA RegionType ==
  ASSUME NEW s \in Nat, NEW e \in Nat
  PROVE  Rg(s, e) \in Region /\ Rg(s, e).start = s /\ Rg(s, e).end = e
  BY DEF Rg, Region

\* The list with the i-th region cut off its first s bytes.
InPlace(L, i, s) == [L EXCEPT ![i].start = @ + s]

LEMMA CutInPlace ==
  ASSUME NEW L \in RegionList, NEW i \in 1 .. Len(L), NEW s \in Nat,
         NEW M, M = InPlace(L, i, s)
  PROVE  /\ M \in RegionList /\ Len(M) = Len(L)
         /\ M[i].start = L[i].start + s /\ M[i].end = L[i].end
         /\ \A j \in 1 .. Len(L) : j # i => M[j] = L[j]
<1>1. L[i] \in Region /\ L \in [1 .. Len(L) -> Region] /\ Len(L) \in Nat
  BY DEF RegionList
<1>2. [L[i] EXCEPT !.start = @ + s] \in Region
  BY <1>1 DEF Region
<1>3. M \in [1 .. Len(L) -> Region]
  BY <1>1, <1>2 DEF InPlace
<1>4. M \in RegionList /\ Len(M) = Len(L)
  BY <1>1, <1>3 DEF RegionList
<1> QED BY <1>1, <1>4 DEF InPlace, Region

\* The list without its i-th region.
LEMMA CutOut ==
  ASSUME NEW L \in RegionList, NEW i \in 1 .. Len(L), i # Len(L),
         NEW M, M = SubSeq(L, 1, i - 1) \o SubSeq(L, i + 1, Len(L))
  PROVE  /\ M \in RegionList /\ Len(M) = Len(L) - 1
         /\ \A j \in 1 .. Len(L) - 1 : M[j] = IF j < i THEN L[j] ELSE L[j + 1]
<1> DEFINE A == SubSeq(L, 1, i - 1)
           C == SubSeq(L, i + 1, Len(L))
<1>1. Len(L) \in Nat /\ i \in Nat /\ 1 <= i /\ i < Len(L)
  BY DEF RegionList
<1>2. /\ A \in RegionList /\ Len(A) = i - 1
      /\ \A j \in 1 .. i - 1 : A[j] = L[j]
  BY <1>1 DEF RegionList
<1>3. /\ C \in RegionList /\ Len(C) = Len(L) - i
      /\ \A j \in 1 .. Len(L) - i : C[j] = L[j + i]
  BY <1>1 DEF RegionList
<1>4. M \in RegionList /\ Len(M) = Len(L) - 1
  <2> HIDE DEF A, C
  <2>1. M = A \o C
    BY DEF A, C
  <2>2. A \in Seq(Region) /\ C \in Seq(Region)
    BY <1>2, <1>3 DEF RegionList
  <2>3. A \o C \in Seq(Region) /\ Len(A \o C) = Len(A) + Len(C)
    BY <2>2, ConcatProperties
  <2>4. Len(A) + Len(C) = Len(L) - 1
    BY <1>1, <1>2, <1>3
  <2> QED BY <2>1, <2>3, <2>4 DEF RegionList
<1>5. ASSUME NEW j \in 1 .. Len(L) - 1
      PROVE  M[j] = IF j < i THEN L[j] ELSE L[j + 1]
  <2> HIDE DEF A, C
  <2>1. M = A \o C
    BY DEF A, C
  <2>2. M[j] = IF j <= Len(A) THEN A[j] ELSE C[j - Len(A)]
    <3>1. j \in 1 .. Len(A) + Len(C)
      BY <1>1, <1>2, <1>3
    <3>2. A \in Seq(Region) /\ C \in Seq(Region)
      BY <1>2, <1>3 DEF RegionList
    <3> QED BY <2>1, <3>1, <3>2, ConcatProperties
  <2>3. CASE j < i
    <3>1. j <= Len(A) /\ j \in 1 .. i - 1
      BY <1>1, <1>2, <2>3
    <3> QED BY <1>2, <2>2, <2>3, <3>1
  <2>4. CASE ~(j < i)
    <3>1. j - (i - 1) \in 1 .. Len(L) - i /\ (j - (i - 1)) + i = j + 1
      BY <1>1, <2>4
    <3>2. ~(j <= Len(A))
      BY <1>1, <1>2, <2>4
    <3> QED BY <1>2, <1>3, <2>2, <2>4, <3>1, <3>2
  <2> QED BY <2>3, <2>4
<1> QED BY <1>4, <1>5

LEMMA CutType ==
  ASSUME NEW L \in RegionList, NEW i \in 1 .. Len(L), NEW s \in Nat
  PROVE  Cut(L, i, s) \in RegionList
<1>1. CASE L[i].start + s < L[i].end \/ i = Len(L)
  BY <1>1, CutInPlace DEF Cut, InPlace
<1>2. CASE ~(L[i].start + s < L[i].end \/ i = Len(L))
  BY <1>2, CutOut DEF Cut
<1> QED BY <1>1, <1>2

\* Taking bytes from a region they fit in: only the last region may be empty,
\* and it is neither removed nor cut.
LEMMA CutShape ==
  ASSUME NEW L \in RegionList, Shaped(L), NEW i \in 1 .. Len(L), NEW s \in Nat,
         Fits(L, i, s)
  PROVE  Shaped(Cut(L, i, s))
<1> PICK M : M = Cut(L, i, s)
  OBVIOUS
<1>1. Len(L) \in Nat /\ Len(L) >= 1 /\ \A j \in 1 .. Len(L) : L[j] \in Region
  BY DEF RegionList, Shaped
<1>2. CASE i = Len(L)
  <2>1. s = 0 /\ L[i].start + s = L[i].start
    BY <1>1, <1>2 DEF Shaped, Fits, Region
  <2>2. M = InPlace(L, i, s)
    BY <1>2 DEF Cut, InPlace
  <2>3. /\ M \in RegionList /\ Len(M) = Len(L)
        /\ M[i].start = L[i].start + s /\ M[i].end = L[i].end
        /\ \A j \in 1 .. Len(L) : j # i => M[j] = L[j]
    BY <2>2, CutInPlace
  <2> QED BY <1>1, <1>2, <2>1, <2>3 DEF Shaped, RegionList
<1>3. CASE i # Len(L) /\ L[i].start + s < L[i].end
  <2>2. M = InPlace(L, i, s)
    BY <1>3 DEF Cut, InPlace
  <2>3. /\ M \in RegionList /\ Len(M) = Len(L)
        /\ M[i].start = L[i].start + s /\ M[i].end = L[i].end
        /\ \A j \in 1 .. Len(L) : j # i => M[j] = L[j]
    BY <2>2, CutInPlace
  <2> QED BY <1>1, <1>3, <2>3 DEF Shaped, RegionList
<1>4. CASE i # Len(L) /\ ~(L[i].start + s < L[i].end)
  <2>1. M = SubSeq(L, 1, i - 1) \o SubSeq(L, i + 1, Len(L))
    BY <1>4 DEF Cut
  <2>2. /\ M \in RegionList /\ Len(M) = Len(L) - 1
        /\ \A j \in 1 .. Len(L) - 1 : M[j] = IF j < i THEN L[j] ELSE L[j + 1]
    BY <1>4, <2>1, CutOut
  <2>3. Len(M) >= 1 /\ M # <<>> /\ M[Len(M)] = L[Len(L)]
    BY <1>1, <1>4, <2>2
  <2>4. ASSUME NEW j \in 1 .. Len(M) - 1 PROVE M[j].start < M[j].end
    BY <1>1, <1>4, <2>2, <2>4 DEF Shaped
  <2> QED BY <1>1, <2>2, <2>3, <2>4 DEF Shaped
<1> QED BY <1>2, <1>3, <1>4

LEMMA EnlistShape ==
  ASSUME NEW L \in RegionList, NEW r \in Region
  PROVE  /\ enlist_vm_freerg_list(L, r) \in RegionList
         /\ Shaped(L) => Shaped(enlist_vm_freerg_list(L, r))
<1>1. CASE r.start >= r.end
  BY <1>1 DEF enlist_vm_freerg_list
<1>2. CASE ~(r.start >= r.end)
  <2> DEFINE M == <<r>> \o L
  <2>1. Len(L) \in Nat /\ \A j \in 1 .. Len(L) : L[j] \in Region
    BY DEF RegionList
  <2>2. /\ M \in RegionList /\ Len(M) = Len(L) + 1 /\ M[1] = r
        /\ \A j \in 2 .. Len(L) + 1 : M[j] = L[j - 1]
    BY <2>1 DEF RegionList
  <2>3. enlist_vm_freerg_list(L, r) = M
    BY <1>2 DEF enlist_vm_freerg_list
  <2> HIDE DEF M
  <2>4. ASSUME Shaped(L) PROVE Shaped(M)
    <3>1. Len(L) >= 1 /\ M[Len(M)] = L[Len(L)] /\ M # <<>>
      BY <2>1, <2>2, <2>4 DEF Shaped, RegionList
    <3>2. ASSUME NEW j \in 1 .. Len(M) - 1 PROVE M[j].start < M[j].end
      <4>1. CASE j = 1
        BY <1>2, <2>2, <4>1 DEF Region
      <4>2. CASE j # 1
        <5>1. j - 1 \in 1 .. Len(L) - 1 /\ M[j] = L[j - 1]
          BY <2>1, <2>2, <4>2
        <5> QED BY <2>4, <5>1 DEF Shaped
      <4> QED BY <4>1, <4>2
    <3> QED BY <2>4, <3>1, <3>2 DEF Shaped
  <2> QED BY <2>2, <2>3, <2>4
<1> QED BY <1>1, <1>2

-----------------------------------------------------------------------------
(* The types. *)

LEMMA PlusType ==
  ASSUME NEW count \in [Addr -> Nat], NEW r
  PROVE  Plus(count, r) \in [Addr -> Nat]
  BY DEF Plus

LEMMA MmType ==
  ASSUME IInv, NEW p \in Proc, p <= loaded
  PROVE  mm \in Proc
  BY LibMemAssumption DEF IInv, TypeOK, LoaderInv, Proc

LEMMA VmaType ==
  ASSUME TypeOK, NEW m \in Proc, NEW L \in RegionList
  PROVE  [vma EXCEPT ![m].free = L] \in
           [Proc -> [mapped : BOOLEAN, sbrk : Nat, free : RegionList]]
  BY DEF TypeOK, RegionList

\* A process that is free to call is one of those added.
LEMMA Called ==
  ASSUME IInv, NEW p \in Proc, Free(p), Count, UNCHANGED loaderVars,
         NEW l \in {"idle", "find", "start", "end", "enlist"}, at' = [at EXCEPT ![p] = l]
  PROVE  /\ ops' \in 0 .. MaxOps
         /\ at' \in [Proc -> {"idle", "find", "start", "end", "enlist"}]
         /\ p \in 0 .. NumProc /\ LoaderInv'
  BY LibMemAssumption DEF IInv, TypeOK, LoaderInv, Free, Count, loaderVars, Proc

LEMMA TableType ==
  ASSUME TypeOK, NEW m \in Proc, NEW r \in RegId, NEW a \in Nat
  PROVE  /\ [symrgtbl EXCEPT ![m][r].start = a] \in [Proc -> [RegId -> Region]]
         /\ [symrgtbl EXCEPT ![m][r].end = a] \in [Proc -> [RegId -> Region]]
<1>0. symrgtbl[m][r] \in Region
  BY DEF TypeOK
<1>1. /\ [symrgtbl[m][r] EXCEPT !.start = a] \in Region
      /\ [symrgtbl[m][r] EXCEPT !.end = a] \in Region
  BY <1>0 DEF Region
<1>2. /\ [symrgtbl[m] EXCEPT ![r].start = a] \in [RegId -> Region]
      /\ [symrgtbl[m] EXCEPT ![r].end = a] \in [RegId -> Region]
  BY <1>1 DEF TypeOK
<1> QED BY <1>2 DEF TypeOK

LEMMA InitInv == Init => IInv
<1> SUFFICES ASSUME Init PROVE IInv
  OBVIOUS
<1>1. NumProc \in Nat /\ NumProc > 0 /\ MaxOps \in Nat
  BY LibMemAssumption
<1>2. NoRg \in Region /\ <<>> \in Seq(Region)
  BY DEF NoRg, Rg, Region
<1>3. reg \in [Proc -> RegId]
  BY LibMemAssumption DEF Init
<1>4. vma \in [Proc -> [mapped : BOOLEAN, sbrk : Nat, free : Seq(Region)]]
  BY <1>2 DEF Init
<1>5. /\ minted \in [Addr -> Nat] /\ leaked \in [Addr -> Nat]
      /\ symrgtbl \in [Proc -> [RegId -> Region]]
      /\ own \in [Proc -> [RegId -> Region]]
      /\ rg \in [Proc -> Region]
      /\ at \in [Proc -> {"idle", "find", "start", "end", "enlist"}]
  BY <1>2 DEF Init
<1>6. LoaderInv
  BY DEF Init, LoaderInv
<1>7. TypeOK
  <2>1. /\ mm \in 0 .. NumProc /\ loaded \in 0 .. NumProc
        /\ mmvm_lock \in 0 .. NumProc /\ ops \in 0 .. MaxOps
        /\ cur_vma \in [Proc -> 0 .. NumProc]
    BY <1>1 DEF Init
  <2>2. /\ ld \in {"malloc", "init"}
        /\ fault \in {"none", "null", "garbage"} /\ torn \in BOOLEAN
    BY DEF Init
  <2> QED BY <1>3, <1>4, <1>5, <2>1, <2>2 DEF TypeOK
<1> QED BY <1>6, <1>7 DEF IInv

LEMMA LoaderStep ==
  ASSUME IInv, MallocMm \/ init_mm
  PROVE  IInv'
<1> USE LibMemAssumption DEF IInv, LoaderInv, Proc
<1>1. CASE MallocMm
  BY <1>1 DEF MallocMm, TypeOK, memVars, procVars
<1>2. CASE init_mm
  <2>1. <<NoRg>> \in Seq(Region)
    BY DEF NoRg, Rg, Region
  <2>2. vma' \in [Proc -> [mapped : BOOLEAN, sbrk : Nat, free : Seq(Region)]]
    BY <1>2, <2>1 DEF init_mm, TypeOK
  <2> QED BY <1>2, <2>2 DEF init_mm, TypeOK, procVars, history
<1> QED BY <1>1, <1>2

\* A process inside a call is one of those added.
LEMMA InCall ==
  ASSUME IInv, NEW p \in Proc, at[p] # "idle"
  PROVE  p <= loaded /\ mm \in Proc
  BY MmType DEF IInv, LoaderInv

LEMMA FindStep ==
  ASSUME IInv, NEW p \in Proc, NEW r \in RegId, NEW s \in Size, alloc_find(p, r, s)
  PROVE  IInv'
<1> DEFINE L == vma[mm].free
           found == {i \in 1 .. Len(L) : FirstFit(L, i, s)}
           brk == Rg(vma[cur_vma[p]].sbrk, vma[cur_vma[p]].sbrk + s)
<1>1. s \in Nat /\ mm \in Proc
  BY LibMemAssumption, InCall DEF alloc_find
<1>2. L \in RegionList
  BY <1>1 DEF IInv, TypeOK, RegionList
<1>3. /\ rg' \in [Proc -> Region]
      /\ vma' \in [Proc -> [mapped : BOOLEAN, sbrk : Nat, free : RegionList]]
      /\ minted' \in [Addr -> Nat]
  <2>1. ASSUME cur_vma[p] # 0, vma' = vma,
               rg' = [rg EXCEPT ![p] = brk], minted' = Plus(minted, brk)
        PROVE  /\ rg' \in [Proc -> Region]
               /\ vma' \in [Proc -> [mapped : BOOLEAN, sbrk : Nat, free : RegionList]]
               /\ minted' \in [Addr -> Nat]
    <3>0. cur_vma[p] \in Proc
      BY <2>1, LibMemAssumption DEF IInv, TypeOK, Proc
    <3>1. brk \in Region
      <4>1. vma[cur_vma[p]].sbrk \in Nat
        BY <3>0 DEF IInv, TypeOK
      <4>2. vma[cur_vma[p]].sbrk + s \in Nat
        BY <1>1, <4>1
      <4> QED BY <4>1, <4>2, RegionType
    <3>2. rg' = [rg EXCEPT ![p] = brk] /\ minted' = Plus(minted, brk) /\ vma' = vma
      BY <2>1
    <3> HIDE DEF brk
    <3> QED BY <3>1, <3>2, PlusType DEF IInv, TypeOK, RegionList
  <2>2. ASSUME NEW i \in found,
               rg' = [rg EXCEPT ![p] = Rg(L[i].start, L[i].start + s)],
               vma' = [vma EXCEPT ![mm].free = Cut(L, i, s)], minted' = minted
        PROVE  /\ rg' \in [Proc -> Region]
               /\ vma' \in [Proc -> [mapped : BOOLEAN, sbrk : Nat, free : RegionList]]
               /\ minted' \in [Addr -> Nat]
    <3>1. Rg(L[i].start, L[i].start + s) \in Region
      <4>1. L[i] \in Region
        BY <1>2 DEF RegionList
      <4>2. L[i].start \in Nat /\ L[i].start + s \in Nat
        BY <1>1, <4>1 DEF Region
      <4> QED BY <4>2, RegionType
    <3>2. Cut(L, i, s) \in RegionList
      BY <1>1, <1>2, CutType
    <3> HIDE DEF L
    <3> QED BY <1>1, <2>2, <3>1, <3>2, VmaType DEF IInv, TypeOK
  <2> QED BY <2>1, <2>2 DEF alloc_find, inc_vma_limit
<1>4. /\ at' \in [Proc -> {"idle", "find", "start", "end", "enlist"}]
      /\ reg' \in [Proc -> RegId] /\ LoaderInv'
  BY DEF alloc_find, loaderVars, IInv, TypeOK, LoaderInv
<1> QED BY <1>3, <1>4 DEF alloc_find, loaderVars, IInv, TypeOK, RegionList

LEMMA OtherStep ==
  ASSUME IInv, NEW p \in Proc,
         run(p), ~(\E r \in RegId : \E s \in Size : alloc_find(p, r, s))
  PROVE  IInv'
<1> USE DEF IInv, LoaderInv
<1>0. LibMemAssumption /\ NoRg \in Region
  BY LibMemAssumption DEF NoRg, Rg, Region
<1>1. ASSUME NEW r \in RegId, free_take(p, r) PROVE IInv'
  <2>1. mm \in Proc
    BY <1>1, MmType DEF free_take, Free
  <2>2. /\ ops' \in 0 .. MaxOps
        /\ at' \in [Proc -> {"idle", "find", "start", "end", "enlist"}]
        /\ p \in 0 .. NumProc /\ LoaderInv'
    <3> HIDE DEF LoaderInv
    <3> QED BY <1>1, Called DEF free_take
  <2>3. /\ symrgtbl' \in [Proc -> [RegId -> Region]]
        /\ rg' \in [Proc -> Region]
    BY <1>0, <1>1, <2>1 DEF free_take, TypeOK
  <2> QED BY <1>1, <2>2, <2>3 DEF free_take, loaderVars, history, TypeOK
<1>2. ASSUME NEW r \in RegId, free_nothing(p, r) PROVE IInv'
  BY <1>0, <1>2 DEF free_nothing, Free, Count, loaderVars, memVars, TypeOK
<1>3. ASSUME NEW how \in {"null", "garbage"}, Stop(how) PROVE IInv'
  BY <1>3 DEF Stop, loaderVars, memVars, procVars, history, TypeOK
<1>4. CASE alloc_start(p)
  <2>1. mm \in Proc
    BY <1>4, MmType DEF alloc_start
  <2>2. symrgtbl' \in [Proc -> [RegId -> Region]]
    <3>1. reg[p] \in RegId /\ rg[p].start \in Nat
      BY DEF TypeOK, Region
    <3> QED BY <1>4, <2>1, <3>1, TableType DEF alloc_start
  <2> QED BY <1>4, <2>2, PlusType DEF alloc_start, loaderVars, TypeOK
<1>5. CASE alloc_end(p)
  <2>1. mm \in Proc
    BY <1>5, MmType DEF alloc_end
  <2>2. symrgtbl' \in [Proc -> [RegId -> Region]]
    <3>1. reg[p] \in RegId /\ rg[p].end \in Nat
      BY DEF TypeOK, Region
    <3> QED BY <1>5, <2>1, <3>1, TableType DEF alloc_end
  <2> QED BY <1>0, <1>5, <2>2 DEF alloc_end, loaderVars, TypeOK
<1>6. CASE free_enlist(p)
  <2>1. mm \in Proc
    BY <1>6, MmType DEF free_enlist
  <2>2. enlist_vm_freerg_list(vma[mm].free, rg[p]) \in RegionList
    BY <2>1, EnlistShape DEF TypeOK, RegionList
  <2>3. vma' \in [Proc -> [mapped : BOOLEAN, sbrk : Nat, free : RegionList]]
    BY <1>6, <2>1, <2>2, VmaType DEF free_enlist
  <2>4. at' \in [Proc -> {"idle", "find", "start", "end", "enlist"}] /\ mmvm_lock' \in 0 .. NumProc
    BY <1>0, <1>6 DEF free_enlist, TypeOK
  <2>5. LoaderInv'
    BY <1>6 DEF free_enlist, loaderVars, TypeOK
  <2>6. rg' \in [Proc -> Region]
    BY <1>0, <1>6 DEF free_enlist, TypeOK
  <2> HIDE DEF LoaderInv
  <2> QED BY <1>6, <2>3, <2>4, <2>5, <2>6 DEF free_enlist, loaderVars, TypeOK, RegionList
<1>7. CASE write(p) \/ read(p)
  BY <1>0, <1>7 DEF write, read, Free, Count, loaderVars, memVars, history, TypeOK
<1>8. CASE alloc_vma(p)
  <2>1. mm \in 0 .. NumProc /\ 0 \in 0 .. NumProc
    BY <1>0 DEF TypeOK
  <2>2. cur_vma' \in [Proc -> 0 .. NumProc]
    BY <1>8, <2>1 DEF alloc_vma, TypeOK
  <2>3. /\ ops' \in 0 .. MaxOps
        /\ at' \in [Proc -> {"idle", "find", "start", "end", "enlist"}]
        /\ p \in 0 .. NumProc /\ LoaderInv'
    <3> HIDE DEF LoaderInv
    <3> QED BY <1>8, Called DEF alloc_vma
  <2> HIDE DEF LoaderInv
  <2> QED BY <1>8, <2>2, <2>3 DEF alloc_vma, loaderVars, history, TypeOK
<1>9. CASE alloc_crash(p) \/ free_crash(p) \/ (\E s \in Size : sbrk_crash(p, s)) \/ libsyscall(p)
  BY <1>3, <1>7, <1>9 DEF alloc_crash, free_crash, sbrk_crash, libsyscall
<1> QED BY <1>1, <1>2, <1>4, <1>5, <1>6, <1>7, <1>8, <1>9 DEF run, libkmem

LEMMA StepInv == IInv /\ [Next]_vars => IInv'
<1> SUFFICES ASSUME IInv, [Next]_vars PROVE IInv'
  OBVIOUS
<1>1. CASE UNCHANGED vars
  BY <1>1 DEF vars, loaderVars, memVars, procVars, history, IInv, TypeOK, LoaderInv
<1> QED BY <1>1, LoaderStep, FindStep, OtherStep DEF Next

LEMMA InvariantHolds == Spec => []IInv
  BY InitInv, StepInv, PTL DEF Spec

\* Regions, tables, lists and the lock keep their types, for any programs.
THEOREM TypeCorrect == Spec => []TypeOK
<1>1. IInv => TypeOK
  BY DEF IInv
<1> QED BY <1>1, InvariantHolds, PTL

-----------------------------------------------------------------------------
(* The shape of the free lists. *)

LEMMA ShapeOfEach == ListShape <=> \A m \in Proc : vma[m].mapped => Shaped(vma[m].free)
  BY DEF ListShape, Shaped

LEMMA ShapeStep ==
  ASSUME IInv, ListShape, [Next]_vars
  PROVE  \A m \in Proc : vma'[m].mapped => Shaped(vma'[m].free)
<1>0. \A m \in Proc : vma[m].mapped => Shaped(vma[m].free)
  BY ShapeOfEach
<1>1. CASE vma' = vma
  BY <1>0, <1>1
<1>2. CASE init_mm
  <2>1. Shaped(<<NoRg>>)
    BY DEF Shaped, NoRg, Rg
  <2> QED BY <1>0, <1>2, <2>1 DEF init_mm, IInv, TypeOK
<1>3. ASSUME NEW p \in Proc, NEW r \in RegId, NEW s \in Size, alloc_find(p, r, s), vma' # vma
      PROVE  \A m \in Proc : vma'[m].mapped => Shaped(vma'[m].free)
  <2> DEFINE L == vma[mm].free
  <2>1. s \in Nat /\ mm \in Proc
    BY <1>3, LibMemAssumption, InCall DEF alloc_find
  <2>2. L \in RegionList /\ Shaped(L)
    BY <1>0, <1>3, <2>1 DEF alloc_find, HasVma, IInv, TypeOK, RegionList
  <2>3. PICK i \in 1 .. Len(L) : /\ FirstFit(L, i, s)
                                 /\ vma' = [vma EXCEPT ![mm].free = Cut(L, i, s)]
    BY <1>3 DEF alloc_find, inc_vma_limit
  <2> HIDE DEF L
  <2>4. Shaped(Cut(L, i, s))
    BY <2>1, <2>2, <2>3, CutShape DEF FirstFit
  <2> QED BY <1>0, <2>1, <2>3, <2>4 DEF IInv, TypeOK
<1>4. ASSUME NEW p \in Proc, free_enlist(p)
      PROVE  \A m \in Proc : vma'[m].mapped => Shaped(vma'[m].free)
  <2>1. mm \in Proc
    BY <1>4, MmType DEF free_enlist, IInv, LoaderInv
  <2>2. Shaped(enlist_vm_freerg_list(vma[mm].free, rg[p]))
    BY <1>0, <1>4, <2>1, EnlistShape DEF free_enlist, HasVma, IInv, TypeOK, RegionList
  <2> QED BY <1>0, <1>4, <2>1, <2>2 DEF free_enlist, IInv, TypeOK
<1> QED BY <1>1, <1>2, <1>3, <1>4
        DEF Next, run, MallocMm, alloc_vma, sbrk_crash, alloc_crash, free_crash, Stop, alloc_start, alloc_end,
            free_take, free_nothing, write, read, libkmem, libsyscall, vars, memVars

\* The list of every mm_struct, of any length, has its only empty region at
\* the end and is never NULL, wherever the loader replaces krnl->mm.
THEOREM ListShapeHolds == Spec => []ListShape
<1>1. Init => ListShape
  BY DEF Init, ListShape
<1>2. IInv /\ ListShape /\ [Next]_vars => ListShape'
  <2>1. (\A m \in Proc : vma'[m].mapped => Shaped(vma'[m].free)) => ListShape'
    BY DEF ListShape, Shaped
  <2> QED BY <2>1, ShapeStep
<1> QED BY <1>1, <1>2, InvariantHolds, PTL DEF Spec

-----------------------------------------------------------------------------
(* Counting the places of a byte. *)

\* How often a region has byte a.
Weight(a, r) == IF a \in Bytes(r) THEN 1 ELSE 0

LEMMA BytesOf ==
  ASSUME NEW r \in Region, NEW a \in Int
  PROVE  a \in Bytes(r) <=> r.start <= a /\ a < r.end
  BY DEF Bytes, Region

LEMMA ListOf ==
  ASSUME NEW L \in RegionList, NEW j \in 1 .. Len(L)
  PROVE  L[j] \in Region /\ L[j].start \in Nat /\ L[j].end \in Nat
<1>1. L[j] \in Region
  BY DEF RegionList
<1> QED BY <1>1 DEF Region

LEMMA InListType ==
  ASSUME NEW L \in RegionList, NEW a
  PROVE  /\ IsFiniteSet(InList(L, a)) /\ Cardinality(InList(L, a)) \in Nat
         /\ InList(L, a) \subseteq 1 .. Len(L)
<1>1. IsFiniteSet(1 .. Len(L))
  BY FS_Interval DEF RegionList
<1> QED BY <1>1, FS_Subset, FS_CardinalityType DEF InList

\* A byte that is cut off leaves one place, any other stays where it is, or
\* one place further up.
LEMMA CutCount ==
  ASSUME NEW L \in RegionList, NEW i \in 1 .. Len(L), NEW s \in Nat, Fits(L, i, s),
         NEW a \in Int
  PROVE  Cardinality(InList(L, a)) = Cardinality(InList(Cut(L, i, s), a))
                                       + Weight(a, Rg(L[i].start, L[i].start + s))
<1> DEFINE x == L[i].start
<1> SUFFICES ASSUME NEW M, M = Cut(L, i, s), NEW taken, taken = Rg(x, x + s)
             PROVE  Cardinality(InList(L, a)) = Cardinality(InList(M, a)) + Weight(a, taken)
  OBVIOUS
<1>1. Len(L) \in Nat /\ i \in Int
  BY DEF RegionList
<1>2. L[i] \in Region /\ x \in Nat /\ L[i].end \in Nat /\ x + s <= L[i].end
  BY ListOf DEF Fits
<1>3. a \in Bytes(taken) <=> x <= a /\ a < x + s
  <2>1. taken \in Region /\ taken.start = x /\ taken.end = x + s
    BY <1>2, RegionType
  <2> QED BY <2>1, BytesOf
<1>4. i \in InList(L, a) <=> x <= a /\ a < L[i].end
  BY <1>2, BytesOf DEF InList
<1>5. CASE x + s < L[i].end \/ i = Len(L)
  <2>1. M = InPlace(L, i, s)
    BY <1>5 DEF Cut, InPlace
  <2>2. /\ M \in RegionList /\ Len(M) = Len(L)
        /\ M[i].start = x + s /\ M[i].end = L[i].end
        /\ \A j \in 1 .. Len(L) : j # i => M[j] = L[j]
    BY <2>1, CutInPlace
  <2>3. \A j \in 1 .. Len(L) : j # i => (j \in InList(L, a) <=> j \in InList(M, a))
    BY <2>2 DEF InList
  <2>4. i \in InList(M, a) <=> x + s <= a /\ a < L[i].end
    <3>1. M[i] \in Region /\ i \in 1 .. Len(M)
      BY <2>2, ListOf
    <3> QED BY <2>2, <3>1, BytesOf DEF InList
  <2>5. i \in InList(L, a) <=> a \in Bytes(taken) \/ i \in InList(M, a)
    BY <1>2, <1>3, <1>4, <2>4
  <2>6. ~(a \in Bytes(taken) /\ i \in InList(M, a))
    BY <1>2, <1>3, <2>4
  <2>7. /\ IsFiniteSet(InList(M, a)) /\ Cardinality(InList(M, a)) \in Nat
        /\ InList(M, a) \subseteq 1 .. Len(L) /\ InList(L, a) \subseteq 1 .. Len(L)
    BY <2>2, InListType
  <2>8. CASE a \in Bytes(taken)
    <3>1. InList(L, a) = InList(M, a) \cup {i} /\ i \notin InList(M, a)
      BY <2>3, <2>5, <2>6, <2>7, <2>8
    <3>2. Cardinality(InList(M, a) \cup {i}) = Cardinality(InList(M, a)) + 1
      BY <2>7, <3>1, FS_AddElement
    <3> QED BY <2>8, <3>1, <3>2 DEF Weight
  <2>9. CASE a \notin Bytes(taken)
    <3>1. InList(L, a) = InList(M, a)
      <4>1. \A j \in 1 .. Len(L) : j \in InList(L, a) <=> j \in InList(M, a)
        BY <2>3, <2>5, <2>9
      <4> QED BY <2>7, <4>1
    <3> QED BY <2>7, <2>9, <3>1 DEF Weight
  <2> QED BY <2>8, <2>9
<1>6. CASE ~(x + s < L[i].end \/ i = Len(L))
  <2>1. M = SubSeq(L, 1, i - 1) \o SubSeq(L, i + 1, Len(L))
    BY <1>6 DEF Cut
  <2>2. /\ M \in RegionList /\ Len(M) = Len(L) - 1
        /\ \A j \in 1 .. Len(L) - 1 : M[j] = IF j < i THEN L[j] ELSE L[j + 1]
    BY <1>6, <2>1, CutOut
  <2> DEFINE f == [j \in InList(M, a) |-> IF j < i THEN j ELSE j + 1]
             Rest == InList(L, a) \ {i}
  <2>3. /\ IsFiniteSet(InList(M, a)) /\ Cardinality(InList(M, a)) \in Nat
        /\ InList(M, a) \subseteq 1 .. Len(L) - 1
        /\ IsFiniteSet(InList(L, a)) /\ Cardinality(InList(L, a)) \in Nat
        /\ InList(L, a) \subseteq 1 .. Len(L)
    BY <2>2, InListType
  <2>4. \A j \in InList(M, a) : f[j] \in Rest
    BY <1>1, <2>2, <2>3 DEF InList
  <2>5. \A j, k \in InList(M, a) : f[j] = f[k] => j = k
    BY <1>1, <2>3
  <2>6. ASSUME NEW k \in Rest PROVE \E j \in InList(M, a) : f[j] = k
    <3>1. k \in 1 .. Len(L) /\ k # i /\ a \in Bytes(L[k])
      BY <2>3 DEF InList
    <3>2. CASE k < i
      <4>1. k \in 1 .. Len(L) - 1 /\ M[k] = L[k]
        BY <1>1, <2>2, <3>1, <3>2
      <4>2. k \in InList(M, a)
        BY <2>2, <3>1, <4>1 DEF InList
      <4> QED BY <3>2, <4>2
    <3>3. CASE ~(k < i)
      <4>1. k - 1 \in 1 .. Len(L) - 1 /\ ~(k - 1 < i) /\ k - 1 + 1 = k
        BY <1>1, <3>1, <3>3
      <4>2. k - 1 \in InList(M, a)
        BY <2>2, <3>1, <4>1 DEF InList
      <4> QED BY <4>1, <4>2
    <3> QED BY <3>2, <3>3
  <2>7. ExistsBijection(InList(M, a), Rest)
    <3>1. f \in Bijection(InList(M, a), Rest)
      BY <2>4, <2>5, <2>6 DEF Bijection, Injection, Surjection, IsInjective
    <3> QED BY <3>1 DEF ExistsBijection
  <2>8. Cardinality(InList(M, a)) = Cardinality(Rest)
    BY <2>3, <2>7, FS_Bijection
  <2>9. i \in InList(L, a) <=> a \in Bytes(taken)
    <3>1. x + s = L[i].end
      BY <1>2, <1>6
    <3> QED BY <1>3, <1>4, <3>1
  <2>10. CASE i \in InList(L, a)
    <3>1. Cardinality(Rest) = Cardinality(InList(L, a)) - 1
      BY <2>3, <2>10, FS_RemoveElement
    <3>2. Weight(a, taken) = 1
      BY <2>9, <2>10 DEF Weight
    <3> HIDE DEF Rest
    <3> QED BY <2>3, <2>8, <3>1, <3>2
  <2>11. CASE i \notin InList(L, a)
    <3>1. Rest = InList(L, a)
      BY <2>11
    <3>2. Weight(a, taken) = 0
      BY <2>9, <2>11 DEF Weight
    <3> HIDE DEF Rest
    <3> QED BY <2>3, <2>8, <3>1, <3>2
  <2> QED BY <2>10, <2>11
<1> QED BY <1>5, <1>6

LEMMA EnlistCount ==
  ASSUME NEW L \in RegionList, NEW r \in Region, NEW a \in Int
  PROVE  Cardinality(InList(enlist_vm_freerg_list(L, r), a))
           = Cardinality(InList(L, a)) + Weight(a, r)
<1>0. Len(L) \in Nat /\ r.start \in Nat /\ r.end \in Nat /\ Cardinality(InList(L, a)) \in Nat
  BY InListType DEF RegionList, Region
<1>1. CASE r.start >= r.end
  <2>1. a \notin Bytes(r)
    BY <1>0, <1>1 DEF Bytes
  <2> QED BY <1>0, <1>1, <2>1 DEF enlist_vm_freerg_list, Weight
<1>2. CASE ~(r.start >= r.end)
  <2> PICK M : M = <<r>> \o L
    OBVIOUS
  <2>1. enlist_vm_freerg_list(L, r) = M
    BY <1>2 DEF enlist_vm_freerg_list
  <2>2. /\ M \in RegionList /\ Len(M) = Len(L) + 1 /\ M[1] = r
        /\ \A j \in 1 .. Len(L) : M[j + 1] = L[j]
    BY DEF RegionList
  <2> DEFINE f == [j \in InList(L, a) |-> j + 1]
             Rest == InList(M, a) \ {1}
  <2>3. /\ IsFiniteSet(InList(L, a)) /\ InList(L, a) \subseteq 1 .. Len(L)
        /\ IsFiniteSet(InList(M, a)) /\ Cardinality(InList(M, a)) \in Nat
        /\ InList(M, a) \subseteq 1 .. Len(L) + 1
    BY <2>2, InListType
  <2>4. \A j \in InList(L, a) : f[j] \in Rest
    BY <1>0, <2>2, <2>3 DEF InList
  <2>5. \A j, k \in InList(L, a) : f[j] = f[k] => j = k
    BY <1>0, <2>3
  <2>6. ASSUME NEW k \in Rest PROVE \E j \in InList(L, a) : f[j] = k
    <3>1. k - 1 \in 1 .. Len(L) /\ k - 1 + 1 = k /\ a \in Bytes(M[k])
      BY <1>0, <2>3 DEF InList
    <3>2. k - 1 \in InList(L, a)
      BY <2>2, <3>1 DEF InList
    <3> QED BY <3>1, <3>2
  <2>7. ExistsBijection(InList(L, a), Rest)
    <3>1. f \in Bijection(InList(L, a), Rest)
      BY <2>4, <2>5, <2>6 DEF Bijection, Injection, Surjection, IsInjective
    <3> QED BY <3>1 DEF ExistsBijection
  <2>8. Cardinality(InList(L, a)) = Cardinality(Rest)
    BY <2>3, <2>7, FS_Bijection
  <2>9. 1 \in InList(M, a) <=> a \in Bytes(r)
    BY <1>0, <2>2 DEF InList
  <2>10. Cardinality(InList(M, a)) = Cardinality(InList(L, a)) + Weight(a, r)
    <3>1. CASE 1 \in InList(M, a)
      <4>1. Cardinality(Rest) = Cardinality(InList(M, a)) - 1
        BY <2>3, <3>1, FS_RemoveElement
      <4>2. Weight(a, r) = 1
        BY <2>9, <3>1 DEF Weight
      <4> HIDE DEF Rest
      <4> QED BY <2>3, <2>8, <4>1, <4>2
    <3>2. CASE 1 \notin InList(M, a)
      <4>1. Rest = InList(M, a)
        BY <3>2
      <4>2. Weight(a, r) = 0
        BY <2>9, <3>2 DEF Weight
      <4> HIDE DEF Rest
      <4> QED BY <2>3, <2>8, <4>1, <4>2
    <3> QED BY <3>1, <3>2
  <2> QED BY <2>1, <2>10
<1> QED BY <1>1, <1>2

\* The places of a byte in the lists of some, and of all, mm_structs of v.
PlacesIn(v, S, a) == UNION {{m} \X InList(v[m].free, a) : m \in S}

Places(v, a) == PlacesIn(v, Proc, a)

LEMMA ProcFinite == IsFiniteSet(Proc)
<1>1. NumProc \in Int /\ 1 \in Int
  BY LibMemAssumption
<1> QED BY <1>1, FS_Interval DEF Proc

LEMMA Pairs ==
  ASSUME NEW m, NEW T, IsFiniteSet(T)
  PROVE  /\ IsFiniteSet({m} \X T) /\ Cardinality({m} \X T) = Cardinality(T)
         /\ Cardinality({m} \X T) \in Nat
<1>1. IsFiniteSet({m}) /\ Cardinality({m}) = 1
  BY FS_Singleton
<1>2. IsFiniteSet({m} \X T) /\ Cardinality({m} \X T) = Cardinality({m}) * Cardinality(T)
  BY <1>1, FS_Product
<1>3. Cardinality(T) \in Nat
  BY FS_CardinalityType
<1>4. 1 * Cardinality(T) = Cardinality(T)
  BY <1>3
<1> QED BY <1>1, <1>2, <1>3, <1>4

LEMMA Disjoint ==
  ASSUME NEW S, NEW T, IsFiniteSet(S), IsFiniteSet(T), S \cap T = {}
  PROVE  /\ IsFiniteSet(S \cup T)
         /\ Cardinality(S \cup T) = Cardinality(S) + Cardinality(T)
         /\ Cardinality(S) \in Nat /\ Cardinality(T) \in Nat
<1>1. Cardinality(S) \in Nat /\ Cardinality(T) \in Nat
  BY FS_CardinalityType
<1>2. Cardinality(S \cap T) = 0
  BY FS_EmptySet
<1>3. /\ IsFiniteSet(S \cup T)
      /\ Cardinality(S \cup T) = Cardinality(S) + Cardinality(T) - Cardinality(S \cap T)
  BY FS_Union
<1> QED BY <1>1, <1>2, <1>3

LEMMA PlacesFinite ==
  ASSUME NEW v, NEW S \in SUBSET Proc, \A m \in S : v[m].free \in RegionList, NEW a
  PROVE  IsFiniteSet(PlacesIn(v, S, a))
<1> DEFINE f == [m \in S |-> {m} \X InList(v[m].free, a)]
           T == {{m} \X InList(v[m].free, a) : m \in S}
<1>1. IsFiniteSet(S)
  BY ProcFinite, FS_Subset
<1>2. f \in Surjection(S, T)
  BY DEF Surjection
<1>3. IsFiniteSet(T)
  BY <1>1, <1>2, FS_Surjection
<1>4. \A m \in S : IsFiniteSet({m} \X InList(v[m].free, a))
  BY InListType, FS_Singleton, FS_Product
<1>5. \A t \in T : IsFiniteSet(t)
  BY <1>4
<1> HIDE DEF T
<1>6. IsFiniteSet(UNION T)
  BY <1>3, <1>5, FS_UNION
<1> QED BY <1>6 DEF T, PlacesIn

Lists(v) == \A n \in Proc : v[n].free \in RegionList

LEMMA PlacesType ==
  ASSUME NEW v, Lists(v), NEW a
  PROVE  Cardinality(Places(v, a)) \in Nat
<1>1. Proc \in SUBSET Proc /\ \A n \in Proc : v[n].free \in RegionList
  BY DEF Lists
<1>2. IsFiniteSet(PlacesIn(v, Proc, a))
  BY <1>1, PlacesFinite
<1> QED BY <1>2, FS_CardinalityType DEF Places

SameBut(v, w, m) == \A n \in Proc \ {m} : w[n].free = v[n].free

\* Where one list changes, the count changes as the one in this list does.
LEMMA PlacesChange ==
  ASSUME NEW v, NEW w, NEW m \in Proc, NEW a,
         Lists(v), Lists(w), SameBut(v, w, m)
  PROVE  /\ Cardinality(Places(v, a)) \in Nat /\ Cardinality(Places(w, a)) \in Nat
         /\ Cardinality(Places(w, a)) + Cardinality(InList(v[m].free, a))
              = Cardinality(Places(v, a)) + Cardinality(InList(w[m].free, a))
<1> DEFINE Others == PlacesIn(v, Proc \ {m}, a)
           V == {m} \X InList(v[m].free, a)
           W == {m} \X InList(w[m].free, a)
<1>1. IsFiniteSet(Others) /\ Cardinality(Others) \in Nat
  <2>1. Proc \ {m} \in SUBSET Proc /\ \A n \in Proc \ {m} : v[n].free \in RegionList
    BY DEF Lists
  <2>2. IsFiniteSet(Others)
    BY <2>1, PlacesFinite
  <2> QED BY <2>2, FS_CardinalityType
<1>2. /\ IsFiniteSet(V) /\ Cardinality(V) = Cardinality(InList(v[m].free, a))
      /\ IsFiniteSet(W) /\ Cardinality(W) = Cardinality(InList(w[m].free, a))
      /\ Cardinality(V) \in Nat /\ Cardinality(W) \in Nat
  BY InListType, Pairs DEF Lists
<1>3. Places(v, a) = Others \cup V /\ Places(w, a) = Others \cup W
  BY DEF Places, PlacesIn, SameBut
<1>4. Others \cap V = {} /\ Others \cap W = {}
  BY DEF PlacesIn
<1> HIDE DEF Others, V, W
<1>5. /\ Cardinality(Others \cup V) = Cardinality(Others) + Cardinality(V)
      /\ Cardinality(Others \cup W) = Cardinality(Others) + Cardinality(W)
  BY <1>1, <1>2, <1>4, Disjoint
<1> QED BY <1>1, <1>2, <1>3, <1>5

\* The entries of a symbol table that have a byte, but for those in half.
Settled(tbl, half, a) == {x \in Proc \X RegId : a \in Bytes(tbl[x[1]][x[2]])} \ half

LEMMA SettledFinite ==
  ASSUME NEW tbl, NEW half, NEW a
  PROVE  IsFiniteSet(Settled(tbl, half, a)) /\ Cardinality(Settled(tbl, half, a)) \in Nat
<1>1. IsFiniteSet(Proc \X RegId)
  BY ProcFinite, LibMemAssumption, FS_Product
<1>2. Settled(tbl, half, a) \in SUBSET (Proc \X RegId)
  BY DEF Settled
<1> QED BY <1>1, <1>2, FS_Subset, FS_CardinalityType

\* One entry counts for the bytes of its region.
LEMMA SettledEntry ==
  ASSUME NEW tbl, NEW m \in Proc, NEW r \in RegId, NEW a
  PROVE  Cardinality(Settled(tbl, {}, a))
           = Cardinality(Settled(tbl, {<<m, r>>}, a)) + Weight(a, tbl[m][r])
<1> DEFINE All == Settled(tbl, {}, a)
           Rest == Settled(tbl, {<<m, r>>}, a)
<1>1. /\ IsFiniteSet(All) /\ Cardinality(All) \in Nat
      /\ IsFiniteSet(Rest) /\ Cardinality(Rest) \in Nat
  BY SettledFinite
<1>2. /\ <<m, r>> \notin Rest
      /\ a \in Bytes(tbl[m][r]) => All = Rest \cup {<<m, r>>}
      /\ a \notin Bytes(tbl[m][r]) => All = Rest
  BY DEF Settled
<1> HIDE DEF All, Rest
<1>3. CASE a \in Bytes(tbl[m][r])
  <2>1. Cardinality(All) = Cardinality(Rest) + 1
    BY <1>1, <1>2, <1>3, FS_AddElement
  <2>2. Weight(a, tbl[m][r]) = 1
    BY <1>3 DEF Weight
  <2> QED BY <2>1, <2>2 DEF All, Rest
<1>4. CASE a \notin Bytes(tbl[m][r])
  <2>1. Weight(a, tbl[m][r]) = 0 /\ Cardinality(All) = Cardinality(Rest)
    BY <1>2, <1>4 DEF Weight
  <2> QED BY <1>1, <2>1 DEF All, Rest
<1> QED BY <1>3, <1>4

SameEntries(tbl, tbm, m, r) ==
  \A n \in Proc, q \in RegId : n # m \/ q # r => tbm[n][q] = tbl[n][q]

LEMMA SettledElsewhere ==
  ASSUME NEW tbl, NEW tbm, NEW m \in Proc, NEW r \in RegId, NEW a,
         SameEntries(tbl, tbm, m, r)
  PROVE  Settled(tbm, {<<m, r>>}, a) = Settled(tbl, {<<m, r>>}, a)
<1>1. \A x \in Proc \X RegId : x # <<m, r>> => tbm[x[1]][x[2]] = tbl[x[1]][x[2]]
  BY DEF SameEntries
<1> QED BY <1>1 DEF Settled

LEMMA PlusCount ==
  ASSUME NEW count \in [Addr -> Nat], NEW r, NEW a \in Addr
  PROVE  Plus(count, r)[a] = count[a] + Weight(a, r)
  BY DEF Plus, Weight

-----------------------------------------------------------------------------
(* Conservation. *)

\* mmvm_lock is held by the one process that is inside a call.
LockInv == \A p \in Proc : at[p] # "idle" <=> mmvm_lock = p

\* The list of an mm_struct is NULL until init_mm has made it.
FreshInv == \A m \in Proc : m > loaded => ~vma[m].mapped /\ vma[m].free = <<>>

\* The second write of __alloc meets the entry that the first one wrote.
HalfInv ==
  ~torn => \A p \in Proc : at[p] = "end" => symrgtbl[mm][reg[p]].start = rg[p].start

\* The entry of the symbol table between the two writes.
Half ==
  IF mmvm_lock # 0 /\ at[mmvm_lock] = "end" THEN {<<mm, reg[mmvm_lock]>>} ELSE {}

\* What the holder of the lock has taken out of one place and not yet put into another.
InHand(a) == IF mmvm_lock = 0 THEN 0 ELSE Weight(a, rg[mmvm_lock])

Balanced(a) ==
  Cardinality(Places(vma, a)) + Cardinality(Settled(symrgtbl, Half, a)) + InHand(a)
    = minted[a] - leaked[a]

Balance == ~torn => \A a \in Addr : Balanced(a)

\* Outside the calls and before __alloc has found a region nothing is in hand.
EmptyHandInv == \A p \in Proc : at[p] \in {"idle", "find"} => rg[p] = NoRg

CInv == LockInv /\ FreshInv /\ HalfInv /\ EmptyHandInv /\ Balance

LEMMA LockStep ==
  ASSUME IInv, LockInv, [Next]_vars
  PROVE  LockInv'
<1> USE DEF LockInv, IInv, TypeOK
<1>0. \A p \in Proc : p # 0
  BY DEF Proc
<1>1. CASE UNCHANGED vars \/ MallocMm \/ init_mm
  BY <1>1 DEF vars, memVars, procVars, MallocMm, init_mm
<1>2. ASSUME NEW p \in Proc, mmvm_lock = 0, mmvm_lock' = p, NEW l \in {"find", "enlist"},
             at' = [at EXCEPT ![p] = l]
      PROVE  LockInv'
  BY <1>0, <1>2
<1>3. ASSUME NEW p \in Proc, at[p] # "idle", mmvm_lock' = 0, at' = [at EXCEPT ![p] = "idle"]
      PROVE  LockInv'
  BY <1>0, <1>3
<1>4. ASSUME NEW p \in Proc, run(p) PROVE LockInv'
  <2>1. CASE alloc_vma(p) \/ \E r \in RegId : free_take(p, r)
    BY <1>2, <2>1 DEF alloc_vma, free_take
  <2>2. CASE alloc_end(p) \/ free_enlist(p)
    BY <1>3, <2>2 DEF alloc_end, free_enlist
  <2>3. CASE alloc_start(p) \/ \E r \in RegId, s \in Size : alloc_find(p, r, s)
    BY <2>3 DEF alloc_start, alloc_find
  <2>4. CASE \/ \E r \in RegId : free_nothing(p, r)
             \/ alloc_crash(p) \/ (\E s \in Size : sbrk_crash(p, s)) \/ free_crash(p)
             \/ write(p) \/ read(p) \/ libsyscall(p)
    BY <2>4 DEF free_nothing, alloc_crash, sbrk_crash, free_crash, libsyscall, Stop, write,
       read, memVars, procVars
  <2> QED BY <1>4, <2>1, <2>2, <2>3, <2>4 DEF run, libkmem
<1> QED BY <1>1, <1>4 DEF Next

LEMMA FreshStep ==
  ASSUME IInv, FreshInv, [Next]_vars
  PROVE  FreshInv'
<1> USE DEF FreshInv
<1>1. CASE vma' = vma /\ loaded' = loaded
  BY <1>1
<1>2. CASE init_mm
  BY <1>2 DEF init_mm, IInv, TypeOK, LoaderInv, Proc
<1>3. ASSUME mm \in Proc, HasVma, loaded' = loaded, NEW L, vma' = [vma EXCEPT ![mm].free = L]
      PROVE  FreshInv'
  <2>1. ~(mm > loaded)
    BY <1>3 DEF HasVma
  <2> QED BY <1>3, <2>1 DEF IInv, TypeOK
<1>4. ASSUME NEW p \in Proc, run(p), vma' # vma PROVE FreshInv'
  <2>1. ASSUME NEW r \in RegId, NEW s \in Size, alloc_find(p, r, s) PROVE FreshInv'
    <3>1. mm \in Proc
      BY <2>1, InCall DEF alloc_find
    <3>2. \E L : vma' = [vma EXCEPT ![mm].free = L]
      BY <1>4, <2>1 DEF alloc_find, inc_vma_limit
    <3> QED BY <1>3, <2>1, <3>1, <3>2 DEF alloc_find, loaderVars
  <2>2. CASE free_enlist(p)
    <3>1. mm \in Proc
      BY <2>2, MmType DEF free_enlist, IInv, LoaderInv
    <3>2. \E L : vma' = [vma EXCEPT ![mm].free = L]
      BY <2>2 DEF free_enlist
    <3> QED BY <1>3, <2>2, <3>1, <3>2 DEF free_enlist, loaderVars
  <2>3. CASE alloc_vma(p) \/ alloc_start(p) \/ alloc_end(p)
    BY <1>4, <2>3 DEF alloc_vma, alloc_start, alloc_end
  <2>4. ASSUME NEW r \in RegId, free_take(p, r) \/ free_nothing(p, r) PROVE FALSE
    BY <1>4, <2>4 DEF free_take, free_nothing, memVars
  <2>5. CASE \/ alloc_crash(p) \/ (\E s \in Size : sbrk_crash(p, s)) \/ free_crash(p)
             \/ write(p) \/ read(p) \/ libsyscall(p)
    BY <1>4, <2>5 DEF alloc_crash, sbrk_crash, free_crash, libsyscall, Stop, write, read, memVars
  <2> QED BY <1>4, <2>1, <2>2, <2>3, <2>4, <2>5 DEF run, libkmem
<1>5. ASSUME NEW p \in Proc, run(p) PROVE loaded' = loaded
  BY <1>5 DEF run, alloc_vma, sbrk_crash, alloc_find, free_enlist, alloc_crash, free_crash,
     Stop, alloc_start, alloc_end, free_take, free_nothing, write, read, libkmem,
     libsyscall, loaderVars
<1>6. CASE MallocMm \/ UNCHANGED vars
  BY <1>1, <1>6 DEF MallocMm, vars, memVars, loaderVars
<1> QED BY <1>1, <1>2, <1>4, <1>5, <1>6 DEF Next

LEMMA HalfStep ==
  ASSUME IInv, LockInv, HalfInv, [Next]_vars
  PROVE  HalfInv'
<1> USE DEF HalfInv, IInv, TypeOK
<1>1. CASE UNCHANGED <<mm, symrgtbl, at, reg, rg, torn>>
  BY <1>1
<1>2. CASE MallocMm
  BY <1>2 DEF MallocMm, memVars, procVars
<1>3. ASSUME NEW p \in Proc, mmvm_lock = 0 \/ mmvm_lock = p, at'[p] # "end",
             \A q \in Proc \ {p} : at'[q] = at[q]
      PROVE  HalfInv'
  <2>1. \A q \in Proc : at'[q] # "end"
    BY <1>3 DEF LockInv, Proc
  <2> QED BY <2>1
<1>4. ASSUME NEW p \in Proc, run(p), ~UNCHANGED <<mm, symrgtbl, at, reg, rg, torn>>
      PROVE  HalfInv'
  <2>1. CASE \E r \in RegId : (\E s \in Size : alloc_find(p, r, s)) \/ free_take(p, r)
    <3>1. mmvm_lock = 0 \/ mmvm_lock = p
      BY <2>1 DEF alloc_find, free_take, LockInv
    <3> QED BY <1>3, <2>1, <3>1 DEF alloc_find, free_take
  <2>2. CASE alloc_end(p) \/ free_enlist(p)
    <3>1. mmvm_lock = p
      BY <2>2 DEF alloc_end, free_enlist, LockInv
    <3> QED BY <1>3, <2>2, <3>1 DEF alloc_end, free_enlist
  <2>3. CASE alloc_start(p)
    <3>1. mm \in Proc /\ reg[p] \in RegId
      BY <2>3, MmType DEF alloc_start, LoaderInv
    <3>2. \A q \in Proc \ {p} : at'[q] # "end"
      BY <2>3 DEF alloc_start, LockInv
    <3>3. symrgtbl'[mm][reg[p]].start = rg[p].start
      BY <2>3, <3>1 DEF alloc_start, Region
    <3> QED BY <2>3, <3>2, <3>3 DEF alloc_start, loaderVars
  <2>4. CASE alloc_vma(p)
    BY <1>3, <2>4 DEF alloc_vma
  <2> QED BY <1>4, <2>1, <2>2, <2>3, <2>4
          DEF run, sbrk_crash, alloc_crash, free_crash, Stop, free_nothing, write, read, libkmem,
              libsyscall, loaderVars, memVars, procVars, history
<1> QED BY <1>1, <1>2, <1>4 DEF Next, init_mm, vars, loaderVars, memVars, procVars, history

LEMMA EmptyHandStep ==
  ASSUME IInv, EmptyHandInv, [Next]_vars
  PROVE  EmptyHandInv'
<1> USE DEF EmptyHandInv, IInv, TypeOK
<1>1. CASE UNCHANGED <<at, rg>>
  BY <1>1
<1>2. ASSUME NEW p \in Proc, run(p) PROVE EmptyHandInv'
  <2>1. CASE alloc_vma(p)
    BY <2>1 DEF alloc_vma, Free
  <2>2. ASSUME NEW r \in RegId, NEW s \in Size, alloc_find(p, r, s) PROVE EmptyHandInv'
    <3>1. at' = [at EXCEPT ![p] = "start"] /\ \A q \in Proc \ {p} : rg'[q] = rg[q]
      BY <2>2 DEF alloc_find
    <3> QED BY <3>1
  <2>3. ASSUME NEW r \in RegId, free_take(p, r) PROVE EmptyHandInv'
    BY <2>3 DEF free_take
  <2>4. CASE alloc_start(p) \/ alloc_end(p) \/ free_enlist(p)
    BY <2>4 DEF alloc_start, alloc_end, free_enlist
  <2> QED BY <1>1, <1>2, <2>1, <2>2, <2>3, <2>4
          DEF run, alloc_crash, sbrk_crash, free_crash, Stop, free_nothing, write, read,
              libkmem, libsyscall, procVars
<1> QED BY <1>1, <1>2 DEF Next, MallocMm, init_mm, vars, procVars

LEMMA ListsType ==
  TypeOK => Lists(vma)
  BY DEF TypeOK, Lists, RegionList

LEMMA ByteType ==
  ASSUME NEW a \in Addr
  PROVE  a \in Int
  BY LibMemAssumption DEF Addr

LEMMA EmptyBytes ==
  ASSUME NEW a
  PROVE  Weight(a, NoRg) = 0 /\ InList(<<>>, a) = {} /\ InList(<<NoRg>>, a) = {}
<1>1. Bytes(NoRg) = {}
  BY DEF Bytes, NoRg, Rg
<1> QED BY <1>1 DEF Weight, InList

LEMMA WeightType == ASSUME NEW a, NEW r PROVE Weight(a, r) \in Nat
  BY DEF Weight

\* Nobody is in a call: no entry is half written and nothing is in hand.
LEMMA NobodyIn ==
  ASSUME mmvm_lock = 0, NEW a
  PROVE  Half = {} /\ InHand(a) = 0
  BY DEF Half, InHand

LEMMA OneIn ==
  ASSUME LockInv, NEW p \in Proc, at[p] # "idle", NEW a
  PROVE  /\ mmvm_lock = p
         /\ Half = IF at[p] = "end" THEN {<<mm, reg[p]>>} ELSE {}
         /\ InHand(a) = Weight(a, rg[p])
<1>1. mmvm_lock = p /\ p # 0
  BY DEF LockInv, Proc
<1> QED BY <1>1 DEF Half, InHand

\* The steps of the loader.
LEMMA LoaderBalance ==
  ASSUME IInv, CInv, MallocMm \/ init_mm, ~torn', NEW a \in Addr, Balanced(a)
  PROVE  Balanced(a)'
<1>1. CASE MallocMm
  <2>1. Half = {} /\ Half' = {}
    <3>1. mmvm_lock = 0 \/ mmvm_lock \in Proc
      BY LibMemAssumption DEF IInv, TypeOK, Proc
    <3>2. \A p \in Proc : at[p] # "end"
      BY <1>1 DEF MallocMm
    <3>3. mmvm_lock' = mmvm_lock /\ at' = at
      BY <1>1 DEF MallocMm, memVars, procVars
    <3> QED BY <3>1, <3>2, <3>3 DEF Half
  <2>2. InHand(a)' = InHand(a)
    BY <1>1 DEF MallocMm, memVars, procVars, InHand
  <2> QED BY <1>1, <2>1, <2>2 DEF MallocMm, memVars, Balanced
<1>2. CASE init_mm
  <2>1. mm \in Proc /\ mm > loaded
    BY <1>2, LibMemAssumption DEF init_mm, IInv, LoaderInv, TypeOK, Proc
  <2>2. Lists(vma) /\ Lists(vma') /\ SameBut(vma, vma', mm) /\ vma'[mm].free = <<NoRg>>
    <3>1. IInv'
      BY LoaderStep
    <3> QED BY <1>2, <2>1, <3>1 DEF init_mm, IInv, TypeOK, RegionList, Lists, SameBut
  <2>3. InList(vma'[mm].free, a) = {} /\ InList(vma[mm].free, a) = {}
    BY <2>1, <2>2, EmptyBytes DEF CInv, FreshInv
  <2>4. Cardinality(Places(vma', a)) = Cardinality(Places(vma, a))
    <3>1. Cardinality({}) \in Nat
      BY FS_EmptySet
    <3>2. /\ Cardinality(Places(vma, a)) \in Nat /\ Cardinality(Places(vma', a)) \in Nat
          /\ Cardinality(Places(vma', a)) + Cardinality(InList(vma[mm].free, a))
               = Cardinality(Places(vma, a)) + Cardinality(InList(vma'[mm].free, a))
      BY <2>1, <2>2, PlacesChange
    <3> QED BY <2>3, <3>1, <3>2
  <2>5. Half' = Half /\ InHand(a)' = InHand(a)
    BY <1>2 DEF init_mm, procVars, Half, InHand
  <2> QED BY <1>2, <2>4, <2>5 DEF init_mm, history, Balanced
<1> QED BY <1>1, <1>2

\* __alloc begins, with nothing in hand.
LEMMA VmaBalance ==
  ASSUME IInv, CInv, NEW p \in Proc, alloc_vma(p), NEW a \in Addr, Balanced(a)
  PROVE  Balanced(a)'
<1>1. Half = {} /\ InHand(a) = 0
  BY NobodyIn DEF alloc_vma
<1>2. Half' = {} /\ InHand(a)' = 0
  <2>1. mmvm_lock' = p /\ p # 0 /\ at'[p] = "find" /\ rg'[p] = NoRg
    BY DEF alloc_vma, Free, CInv, EmptyHandInv, IInv, TypeOK, Proc
  <2> QED BY <2>1, EmptyBytes DEF Half, InHand
<1> QED BY <1>1, <1>2 DEF alloc_vma, history, Balanced

\* __alloc takes a region from a free list, or at sbrk.
LEMMA FindBalance ==
  ASSUME IInv, CInv, NEW p \in Proc, NEW r \in RegId, NEW s \in Size, alloc_find(p, r, s),
         NEW a \in Addr, Balanced(a)
  PROVE  Balanced(a)'
<1> DEFINE L == vma[mm].free
           brk == Rg(vma[cur_vma[p]].sbrk, vma[cur_vma[p]].sbrk + s)
<1>1. s \in Nat /\ mm \in Proc /\ a \in Int
  BY LibMemAssumption, InCall, ByteType DEF alloc_find
<1>2. /\ IInv' /\ LockInv' /\ at'[p] = "start"
      /\ minted \in [Addr -> Nat] /\ leaked \in [Addr -> Nat]
      /\ rg \in [Proc -> Region]
  <2>1. IInv' /\ LockInv'
    BY FindStep, LockStep DEF CInv, Next, run
  <2> QED BY <2>1 DEF alloc_find, IInv, TypeOK
<1>3. mmvm_lock = p /\ Half = {} /\ InHand(a) = 0
  <2>1. at[p] # "idle" /\ at[p] # "end" /\ rg[p] = NoRg
    BY DEF alloc_find, CInv, EmptyHandInv
  <2> QED BY <2>1, OneIn, EmptyBytes DEF CInv
<1>4. Half' = {} /\ InHand(a)' = Weight(a, rg'[p])
  <2>1. at'[p] # "idle" /\ at'[p] # "end" /\ mmvm_lock' = p /\ p # 0
    BY <1>2, <1>3 DEF alloc_find, Proc
  <2> QED BY <2>1 DEF Half, InHand
<1>5. /\ Cardinality(Places(vma, a)) \in Nat
      /\ Cardinality(Places(vma', a)) + Weight(a, rg'[p]) - minted'[a]
           = Cardinality(Places(vma, a)) - minted[a]
  <2>0. Lists(vma) /\ Lists(vma')
    BY <1>2 DEF IInv, TypeOK, RegionList, Lists
  <2>1. ASSUME vma' = vma, rg' = [rg EXCEPT ![p] = brk], minted' = Plus(minted, brk)
        PROVE  <1>5!:
    <3>1. rg'[p] = brk
      BY <1>2, <2>1
    <3>2. minted'[a] = minted[a] + Weight(a, brk) /\ minted[a] \in Nat
      BY <1>2, <2>1, PlusCount
    <3>3. Cardinality(Places(vma, a)) \in Nat
      BY <2>0, PlacesType
    <3> HIDE DEF brk
    <3> QED BY <2>1, <3>1, <3>2, <3>3, WeightType
  <2>2. ASSUME NEW i \in 1 .. Len(L), FirstFit(L, i, s),
               rg' = [rg EXCEPT ![p] = Rg(L[i].start, L[i].start + s)],
               vma' = [vma EXCEPT ![mm].free = Cut(L, i, s)], minted' = minted
        PROVE  <1>5!:
    <3>1. L \in RegionList
      BY <1>1, <2>0 DEF Lists
    <3>2. rg'[p] = Rg(L[i].start, L[i].start + s)
      BY <1>2, <2>2
    <3> HIDE DEF L
    <3>3. Cardinality(InList(L, a)) = Cardinality(InList(Cut(L, i, s), a)) + Weight(a, rg'[p])
      BY <1>1, <2>2, <3>1, <3>2, CutCount DEF FirstFit
    <3>4. /\ vma'[mm].free = Cut(L, i, s)
          /\ SameBut(vma, vma', mm)
      BY <1>1, <2>2 DEF IInv, TypeOK, SameBut
    <3>5. Cardinality(Places(vma', a)) + Cardinality(InList(L, a))
            = Cardinality(Places(vma, a)) + Cardinality(InList(Cut(L, i, s), a))
          /\ Cardinality(Places(vma, a)) \in Nat /\ Cardinality(Places(vma', a)) \in Nat
      <4>2. /\ Cardinality(Places(vma, a)) \in Nat /\ Cardinality(Places(vma', a)) \in Nat
            /\ Cardinality(Places(vma', a)) + Cardinality(InList(vma[mm].free, a))
                 = Cardinality(Places(vma, a)) + Cardinality(InList(vma'[mm].free, a))
        BY <1>1, <2>0, <3>4, PlacesChange
      <4> QED BY <3>4, <4>2 DEF L
    <3>6. Cardinality(InList(Cut(L, i, s), a)) \in Nat /\ minted'[a] = minted[a] /\ minted[a] \in Nat
      <4>1. Cut(L, i, s) \in RegionList
        BY <1>1, <2>0, <3>4 DEF Lists
      <4> QED BY <1>2, <2>2, <4>1, InListType
    <3> QED BY <3>3, <3>5, <3>6, WeightType
  <2> QED BY <2>1, <2>2 DEF alloc_find, inc_vma_limit
<1>6. symrgtbl' = symrgtbl /\ leaked' = leaked
  BY DEF alloc_find
<1>7. Cardinality(Settled(symrgtbl, {}, a)) \in Nat
  BY SettledFinite
<1>8. minted[a] \in Nat /\ minted'[a] \in Nat /\ leaked[a] \in Nat
  BY <1>2 DEF IInv, TypeOK
<1>9. Cardinality(Places(vma', a)) \in Nat
  <2>1. Lists(vma')
    BY <1>2 DEF IInv, TypeOK, RegionList, Lists
  <2> QED BY <2>1, PlacesType
<1> QED BY <1>3, <1>4, <1>5, <1>6, <1>7, <1>8, <1>9, WeightType DEF Balanced

\* __alloc overwrites the entry, and counts the bytes it leaks.
LEMMA StartBalance ==
  ASSUME IInv, CInv, NEW p \in Proc, alloc_start(p), NEW a \in Addr, Balanced(a)
  PROVE  Balanced(a)'
<1> DEFINE x == <<mm, reg[p]>>
           old == symrgtbl[mm][reg[p]]
<1>1. /\ mm \in Proc /\ reg[p] \in RegId /\ p # 0
      /\ minted \in [Addr -> Nat] /\ leaked \in [Addr -> Nat]
  <2>1. mm \in Proc
    BY InCall DEF alloc_start
  <2>2. p # 0
    BY DEF Proc
  <2> QED BY <2>1, <2>2 DEF IInv, TypeOK
<1>2. mmvm_lock = p /\ Half = {} /\ InHand(a) = Weight(a, rg[p])
  <2>1. at[p] # "idle" /\ at[p] # "end"
    BY DEF alloc_start
  <2> QED BY <2>1, OneIn DEF CInv
<1>3. Half' = {x} /\ InHand(a)' = Weight(a, rg[p])
  <2>1. mmvm_lock' = p /\ at'[p] = "end" /\ mm' = mm /\ reg' = reg /\ rg' = rg
    BY <1>2 DEF alloc_start, loaderVars, IInv, TypeOK
  <2> QED BY <1>1, <2>1 DEF Half, InHand
<1>4. Settled(symrgtbl', {x}, a) = Settled(symrgtbl, {x}, a)
  <2>1. SameEntries(symrgtbl, symrgtbl', mm, reg[p])
    BY <1>1 DEF alloc_start, IInv, TypeOK, SameEntries
  <2> QED BY <1>1, <2>1, SettledElsewhere
<1>5. Cardinality(Settled(symrgtbl, {}, a)) = Cardinality(Settled(symrgtbl, {x}, a)) + Weight(a, old)
  BY <1>1, SettledEntry
<1>6. /\ leaked'[a] = leaked[a] + Weight(a, old) /\ leaked[a] \in Nat
      /\ minted' = minted /\ minted[a] \in Nat /\ vma' = vma
  BY <1>1, PlusCount DEF alloc_start
<1>7. Cardinality(Places(vma, a)) \in Nat
  <2>1. Lists(vma)
    BY ListsType DEF IInv
  <2> QED BY <2>1, PlacesType
<1>8. Cardinality(Settled(symrgtbl, {x}, a)) \in Nat
  BY SettledFinite
<1> HIDE DEF x, old
<1> QED BY <1>2, <1>3, <1>4, <1>5, <1>6, <1>7, <1>8, WeightType DEF Balanced

\* __alloc completes the entry and has nothing in hand any more.
LEMMA EndBalance ==
  ASSUME IInv, CInv, NEW p \in Proc, alloc_end(p), ~torn, NEW a \in Addr, Balanced(a)
  PROVE  Balanced(a)'
<1> DEFINE x == <<mm, reg[p]>>
<1>1. /\ mm \in Proc /\ reg[p] \in RegId
      /\ minted \in [Addr -> Nat] /\ leaked \in [Addr -> Nat]
  BY MmType DEF alloc_end, IInv, LoaderInv, TypeOK
<1>2. Half = {x} /\ InHand(a) = Weight(a, rg[p])
  <2>1. at[p] # "idle" /\ at[p] = "end"
    BY DEF alloc_end
  <2> QED BY <2>1, OneIn DEF CInv
<1>3. Half' = {} /\ InHand(a)' = 0
  BY DEF alloc_end, Half, InHand
<1>4. Settled(symrgtbl', {x}, a) = Settled(symrgtbl, {x}, a)
  <2>1. SameEntries(symrgtbl, symrgtbl', mm, reg[p])
    BY <1>1 DEF alloc_end, IInv, TypeOK, SameEntries
  <2> QED BY <1>1, <2>1, SettledElsewhere
<1>5. symrgtbl'[mm][reg[p]] = rg[p]
  <2>1. rg[p] \in Region /\ symrgtbl[mm][reg[p]] \in Region
    BY <1>1 DEF IInv, TypeOK
  <2>2. symrgtbl[mm][reg[p]].start = rg[p].start
    BY DEF CInv, HalfInv, alloc_end
  <2>3. symrgtbl'[mm][reg[p]] = [symrgtbl[mm][reg[p]] EXCEPT !.end = rg[p].end]
    BY <1>1 DEF alloc_end, IInv, TypeOK
  <2> QED BY <2>1, <2>2, <2>3 DEF Region
<1>6. Cardinality(Settled(symrgtbl', {}, a)) = Cardinality(Settled(symrgtbl', {x}, a)) + Weight(a, rg[p])
  BY <1>1, <1>5, SettledEntry
<1>7. UNCHANGED <<vma, minted, leaked>>
  BY DEF alloc_end
<1>8. /\ Cardinality(Settled(symrgtbl, {x}, a)) \in Nat
      /\ Cardinality(Places(vma, a)) \in Nat
  <2>1. Lists(vma)
    BY ListsType DEF IInv
  <2> QED BY <2>1, PlacesType, SettledFinite
<1> HIDE DEF x
<1> QED BY <1>2, <1>3, <1>4, <1>6, <1>7, <1>8, WeightType DEF Balanced

\* __free takes the region out of the symbol table.
LEMMA TakeBalance ==
  ASSUME IInv, CInv, NEW p \in Proc, NEW r \in RegId, free_take(p, r), NEW a \in Addr,
         Balanced(a)
  PROVE  Balanced(a)'
<1> DEFINE x == <<mm, r>>
           old == symrgtbl[mm][r]
<1>1. mm \in Proc /\ p # 0
  BY MmType DEF free_take, Free, Proc
<1>2. Half = {} /\ InHand(a) = 0
  BY NobodyIn DEF free_take
<1>3. Half' = {} /\ InHand(a)' = Weight(a, old)
  <2>1. mmvm_lock' = p /\ at'[p] = "enlist" /\ rg'[p] = old
    BY DEF free_take, IInv, TypeOK
  <2> QED BY <1>1, <2>1 DEF Half, InHand
<1>4. Settled(symrgtbl', {x}, a) = Settled(symrgtbl, {x}, a)
  <2>1. SameEntries(symrgtbl, symrgtbl', mm, r)
    BY <1>1 DEF free_take, IInv, TypeOK, SameEntries
  <2> QED BY <1>1, <2>1, SettledElsewhere
<1>5. symrgtbl'[mm][r] = NoRg
  BY <1>1 DEF free_take, IInv, TypeOK
<1>6. /\ Cardinality(Settled(symrgtbl', {}, a))
           = Cardinality(Settled(symrgtbl', {x}, a)) + Weight(a, NoRg)
      /\ Cardinality(Settled(symrgtbl, {}, a))
           = Cardinality(Settled(symrgtbl, {x}, a)) + Weight(a, old)
  <2>1. Cardinality(Settled(symrgtbl', {}, a))
          = Cardinality(Settled(symrgtbl', {x}, a)) + Weight(a, symrgtbl'[mm][r])
    BY <1>1, SettledEntry
  <2> QED BY <1>1, <1>5, <2>1, SettledEntry
<1>7. UNCHANGED <<vma, minted, leaked>>
  BY DEF free_take, history
<1>8. Cardinality(Settled(symrgtbl, {x}, a)) \in Nat
  BY SettledFinite
<1> HIDE DEF x, old
<1>9. Cardinality(Settled(symrgtbl', {}, a)) + Weight(a, old) = Cardinality(Settled(symrgtbl, {}, a))
  BY <1>4, <1>6, <1>8, EmptyBytes, WeightType
<1>10. /\ Cardinality(Settled(symrgtbl', {}, a)) \in Nat
       /\ Cardinality(Settled(symrgtbl, {}, a)) \in Nat
       /\ Cardinality(Places(vma, a)) \in Nat
  <2>1. Lists(vma)
    BY ListsType DEF IInv
  <2> QED BY <2>1, PlacesType, SettledFinite
<1> QED BY <1>2, <1>3, <1>7, <1>9, <1>10, WeightType DEF Balanced

\* __free puts it into the list of what is krnl->mm by then.
LEMMA EnlistBalance ==
  ASSUME IInv, CInv, NEW p \in Proc, free_enlist(p), NEW a \in Addr, Balanced(a)
  PROVE  Balanced(a)'
<1> DEFINE L == vma[mm].free
           M == enlist_vm_freerg_list(L, rg[p])
<1>1. mm \in Proc /\ rg[p] \in Region /\ a \in Int
  BY MmType, ByteType DEF free_enlist, IInv, LoaderInv, TypeOK
<1>2. Half = {} /\ InHand(a) = Weight(a, rg[p])
  <2>1. at[p] # "idle" /\ at[p] # "end"
    BY DEF free_enlist
  <2> QED BY <2>1, OneIn DEF CInv
<1>3. Half' = {} /\ InHand(a)' = 0
  BY DEF free_enlist, Half, InHand
<1>4. L \in RegionList /\ M \in RegionList
  <2>1. L \in RegionList
    BY <1>1 DEF IInv, TypeOK, RegionList
  <2> QED BY <1>1, <2>1, EnlistShape
<1>5. /\ vma'[mm].free = M
      /\ SameBut(vma, vma', mm) /\ Lists(vma) /\ Lists(vma')
  <2>1. vma' = [vma EXCEPT ![mm].free = M]
    BY DEF free_enlist
  <2> HIDE DEF M
  <2> QED BY <1>1, <1>4, <2>1 DEF IInv, TypeOK, RegionList, Lists, SameBut
<1>6. /\ Cardinality(Places(vma, a)) \in Nat /\ Cardinality(Places(vma', a)) \in Nat
      /\ Cardinality(Places(vma', a)) + Cardinality(InList(vma[mm].free, a))
           = Cardinality(Places(vma, a)) + Cardinality(InList(vma'[mm].free, a))
  BY <1>1, <1>5, PlacesChange
<1>7. Cardinality(InList(M, a)) = Cardinality(InList(L, a)) + Weight(a, rg[p])
  BY <1>1, <1>4, EnlistCount
<1>8. Cardinality(InList(L, a)) \in Nat
  BY <1>4, InListType
<1>9. UNCHANGED <<symrgtbl, minted, leaked>>
  BY DEF free_enlist
<1>10. Cardinality(Places(vma', a)) = Cardinality(Places(vma, a)) + Weight(a, rg[p])
  <2> HIDE DEF M
  <2>1. Cardinality(Places(vma', a)) + Cardinality(InList(L, a))
          = Cardinality(Places(vma, a)) + Cardinality(InList(M, a))
    BY <1>5, <1>6
  <2> HIDE DEF L
  <2> QED BY <1>6, <1>7, <1>8, <2>1, WeightType
<1>11. Cardinality(Settled(symrgtbl, {}, a)) \in Nat
  BY SettledFinite
<1> QED BY <1>2, <1>3, <1>6, <1>9, <1>10, <1>11, WeightType DEF Balanced

LEMMA BalanceStep ==
  ASSUME IInv, CInv, [Next]_vars
  PROVE  Balance'
<1> SUFFICES ASSUME ~torn', NEW a \in Addr PROVE Balanced(a)'
  BY DEF Balance
<1>1. ~torn
  BY DEF Next, run, MallocMm, init_mm, alloc_vma, sbrk_crash, alloc_find, free_enlist, alloc_crash, free_crash,
         Stop, alloc_start, alloc_end, free_take, free_nothing, write, read, libkmem,
         libsyscall, vars, history, IInv, TypeOK
<1>2. Balanced(a)
  BY <1>1 DEF CInv, Balance
<1>3. CASE UNCHANGED <<mm, vma, symrgtbl, mmvm_lock, at, reg, rg, minted, leaked>>
  <2>1. Half' = Half /\ InHand(a)' = InHand(a)
    BY <1>3 DEF Half, InHand
  <2> QED BY <1>2, <1>3, <2>1 DEF Balanced
<1>4. CASE MallocMm \/ init_mm
  BY <1>2, <1>4, LoaderBalance
<1>5. ASSUME NEW p \in Proc, run(p) PROVE Balanced(a)'
  <2>1. CASE \/ \E r \in RegId : free_nothing(p, r)
             \/ alloc_crash(p) \/ (\E s \in Size : sbrk_crash(p, s)) \/ free_crash(p)
             \/ write(p) \/ read(p) \/ libsyscall(p)
    BY <1>3, <2>1
       DEF free_nothing, alloc_crash, sbrk_crash, free_crash, libsyscall, Stop, write, read, loaderVars, memVars,
           procVars, history
  <2> QED BY <1>1, <1>2, <1>5, <2>1, VmaBalance, FindBalance, StartBalance, EndBalance, TakeBalance,
             EnlistBalance DEF run, libkmem
<1> QED BY <1>3, <1>4, <1>5 DEF Next, vars, loaderVars, memVars, procVars, history

LEMMA InitBalance == Init => CInv
<1> SUFFICES ASSUME Init PROVE CInv
  OBVIOUS
<1>1. LockInv /\ FreshInv /\ HalfInv /\ EmptyHandInv
  BY DEF Init, LockInv, FreshInv, HalfInv, EmptyHandInv, Proc
<1>2. ASSUME NEW a \in Addr PROVE Balanced(a)
  <2>1. Places(vma, a) = {}
    BY EmptyBytes DEF Init, Places, PlacesIn
  <2>2. Settled(symrgtbl, Half, a) = {}
    <3>1. \A x \in Proc \X RegId : Bytes(symrgtbl[x[1]][x[2]]) = {}
      BY DEF Init, Bytes, NoRg, Rg
    <3> QED BY <3>1 DEF Settled
  <2>3. InHand(a) = 0 /\ minted[a] = 0 /\ leaked[a] = 0
    BY NobodyIn DEF Init
  <2> QED BY <2>1, <2>2, <2>3, FS_EmptySet DEF Balanced
<1> QED BY <1>1, <1>2 DEF CInv, Balance

LEMMA CInvHolds == Spec => []CInv
<1>1. IInv /\ CInv /\ [Next]_vars => CInv'
  BY LockStep, FreshStep, HalfStep, EmptyHandStep, BalanceStep DEF CInv
<1> QED BY <1>1, InitBalance, InvariantHolds, PTL DEF Spec

\* Between two calls each byte taken at sbrk is in a free list or in a symbol
\* table, as often as it was taken and not overwritten by an __alloc: what the
\* lists cut off, clone over and enlist loses no byte and doubles none, for any
\* programs, while the loader replaces krnl->mm in the middle of their calls.
THEOREM ConservationHolds == Spec => []Conservation
<1>1. IInv /\ CInv => Conservation
  <2> SUFFICES ASSUME IInv, CInv, Quiet, ~torn, NEW a \in Addr
               PROVE  Cardinality(InFree(a)) + Cardinality(InTable(a)) = minted[a] - leaked[a]
    BY DEF Conservation
  <2>1. Half = {} /\ InHand(a) = 0
    BY NobodyIn DEF Quiet
  <2>2. Places(vma, a) = InFree(a) /\ Settled(symrgtbl, {}, a) = InTable(a)
    BY DEF Places, PlacesIn, InFree, Settled, InTable
  <2>3. Balanced(a)
    BY DEF CInv, Balance
  <2>4. Cardinality(Places(vma, a)) \in Nat /\ Cardinality(Settled(symrgtbl, {}, a)) \in Nat
    BY ListsType, PlacesType, SettledFinite DEF IInv
  <2> QED BY <2>1, <2>2, <2>3, <2>4 DEF Balanced
<1> QED BY <1>1, CInvHolds, InvariantHolds, PTL

-----------------------------------------------------------------------------
(* Where the NULL pointers come from, and the variables of one process. *)

\* Once it is loaded, an mm_struct has a vma if init_mm makes one.
MappedInv == \A m \in Proc : m <= loaded => vma[m].mapped = MmapSet

LEMMA StepMapped ==
  ASSUME IInv, MappedInv, [Next]_vars
  PROVE  MappedInv'
<1> USE DEF MappedInv, IInv, TypeOK
<1>1. CASE init_mm
  BY <1>1 DEF init_mm, LoaderInv, Proc
<1>2. ASSUME \A m \in Proc : vma'[m].mapped = vma[m].mapped, loaded' = loaded
      PROVE  MappedInv'
  BY <1>2
<1>3. ASSUME NEW p \in Proc, run(p) PROVE MappedInv'
  <2>1. loaded' = loaded
    BY <1>3 DEF run, alloc_vma, sbrk_crash, alloc_find, free_enlist, alloc_crash, free_crash, Stop, alloc_start,
       alloc_end, free_take, free_nothing, write, read, libkmem, libsyscall, loaderVars
  <2>2. vma' = vma \/ \E L : vma' = [vma EXCEPT ![mm].free = L]
    BY <1>3 DEF run, alloc_vma, sbrk_crash, alloc_find, inc_vma_limit, free_enlist, alloc_crash, free_crash, Stop,
       alloc_start, alloc_end, free_take, free_nothing, write, read, libkmem, libsyscall, memVars
  <2>3. CASE vma' = vma
    BY <1>2, <2>1, <2>3
  <2>4. ASSUME NEW L, vma' = [vma EXCEPT ![mm].free = L]
        PROVE  \A m \in Proc : vma'[m].mapped = vma[m].mapped
    <3> SUFFICES ASSUME NEW m \in Proc PROVE vma'[m].mapped = vma[m].mapped
      OBVIOUS
    <3>1. CASE m = mm
      BY <2>4, <3>1
    <3>2. CASE m # mm
      BY <2>4, <3>2
    <3> QED BY <3>1, <3>2
  <2> QED BY <1>2, <2>1, <2>2, <2>3, <2>4
<1> QED BY <1>1, <1>2, <1>3 DEF Next, MallocMm, vars, loaderVars, memVars

LEMMA MappedHolds == Spec => []MappedInv
<1>1. Init => MappedInv
  BY DEF Init, MappedInv, Proc
<1> QED BY <1>1, StepMapped, InvariantHolds, PTL DEF Spec

\* If init_mm did what its TODO says, a NULL pointer would still be used, but
\* only one that was read between the malloc of a new krnl->mm and its init_mm:
\* by the step that stops the program, or by the beginning of its __alloc.
THEOREM NullOnlyWhileLoading ==
  ASSUME MmapSet
  PROVE  Spec => /\ [](fault = "null" =>
                          ld = "init" \/ \E p \in Proc : at[p] = "find" /\ cur_vma[p] = 0)
                 /\ [][\A p \in Proc : alloc_vma(p) /\ cur_vma'[p] = 0 => ld = "init"]_vars
<1> DEFINE Read0 == \E p \in Proc : at[p] = "find" /\ cur_vma[p] = 0
           Inv == fault = "null" => ld = "init" \/ Read0
           Began == \A p \in Proc : alloc_vma(p) /\ cur_vma'[p] = 0 => ld = "init"
<1>1. Init => Inv
  BY DEF Init
<1>2. ASSUME IInv, MappedInv, NEW p \in Proc, p <= loaded, ~HasVma PROVE ld = "init"
  <2> SUFFICES ASSUME ld # "init" PROVE FALSE
    OBVIOUS
  <2>1. mm \in Proc
    BY <1>2, MmType
  <2>2. mm <= loaded
    BY <1>2, <2>1 DEF IInv, LoaderInv, TypeOK, Proc
  <2> QED BY <1>2, <2>1, <2>2 DEF HasVma, MappedInv
<1>3. IInv /\ MappedInv /\ Inv /\ [Next]_vars => Inv'
  <2> SUFFICES ASSUME IInv, MappedInv, Inv, [Next]_vars PROVE Inv'
    OBVIOUS
  <2>1. ASSUME NEW p \in Proc, alloc_crash(p) \/ free_crash(p) PROVE Inv'
    <3>1. p <= loaded /\ ~HasVma /\ ld' = ld
      BY <2>1, InCall DEF alloc_crash, free_crash, Stop, loaderVars
    <3> QED BY <1>2, <3>1
  <2>2. ASSUME NEW p \in Proc, NEW s \in Size, sbrk_crash(p, s) PROVE Inv'
    BY <2>2 DEF sbrk_crash, Stop, procVars
  <2>3. CASE UNCHANGED vars
    BY <2>3 DEF vars, loaderVars, procVars
  <2>4. CASE fault' # "null"
    BY <2>4
  <2>5. CASE MallocMm \/ init_mm
    BY <2>4, <2>5 DEF MallocMm, init_mm, Running
  <2>6. ASSUME NEW p \in Proc, run(p), ~alloc_crash(p), ~free_crash(p),
               \A s \in Size : ~sbrk_crash(p, s)
        PROVE  fault' # "null"
    BY <2>6 DEF run, alloc_vma, alloc_find, free_enlist, alloc_start, alloc_end, free_take,
       free_nothing, write, read, libkmem, libsyscall, Free, Stop, Running
  <2> QED BY <2>1, <2>2, <2>3, <2>4, <2>5, <2>6 DEF Next
<1>4. IInv /\ MappedInv /\ [Next]_vars => [Began]_vars
  <2> SUFFICES ASSUME IInv, MappedInv, NEW p \in Proc, alloc_vma(p), cur_vma'[p] = 0
               PROVE  ld = "init"
    OBVIOUS
  <2>1. p <= loaded /\ mm \in Proc
    BY MmType DEF alloc_vma, Free
  <2>2. ~HasVma
    BY <2>1 DEF alloc_vma, IInv, TypeOK, Proc
  <2> QED BY <1>2, <2>1, <2>2
<1> QED BY <1>1, <1>3, <1>4, InvariantHolds, MappedHolds, PTL DEF Spec

\* As init_mm is, no ALLOC of any process ever completes.
THEOREM NothingAllocated ==
  ASSUME ~MmapSet
  PROVE  Spec => [](\A p \in Proc : \A r \in RegId : own[p][r] = NoRg)
<1> DEFINE None == \A p \in Proc : \A r \in RegId : own[p][r] = NoRg
           Inv == /\ None
                  /\ \A p \in Proc : at[p] \in {"idle", "find"}
                  /\ \A m \in Proc : \A r \in RegId : symrgtbl[m][r] = NoRg
<1>1. Init => Inv
  BY DEF Init
<1>2. IInv /\ MappedInv /\ CInv /\ Inv /\ [Next]_vars => Inv'
  <2> SUFFICES ASSUME IInv, MappedInv, CInv, Inv, [Next]_vars PROVE Inv'
    OBVIOUS
  <2>1. CASE UNCHANGED <<own, at, symrgtbl>>
    BY <2>1
  <2>2. ASSUME NEW p \in Proc, p <= loaded PROVE mm \in Proc /\ ~HasVma
    <3>1. mm \in Proc
      BY <2>2, MmType
    <3>2. vma[mm].mapped = FALSE
      BY <3>1 DEF MappedInv, CInv, FreshInv, IInv, LoaderInv, TypeOK
    <3> QED BY <3>1, <3>2 DEF HasVma
  <2>3. ASSUME NEW p \in Proc, run(p) PROVE Inv'
    <3>1. ASSUME NEW r \in RegId, free_nothing(p, r) PROVE Inv'
      BY <3>1 DEF free_nothing, memVars, IInv, TypeOK
    <3>2. ASSUME NEW r \in RegId, free_take(p, r) PROVE FALSE
      BY <2>2, <3>2 DEF free_take, Free
    <3>3. ASSUME NEW r \in RegId, NEW s \in Size, alloc_find(p, r, s) PROVE FALSE
      BY <2>2, <3>3, InCall DEF alloc_find
    <3>4. ~(alloc_start(p) \/ alloc_end(p) \/ free_enlist(p) \/ free_crash(p))
      BY DEF alloc_start, alloc_end, free_enlist, free_crash
    <3>5. CASE \/ alloc_crash(p) \/ (\E s \in Size : sbrk_crash(p, s))
               \/ write(p) \/ read(p) \/ libsyscall(p)
      BY <2>1, <3>5 DEF alloc_crash, sbrk_crash, libsyscall, Stop, write, read, memVars,
         procVars, history
    <3>6. CASE alloc_vma(p)
      BY <3>6 DEF alloc_vma, history, IInv, TypeOK
    <3> QED BY <2>3, <3>1, <3>2, <3>3, <3>4, <3>5, <3>6 DEF run, libkmem
  <2>4. CASE MallocMm \/ init_mm \/ UNCHANGED vars
    BY <2>1, <2>4 DEF MallocMm, init_mm, vars, memVars, procVars, history
  <2> QED BY <2>3, <2>4 DEF Next
<1>3. Inv => None
  OBVIOUS
<1> QED BY <1>1, <1>2, <1>3, InvariantHolds, MappedHolds, CInvHolds, PTL DEF Spec

\* A variable a process has allocated and not freed is the one its rgid names.
OwnVariables ==
  Quiet => \A p \in Proc : \A r \in RegId :
    own[p][r] # NoRg => symrgtbl[mm][r] = own[p][r]

\* A process alone: what it was given is in the symbol table, but for the
\* variable whose entry its call is writing; before it is loaded it has
\* nothing.
VarsInv ==
  /\ \A p \in Proc : loaded < p => \A r \in RegId : own[p][r] = NoRg
  /\ \A p \in Proc : \A r \in RegId :
       own[p][r] # NoRg => symrgtbl[mm][r] = own[p][r]
                               \/ (at[p] \notin {"idle", "find"} /\ reg[p] = r)
  /\ \A p \in Proc : at[p] = "end" => symrgtbl[mm][reg[p]].start = rg[p].start

\* Alone, a process that runs has been loaded, and the loader is done.
LEMMA Alone ==
  ASSUME NumProc = 1, IInv, NEW p \in Proc, p <= loaded
  PROVE  p = 1 /\ mm = 1 /\ loaded = 1 /\ ld = "malloc" /\ Proc = {1}
  BY DEF IInv, TypeOK, LoaderInv, Proc

\* The entry of a region is its start and its end.
LEMMA BothEnds ==
  ASSUME NEW old \in Region, NEW new \in Region, old.start = new.start
  PROVE  [old EXCEPT !.end = new.end] = new
  BY DEF Region

LEMMA StepVars ==
  ASSUME NumProc = 1, IInv, LockInv, VarsInv, [Next]_vars
  PROVE  VarsInv'
<1> USE DEF VarsInv
<1>1. CASE MallocMm
  <2>1. loaded = 0 /\ \A p \in Proc : p = 1 /\ at[p] = "idle"
    BY <1>1 DEF MallocMm, IInv, TypeOK, LoaderInv, Proc
  <2> QED BY <1>1, <2>1 DEF MallocMm, memVars, procVars
<1>2. CASE init_mm
  <2>1. loaded = 0 /\ mm = 1
    BY <1>2 DEF init_mm, IInv, TypeOK, LoaderInv
  <2> QED BY <1>2, <2>1 DEF init_mm, procVars, history, Proc, IInv, LoaderInv
<1>3. CASE UNCHANGED <<loaderVars, symrgtbl, at, reg, rg, own>>
  BY <1>3 DEF loaderVars
<1>4. ASSUME NEW p \in Proc, run(p) PROVE VarsInv'
  <2>1. p <= loaded
    BY <1>4 DEF run, alloc_vma, sbrk_crash, alloc_find, free_enlist, alloc_crash, free_crash,
       alloc_start, alloc_end, free_take, free_nothing, write, read, libkmem, libsyscall, Free,
       IInv, LoaderInv
  <2>2. p = 1 /\ mm = 1 /\ loaded = 1 /\ Proc = {1}
    BY <2>1, Alone
  <2>3. ASSUME NEW r \in RegId, NEW s \in Size, alloc_find(p, r, s) PROVE VarsInv'
    BY <2>2, <2>3 DEF alloc_find, loaderVars, IInv, TypeOK
  <2>4. CASE alloc_start(p)
    BY <2>2, <2>4 DEF alloc_start, loaderVars, IInv, TypeOK, Region
  <2>5. CASE alloc_end(p)
    <3> DEFINE old == symrgtbl[mm][reg[p]]
    <3>1. old \in Region /\ rg[p] \in Region /\ old.start = rg[p].start
      BY <2>2, <2>5 DEF alloc_end, IInv, TypeOK
    <3>2. symrgtbl' = [symrgtbl EXCEPT ![mm] = [@ EXCEPT ![reg[p]] = [old EXCEPT !.end = rg[p].end]]]
      BY <2>5 DEF alloc_end
    <3>3. symrgtbl' = [symrgtbl EXCEPT ![mm] = [@ EXCEPT ![reg[p]] = rg[p]]]
      BY <3>1, <3>2, BothEnds
    <3>4. symrgtbl'[mm][reg[p]] = rg[p] /\ \A r \in RegId \ {reg[p]} : symrgtbl'[mm][r] = symrgtbl[mm][r]
      BY <2>2, <3>3 DEF IInv, TypeOK
    <3>5. own' = [own EXCEPT ![p][reg[p]] = rg[p]] /\ at' = [at EXCEPT ![p] = "idle"] /\ UNCHANGED <<mm, loaded, reg>>
      BY <2>5 DEF alloc_end, loaderVars
    <3>6. mm' = 1 /\ loaded' = 1 /\ at'[p] = "idle"
      BY <2>2, <3>5 DEF IInv, TypeOK
    <3>7. \A r \in RegId : own'[p][r] # NoRg => symrgtbl'[mm][r] = own'[p][r]
      <4> SUFFICES ASSUME NEW r \in RegId, own'[p][r] # NoRg PROVE symrgtbl'[mm][r] = own'[p][r]
        OBVIOUS
      <4>1. CASE r = reg[p]
        BY <3>4, <3>5, <4>1 DEF IInv, TypeOK
      <4>2. CASE r # reg[p]
        <5>1. own'[p][r] = own[p][r]
          BY <3>5, <4>2 DEF IInv, TypeOK
        <5> QED BY <3>4, <4>2, <5>1
      <4> QED BY <4>1, <4>2
    <3> QED BY <2>2, <3>6, <3>7
  <2>6. ASSUME NEW r \in RegId, free_take(p, r) PROVE VarsInv'
    BY <2>2, <2>6 DEF free_take, Free, loaderVars, history, IInv, TypeOK
  <2>7. ASSUME NEW r \in RegId, free_nothing(p, r) PROVE VarsInv'
    BY <2>2, <2>7 DEF free_nothing, loaderVars, memVars, IInv, TypeOK
  <2>8. CASE free_enlist(p)
    BY <2>2, <2>8 DEF free_enlist, loaderVars, IInv, TypeOK
  <2>9. CASE \/ alloc_crash(p) \/ (\E s \in Size : sbrk_crash(p, s)) \/ free_crash(p)
             \/ write(p) \/ read(p) \/ libsyscall(p)
    BY <1>3, <2>9 DEF alloc_crash, sbrk_crash, free_crash, libsyscall, Stop, write, read,
       memVars, procVars, history
  <2>10. CASE alloc_vma(p)
    BY <2>2, <2>10 DEF alloc_vma, Free, loaderVars, history, IInv, TypeOK
  <2> QED BY <1>4, <2>3, <2>4, <2>5, <2>6, <2>7, <2>8, <2>9, <2>10 DEF run, libkmem
<1> QED BY <1>1, <1>2, <1>3, <1>4 DEF Next, vars, memVars, procVars, history

\* With one process, and an init_mm that makes a vma, a variable keeps its
\* region from the end of the ALLOC to the next ALLOC or FREE of it.  Without
\* that vma nothing is allocated, see above.
THEOREM OneProcessOwnsItsVariables ==
  ASSUME NumProc = 1
  PROVE  Spec => []OwnVariables
<1>1. Init => VarsInv
  BY DEF Init, VarsInv
<1>2. IInv /\ CInv /\ VarsInv /\ [Next]_vars => VarsInv'
  BY StepVars DEF CInv
<1>3. IInv /\ CInv /\ VarsInv => OwnVariables
  BY NobodyIn DEF VarsInv, CInv, LockInv, OwnVariables, Quiet, Proc
<1> QED BY <1>1, <1>2, <1>3, InvariantHolds, CInvHolds, PTL DEF Spec
=============================================================================
