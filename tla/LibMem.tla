------------------------------- MODULE LibMem -------------------------------
(***************************************************************************)
(* libmem.c with the parts of mm-vm.c, mm64.c, cpu.c and syscall.c it runs *)
(* through: the memory instructions of the processes, which share the one  *)
(* krnl->mm, and the loader, which replaces it for every process it loads. *)
(* __alloc and __free hold mmvm_lock, but the loader writes krnl->mm under *)
(* no lock: they are a step for each time they read it.  Process p is the  *)
(* p-th loaded and mm_struct p the one made for it.  The memory the loader *)
(* gets from malloc is fresh, so zero.                                     *)
(***************************************************************************)
EXTENDS Integers, Sequences, FiniteSets

CONSTANTS
  NumProc,    \* processes in the configuration
  RegId,      \* the variables a program uses, indices of symrgtbl
  Size,       \* the sizes it asks for
  MmapSet,    \* has init_mm set mm->mmap?  FALSE in the code, a TODO there
  MaxOps      \* bound: instructions of all processes

ASSUME LibMemAssumption ==
  /\ NumProc \in Nat \ {0}
  /\ RegId # {} /\ IsFiniteSet(RegId)
  /\ Size \subseteq Nat
  /\ MmapSet \in BOOLEAN
  /\ MaxOps \in Nat

Proc == 1 .. NumProc

VARIABLES
  mm,          \* krnl->mm; 0 is NULL
  ld,          \* the loader: about to allocate or to initialize an mm_struct
  loaded,      \* processes given to add_proc
  vma,         \* mm->mmap: [mapped, sbrk, free], free is vm_freerg_list
  symrgtbl,    \* mm->symrgtbl
  mmvm_lock,   \* who holds it; 0 is nobody
  at, reg, rg, \* where a process is in __alloc or __free, with rgid and region
  cur_vma,     \* the vma __alloc began with: that of mm_struct cur_vma; 0 is NULL
  ops,         \* instructions run
  fault,       \* what has stopped the program: a "null" or a "garbage" pointer
  own,         \* history: the region each process was given for each variable
  minted,      \* history: how often each byte was taken at sbrk
  leaked,      \* history: how often each byte was overwritten in symrgtbl
  torn         \* history: the loader replaced krnl->mm between the two writes
               \* of a region to symrgtbl

loaderVars == <<mm, ld, loaded>>
memVars == <<vma, symrgtbl, mmvm_lock>>
procVars == <<at, reg, rg, cur_vma, ops>>
history == <<own, minted, leaked, torn>>
vars == <<loaderVars, memVars, procVars, fault, history>>

Rg(s, e) == [start |-> s, end |-> e]

NoRg == Rg(0, 0)

Bytes(r) == r.start .. r.end - 1

Addr == UNION {0 .. s - 1 : s \in Size}

Plus(count, r) == [a \in Addr |-> IF a \in Bytes(r) THEN count[a] + 1 ELSE count[a]]

Count == ops' = ops + 1

Running == fault = "none"

Init ==
  /\ mm = 0 /\ ld = "malloc" /\ loaded = 0
  /\ vma = [m \in Proc |-> [mapped |-> FALSE, sbrk |-> 0, free |-> <<>>]]
  /\ symrgtbl = [m \in Proc |-> [r \in RegId |-> NoRg]]
  /\ mmvm_lock = 0
  /\ at = [p \in Proc |-> "idle"]
  /\ reg = [p \in Proc |-> CHOOSE r \in RegId : TRUE]
  /\ rg = [p \in Proc |-> NoRg]
  /\ cur_vma = [p \in Proc |-> 0]
  /\ ops = 0
  /\ fault = "none"
  /\ own = [p \in Proc |-> [r \in RegId |-> NoRg]]
  /\ minted = [a \in Addr |-> 0]
  /\ leaked = [a \in Addr |-> 0]
  /\ torn = FALSE

-----------------------------------------------------------------------------
(* The loader. *)

\* Mutant: the loop runs once too often.
MallocMmTooMany ==
  /\ Running /\ ld = "malloc" /\ loaded <= NumProc
  /\ mm' = loaded + 1
  /\ ld' = "init"
  /\ torn' = (torn \/ \E p \in Proc : at[p] = "end")
  /\ UNCHANGED <<loaded, memVars, procVars, fault, own, minted, leaked>>

MallocMm ==
  /\ Running /\ ld = "malloc" /\ loaded < NumProc
  /\ mm' = loaded + 1
  /\ ld' = "init"
  /\ torn' = (torn \/ \E p \in Proc : at[p] = "end")
  /\ UNCHANGED <<loaded, memVars, procVars, fault, own, minted, leaked>>

\* init_mm makes vma0 with one empty free region; then add_proc.
init_mm ==
  /\ Running /\ ld = "init"
  /\ vma' = [vma EXCEPT ![mm] = [mapped |-> MmapSet, sbrk |-> 0, free |-> <<NoRg>>]]
  /\ loaded' = loaded + 1
  /\ ld' = "malloc"
  /\ UNCHANGED <<mm, symrgtbl, mmvm_lock, procVars, fault, history>>

-----------------------------------------------------------------------------
(* The region lists. *)

Fits(L, i, s) == L[i].start + s <= L[i].end

FirstFit(L, i, s) == Fits(L, i, s) /\ \A j \in 1 .. i - 1 : ~Fits(L, j, s)

\* Mutant: the next region is not cloned into one that is used up.
CutNoRemove(L, i, s) == [L EXCEPT ![i].start = @ + s]

\* What is left after s bytes of the i-th region.  A region that is used up
\* is overwritten with the next one; the last one stays, empty.
Cut(L, i, s) ==
  IF L[i].start + s < L[i].end \/ i = Len(L)
    THEN [L EXCEPT ![i].start = @ + s]
    ELSE SubSeq(L, 1, i - 1) \o SubSeq(L, i + 1, Len(L))

enlist_vm_freerg_list(L, r) == IF r.start >= r.end THEN L ELSE <<r>> \o L

-----------------------------------------------------------------------------
(* The instructions. *)

Free(p) == Running /\ p <= loaded /\ at[p] = "idle" /\ ops < MaxOps

Stop(how) == fault' = how /\ UNCHANGED <<loaderVars, memVars, procVars, history>>

\* get_vma_by_num returns a vma and not NULL.
HasVma == vma[mm].mapped

\* The system call that should move sbrk changes nothing.
inc_vma_limit == vma' = vma

\* __alloc begins with the vma of krnl->mm, or with NULL.
alloc_vma(p) ==
  /\ Free(p) /\ mmvm_lock = 0
  /\ mmvm_lock' = p
  /\ at' = [at EXCEPT ![p] = "find"]
  /\ cur_vma' = [cur_vma EXCEPT ![p] = IF HasVma THEN mm ELSE 0]
  /\ Count
  /\ UNCHANGED <<loaderVars, vma, symrgtbl, reg, rg, fault, history>>

\* __alloc up to the region: first fit in the free list of what is krnl->mm by
\* now, or else at the sbrk of the vma it began with.
alloc_find(p, r, s) ==
  /\ Running /\ at[p] = "find"
  /\ HasVma
  /\ at' = [at EXCEPT ![p] = "start"]
  /\ reg' = [reg EXCEPT ![p] = r]
  /\ LET L == vma[mm].free
         found == {i \in 1 .. Len(L) : FirstFit(L, i, s)}
         brk == Rg(vma[cur_vma[p]].sbrk, vma[cur_vma[p]].sbrk + s)
     IN \/ \E i \in found :
             /\ rg' = [rg EXCEPT ![p] = Rg(L[i].start, L[i].start + s)]
             /\ vma' = [vma EXCEPT ![mm].free = Cut(L, i, s)]
             /\ minted' = minted
        \/ /\ found = {} /\ cur_vma[p] # 0
           /\ rg' = [rg EXCEPT ![p] = brk]
           /\ minted' = Plus(minted, brk)
           /\ inc_vma_limit
  /\ UNCHANGED <<loaderVars, symrgtbl, mmvm_lock, cur_vma, ops, fault, own, leaked, torn>>

\* get_vma_by_num returned NULL and get_free_vmrg_area used it.
alloc_crash(p) == Running /\ at[p] = "find" /\ ~HasVma /\ Stop("null")

\* No region fits, and the vma whose sbrk is to be used was NULL.
sbrk_crash(p, s) ==
  /\ Running /\ at[p] = "find" /\ HasVma
  /\ \A i \in 1 .. Len(vma[mm].free) : ~Fits(vma[mm].free, i, s)
  /\ cur_vma[p] = 0
  /\ Stop("null")

\* __alloc writes the region into the symbol table, over the old one: first
\* rg_start, then, through krnl->mm again, rg_end.
alloc_start(p) ==
  /\ Running /\ at[p] = "start"
  /\ symrgtbl' = [symrgtbl EXCEPT ![mm][reg[p]].start = rg[p].start]
  /\ leaked' = Plus(leaked, symrgtbl[mm][reg[p]])
  /\ at' = [at EXCEPT ![p] = "end"]
  /\ UNCHANGED <<loaderVars, vma, mmvm_lock, reg, rg, cur_vma, ops, fault, own, minted, torn>>

alloc_end(p) ==
  /\ Running /\ at[p] = "end"
  /\ symrgtbl' = [symrgtbl EXCEPT ![mm][reg[p]].end = rg[p].end]
  /\ own' = [own EXCEPT ![p][reg[p]] = rg[p]]
  /\ rg' = [rg EXCEPT ![p] = NoRg]
  /\ at' = [at EXCEPT ![p] = "idle"]
  /\ mmvm_lock' = 0
  /\ UNCHANGED <<loaderVars, vma, reg, cur_vma, ops, fault, minted, leaked, torn>>

\* Mutant: the entry of the symbol table is not cleared.
free_takeKeep(p, r) ==
  /\ Free(p) /\ mmvm_lock = 0
  /\ symrgtbl[mm][r] # NoRg
  /\ mmvm_lock' = p
  /\ at' = [at EXCEPT ![p] = "enlist"]
  /\ Count
  /\ reg' = [reg EXCEPT ![p] = r]
  /\ rg' = [rg EXCEPT ![p] = symrgtbl[mm][r]]
  /\ UNCHANGED <<loaderVars, vma, symrgtbl, cur_vma, fault, history>>

\* __free takes the region out of the symbol table.
free_take(p, r) ==
  /\ Free(p) /\ mmvm_lock = 0
  /\ symrgtbl[mm][r] # NoRg
  /\ mmvm_lock' = p
  /\ at' = [at EXCEPT ![p] = "enlist"]
  /\ Count
  /\ reg' = [reg EXCEPT ![p] = r]
  /\ rg' = [rg EXCEPT ![p] = symrgtbl[mm][r]]
  /\ symrgtbl' = [symrgtbl EXCEPT ![mm][r] = NoRg]
  /\ UNCHANGED <<loaderVars, vma, cur_vma, fault, history>>

\* The variable holds no region: -1.
free_nothing(p, r) ==
  /\ Free(p) /\ mmvm_lock = 0
  /\ symrgtbl[mm][r] = NoRg
  /\ own' = [own EXCEPT ![p][r] = NoRg]
  /\ Count
  /\ UNCHANGED <<loaderVars, memVars, at, reg, rg, cur_vma, fault, minted, leaked, torn>>

\* __free enlists the region.
free_enlist(p) ==
  /\ Running /\ at[p] = "enlist" /\ HasVma
  /\ vma' = [vma EXCEPT ![mm].free = enlist_vm_freerg_list(@, rg[p])]
  /\ own' = [own EXCEPT ![p][reg[p]] = NoRg]
  /\ rg' = [rg EXCEPT ![p] = NoRg]
  /\ at' = [at EXCEPT ![p] = "idle"]
  /\ mmvm_lock' = 0
  /\ UNCHANGED <<loaderVars, symrgtbl, reg, cur_vma, ops, fault, minted, leaked, torn>>

free_crash(p) == at[p] = "enlist" /\ Running /\ ~HasVma /\ Stop("null")

\* Every page table entry is 0, so no page is present, and fifo_pgn is
\* empty, so there is no victim to swap out: pg_getpage fails before it
\* changes anything, and __write, under the lock, drops the result.
write(p) ==
  /\ Free(p) /\ mmvm_lock = 0
  /\ Count
  /\ UNCHANGED <<loaderVars, memVars, at, reg, rg, cur_vma, fault, history>>

\* The same without the lock: READ, and CALC.
read(p) ==
  /\ Free(p)
  /\ Count
  /\ UNCHANGED <<loaderVars, memVars, at, reg, rg, cur_vma, fault, history>>

\* The kernel memory instructions are stubs.
libkmem(p) == read(p)

\* sys_memmap works on a pcb_t and a krnl_t it has just made.  Its devices are
\* what malloc left in the krnl_t: NULL, which changes nothing, or garbage.
libsyscall(p) == read(p) \/ (Free(p) /\ Stop("garbage"))

run(p) ==
  \/ alloc_vma(p)
  \/ \E r \in RegId : \/ \E s \in Size : alloc_find(p, r, s)
                      \/ free_take(p, r) \/ free_nothing(p, r)
  \/ alloc_crash(p) \/ \E s \in Size : sbrk_crash(p, s)
  \/ alloc_start(p) \/ alloc_end(p) \/ free_enlist(p) \/ free_crash(p)
  \/ write(p) \/ read(p) \/ libkmem(p) \/ libsyscall(p)

Next == MallocMm \/ init_mm \/ \E p \in Proc : run(p)

Spec == Init /\ [][Next]_vars
-----------------------------------------------------------------------------
Region == [start : Nat, end : Nat]

TypeOK ==
  /\ mm \in 0 .. NumProc /\ loaded \in 0 .. NumProc
  /\ ld \in {"malloc", "init"}
  /\ vma \in [Proc -> [mapped : BOOLEAN, sbrk : Nat, free : Seq(Region)]]
  /\ symrgtbl \in [Proc -> [RegId -> Region]]
  /\ mmvm_lock \in 0 .. NumProc
  /\ at \in [Proc -> {"idle", "find", "start", "end", "enlist"}]
  /\ cur_vma \in [Proc -> 0 .. NumProc]
  /\ reg \in [Proc -> RegId] /\ rg \in [Proc -> Region]
  /\ ops \in 0 .. MaxOps /\ fault \in {"none", "null", "garbage"} /\ torn \in BOOLEAN
  /\ own \in [Proc -> [RegId -> Region]]
  /\ minted \in [Addr -> Nat] /\ leaked \in [Addr -> Nat]

\* The places of a list whose region has byte a.
InList(L, a) == {i \in 1 .. Len(L) : a \in Bytes(L[i])}

InFree(a) == UNION {{m} \X InList(vma[m].free, a) : m \in Proc}

InTable(a) == {x \in Proc \X RegId : a \in Bytes(symrgtbl[x[1]][x[2]])}

Quiet == mmvm_lock = 0

\* No byte is lost and none is handed out twice by the lists: between two
\* calls each byte that was taken at sbrk is in a free list or in a symbol
\* table, as often as it was taken, except where an __alloc overwrote a
\* variable that was still allocated.  This survives a load in the middle of
\* a call, unless it tears the region __alloc is writing.
Conservation ==
  Quiet /\ ~torn => \A a \in Addr :
    Cardinality(InFree(a)) + Cardinality(InTable(a)) = minted[a] - leaked[a]

\* Cloning the next region into one that is used up, and not enlisting empty
\* ones, keeps the list short: the only empty region is the last one, that
\* of init_mm, and it is never removed, so the list is never NULL.
ListShape ==
  \A m \in Proc : vma[m].mapped =>
    LET L == vma[m].free IN
      /\ L # <<>>
      /\ L[Len(L)].start = L[Len(L)].end
      /\ \A i \in 1 .. Len(L) - 1 : L[i].start < L[i].end

\* liballoc returns to its caller, as in the recorded runs with alloc.
NoCrash == fault # "null"
=============================================================================
