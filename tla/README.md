# A verification of the ossim "Caitoa" operating system simulator

The program (`src/Assignment-OS--main/ossim_caitoa`) simulates a small
operating system: a loader thread brings programs into a multi-level ready
queue, CPU threads take them out and run one instruction per time slot, a timer
thread keeps the slots in step, and the memory instructions work on a simulated
paging memory.  Paths below are relative to that directory.  The build is the
default one of `include/os-cfg.h`: `MLQ_SCHED`, `MM_PAGING` and `MM64` defined,
`MAX_PRIO` 140; a queue of `include/queue.h` has `MAX_QUEUE_SIZE` 50 places.

## Inventory

| part | state | operations | what makes it correct |
|---|---|---|---|
| `src/queue.c` ready queue array | `proc[]`, `size` | `enqueue`, `enqueue_front`, `dequeue`, `purgequeue` | it is a bounded FIFO; no slot past `size` points to a process |
| `src/sched.c` scheduler | `mlq_ready_queue[]`, `slot[]`, the cursor `curr_prio` | `get_proc`, `put_proc`, `add_proc` under `queue_lock` | one owner per process, none lost, none starved, NULL only when nothing is ready |
| `src/timer.c` time slots | `_time`, `timer_stop`, per device `done`, `fsh`, two mutexes with a condition each | `timer_routine`, `next_slot`, `attach_event`, `detach_event`, `start_timer`, `stop_timer`, `current_time` | a slot passes when every attached device has finished it; no lost wake-up; no race on the unlocked data; it ends |
| `src/os.c` threads | `done`; locals `proc`, `time_left` of each CPU; index `i` of the loader | `cpu_routine`, `ld_routine`, `main` | a process is run by one CPU, one instruction per slot, to its end; the program ends |
| `src/cpu.c` `run` | `proc->pc` | one case per opcode | the status says whether the instruction was executed |
| `src/loader.c` | the program text | `load` | - |
| `src/libmem.c` user memory | `krnl->mm`: free region list, `symrgtbl`, `fifo_pgn`; `mmvm_lock` | `__alloc`, `__free`, `__read`, `__write`, page replacement | no byte lost or given twice; a variable stays what its owner made it |
| `src/mm-vm.c` areas | `sbrk`, `vm_end` | `get_vma_by_num`, `inc_vma_limit` | a new region does not overlap an old one |
| `src/mm64.c`, `include/mm.h`, `include/mm64.h` page tables | page tables (the walk is a TODO), `init_mm` | entry setters and getters (on cells of their own), `init_pte` (no caller), `__swap_cp_page`, the split of an address, `enlist_pgn_node`, mapping (TODO) | the fields of an entry do not disturb each other and its marks tell what it is; two pages have different paths; the copy moves the whole page |
| `src/mm-memphy.c` devices | `storage`, `free_fp_list` | format, get and put a frame, read, write | a frame has one holder |
| `src/syscall.c`, `src/sys_*.c`, `src/libstd.c` | none of their own | `_syscall`, `sys_memmap`, `listsyscall` | - |
| `src/mm.c` 32-bit page tables | | | compiled out (`MM64`) |
| `src/mem.c`, `src/paging.c` | | | without behaviour, or not part of the program |

How they interact: the loader and the CPUs call the scheduler; both are devices
of the timer and call `next_slot` when they have nothing more to do in a slot;
a CPU calls `run`, which calls `libmem.c`, whose critical sections hold
`mmvm_lock`; the loader writes `krnl->mm`, `done` and reads `_time` under no
lock; `main` joins CPUs and loader and then stops the timer.

What is hard here: interleavings of CPUs, loader and timer over data that is
partly unlocked, the two-lock hand-shake of the timer, a local pointer that
outlives `put_proc` and `free`, `done` tested after the queues were, the
cursor and budgets of the scheduler at their wrap-around, queues at their limit,
long sequences of alloc and free on the region list, and `krnl->mm` replaced in
the middle of a call.  `PROJECT.json` lists each at its line with the properties
that would catch it, and those that no property covers yet.

## Modules

`BoundedFifo` - what a ready queue promises: a sequence, at most
`MAX_QUEUE_SIZE` long, that ignores what does not fit.

`ArrayQueue` - `queue.c` as it is: the array with its slots and `size`.
`dequeue` and `purgequeue` shift the rest down and clear the slot that becomes
free; `enqueue_front` shifts up.  It implements `BoundedFifo` with the
refinement mapping "the first `size` slots".

`MLQ` - the scheduler's three operations, as operators other modules use inside
their own actions (each runs under `queue_lock`, so it is one step).  The two
scans of `get_mlq_proc` are the choice of the priority nearest to the cursor,
`Dist`, instead of a loop.  The queues are the sequences of `BoundedFifo`.

`MLQSystem` - the scheduler with its callers in general: unloaded processes are
loaded once, a CPU gets a process and later puts it back or frees it, at most
`num_cpus` are held.  `ReadyPool` is the abstract promise it implements: a set
of ready processes, `get` answers NULL only when it is empty.

`SlotBarrier` - the abstract timer: a device works or waits or has left; a tick
happens when nobody works.

`Timer` - `timer.c` with every critical section a step: the timer's walk over
the device list (`pos`), its counters `fsh` and `event`, sleep and wake-up of
both sides including spurious wake-ups.  `done`, `fsh` are the fields of each
device.  `mpc` is where `main` is: it attaches the devices, starts the timer,
creates the threads of the devices one by one (`CreateThread`) while the timer runs
already, joins them, and stops the timer.  A device without a thread is at work for the
barrier: the timer waits for it.  It implements `SlotBarrier`.

`OS` - `os.c`: CPU threads and loader over `MLQ` and `SlotBarrier`.  A step goes
from one access to shared state to the next; the labels `cpc` name the places in
the loop of `cpu_routine`: `top`, `put` and `freed` (between `put_proc` or `free`
and the next `get_proc`), `recheck` (line 163), `run`, `stopped`.  The program
of a process is its length; an instruction moves `pc`.  The threads of `OS`
implement `MLQSystem`, which is what the proofs about the scheduler assume of
its callers.

`LibMem` - the memory instructions of all processes on the one `krnl->mm`, with
the loader that replaces it.  `__alloc` and `__free` are a step per read of
`krnl->mm`, because the loader does not take `mmvm_lock`: `alloc_vma` gets the vma whose
sbrk may be used later (`cur_vma`, line 76), `alloc_find` reads `krnl->mm` again for the
free list (line 674), `alloc_start` and `alloc_end` for the table (lines 81 and 82).  A NULL
that is used, or a pointer nobody initialised, stops the program (`fault`).  `own`, `minted`,
`leaked` and `torn` are history variables.  A load between the two writes of a region to
the symbol table tears it, and what is conserved up to there no longer is; `Conservation`
excepts just that (`torn`).  The constant `MmapSet` says whether `init_mm`
sets `mm->mmap`.  In the code it does not (a TODO), and run `libmem_null` shows
what follows: nothing after the first ALLOC.  Run `libmem` sets it, to check
the code of `libmem.c` that waits behind that TODO: what it shows is of an `init_mm` that
does its part, not of the program as it is.  Everything else is as the
code is: `sbrk` does not move, so variables taken there overlap; no page table is
written and the victim list is empty, so READ and WRITE find no page, change nothing and
return 0 all the same.  `init_mm` leaves some fields as `malloc` gives them: the loader thread
has a heap of its own in which it frees nothing of that size, so they are zero.  `sys_memmap`
works on a `krnl_t` that it gets from `malloc` on the thread of a CPU, which does free:
`libsyscall` changes nothing or stops on garbage.

`Memphy` - the devices of `mm-memphy.c` and the page copy of `mm64.c`.  The paging
of the program is a TODO, so the frame list has few callers in it; they are modelled by
what `include/mm.h` offers them: whoever got a frame writes to it, copies to it, or
gives it back.  `image` is what they believe their frames hold.  A device has two
pages or more: with less than one `MEMPHY_format` makes no list, and with exactly one it
leaves the end of the list unset.

`PageEntry` - the format of an entry and of an address: masks, fields, the macros that
set and get them, the entries that `init_pte`, `pte_set_fpn` and `pte_set_swap` make,
and `get_pd_from_address`.  A number is the set of the positions of its bits that are 1.
A mask is a 32-bit number in the code, which matters for its complement.  This is a format
and no step of any module: the setters of `mm64.c` make the entry in a cell from `malloc` and
lose it, `pte_set_entry` writes to a table that is never allocated, and nothing calls
`init_pte` or either of the two that would.

`Paging` - the replacement list, `pg_getpage` and `find_victim_page` over `Memphy`.  No
page table is ever written and `pte_get_entry` answers 0, so `pg_getpage` always looks for a
victim.  `find_victim_page` takes the last of the list and, when there is only one, uses a
NULL: `victim_crash`.  When the swap device has no frame the victim is out of the list all
the same.  In the program only `pg_getpage` enlists a page, after it has found a victim,
so the list stays empty; `enlist_pgn_node` as an action stands for the mapping that is
still to be written.  `arrivals` is a history variable.

`ArrayQueueProofs`, `MLQProofs` with `MLQLemmas`, `TimerProofs`, `OSProofs`,
`LibMemProofs`, `MemphyProofs`, `PagingProofs` hold the proofs; `MCMLQ`, `MCOS`,
`MCPaging` the constants of the runs.  Operators commented "Mutant" are plausible
errors in the operator defined after them; they belong to no specification and
serve to test that each property notices one.

## Runs

| run | bounds | shows |
|---|---|---|
| `array_queue` | 4 slots, 3 processes, repeats allowed | every shift at both ends of a full, empty and partly filled array |
| `mlq` | 4 processes on 3 priorities, 2 CPUs, queue of 2 | budgets down to 0, refills, wrap-around of the cursor, two processes on a priority; the wait of each process shortens with every dispatch |
| `mlq_strict` | the same, 1 CPU, queue of 4 | violated: priorities take turns |
| `mlq_full` | queue of 1 | violated: a full queue drops a process |
| `timer` | 3 devices, time modulo 3 | devices that stop early, late, together, or before the others are created; spurious wake-ups |
| `os` | 3 CPUs, 4 processes of 0 to 3 instructions, quantum 2 | ownership, quanta, one instruction per slot, refinement of `MLQSystem`; no process that has begun is left when all CPUs have stopped; everything finishes unless all CPUs stop |
| `os_idle` | 2 CPUs | violated: an idle CPU never stops |
| `os_abandoned` | 1 CPU | violated: the last process may be left in the queue |
| `libmem` | 2 processes, 2 variables, sizes 0, 1 and 3, 5 instructions, `MmapSet` TRUE | the bookkeeping of bytes and the shape of the list: splits, exact fits, overwritten variables, `krnl->mm` replaced anywhere in a call, also by one not yet initialized |
| `libmem_null` | `MmapSet` FALSE | violated: NULL is used |
| `paging` | RAM of 2 pages, swap of 2.5 pages, 2 bytes a page; 2 pages of a process; 8 calls | frames and their contents, also where the size is no multiple of a page; victims in order, also a page that is in the list twice |

Why the bounds are enough to be of use: the scheduler treats priorities alike but
for budget and position, and with three of them there are ones before, at and
after the cursor and across its wrap-around; two processes of one priority show
the order within a queue; the timer's protocol is pairwise between the timer and
a device, and a third device makes the walk have a middle; for the queue, the
scheduler, the timer and most of the rest the theorems below hold for all sizes.  In `os` there are as
many CPUs as processes ready at once, so that a CPU finds the queues empty while another is
between `put_proc` and `get_proc`.  Five memory instructions allow a split, two
frees and a reuse of what was cut.  Eight calls of `paging` allow the swap to be
exhausted with two pages in the list, and a frame to be written, copied, given back and taken
again.

The bounds that are not in the code: `TimeWidth` (the clock modulo a small number;
the loader compares it with start times below it), `MaxOps` (in `LibMem` instructions
of all processes, in `Paging` calls), and in `OS` programs of at most three instructions that do not crash.

Deadlock is checked except in the `LibMem` runs, where programs end or crash, and in
`paging`, where the calls are bounded and may crash.

### Fairness

`Timer`, `OS` and `MLQSystem` assume weak fairness of each thread: a thread that can
run does.  Mutexes are held for bounded sections, so a thread that waits for one is
never kept out for ever by weakly fair owners; a sleeping thread is enabled only by a
signal (spurious wake-ups are possible but not fair).  `OS` takes from `Timer` that
`next_slot` returns (`NextSlotReturns`, run `timer`), by using the barrier.
`MLQSystem` assumes that a CPU eventually gives back what it holds (a quantum or at least a
program is finite) and asks again, and nothing of the loader.

## Where the code and its documents disagree

`StrictPriority` (the recorded outputs show strict priorities, the code rotates),
`NothingLost` with a full queue, `EveryCpuStops` and `NoneAbandoned` (the end of the
program), `NoCrash` (memory). The
entries under "findings" in `PROJECT.json` quote the lines.

## Proofs

All proofs are checked by TLAPS with SMT (Z3), Zenon and, for the temporal steps, LS4.

- `ArrayQueueProofs`.  `InvariantHolds` proves `TypeOK` and `NoStaleSlot` together
  (the shifts keep the one only because of the other).  `TypeCorrect`, `NoStaleSlotHolds`
  and `FifoImplemented` follow: each operation on the array is, under the mapping, one
  step of `BoundedFifo`.  Assumption: the size of the array is a positive number.
- `MLQProofs` (the facts about single operations are in `MLQLemmas`, for `OSProofs`, too).
  `TypeCorrect` needs that a process sits in the queue of its own
  priority and that budgets stay within 0 .. MAX_PRIO - i; the second scan, which
  decrements a budget it did not test, keeps this because a refill comes directly
  before it.  `OneOwnerHolds` has `OneOwner` itself as inductive invariant on top of
  the types.  `TurnProgressHolds` is arithmetic on `Dist`, case by case over the two
  scans.  `WaitShortensHolds` is what can be proved of `NoStarvation` for every size: after
  each dispatch of another process the wait of a queued one is smaller, compared first by
  who is ahead of it in its queue (`Ahead`), then by whether its priority has budget, then,
  if not, by the budgets the others have left before the refill, if so, by how far the cursor is.
  Each of these has a least value, so only so many dispatches can come before its own; that
  dispatches go on is the fairness TLC assumes.  It needs no `EnoughRoom`: a process
  that is in a queue is safe there.  `NothingLostHolds` and `PoolImplemented` assume `EnoughRoom`, that a queue
  holds all processes of its priority: without it the claims are false (`mlq_full`).
- `TimerProofs`.  The inductive invariant says, for each place of the timer's walk,
  which devices have been counted or released already; from it follow the bounds of the
  counters (`TypeCorrect`), the absence of races on `_time` (`NoRaceOnTimeHolds`) and on
  `done` (`NoRaceOnDoneHolds`), that nobody sleeps on a condition that holds
  (`NoLostWakeupHolds`), and the refinement of `SlotBarrier` (`BarrierImplemented`), for
  any number of devices.
- `OSProofs`.  The inductive invariant is `TypeOK`, `Quanta` (`FreshQuantum` and that a
  CPU between `put_proc` and `get_proc` has no quantum left) and `OneOwner`.  A step of a
  CPU or of the loader is one of five changes for the scheduler - it gets, puts, frees or
  loads a process, or does nothing to it - and each kind is proved once to keep
  `OneOwner`.  `OneInstructionPerSlotHolds` adds `RanBefore`: a CPU
  about to run a process that ran in this slot already waits for the next slot.
  `FreedAtEndHolds` uses that only its holder moves the `pc` of a process.  `ImplementsSchedulerHolds`: the held processes map
  one to one into the CPUs, so a CPU that asks holds none and `MLQSystem`'s bound on them
  is kept.  `NothingLostHolds` assumes `EnoughRoom`.
  `PoolImplemented`, `TurnProgressHolds` and `WaitShortensHolds` state of the threads what `MLQProofs` proves of
  `MLQSystem`.  They are proved from the same lemmas of `MLQLemmas` and not by the
  refinement, because the prover does not carry temporal theorems through an `INSTANCE`.
  `BarrierImplemented` is the other half of the composition: the threads keep to the
  abstract barrier, which `TimerProofs` shows `timer.c` to implement.
  `BegunIsFinishedHolds` (`EnoughRoom` again) says how much of a doubtful shutdown is
  safe.  A CPU tests `done` some time after it found the queues empty, so the last process
  added may be left behind (`os_abandoned`); one that has executed an instruction may
  not.  Three facts make the invariant: what has begun was added (`BegunIsAdded`); while
  such a process is in a queue, `proc` of some CPU is not NULL, so that this CPU calls
  `get_proc` once more before it can stop (`Tended`); a stopped CPU has `proc` NULL
  (`StoppedHaveNone`).
- `LibMemProofs`.  `TypeCorrect` needs where the loader is (`LoaderInv`), so that a process
  runs only once there is a `krnl->mm`.  `ListShapeHolds` rests on what `Cut` does to a
  list: it cuts in place, or, where a region is used up and is not the last, takes it out.
  `ConservationHolds` counts each byte.  Between two calls the claim is not inductive: in a call
  the region is in the hand of the process (`rg`), or one of its two ends is in the table
  (`Half`).  The invariant `CInv` is a balance that holds at every step, places in lists +
  entries of tables but the half-written one + what is in hand = taken - overwritten, and
  what it needs: only the holder of `mmvm_lock` is in a call (`LockInv`), the
  `mm_struct` the loader is about to make holds nothing (`FreshInv`), the half-written
  entry has the start of the region in hand (`HalfInv`).  For the lists, `CutCount` and
  `EnlistCount` say that a cut or an enlisted region changes the number of places of a byte by
  one exactly when the byte is in it; the place by place bijection behind a
  region taken out of the list makes an induction unnecessary.
  Three more theorems say what hangs on the TODO of `init_mm` and on the sharing of
  `krnl->mm`.  `NothingAllocated`: as `init_mm` is, no ALLOC completes in any configuration.
  `NullOnlyWhileLoading`: if it did its TODO, a NULL would still be used, but only by a step
  while the loader is between the `malloc` of `krnl->mm` and `init_mm`, or by an `__alloc` that
  read its vma there.  `OneProcessOwnsItsVariables`: with that TODO done and one process, a
  variable keeps its region between two calls; with two the next load takes the table away.  Assumption
  on the constants, besides the types: a program has finitely many variables (`symrgtbl`
  is an array).
- `MemphyProofs`.  `TypeCorrect`: the storage keeps its size and type, and what is listed
  or used are frames of the device.  That no address outside it is written is not in the
  types; it is part of `HolderSeesItsDataHolds`, which needs that every cell of a frame is an
  address of the storage (`CellInside`, from `PageFits`) and that cells of different frames are
  different bytes (`CellsApart`, from division with remainder).  `FramesPartitionHolds`: taking the
  head and putting in front keep a list without repetition.
- `PagingProofs`.  What one field is set to is read back from it, as far as its mask goes, and
  leaves the bits outside its mask (`FieldReadBack`, `FieldKeepsRest`).  From that:
  `OnlineEntry`, for any frame number: the entry has its low 13 bits, so frames of a
  device of more than 2^13 share entries (`input/os_0_mlq_paging` has 2^20).  `SwappedEntry`:
  type and offset are apart, and the entry is marked present, too, so that `pg_getpage` and
  `free_pcb_memph`, which test only that, would take it for a page in a frame.
  `InitializedEntry`: what `init_pte` does, and that it leaves the entry of frame 0 as it was.
  None of these entries reaches a table today.
  `AddressIsPageAndOffset` and `PathsApart`: nothing of an
  address is lost in the split, two pages have different paths.  `VictimsInOrderHolds`
  keeps that the list is the reverse of the end of `arrivals`.  `DevicesImplemented`: the
  calls of `Paging` are those `Memphy` assumes, so its theorems carry over
  (`PagingKeepsPartition`, `PagingKeepsData`).

Only model-checked: liveness (`NoStarvation`, `NextSlotReturns`, `StopTimerReturns`,
`AllFinish`, `BusyCpuStops`), which is beyond the prover; `WaitShortens`
is the part of `NoStarvation` that is not.  Every other property of a passing
run is a theorem.

## Not modelled

- The text of configurations and programs, output, and memory dumps.  `read_config` tests
  nothing it reads; `OS` takes any integer for `time_slot` (one below 1 means quanta without
  an end), and the theorems of `OSProofs` hold for it; the runs have 2.
- What the code leaves to do: the walk through the five levels of tables, `vmap_page_range`,
  `vm_map_ram`, `alloc_pages_range`, the swapping in `pg_getpage`, the growth of an area.
- `mem.c`: linked, but without behaviour ("This mem is obsoleted"): the search of a page
  table is empty and `mem_avail` stays 0, so every call fails and changes nothing.
- `paging.c`, a program of its own, and `mm.c`, which is compiled out.
- `pte_set_fpn`, `pte_set_swap`, `pte_set_entry` and `init_pte` as steps: the first two write to a
  cell they lose, the third to `krnl->mm->pgd`, which is never allocated, and none has a caller
  in the program.  `PageEntry` has the entry they make.
- The sequential devices of `mm-memphy.c`: `main` sets `rdmflag` to 1.
- `finish_scheduler` and `free_pcb_memph` (no callers), the kernel memory instructions
  beyond their return values (they are stubs).
- System calls by number: `_syscall` calls one of two functions, `listsyscall` prints, and what
  `sys_memmap` does is `libsyscall`.
- `__read` runs without `mmvm_lock`.  It fails at the page table before it reads any memory,
  so there is nothing yet that could go wrong; see the hazards.

## Plan

Done, in this order: scheduler, timer, threads, memory regions, devices, page entries and
replacement; the proofs in the order of the list above.  What is left depends on the
code: when the page table walk and the mapping are written, `Paging` gets them as
operators over `get_pd_from_pagenum`, its callers become those of `LibMem`, and `__read`
gets its steps; when `inc_vma_limit` moves `sbrk`, `minted` becomes 1 for every byte and
`Conservation` the claim that no two variables overlap.
