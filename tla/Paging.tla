------------------------------- MODULE Paging -------------------------------
(***************************************************************************)
(* pg_getpage and find_victim_page of libmem.c: the replacement list of a  *)
(* process over the memory devices.  The entry setters of mm64.c write to  *)
(* a cell that is lost, so no page is ever mapped: the table that          *)
(* pte_get_entry reads is empty, and nothing but pg_getpage enlists a page *)
(* in the program.  enlist_pgn_node stands for the mapping that is to be   *)
(* written.  Every call is made under mmvm_lock and is one step.           *)
(***************************************************************************)
EXTENDS Memphy, PageEntry, SequencesExt

CONSTANTS
  active_mswp,   \* the swap device in use
  Page,          \* page numbers
  MaxOps         \* bound: calls

ASSUME PagingAssumption == active_mswp \in Device /\ MaxOps \in Nat

VARIABLES
  fifo_pgn,   \* krnl->mm->fifo_pgn, newest page first
  crashed,    \* a NULL pointer was used
  ops,        \* calls made
  arrivals    \* history: every page ever enlisted, oldest first

listVars == <<fifo_pgn, arrivals>>
pagingVars == <<vars, listVars, crashed, ops>>

PagingInit ==
  /\ Init
  /\ fifo_pgn = <<>> /\ arrivals = <<>>
  /\ crashed = FALSE /\ ops = 0

Call == ~crashed /\ ops < MaxOps /\ ops' = ops + 1

-----------------------------------------------------------------------------
(* The devices. *)

DeviceCall ==
  /\ Call
  /\ \E d \in Device : \E f \in Frame(d) :
       \/ MEMPHY_get_freefp(d, f)
       \/ MEMPHY_put_freefp(d, f)
       \/ \E c \in Cell : \E value \in BYTE : MEMPHY_write(d, f, c, value)
       \/ \E e \in Device : \E g \in Frame(e) : __swap_cp_page(d, f, e, g)
  /\ UNCHANGED <<listVars, crashed>>

-----------------------------------------------------------------------------
(* The replacement list. *)

enlist_pgn_node(p) ==
  /\ Call
  /\ fifo_pgn' = <<p>> \o fifo_pgn
  /\ arrivals' = Append(arrivals, p)
  /\ UNCHANGED <<vars, crashed>>

\* It answers 0, the walk through the levels being a TODO.
pte_get_entry(p) == {}

\* Mutant: the victim is the page enlisted last.
AfterVictimNewest == Tail(fifo_pgn)

\* What find_victim_page leaves of the list: all but its end.
AfterVictim == Front(fifo_pgn)

\* find_victim_page uses the NULL before the only page of the list.
victim_crash(p) ==
  /\ Call /\ Len(fifo_pgn) = 1
  /\ crashed' = TRUE
  /\ UNCHANGED <<vars, listVars>>

\* There is no page to replace: -1.
getpage_no_victim(p) ==
  /\ Call /\ fifo_pgn = <<>>
  /\ UNCHANGED <<vars, listVars, crashed>>

\* There is no frame for the victim, which is out of the list all the same.
getpage_no_frame(p) ==
  /\ Call /\ Len(fifo_pgn) > 1 /\ free_fp_list[active_mswp] = <<>>
  /\ fifo_pgn' = AfterVictim
  /\ UNCHANGED <<vars, arrivals, crashed>>

\* The victim is replaced in the list by p.  No entry is written and nothing
\* is copied yet.
getpage_replace(p) ==
  /\ Call /\ Len(fifo_pgn) > 1
  /\ \E f \in Frame(active_mswp) : MEMPHY_get_freefp(active_mswp, f)
  /\ fifo_pgn' = <<p>> \o AfterVictim
  /\ arrivals' = Append(arrivals, p)
  /\ UNCHANGED crashed

pg_getpage(p) ==
  /\ ~PAGING_PAGE_PRESENT(pte_get_entry(p))
  /\ \/ victim_crash(p) \/ getpage_no_victim(p)
     \/ getpage_no_frame(p) \/ getpage_replace(p)

PagingNext ==
  DeviceCall \/ \E p \in Page : enlist_pgn_node(p) \/ pg_getpage(p)

PagingSpec == PagingInit /\ [][PagingNext]_pagingVars
-----------------------------------------------------------------------------
PagingTypeOK ==
  /\ TypeOK
  /\ fifo_pgn \in Seq(Page) /\ arrivals \in Seq(Page)
  /\ crashed \in BOOLEAN /\ ops \in 0 .. MaxOps

\* Victims leave in the order in which the pages were enlisted, pages that
\* are enlisted again, and lost victims, included.
VictimsInOrder == IsSuffix(Reverse(fifo_pgn), arrivals)
=============================================================================
