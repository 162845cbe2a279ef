------------------------------ MODULE MCPaging ------------------------------
(***************************************************************************)
(* A RAM and a swap device of two pages of two bytes, the swap with half a *)
(* page more, and a process of two pages.                                  *)
(***************************************************************************)
EXTENDS Paging, TLC

CONSTANTS ram, swp

MCmaxsz == ram :> 4 @@ swp :> 5
=============================================================================
