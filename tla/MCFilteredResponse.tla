------------------------- MODULE MCFilteredResponse -------------------------
(***************************************************************************)
(* Pages of two letters, and a string to find that begins with the letter  *)
(* that can break off a match of it.                                       *)
(***************************************************************************)
EXTENDS FilteredResponse

CONSTANT MaxLength

A == <<0, 1>>
B == <<0, 2>>

MCFindString == <<A, B, B>>
MCContents == UNION {[1..n -> {A, B}] : n \in 0..MaxLength}
=============================================================================
