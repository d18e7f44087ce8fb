--------------------------- MODULE ResponseFilter ---------------------------
(***************************************************************************)
(* FindReplaceResponseFilter, which rewrites a page while it is loaded:    *)
(* every FindString becomes a numbered replacement.  It sees the page in   *)
(* chunks of any size and has an output buffer of any size for each, so it *)
(* keeps a match that has begun, and the output that did not fit.          *)
(*                                                                         *)
(* The operators are functions of the filter's members; FilteredResponse   *)
(* calls them.  A byte of a replacement is <<number of the replacement,    *)
(* position>>, with position 1 for the number that is printed in front; a  *)
(* byte of a page is some other pair.  How a number is printed is left out. *)
(***************************************************************************)
EXTENDS Naturals, Sequences, FiniteSets

CONSTANTS
    FindString,     \* kFindString
    ReplaceSize     \* length of a replacement

ASSUME FindAssumption == FindString \in Seq(Nat \X Nat) /\ FindString # <<>>
ASSUME ReplaceAssumption == ReplaceSize \in Nat

Byte == Nat \X Nat
FindSize == Len(FindString)

Replacement(n) == [i \in 1..ReplaceSize |-> <<n, i>>]

FilterStatus == {"DONE", "NEED_MORE_DATA"}

\* The members: offset is find_match_offset_, count is replace_count_.
FilterState == [offset : 0..(FindSize - 1), count : Nat, overflow : Seq(Byte)]

InitFilter == [offset |-> 0, count |-> 0, overflow |-> <<>>]

\* The part of FindString that is matched so far, and not yet written.
Matched(f) == SubSeq(FindString, 1, f.offset)

-----------------------------------------------------------------------------
\* Mutant: the part that had matched is not written when the match fails.
ExamineMutant(f, c) ==
    CASE c = FindString[f.offset + 1] /\ f.offset + 1 = FindSize ->
           [offset |-> 0, count |-> f.count + 1,
            overflow |-> f.overflow \o Replacement(f.count + 1)]
      [] c = FindString[f.offset + 1] /\ f.offset + 1 < FindSize ->
           [f EXCEPT !.offset = @ + 1]
      [] OTHER -> [f EXCEPT !.offset = 0, !.overflow = Append(@, c)]

\* One byte of the input: it completes the match, continues it, or is written
\* behind what had matched.
Examine(f, c) ==
    CASE c = FindString[f.offset + 1] /\ f.offset + 1 = FindSize ->
           [offset |-> 0, count |-> f.count + 1,
            overflow |-> f.overflow \o Replacement(f.count + 1)]
      [] c = FindString[f.offset + 1] /\ f.offset + 1 < FindSize ->
           [f EXCEPT !.offset = @ + 1]
      [] OTHER ->
           [f EXCEPT !.offset = 0, !.overflow = @ \o Matched(f) \o <<c>>]

Status(f) == IF f.offset > 0 THEN "NEED_MORE_DATA" ELSE "DONE"

\* All of dataIn is read.
ExamineAll(f, dataIn) ==
    LET after[i \in 0..Len(dataIn)] ==
            IF i = 0 THEN f ELSE Examine(after[i - 1], dataIn[i])
    IN after[Len(dataIn)]

\* Write() fills data_out and puts what does not fit into overflow_; the
\* overflow of the last call is written first.
Filter(f, dataIn, outSize) ==
    LET g == ExamineAll(f, dataIn)
        n == IF outSize < Len(g.overflow) THEN outSize ELSE Len(g.overflow)
    IN [filter |-> [g EXCEPT !.overflow = SubSeq(@, n + 1, Len(@))],
        out |-> SubSeq(g.overflow, 1, n),
        status |-> Status(g)]

-----------------------------------------------------------------------------
(* The reference: what a page should be.                                   *)

\* The FindStrings in s, by the position of their last byte.
FoundAt(s, i) ==
    i >= FindSize /\ SubSeq(s, i - FindSize + 1, i) = FindString

\* A FindString in s directly follows a part of another one.
FalseStart(s) ==
    \E i \in 1..Len(s), k \in 1..(FindSize - 1) :
        /\ FoundAt(s, i) /\ i - FindSize >= k
        /\ SubSeq(s, i - FindSize - k + 1, i - FindSize)
             = SubSeq(FindString, 1, k)

\* How many of them are in the first i bytes.
Number(s, i) == Cardinality({j \in 1..i : FoundAt(s, j)})

\* s with its FindStrings replaced, if none overlaps another one.
Replaced(s) ==
    LET upTo[i \in 0..Len(s)] ==
            IF i = 0 THEN <<>>
            ELSE IF FoundAt(s, i)
                 THEN upTo[i - FindSize] \o Replacement(Number(s, i))
                 ELSE Append(upTo[i - 1], s[i])
    IN upTo[Len(s)]
=============================================================================
