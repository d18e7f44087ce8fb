---------------------- MODULE FilteredResponse_proofs ----------------------
(***************************************************************************)
(* Theorems about a page on its way from the stream to the browser, for    *)
(* pages, reads and buffers of every size.                                 *)
(*                                                                         *)
(* The hand-over of CefStreamResourceHandler: StreamIntact is not          *)
(* inductive.  That a read of the FILE thread overwrites nothing needs     *)
(* that the buffer was drained before it was queued, and that an empty     *)
(* buffer is the end of the stream needs that the FILE thread was asked    *)
(* for at least one byte.                                                  *)
(*                                                                         *)
(* The filter: ReplacedSoFar is not inductive either, for the right output *)
(* so far does not fix the members that decide what comes next, the number *)
(* of replacements and the match that has begun.  FilterInv does: the      *)
(* calls so far, with what was written, amount to one call with all that   *)
(* the filter was given, on every page.  What one call does is a matter of *)
(* its loop: the states of the filter after each byte are a run (IsRun), a *)
(* match that has begun is where the run says (Begun), and without a false *)
(* start the matches are the FindStrings (Recognized).                     *)
(***************************************************************************)
EXTENDS FilteredResponse, SequenceTheorems, FiniteSetTheorems,
        WellFoundedInduction, TLAPS

TypeInv ==
    /\ content \in Seq(Byte)
    /\ stream \in Seq(Byte)
    /\ taken \in Seq(Byte)
    /\ buffer \in [made : BOOLEAN, bytes : Seq(Byte), read : Nat]
    /\ fileRead \in Nat
    /\ mayBlock \in BOOLEAN

HandOverInv ==
    /\ fileRead > 0 => Unread = <<>>
    /\ IsEmpty => stream = <<>>
    /\ ~buffer.made => buffer.bytes = <<>>
    /\ ~mayBlock => ~buffer.made /\ fileRead = 0
    /\ response \in {"ended", "complete"} => Unread = <<>> /\ stream = <<>>

Inv == TypeInv /\ StreamIntact /\ HandOverInv

-----------------------------------------------------------------------------
\* What is taken from the front of a sequence, and what is left.
LEMMA FirstRest ==
    ASSUME NEW S, NEW s \in Seq(S), NEW n \in Nat
    PROVE  /\ First(n, s) \in Seq(S)
           /\ Rest(n, s) \in Seq(S)
           /\ First(n, s) \o Rest(n, s) = s
           /\ Len(First(n, s)) <= Len(s)
           /\ n > 0 /\ First(n, s) = <<>> => s = <<>>
           /\ Rest(Len(First(n, s)), s) = Rest(n, s)
<1>1. CASE n < Len(s)
  <2>1. First(n, s) = SubSeq(s, 1, n)
    BY <1>1 DEF First
  <2>2. First(n, s) \in Seq(S) /\ Len(First(n, s)) = n
    BY <2>1, <1>1
  <2>3. Rest(n, s) \in Seq(S)
    BY <1>1 DEF Rest
  <2>4. First(n, s) \o Rest(n, s) = SubSeq(s, 1, Len(s))
    <3>1. 1 \in 1..(Len(s) + 1) /\ n \in (1 - 1)..Len(s) /\ Len(s) \in n..Len(s)
      BY <1>1
    <3>2. SubSeq(s, 1, n) \o SubSeq(s, n + 1, Len(s)) = SubSeq(s, 1, Len(s))
      BY <3>1, ConcatAdjacentSubSeq
    <3> QED
      BY <2>1, <3>2 DEF Rest
  <2>5. SubSeq(s, 1, Len(s)) = s
    BY SubSeqFull
  <2>6. (n > 0 => First(n, s) # <<>>) /\ Len(s) \in Nat
    BY <2>2
  <2>7. Rest(Len(First(n, s)), s) = Rest(n, s)
    BY <2>2
  <2>8. Len(First(n, s)) <= Len(s)
    BY <2>2, <2>6, <1>1
  <2> QED
    BY <2>2, <2>3, <2>4, <2>5, <2>6, <2>7, <2>8
<1>2. CASE n >= Len(s)
  <2>1. First(n, s) = s
    BY <1>2 DEF First
  <2>2. Rest(n, s) = <<>> /\ Rest(Len(s), s) = <<>>
    BY <1>2, SubSeqEmpty DEF Rest
  <2>3. s \o <<>> = s /\ <<>> \in Seq(S) /\ Len(s) \in Nat
    BY ConcatEmptySeq, EmptySeq
  <2> QED
    BY <2>1, <2>2, <2>3
<1> QED
  BY <1>1, <1>2

\* The front moves from one sequence to the end of another.
LEMMA MoveFirst ==
    ASSUME NEW S, NEW s \in Seq(S), NEW t \in Seq(S), NEW n \in Nat
    PROVE  (t \o First(n, s)) \o Rest(n, s) = t \o s
<1>1. /\ First(n, s) \in Seq(S) /\ Rest(n, s) \in Seq(S)
      /\ First(n, s) \o Rest(n, s) = s
  BY FirstRest
<1>2. ASSUME NEW f \in Seq(S), NEW r \in Seq(S)
      PROVE  (t \o f) \o r = t \o (f \o r)
  <2>1. t \in Seq(S) /\ f \in Seq(S) /\ r \in Seq(S)
    OBVIOUS
  <2> QED
    BY <2>1, ConcatAssociative
<1>3. (t \o First(n, s)) \o Rest(n, s) = t \o (First(n, s) \o Rest(n, s))
  BY <1>1, <1>2, Zenon
<1> QED
  BY <1>1, <1>3, Zenon

\* What is left of what is left.
LEMMA RestOfRest ==
    ASSUME NEW S, NEW s \in Seq(S), NEW m \in 0..Len(s), NEW n \in Nat,
           m + n <= Len(s)
    PROVE  Rest(n, Rest(m, s)) = Rest(m + n, s)
<1>1. /\ Rest(m, s) \in Seq(S)
      /\ Len(Rest(m, s)) = Len(s) - m
      /\ \A i \in 1..(Len(s) - m) : Rest(m, s)[i] = s[m + i]
  BY DEF Rest
<1>2. /\ Rest(m + n, s) \in Seq(S)
      /\ Len(Rest(m + n, s)) = Len(s) - m - n
      /\ \A i \in 1..(Len(s) - m - n) : Rest(m + n, s)[i] = s[m + n + i]
  BY DEF Rest
<1>3. /\ Rest(n, Rest(m, s)) \in Seq(S)
      /\ Len(Rest(n, Rest(m, s))) = Len(s) - m - n
      /\ \A i \in 1..(Len(s) - m - n) : Rest(n, Rest(m, s))[i] = Rest(m, s)[n + i]
  BY <1>1 DEF Rest
<1> HIDE DEF Rest
<1>4. \A i \in 1..(Len(s) - m - n) : Rest(m, s)[n + i] = s[m + n + i]
  BY <1>1
<1> QED
  BY <1>2, <1>3, <1>4, SeqEqual

\* A buffer whose bytes are all taken.
LEMMA Drained ==
    ASSUME TypeInv, buffer.read <= Len(buffer.bytes)
    PROVE  /\ Unread \in Seq(Byte)
           /\ Len(Unread) = Len(buffer.bytes) - buffer.read
           /\ Unread = <<>> <=> ~CanRead
           /\ buffer.bytes = <<>> => Unread = <<>>
<1>1. /\ Unread \in Seq(Byte)
      /\ Len(Unread) = Len(buffer.bytes) - buffer.read
  BY DEF TypeInv, Unread, Rest
<1>2. Unread = <<>> <=> Len(Unread) = 0
  BY <1>1, EmptySeq
<1>3. Len(buffer.bytes) \in Nat /\ buffer.read \in Nat
  BY DEF TypeInv
<1>4. buffer.bytes = <<>> => Len(buffer.bytes) = 0
  OBVIOUS
<1> QED
  BY <1>1, <1>2, <1>3, <1>4 DEF CanRead

-----------------------------------------------------------------------------
LEMMA InitInv == Init => Inv
<1> SUFFICES ASSUME Init PROVE Inv
  OBVIOUS
<1> USE DEF Init, HandlerInit, NoBuffer
<1>1. TypeInv
  BY ContentsAssumption DEF TypeInv
<1>2. Unread = <<>> /\ buffer.read <= Len(buffer.bytes)
  BY DEF Unread, Rest
<1>3. taken \o Unread \o stream = content
  BY <1>1, <1>2, ConcatEmptySeq DEF TypeInv
<1> QED
  BY <1>1, <1>2, <1>3 DEF Inv, StreamIntact, HandOverInv, IsEmpty

\* The IO thread reads a stream that does not block.
LEMMA ReadFromStreamStep ==
    ASSUME Inv, NEW n \in 1..MaxRead, response = "ready", ReadFromStream(n),
           UNCHANGED <<content, mayBlock>>
    PROVE  Inv'
<1> USE ReadAssumption DEF Inv
<1>1. Unread = <<>> /\ Unread' = Unread /\ fileRead = 0
  BY Drained DEF HandOverInv, StreamIntact, ReadFromStream, Unread, TypeInv
<1>2. /\ First(n, stream) \in Seq(Byte) /\ Rest(n, stream) \in Seq(Byte)
      /\ First(n, stream) \o Rest(n, stream) = stream
      /\ First(n, stream) = <<>> => stream = <<>>
  <2>1. n \in Nat /\ n > 0 /\ stream \in Seq(Byte)
    BY DEF TypeInv
  <2> HIDE DEF Inv
  <2> QED
    BY <2>1, FirstRest
<1>3. stream' = Rest(n, stream) /\ taken' = taken \o First(n, stream)
  BY DEF ReadFromStream, Give
<1>4. TypeInv'
  BY <1>2, <1>3 DEF TypeInv, ReadFromStream
<1>5. (taken \o Unread \o stream = content)'
  <2>1. taken \o stream = content
    BY <1>1, ConcatEmptySeq DEF TypeInv, StreamIntact
  <2>2. taken' \o stream' = content
    <3>1. taken \in Seq(Byte) /\ stream \in Seq(Byte) /\ n \in Nat
      BY DEF TypeInv
    <3>2. (taken \o First(n, stream)) \o Rest(n, stream) = taken \o stream
      BY <3>1, MoveFirst, Zenon
    <3> QED
      BY <1>3, <2>1, <3>2
  <2>3. taken' \o Unread' = taken'
    BY <1>1, <1>4, ConcatEmptySeq DEF TypeInv
  <2> QED
    BY <2>2, <2>3
<1>6. response' \in {"ended", "complete"} => stream' = <<>> /\ taken' = content
  <2>1. ASSUME response' \in {"ended", "complete"}
        PROVE  stream' = <<>>
    <3>1. First(n, stream) = <<>> /\ stream = <<>>
      BY <2>1, <1>2 DEF ReadFromStream, Give
    <3> QED
      BY <3>1, <1>2, <1>3, ConcatEqualIffEmpty DEF TypeInv
  <2>2. stream' = <<>> => taken' = content
    BY <1>1, <1>4, <1>5, ConcatEmptySeq DEF TypeInv
  <2> QED
    BY <2>1, <2>2
<1>7. response' \in {"ended", "passing"} /\ buffer' = buffer /\ fileRead' = 0
  BY <1>1 DEF ReadFromStream, Give
<1> QED
  BY <1>1, <1>4, <1>5, <1>6, <1>7
  DEF StreamIntact, HandOverInv, IsEmpty, ReadFromStream

\* The IO thread takes bytes of the buffer, or finds that it is empty.
LEMMA ReadFromBufferStep ==
    ASSUME Inv, NEW n \in 1..MaxRead, response = "ready", ReadFromBuffer(n),
           UNCHANGED <<content, mayBlock>>
    PROVE  Inv'
<1> USE ReadAssumption DEF Inv
<1>1. n \in Nat /\ n > 0 /\ fileRead = 0
  BY DEF StreamIntact, TypeInv
<1>2. /\ Unread \in Seq(Byte) /\ taken \in Seq(Byte) /\ stream \in Seq(Byte)
      /\ Len(Unread) = Len(buffer.bytes) - buffer.read
      /\ Unread = <<>> <=> ~CanRead
  BY Drained DEF StreamIntact, TypeInv
<1> DEFINE b == First(n, Unread)
<1>3. /\ b \in Seq(Byte) /\ Rest(n, Unread) \in Seq(Byte)
      /\ Len(b) <= Len(Unread)
      /\ b = <<>> => Unread = <<>>
      /\ Rest(Len(b), Unread) = Rest(n, Unread)
  BY <1>1, <1>2, FirstRest
<1>4. /\ taken' = taken \o b
      /\ buffer' = [buffer EXCEPT !.read = @ + Len(b)]
      /\ response' = IF b = <<>> THEN "ended" ELSE "passing"
      /\ UNCHANGED <<stream, fileRead>>
  BY DEF ReadFromBuffer, Give, WriteTo, Unread
<1> HIDE DEF b
<1>5. /\ buffer'.bytes = buffer.bytes /\ buffer'.made = buffer.made
      /\ buffer'.read = buffer.read + Len(b)
      /\ Len(b) \in Nat /\ buffer.read \in Nat /\ Len(buffer.bytes) \in Nat
  BY <1>3, <1>4 DEF TypeInv
<1>6. TypeInv'
  <2>1. taken' \in Seq(Byte)
    BY <1>2, <1>3, <1>4, ConcatProperties
  <2>2. buffer' \in [made : BOOLEAN, bytes : Seq(Byte), read : Nat]
    <3>1. \A k \in Nat : [buffer EXCEPT !.read = k] \in [made : BOOLEAN, bytes : Seq(Byte), read : Nat]
      BY DEF TypeInv
    <3>2. buffer.read + Len(b) \in Nat
      BY <1>5
    <3>3. buffer' = [buffer EXCEPT !.read = buffer.read + Len(b)]
      BY <1>4
    <3> QED
      BY <3>1, <3>2, <3>3
  <2> QED
    BY <2>1, <2>2, <1>4 DEF TypeInv
<1>7. Unread' = Rest(n, Unread)
  <2>1. Unread' = Rest(buffer.read + Len(b), buffer.bytes)
    BY <1>5 DEF Unread
  <2>2. /\ buffer.bytes \in Seq(Byte) /\ buffer.read \in 0..Len(buffer.bytes)
        /\ buffer.read + Len(b) <= Len(buffer.bytes)
    BY <1>2, <1>3, <1>5 DEF TypeInv, StreamIntact
  <2>3. Rest(Len(b), Unread) = Rest(buffer.read + Len(b), buffer.bytes)
    BY <2>2, <1>5, RestOfRest DEF Unread
  <2> QED
    BY <2>1, <2>3, <1>3
<1>8. (taken \o Unread \o stream = content)'
  <2>1. (taken \o b) \o Rest(n, Unread) = taken \o Unread
    BY <1>1, <1>2, MoveFirst, Zenon DEF b
  <2> QED
    BY <2>1, <1>4, <1>7 DEF StreamIntact
<1>9. response' = "ended" => Unread' = <<>> /\ stream' = <<>> /\ taken' = content
  <2> SUFFICES ASSUME response' = "ended"
               PROVE  Unread' = <<>> /\ stream' = <<>> /\ taken' = content
    OBVIOUS
  <2>1. b = <<>> /\ Unread = <<>> /\ IsEmpty
    BY <1>2, <1>3, <1>4 DEF ReadFromBuffer
  <2>2. stream' = <<>>
    BY <2>1, <1>4 DEF HandOverInv
  <2>3. Unread' = <<>>
    BY <2>1, <1>7, SubSeqEmpty, <1>1 DEF Rest
  <2>4. taken' \o <<>> \o <<>> = taken'
    BY <1>6, ConcatEmptySeq DEF TypeInv
  <2> QED
    BY <2>2, <2>3, <2>4, <1>4, <1>8
<1>10. buffer'.read <= Len(buffer'.bytes)
  BY <1>2, <1>3, <1>5
<1>11. response' \in {"ended", "passing"} /\ fileRead' = 0
  BY <1>1, <1>4
<1>12. StreamIntact'
  BY <1>8, <1>9, <1>10, <1>11 DEF StreamIntact
<1>13. IsEmpty' = IsEmpty /\ mayBlock
  BY <1>5 DEF IsEmpty, ReadFromBuffer
<1>14. HandOverInv'
  BY <1>4, <1>5, <1>9, <1>11, <1>13 DEF HandOverInv
<1> QED
  BY <1>6, <1>12, <1>14

\* The IO thread finds nothing to take and has more read.
LEMMA ReadLaterStep ==
    ASSUME Inv, NEW n \in 1..MaxRead, response = "ready", ReadLater(n),
           UNCHANGED <<content, mayBlock>>
    PROVE  Inv'
<1> USE ReadAssumption DEF Inv
<1>1. Unread = <<>>
  BY Drained DEF StreamIntact, ReadLater
<1>2. n > 0 /\ Unread' = Unread
  BY DEF ReadLater, Unread
<1>3. TypeInv'
  BY DEF TypeInv, ReadLater
<1> QED
  BY <1>1, <1>2, <1>3 DEF StreamIntact, HandOverInv, IsEmpty, ReadLater

\* The FILE thread reads.
LEMMA ReadOnFileThreadStep ==
    ASSUME Inv, ReadOnFileThread
    PROVE  Inv'
<1> USE DEF Inv
<1>1. /\ fileRead \in Nat /\ fileRead > 0 /\ Unread = <<>>
      /\ taken \in Seq(Byte) /\ stream \in Seq(Byte)
  BY DEF ReadOnFileThread, TypeInv, HandOverInv
<1> DEFINE b == First(fileRead, stream)
<1>2. /\ b \in Seq(Byte) /\ Rest(fileRead, stream) \in Seq(Byte)
      /\ b = <<>> => stream = <<>>
      /\ b \o Rest(fileRead, stream) = stream
  BY <1>1, FirstRest
<1>3. buffer' = [made |-> TRUE, bytes |-> b, read |-> 0]
  BY DEF ReadOnFileThread
<1>4. /\ stream' = Rest(fileRead, stream) /\ fileRead' = 0
      /\ UNCHANGED <<content, mayBlock, taken>>
      /\ response' = IF response = "waiting" THEN "ready" ELSE response
  BY DEF ReadOnFileThread
<1>5. (taken \o b) \o Rest(fileRead, stream) = taken \o stream
  BY <1>1, MoveFirst, Zenon
<1> HIDE DEF b
<1>6. TypeInv'
  BY <1>2, <1>3, <1>4 DEF TypeInv
<1>7. Unread' = b
  BY <1>2, <1>3, SubSeqFull DEF Unread, Rest
<1>8. (taken \o Unread \o stream = content)'
  <2>1. taken \o stream = content
    BY <1>1, ConcatEmptySeq DEF StreamIntact
  <2> QED
    BY <1>4, <1>5, <1>7, <2>1
<1>9. IsEmpty' => stream' = <<>>
  BY <1>2, <1>3, <1>4, ConcatEqualIffEmpty DEF IsEmpty
<1>10. Len(b) \in Nat
  BY <1>2
<1>11. response \notin {"ended", "complete"} /\ mayBlock
  BY <1>1 DEF StreamIntact, HandOverInv, TypeInv
<1> QED
  BY <1>3, <1>4, <1>6, <1>8, <1>9, <1>10, <1>11 DEF StreamIntact, HandOverInv
-----------------------------------------------------------------------------
\* A step of CEF or of the filter that leaves the hand-over alone.
LEMMA OtherStep ==
    ASSUME Inv, UNCHANGED <<content, mayBlock, stream, buffer, fileRead, taken>>,
           \/ response' = response
           \/ response' = "canceled"
           \/ response = "ended" /\ response' = "complete"
           \/ response = "passing" /\ response' = "ready"
    PROVE  Inv'
<1>1. Unread' = Unread /\ IsEmpty' = IsEmpty
  BY DEF Unread, IsEmpty
<1> QED
  BY <1>1 DEF Inv, TypeInv, StreamIntact, HandOverInv

LEMMA InvStep == Inv /\ [Next]_vars => Inv'
<1> SUFFICES ASSUME Inv, [Next]_vars PROVE Inv'
  OBVIOUS
<1>1. ASSUME NEW n \in 1..MaxRead, ReadResponse(n)
      PROVE  Inv'
  BY <1>1, ReadFromStreamStep, ReadFromBufferStep, ReadLaterStep DEF ReadResponse
<1>2. ASSUME NEW n \in 1..MaxOut, FilterData(n) \/ FilterRest(n)
      PROVE  Inv'
  BY <1>2, OtherStep DEF FilterData, FilterRest, handlerVars
<1>3. CASE Complete
  BY <1>3, OtherStep DEF Complete
<1>4. CASE FileThread
  BY <1>4, ReadOnFileThreadStep DEF FileThread
<1>5. CASE Cancel
  BY <1>5, OtherStep DEF Cancel
<1>6. CASE UNCHANGED vars
  BY <1>6, OtherStep DEF vars, handlerVars
<1> QED
  BY <1>1, <1>2, <1>3, <1>4, <1>5, <1>6 DEF Next, IOThread

\* What CEF takes from a CefStreamResourceHandler is the stream, for every
\* stream and every sequence of reads, through the FILE thread or not, and
\* the end is reported where it is.
THEOREM HandOverIntact == Spec => []StreamIntact
<1>1. Inv => StreamIntact
  BY DEF Inv
<1> QED
  BY InitInv, InvStep, <1>1, PTL DEF Spec

-----------------------------------------------------------------------------
(* The loop of Filter.                                                     *)

\* Induction, for the set of the numbers for which something holds.
LEMMA Induction ==
    ASSUME NEW T \in SUBSET Nat, 0 \in T, \A n \in T : n + 1 \in T
    PROVE  \A n \in Nat : n \in T
<1> SUFFICES ASSUME Nat \ T # {} PROVE FALSE
  OBVIOUS
<1> DEFINE U == Nat \ T
           R == OpToRel(<, Nat)
<1>1. IsWellFoundedOn(R, Nat)
  BY NatLessThanWellFounded
<1>2. \A x, y \in Nat : x < y => <<x, y>> \in R
  BY DEF OpToRel
<1> HIDE DEF R
<1>3. PICK u \in U : \A n \in U : ~(<<n, u>> \in R)
  BY <1>1, WFMin
<1>4. u # 0 /\ u \in Nat
  OBVIOUS
<1>5. u - 1 \in Nat /\ u - 1 < u /\ (u - 1) + 1 = u
  BY <1>4
<1>6. u - 1 \in T
  BY <1>2, <1>3, <1>5
<1> QED
  BY <1>5, <1>6

FindType == FindString \in Seq(Byte) /\ FindSize \in Nat /\ FindSize >= 1

LEMMA FindTyped == FindType
  BY FindAssumption, EmptySeq, LenProperties DEF FindType, FindSize, Byte

LEMMA ReplacementTyped ==
    ASSUME NEW n \in Nat
    PROVE  Replacement(n) \in Seq(Byte)
<1>1. \A i \in 1..ReplaceSize : <<n, i>> \in Byte
  BY ReplaceAssumption DEF Byte
<1> QED
  BY <1>1, ReplaceAssumption DEF Replacement

\* What has matched is the beginning of FindString.
LEMMA MatchedTyped ==
    ASSUME NEW f \in FilterState
    PROVE  /\ f.offset \in Nat /\ f.offset < FindSize
           /\ f.count \in Nat /\ f.overflow \in Seq(Byte)
           /\ f = [offset |-> f.offset, count |-> f.count, overflow |-> f.overflow]
           /\ Matched(f) \in Seq(Byte) /\ Len(Matched(f)) = f.offset
           /\ \A i \in 1..f.offset : Matched(f)[i] = FindString[i]
<1>1. /\ f.offset \in 0..(FindSize - 1) /\ f.count \in Nat /\ f.overflow \in Seq(Byte)
      /\ f = [offset |-> f.offset, count |-> f.count, overflow |-> f.overflow]
  BY DEF FilterState
<1>2. FindString \in Seq(Byte) /\ FindSize \in Nat /\ FindSize >= 1
  BY FindTyped DEF FindType
<1>3. f.offset \in Nat /\ f.offset < FindSize
  BY <1>1, <1>2
<1>4. /\ Matched(f) \in Seq(Byte) /\ Len(Matched(f)) = f.offset
      /\ \A i \in 1..f.offset : Matched(f)[i] = FindString[i]
  BY <1>1, <1>2 DEF Matched, FindSize
<1> QED
  BY <1>1, <1>3, <1>4, Zenon

\* What one byte does: it completes a match of o bytes, continues it, or is
\* not the next byte of FindString.
Completes(o, c) == c = FindString[o + 1] /\ o + 1 = FindSize
Continues(o, c) == c = FindString[o + 1] /\ o + 1 < FindSize
Fails(o, c) == c # FindString[o + 1]

Completed(f) ==
    [offset |-> 0, count |-> f.count + 1, overflow |-> f.overflow \o Replacement(f.count + 1)]
Continued(f) ==
    [offset |-> f.offset + 1, count |-> f.count, overflow |-> f.overflow]
Failed(f, c) ==
    [offset |-> 0, count |-> f.count, overflow |-> f.overflow \o Matched(f) \o <<c>>]

LEMMA Examined ==
    ASSUME NEW f \in FilterState, NEW c \in Byte
    PROVE  /\ Examine(f, c) \in FilterState
           /\ Completes(f.offset, c) \/ Continues(f.offset, c) \/ Fails(f.offset, c)
           /\ Completes(f.offset, c) => Examine(f, c) = Completed(f)
           /\ Continues(f.offset, c) => Examine(f, c) = Continued(f)
           /\ Fails(f.offset, c) => Examine(f, c) = Failed(f, c)
<1>1. FindSize \in Nat /\ FindSize >= 1
  BY FindTyped DEF FindType
<1>2. /\ f.offset \in Nat /\ f.offset < FindSize
      /\ f.count \in Nat /\ f.overflow \in Seq(Byte)
      /\ f = [offset |-> f.offset, count |-> f.count, overflow |-> f.overflow]
      /\ Matched(f) \in Seq(Byte)
  BY MatchedTyped, Zenon
<1>3. ASSUME NEW o \in Nat, NEW w \in Seq(Byte)
      PROVE  [f EXCEPT !.offset = o, !.overflow = w]
               = [offset |-> o, count |-> f.count, overflow |-> w]
  <2> DEFINE g == [f EXCEPT !.offset = o, !.overflow = w]
  <2>1. g = [f EXCEPT !.offset = o, !.overflow = w]
    OBVIOUS
  <2> HIDE DEF g
  <2>2. g = [offset |-> o, count |-> f.count, overflow |-> w]
    BY <1>2, <2>1
  <2> QED
    BY <2>1, <2>2, Zenon
<1>4. ASSUME NEW o \in Nat, o < FindSize, NEW n \in Nat, NEW w \in Seq(Byte)
      PROVE  [offset |-> o, count |-> n, overflow |-> w] \in FilterState
  BY <1>1, <1>4 DEF FilterState
<1>5. Completes(f.offset, c) \/ Continues(f.offset, c) \/ Fails(f.offset, c)
  BY <1>1, <1>2 DEF Completes, Continues, Fails
<1>6. CASE Completes(f.offset, c)
  <2>1. Examine(f, c) = Completed(f)
    BY <1>1, <1>2, <1>6 DEF Examine, Completes, Completed
  <2>2. f.overflow \o Replacement(f.count + 1) \in Seq(Byte)
    BY <1>2, ReplacementTyped, ConcatProperties
  <2>3. Completed(f) \in FilterState
    <3>1. 0 \in Nat /\ 0 < FindSize /\ f.count + 1 \in Nat
      BY <1>1, <1>2
    <3> QED
      BY <1>4, <2>2, <3>1, Zenon DEF Completed
  <2>4. ~Continues(f.offset, c) /\ ~Fails(f.offset, c)
    BY <1>1, <1>2, <1>6 DEF Completes, Continues, Fails
  <2> QED
    BY <1>6, <2>1, <2>3, <2>4, Zenon
<1>7. CASE Continues(f.offset, c)
  <2>1. Examine(f, c) = Continued(f)
    <3> DEFINE g == Examine(f, c)
    <3>1. g = [f EXCEPT !.offset = f.offset + 1]
      BY <1>1, <1>2, <1>7 DEF Examine, Continues
    <3> HIDE DEF g
    <3>2. g = [offset |-> f.offset + 1, count |-> f.count, overflow |-> f.overflow]
      BY <1>2, <3>1
    <3> QED
      BY <3>2 DEF g, Continued
  <2>2. Continued(f) \in FilterState
    <3>1. f.offset + 1 \in Nat /\ f.offset + 1 < FindSize
      BY <1>1, <1>2, <1>7 DEF Continues
    <3> QED
      BY <1>2, <1>4, <3>1, Zenon DEF Continued
  <2>3. ~Completes(f.offset, c) /\ ~Fails(f.offset, c)
    BY <1>1, <1>2, <1>7 DEF Completes, Continues, Fails
  <2> QED
    BY <1>7, <2>1, <2>2, <2>3, Zenon
<1>8. CASE Fails(f.offset, c)
  <2>1. f.overflow \o Matched(f) \o <<c>> \in Seq(Byte)
    BY <1>2, ConcatProperties
  <2>2. Examine(f, c) = Failed(f, c)
    <3>1. Examine(f, c) = [f EXCEPT !.offset = 0, !.overflow = f.overflow \o Matched(f) \o <<c>>]
      BY <1>8 DEF Examine, Fails
    <3> QED
      BY <1>3, <2>1, <3>1, Zenon DEF Failed
  <2>3. Failed(f, c) \in FilterState
    <3>1. 0 \in Nat /\ 0 < FindSize
      BY <1>1
    <3> QED
      BY <1>2, <1>4, <2>1, <3>1, Zenon DEF Failed
  <2>4. ~Completes(f.offset, c) /\ ~Continues(f.offset, c)
    BY <1>8 DEF Completes, Continues, Fails
  <2> QED
    BY <1>8, <2>2, <2>3, <2>4, Zenon
<1> QED
  BY <1>5, <1>6, <1>7, <1>8, Zenon

-----------------------------------------------------------------------------
\* The states of the filter before the first and after each byte of d.
IsRun(h, f, d) ==
    /\ h \in [0..Len(d) -> FilterState]
    /\ h[0] = f
    /\ \A i \in 1..Len(d) : h[i] = Examine(h[i - 1], d[i])

LEMMA RunExists ==
    ASSUME NEW f \in FilterState, NEW d \in Seq(Byte)
    PROVE  \E h : IsRun(h, f, d)
<1> DEFINE RunTo(h, n) == /\ h \in [0..n -> FilterState] /\ h[0] = f
                          /\ \A i \in 1..n : h[i] = Examine(h[i - 1], d[i])
           T == {n \in Nat : n <= Len(d) => \E h : RunTo(h, n)}
<1>1. 0 \in T
  <2>1. RunTo([i \in 0..0 |-> f], 0)
    OBVIOUS
  <2> QED
    BY <2>1
<1>2. ASSUME NEW n \in T PROVE n + 1 \in T
  <2> SUFFICES ASSUME n + 1 <= Len(d) PROVE \E h : RunTo(h, n + 1)
    OBVIOUS
  <2>0. n \in Nat /\ Len(d) \in Nat
    BY LenProperties
  <2>1. PICK h : RunTo(h, n)
    BY <2>0
  <2>2. d[n + 1] \in Byte /\ h[n] \in FilterState
    BY <2>0, <2>1
  <2> DEFINE e == Examine(h[n], d[n + 1])
             g == [i \in 0..(n + 1) |-> IF i = n + 1 THEN e ELSE h[i]]
  <2>3. e \in FilterState
    BY <2>2, Examined
  <2> HIDE DEF e
  <2>4. g \in [0..(n + 1) -> FilterState] /\ g[0] = f
    BY <2>0, <2>1, <2>3
  <2>5. \A i \in 1..n : g[i] = Examine(g[i - 1], d[i])
    BY <2>0, <2>1
  <2>6. g[n + 1] = Examine(g[n], d[n + 1])
    BY <2>0, <2>1 DEF e
  <2>7. RunTo(g, n + 1)
    <3>1. \A i \in 1..(n + 1) : i \in 1..n \/ i = n + 1
      BY <2>0
    <3>2. (n + 1) - 1 = n
      BY <2>0
    <3> HIDE DEF g
    <3> QED
      BY <2>4, <2>5, <2>6, <3>1, <3>2
  <2> QED
    BY <2>7
<1>3. Len(d) \in Nat
  BY LenProperties
<1>4. Len(d) \in T
  <2> HIDE DEF T
  <2>1. T \in SUBSET Nat
    BY DEF T
  <2> QED
    BY <1>1, <1>2, <1>3, <2>1, Induction
<1> QED
  BY <1>3, <1>4 DEF IsRun

\* The recursive definition of the loop is its run.
LEMMA RunIs ==
    ASSUME NEW f \in FilterState, NEW d \in Seq(Byte), NEW h, IsRun(h, f, d)
    PROVE  ExamineAll(f, d) = h[Len(d)] /\ ExamineAll(f, d) \in FilterState
<1> DEFINE after[i \in 0..Len(d)] == IF i = 0 THEN f ELSE Examine(after[i - 1], d[i])
           Equation(g) == g = [i \in 0..Len(d) |-> IF i = 0 THEN f ELSE Examine(g[i - 1], d[i])]
<1>1. ExamineAll(f, d) = after[Len(d)]
  BY DEF ExamineAll
<1>2. after = CHOOSE g : Equation(g)
  BY DEF after
<1>0. Len(d) \in Nat
  BY LenProperties
<1>3. Equation(h)
  <2>1. \A i \in 0..Len(d) : h[i] = IF i = 0 THEN f ELSE Examine(h[i - 1], d[i])
    BY <1>0 DEF IsRun
  <2>2. h = [i \in 0..Len(d) |-> h[i]]
    BY DEF IsRun
  <2> QED
    BY <2>1, <2>2
<1> HIDE DEF after
<1>4. Equation(after)
  <2> HIDE DEF Equation
  <2> QED
    BY <1>2, <1>3, Zenon
<1>5. after[0] = f /\ \A i \in 1..Len(d) : after[i] = Examine(after[i - 1], d[i])
  BY <1>0, <1>4
<1> DEFINE T == {n \in Nat : n <= Len(d) => after[n] = h[n]}
<1>6. 0 \in T
  BY <1>5 DEF IsRun
<1>7. ASSUME NEW n \in T PROVE n + 1 \in T
  <2> SUFFICES ASSUME n + 1 <= Len(d) PROVE after[n + 1] = h[n + 1]
    OBVIOUS
  <2>1. after[n] = h[n] /\ n + 1 \in 1..Len(d) /\ (n + 1) - 1 = n
    BY <1>0
  <2> QED
    BY <1>5, <2>1 DEF IsRun
<1>8. \A n \in Nat : n \in T
  <2> HIDE DEF T
  <2>1. T \in SUBSET Nat
    BY DEF T
  <2> QED
    BY <1>6, <1>7, <2>1, Induction
<1>9. after[Len(d)] = h[Len(d)]
  BY <1>0, <1>8
<1> QED
  BY <1>0, <1>1, <1>9 DEF IsRun

\* Two chunks are examined like one.
LEMMA ExamineConcat ==
    ASSUME NEW f \in FilterState, NEW a \in Seq(Byte), NEW b \in Seq(Byte)
    PROVE  /\ ExamineAll(f, a) \in FilterState
           /\ ExamineAll(f, a \o b) = ExamineAll(ExamineAll(f, a), b)
<1>1. PICK g : IsRun(g, f, a)
  BY RunExists
<1> DEFINE e == ExamineAll(f, a)
<1>2. e = g[Len(a)] /\ e \in FilterState
  BY <1>1, RunIs
<1> HIDE DEF e
<1>3. PICK h : IsRun(h, e, b)
  BY <1>2, RunExists
<1> DEFINE d == a \o b
           m == Len(a)
           n == Len(b)
           r == [i \in 0..Len(d) |-> IF i <= m THEN g[i] ELSE h[i - m]]
<1>4. /\ d \in Seq(Byte) /\ m \in Nat /\ n \in Nat /\ Len(d) = m + n
      /\ \A i \in 1..(m + n) : d[i] = IF i <= m THEN a[i] ELSE b[i - m]
  BY ConcatProperties, LenProperties
<1> HIDE DEF d
<1>5. /\ g \in [0..m -> FilterState] /\ g[0] = f
      /\ \A i \in 1..m : g[i] = Examine(g[i - 1], a[i])
      /\ h \in [0..n -> FilterState] /\ h[0] = g[m]
      /\ \A i \in 1..n : h[i] = Examine(h[i - 1], b[i])
  BY <1>1, <1>2, <1>3 DEF IsRun
<1> HIDE DEF m, n
<1>6. r \in [0..Len(d) -> FilterState] /\ r[0] = f
  <2>1. ASSUME NEW i \in 0..Len(d)
        PROVE  (IF i <= m THEN g[i] ELSE h[i - m]) \in FilterState
    <3>1. CASE i <= m
      <4>1. i \in 0..m
        BY <1>4, <3>1
      <4> QED
        BY <1>5, <3>1, <4>1
    <3>2. CASE ~(i <= m)
      <4>1. i - m \in 0..n
        BY <1>4, <3>2
      <4> QED
        BY <1>5, <3>2, <4>1
    <3> QED
      BY <3>1, <3>2
  <2> QED
    BY <1>4, <1>5, <2>1
<1>7. ASSUME NEW i \in 1..Len(d) PROVE r[i] = Examine(r[i - 1], d[i])
  <2>0. i \in 0..Len(d) /\ i - 1 \in 0..Len(d)
    BY <1>4
  <2>1. CASE i <= m
    <3>1. r[i] = g[i] /\ r[i - 1] = g[i - 1] /\ d[i] = a[i] /\ i \in 1..m
      BY <1>4, <2>0, <2>1
    <3> QED
      BY <1>5, <3>1
  <2>2. CASE i = m + 1
    <3>1. r[i] = h[1] /\ r[i - 1] = g[m] /\ d[i] = b[1] /\ 1 \in 1..n
      BY <1>4, <2>0, <2>2
    <3>2. h[1] = Examine(h[1 - 1], b[1]) /\ 1 - 1 = 0
      BY <1>5, <3>1
    <3> QED
      BY <1>5, <3>1, <3>2
  <2>3. CASE i > m + 1
    <3>1. /\ r[i] = h[i - m] /\ r[i - 1] = h[(i - m) - 1] /\ d[i] = b[i - m]
          /\ i - m \in 1..n
      BY <1>4, <2>0, <2>3
    <3> QED
      BY <1>5, <3>1
  <2> QED
    BY <1>4, <2>1, <2>2, <2>3
<1>8. r[Len(d)] = h[n]
  <2>1. Len(d) \in 0..Len(d)
    BY <1>4
  <2>2. CASE n = 0
    BY <1>4, <1>5, <2>1, <2>2
  <2>3. CASE n > 0
    BY <1>4, <2>1, <2>3
  <2> QED
    BY <1>4, <2>2, <2>3
<1> HIDE DEF r
<1>9. IsRun(r, f, d)
  BY <1>6, <1>7 DEF IsRun
<1>10. ExamineAll(f, d) = r[Len(d)]
  BY <1>4, <1>9, RunIs
<1>11. ExamineAll(e, b) = h[n]
  BY <1>2, <1>3, RunIs DEF n
<1> QED
  BY <1>2, <1>8, <1>10, <1>11 DEF d, e

LEMMA ConcatBytes ==
    ASSUME NEW p \in Seq(Byte), NEW u \in Seq(Byte), NEW v \in Seq(Byte)
    PROVE  (p \o u) \o v = p \o (u \o v)
<1>1. p \in Seq(Byte) /\ u \in Seq(Byte) /\ v \in Seq(Byte)
  OBVIOUS
<1> QED
  BY <1>1, ConcatAssociative

\* f, with p written before its output.
Behind(p, f) ==
    [offset |-> f.offset, count |-> f.count, overflow |-> p \o f.overflow]

LEMMA BehindTyped ==
    ASSUME NEW f \in FilterState, NEW p \in Seq(Byte)
    PROVE  Behind(p, f) \in FilterState
<1>1. /\ f.offset \in 0..(FindSize - 1) /\ f.count \in Nat /\ f.overflow \in Seq(Byte)
  BY DEF FilterState
<1>2. p \o f.overflow \in Seq(Byte)
  BY <1>1, ConcatProperties
<1> QED
  BY <1>1, <1>2 DEF Behind, FilterState

\* What was written earlier does not matter.
LEMMA ExamineBehind ==
    ASSUME NEW f \in FilterState, NEW d \in Seq(Byte), NEW p \in Seq(Byte)
    PROVE  ExamineAll(Behind(p, f), d) = Behind(p, ExamineAll(f, d))
<1>1. \A g \in FilterState : Behind(p, g) \in FilterState
  BY BehindTyped
<1>2. ASSUME NEW g \in FilterState, NEW c \in Byte
      PROVE  Examine(Behind(p, g), c) = Behind(p, Examine(g, c))
  <2> DEFINE x == Behind(p, g)
             o == g.offset
  <2>1. /\ x.offset = o /\ x.count = g.count
        /\ x.overflow = p \o g.overflow /\ Matched(x) = Matched(g)
    BY DEF Behind, Matched
  <2>2. x \in FilterState
    BY <1>1
  <2>3. g.overflow \in Seq(Byte) /\ g.count \in Nat /\ Matched(g) \in Seq(Byte)
    BY MatchedTyped, Zenon
  <2> HIDE DEF x
  <2>4. \A u, v \in Seq(Byte) : (p \o u) \o v = p \o (u \o v)
    BY ConcatBytes
  <2>5. CASE Completes(o, c)
    <3>1. g.count + 1 \in Nat
      BY <2>3
    <3>2. Replacement(g.count + 1) \in Seq(Byte)
      BY <3>1, ReplacementTyped, Zenon
    <3>3. (p \o g.overflow) \o Replacement(g.count + 1)
             = p \o (g.overflow \o Replacement(g.count + 1))
      BY <2>3, <2>4, <3>2, Zenon
    <3>4. Completed(x) = Behind(p, Completed(g))
      BY <2>1, <3>3 DEF Completed, Behind
    <3>5. Examine(x, c) = Completed(x) /\ Examine(g, c) = Completed(g)
      BY <2>1, <2>2, <2>5, Examined, Zenon
    <3> QED
      BY <3>4, <3>5, Zenon DEF x
  <2>6. CASE Continues(o, c)
    <3>1. Continued(x) = Behind(p, Continued(g))
      BY <2>1 DEF Continued, Behind
    <3>2. Examine(x, c) = Continued(x) /\ Examine(g, c) = Continued(g)
      BY <2>1, <2>2, <2>6, Examined, Zenon
    <3> QED
      BY <3>1, <3>2, Zenon DEF x
  <2>7. CASE Fails(o, c)
    <3>1. g.overflow \o Matched(g) \in Seq(Byte) /\ <<c>> \in Seq(Byte)
      BY <2>3, ConcatProperties
    <3>2. (p \o g.overflow) \o Matched(g) = p \o (g.overflow \o Matched(g))
      BY <2>3, <2>4, Zenon
    <3>3. (p \o (g.overflow \o Matched(g))) \o <<c>> = p \o ((g.overflow \o Matched(g)) \o <<c>>)
      BY <2>4, <3>1, Zenon
    <3>4. Failed(x, c) = Behind(p, Failed(g, c))
      BY <2>1, <3>2, <3>3 DEF Failed, Behind
    <3>5. Examine(x, c) = Failed(x, c) /\ Examine(g, c) = Failed(g, c)
      BY <2>1, <2>2, <2>7, Examined, Zenon
    <3> QED
      BY <3>4, <3>5, Zenon DEF x
  <2> QED
    BY <2>5, <2>6, <2>7, Examined, Zenon
<1>3. PICK h : IsRun(h, f, d)
  BY RunExists
<1> DEFINE r == [i \in 0..Len(d) |-> Behind(p, h[i])]
<1>4. IsRun(r, Behind(p, f), d)
  <2>0. Len(d) \in Nat
    BY LenProperties
  <2>1. r \in [0..Len(d) -> FilterState] /\ r[0] = Behind(p, f)
    BY <1>1, <1>3, <2>0 DEF IsRun
  <2>2. ASSUME NEW i \in 1..Len(d) PROVE r[i] = Examine(r[i - 1], d[i])
    <3>1. i - 1 \in 0..Len(d) /\ i \in 0..Len(d)
      BY <2>0
    <3>2. h[i - 1] \in FilterState /\ h[i] = Examine(h[i - 1], d[i]) /\ d[i] \in Byte
      BY <1>3, <3>1 DEF IsRun
    <3>3. Examine(Behind(p, h[i - 1]), d[i]) = Behind(p, h[i])
      BY <1>2, <3>2
    <3> QED
      BY <3>1, <3>3
  <2> QED
    BY <2>1, <2>2 DEF IsRun
<1>5. r[Len(d)] = Behind(p, h[Len(d)])
  BY LenProperties
<1>6. Behind(p, f) \in FilterState
  BY <1>1
<1> QED
  BY <1>3, <1>4, <1>5, <1>6, RunIs


-----------------------------------------------------------------------------
(* What the loop writes, byte by byte.                                     *)

LEMMA InitTyped == InitFilter \in FilterState
<1>1. 0 \in 0..(FindSize - 1) /\ <<>> \in Seq(Byte)
  BY FindTyped, EmptySeq DEF FindType
<1> QED
  BY <1>1 DEF InitFilter, FilterState

LEMMA RunStep ==
    ASSUME NEW f \in FilterState, NEW s \in Seq(Byte), NEW h, IsRun(h, f, s),
           NEW i \in 1..Len(s)
    PROVE  /\ i - 1 \in 0..Len(s) /\ i \in 0..Len(s)
           /\ h[i - 1] \in FilterState /\ h[i] \in FilterState /\ s[i] \in Byte
           /\ \/ Completes(h[i - 1].offset, s[i])
              \/ Continues(h[i - 1].offset, s[i])
              \/ Fails(h[i - 1].offset, s[i])
           /\ Completes(h[i - 1].offset, s[i]) => h[i] = Completed(h[i - 1])
           /\ Continues(h[i - 1].offset, s[i]) => h[i] = Continued(h[i - 1])
           /\ Fails(h[i - 1].offset, s[i]) => h[i] = Failed(h[i - 1], s[i])
<1>1. Len(s) \in Nat /\ s[i] \in Byte
  BY LenProperties
<1>2. i - 1 \in 0..Len(s) /\ i \in 0..Len(s)
  BY <1>1
<1>3. /\ h[i - 1] \in FilterState /\ h[i] \in FilterState
      /\ h[i] = Examine(h[i - 1], s[i])
  BY <1>2 DEF IsRun
<1> QED
  BY <1>1, <1>2, <1>3, Examined, Zenon

\* A match of k bytes has begun k bytes ago, and these are the first of
\* FindString; since then nothing was written.
Begun(h, s, i) ==
    LET k == h[i].offset
    IN /\ k <= i
       /\ \A j \in 1..k : s[(i - k) + j] = FindString[j]
       /\ \A j \in 0..k : h[(i - k) + j]
            = [offset |-> j, count |-> h[i].count, overflow |-> h[i].overflow]

LEMMA MatchBegun ==
    ASSUME NEW s \in Seq(Byte), NEW h, IsRun(h, InitFilter, s)
    PROVE  \A i \in 0..Len(s) : Begun(h, s, i)
<1> DEFINE T == {i \in Nat : i <= Len(s) => Begun(h, s, i)}
<1>0. Len(s) \in Nat /\ InitFilter \in FilterState
  BY InitTyped, LenProperties
<1>1. 0 \in T
  <2>1. h[0] = InitFilter
    BY DEF IsRun
  <2>2. /\ h[0].offset = 0
        /\ h[0] = [offset |-> 0, count |-> h[0].count, overflow |-> h[0].overflow]
    BY <2>1 DEF InitFilter
  <2>3. \A j \in 0..0 : j = 0 /\ (0 - 0) + j = 0
    OBVIOUS
  <2> QED
    BY <2>2, <2>3 DEF Begun
<1>2. ASSUME NEW n \in T PROVE n + 1 \in T
  <2> SUFFICES ASSUME n + 1 <= Len(s) PROVE Begun(h, s, n + 1)
    OBVIOUS
  <2> DEFINE i == n + 1
             k == h[n].offset
  <2>1. /\ n \in Nat /\ n <= Len(s) /\ i \in 1..Len(s) /\ i - 1 = n
        /\ Begun(h, s, n)
    BY <1>0
  <2>2. /\ h[n] \in FilterState /\ h[i] \in FilterState
        /\ Completes(k, s[i]) \/ Continues(k, s[i]) \/ Fails(k, s[i])
        /\ Completes(k, s[i]) => h[i] = Completed(h[n])
        /\ Continues(k, s[i]) => h[i] = Continued(h[n])
        /\ Fails(k, s[i]) => h[i] = Failed(h[n], s[i])
    BY <1>0, <2>1, RunStep
  <2>3. CASE Completes(k, s[i]) \/ Fails(k, s[i])
    <3>1. h[i].offset = 0
      BY <2>2, <2>3 DEF Completed, Failed
    <3>2. h[i] = [offset |-> 0, count |-> h[i].count, overflow |-> h[i].overflow]
      BY <2>2, <2>3 DEF Completed, Failed
    <3>3. \A j \in 0..0 : j = 0 /\ (i - 0) + j = i
      BY <2>1
    <3> QED
      BY <2>1, <3>1, <3>2, <3>3 DEF Begun
  <2>4. CASE Continues(k, s[i])
    <3>1. /\ h[i] = [offset |-> k + 1, count |-> h[n].count, overflow |-> h[n].overflow]
          /\ h[i].offset = k + 1 /\ h[i].count = h[n].count
          /\ h[i].overflow = h[n].overflow
      BY <2>2, <2>4 DEF Continued
    <3>2. k \in Nat /\ k <= n
      BY <2>1, <2>2, MatchedTyped DEF Begun
    <3>3. i - (k + 1) = n - k /\ (n - k) + (k + 1) = i /\ k + 1 <= i
      BY <2>1, <3>2
    <3>4. s[(n - k) + (k + 1)] = FindString[k + 1]
      BY <2>4, <3>3 DEF Continues
    <3>5. \A j \in 1..(k + 1) : j \in 1..k \/ j = k + 1
      BY <3>2
    <3>6. \A j \in 0..(k + 1) : j \in 0..k \/ j = k + 1
      BY <3>2
    <3>7. \A j \in 1..(k + 1) : s[(n - k) + j] = FindString[j]
      BY <2>1, <3>4, <3>5 DEF Begun
    <3>8. \A j \in 0..(k + 1) : h[(n - k) + j]
            = [offset |-> j, count |-> h[n].count, overflow |-> h[n].overflow]
      BY <2>1, <3>1, <3>3, <3>6 DEF Begun
    <3> QED
      BY <3>1, <3>3, <3>7, <3>8 DEF Begun
  <2> QED
    BY <2>2, <2>3, <2>4
<1>3. \A i \in Nat : i \in T
  <2> HIDE DEF T
  <2>1. T \in SUBSET Nat
    BY DEF T
  <2> QED
    BY <1>1, <1>2, <2>1, Induction
<1> QED
  BY <1>0, <1>3


\* What the loop has written after i bytes, with the match that has begun.
Written(h, i) == h[i].overflow \o Matched(h[i])

\* The byte that completes a match: the filter was not in a match before it.
LEMMA MatchCompleted ==
    ASSUME NEW s \in Seq(Byte), NEW h, IsRun(h, InitFilter, s),
           NEW i \in 1..Len(s), Completes(h[i - 1].offset, s[i])
    PROVE  /\ FoundAt(s, i)
           /\ i - FindSize \in 0..(i - 1)
           /\ Written(h, i) = Written(h, i - FindSize) \o Replacement(h[i].count)
           /\ h[i].count = h[i - 1].count + 1
<1> DEFINE m == FindSize
           k == h[i - 1].offset
<1>1. /\ Len(s) \in Nat /\ m \in Nat /\ m >= 1 /\ FindString \in Seq(Byte)
      /\ m = Len(FindString)
  BY FindTyped, LenProperties DEF FindType, FindSize
<1>2. InitFilter \in FilterState
  BY InitTyped
<1>3. /\ i - 1 \in 0..Len(s) /\ h[i - 1] \in FilterState
      /\ h[i] = Completed(h[i - 1])
  BY <1>2, RunStep
<1>4. Begun(h, s, i - 1)
  BY <1>3, MatchBegun
<1>5. k + 1 = m /\ s[i] = FindString[m]
  BY DEF Completes
<1>6. /\ k \in Nat /\ k <= i - 1 /\ (i - 1) - k = i - m /\ i - m \in 0..(i - 1)
      /\ (i - m) + 0 = i - m /\ 0 \in 0..k
  BY <1>1, <1>3, <1>4, <1>5, MatchedTyped DEF Begun
<1> HIDE DEF m, k
<1>7. FoundAt(s, i)
  <2>1. \A j \in 1..m : s[(i - m) + j] = FindString[j]
    <3> TAKE j \in 1..m
    <3>1. j \in 1..k \/ j = m
      BY <1>1, <1>5, <1>6
    <3>2. CASE j \in 1..k
      BY <1>4, <1>6, <3>2 DEF Begun, k
    <3>3. CASE j = m
      <4>1. (i - m) + m = i
        BY <1>1
      <4> QED
        BY <1>5, <3>3, <4>1
    <3> QED
      BY <3>1, <3>2, <3>3
  <2> DEFINE u == SubSeq(s, i - m + 1, i)
  <2>2. /\ u \in Seq(Byte) /\ Len(u) = m
        /\ \A j \in 1..m : u[j] = s[(i - m) + j]
    <3>1. i - m + 1 \in 1..i /\ i <= Len(s) /\ i - (i - m + 1) + 1 = m
      BY <1>1, <1>6
    <3>2. /\ u \in Seq(Byte) /\ Len(u) = m
          /\ \A j \in 1..m : u[j] = s[(i - m + 1) + j - 1]
      BY <1>1, <3>1, SubSeqProperties
    <3>3. \A j \in 1..m : (i - m + 1) + j - 1 = (i - m) + j
      BY <1>1
    <3> QED
      BY <3>2, <3>3
  <2> HIDE DEF u
  <2>3. u = FindString
    BY <1>1, <2>1, <2>2, SeqEqual
  <2>4. i >= m
    BY <1>1, <1>6
  <2> QED
    BY <2>3, <2>4 DEF FoundAt, m, u
<1>8. h[i - m] = [offset |-> 0, count |-> h[i - 1].count, overflow |-> h[i - 1].overflow]
  <2>1. \A j \in 0..k : h[((i - 1) - k) + j]
            = [offset |-> j, count |-> h[i - 1].count, overflow |-> h[i - 1].overflow]
    BY <1>4 DEF Begun, k
  <2>2. h[((i - 1) - k) + 0]
            = [offset |-> 0, count |-> h[i - 1].count, overflow |-> h[i - 1].overflow]
    BY <1>6, <2>1
  <2> QED
    BY <1>6, <2>2
<1>9. /\ h[i].offset = 0 /\ h[i].count = h[i - 1].count + 1
      /\ h[i].overflow = h[i - 1].overflow \o Replacement(h[i - 1].count + 1)
  <2>1. ASSUME NEW f
        PROVE  /\ Completed(f).offset = 0 /\ Completed(f).count = f.count + 1
               /\ Completed(f).overflow = f.overflow \o Replacement(f.count + 1)
    BY DEF Completed
  <2> QED
    BY <1>3, <2>1, Zenon
<1>10. Matched(h[i]) = <<>> /\ Matched(h[i - m]) = <<>>
  BY <1>1, <1>8, <1>9, SubSeqEmpty DEF Matched
<1>11. /\ h[i - 1].overflow \in Seq(Byte) /\ h[i].overflow \in Seq(Byte)
       /\ h[i - m].overflow = h[i - 1].overflow
  <2>1. h[i] \in FilterState
    BY <1>2, RunStep
  <2> QED
    BY <1>3, <1>8, <2>1, MatchedTyped
<1>12. /\ Written(h, i) = h[i].overflow
       /\ Written(h, i - m) = h[i - 1].overflow
  BY <1>10, <1>11, ConcatEmptySeq DEF Written
<1> QED
  BY <1>6, <1>7, <1>9, <1>12 DEF m

LEMMA OneMore ==
    ASSUME NEW q \in Seq(Byte), NEW n \in Nat, n + 1 <= Len(q)
    PROVE  SubSeq(q, 1, n + 1) = Append(SubSeq(q, 1, n), q[n + 1])
<1> DEFINE u == SubSeq(q, 1, n + 1)
           v == SubSeq(q, 1, n)
           w == Append(v, q[n + 1])
<1>0. Len(q) \in Nat /\ q[n + 1] \in Byte
  BY LenProperties
<1>1. /\ u \in Seq(Byte) /\ Len(u) = n + 1
      /\ \A i \in 1..(n + 1) : u[i] = q[i]
  BY <1>0
<1>2. /\ v \in Seq(Byte) /\ Len(v) = n
      /\ \A i \in 1..n : v[i] = q[i]
  BY <1>0
<1> HIDE DEF u, v
<1>3. /\ w \in Seq(Byte) /\ Len(w) = n + 1 /\ w[n + 1] = q[n + 1]
      /\ \A i \in 1..n : w[i] = v[i]
  BY <1>0, <1>2
<1> HIDE DEF w
<1>4. \A i \in 1..(n + 1) : i \in 1..n \/ i = n + 1
  OBVIOUS
<1>5. u = w
  BY <1>1, <1>2, <1>3, <1>4, SeqEqual
<1> QED
  BY <1>5 DEF u, v, w

\* Any other byte is written as it is.
LEMMA ByteWritten ==
    ASSUME NEW s \in Seq(Byte), NEW h, IsRun(h, InitFilter, s),
           NEW i \in 1..Len(s), ~Completes(h[i - 1].offset, s[i])
    PROVE  /\ Written(h, i) = Append(Written(h, i - 1), s[i])
           /\ h[i].count = h[i - 1].count
<1> DEFINE f == h[i - 1]
           k == f.offset
           w == f.overflow
           c == s[i]
<1>1. FindSize \in Nat /\ FindSize >= 1 /\ FindString \in Seq(Byte) /\ FindSize = Len(FindString)
  BY FindTyped DEF FindType, FindSize
<1>2. InitFilter \in FilterState
  BY InitTyped
<1>3. /\ f \in FilterState /\ h[i] \in FilterState /\ c \in Byte
      /\ Continues(k, c) \/ Fails(k, c)
      /\ Continues(k, c) => h[i] = Continued(f)
      /\ Fails(k, c) => h[i] = Failed(f, c)
  BY <1>2, RunStep
<1>4. /\ k \in Nat /\ k < FindSize /\ w \in Seq(Byte)
      /\ Matched(f) \in Seq(Byte) /\ Len(Matched(f)) = k
  BY <1>3, MatchedTyped
<1>5. Append(w \o Matched(f), c) = (w \o Matched(f)) \o <<c>>
  BY <1>3, <1>4, AppendIsConcat, ConcatProperties
<1>6. CASE Continues(k, c)
  <2>1. h[i].offset = k + 1 /\ h[i].count = f.count /\ h[i].overflow = w
    BY <1>3, <1>6 DEF Continued
  <2>2. Matched(h[i]) = Matched(f) \o <<c>>
    <3>1. Matched(h[i]) = SubSeq(FindString, 1, k + 1) /\ Matched(f) = SubSeq(FindString, 1, k)
      BY <2>1 DEF Matched
    <3>2. c = FindString[k + 1] /\ k + 1 <= Len(FindString)
      BY <1>1, <1>4, <1>6 DEF Continues
    <3>3. SubSeq(FindString, 1, k + 1) = Append(SubSeq(FindString, 1, k), FindString[k + 1])
      BY <1>1, <1>4, <3>2, OneMore, Zenon
    <3>4. Append(Matched(f), c) = Matched(f) \o <<c>>
      BY <1>3, <1>4, AppendIsConcat
    <3>5. Append(SubSeq(FindString, 1, k), FindString[k + 1]) = Append(Matched(f), c)
      BY <3>1, <3>2, Zenon
    <3> QED
      BY <3>1, <3>3, <3>4, <3>5, Zenon
  <2>3. <<c>> \in Seq(Byte)
    BY <1>3
  <2>4. (w \o Matched(f)) \o <<c>> = w \o (Matched(f) \o <<c>>)
    BY <1>4, <2>3, ConcatBytes, Zenon
  <2> QED
    BY <1>5, <2>1, <2>2, <2>4, Zenon DEF Written
<1>7. CASE Fails(k, c)
  <2>1. /\ h[i].offset = 0 /\ h[i].count = f.count
        /\ h[i].overflow = w \o Matched(f) \o <<c>>
    <3>1. /\ Failed(f, c).offset = 0 /\ Failed(f, c).count = f.count
          /\ Failed(f, c).overflow = w \o Matched(f) \o <<c>>
      BY DEF Failed
    <3> QED
      BY <1>3, <1>7, <3>1, Zenon
  <2>2. Matched(h[i]) = <<>>
    BY <1>1, <2>1, SubSeqEmpty DEF Matched
  <2>3. h[i].overflow \in Seq(Byte)
    BY <1>3, MatchedTyped
  <2>4. Written(h, i) = h[i].overflow
    BY <2>2, <2>3, ConcatEmptySeq DEF Written
  <2> QED
    BY <1>5, <2>1, <2>4, Zenon DEF Written
<1> QED
  BY <1>3, <1>6, <1>7, Zenon


\* In a page without a false start, the matches are the FindStrings: when one
\* begins, the filter is not in a match, so that it goes through all of it.
LEMMA Recognized ==
    ASSUME NEW s \in Seq(Byte), NEW h, IsRun(h, InitFilter, s), ~FalseStart(s),
           NEW i \in 1..Len(s), FoundAt(s, i)
    PROVE  Completes(h[i - 1].offset, s[i])
<1> DEFINE m == FindSize
           b == i - m
           k == h[b].offset
<1>1. /\ Len(s) \in Nat /\ m \in Nat /\ m >= 1 /\ FindString \in Seq(Byte)
      /\ m = Len(FindString) /\ InitFilter \in FilterState
  BY FindTyped, InitTyped, LenProperties DEF FindType, FindSize
<1>2. /\ b \in Nat /\ b \in 0..Len(s) /\ b + m = i
      /\ b + 1 \in 1..i /\ i <= Len(s) /\ i - (b + 1) + 1 = m
      /\ SubSeq(s, b + 1, i) = FindString
  BY <1>1 DEF FoundAt
<1>3. \A j \in 1..m : s[b + j] = FindString[j]
  <2>1. \A j \in 1..m : SubSeq(s, b + 1, i)[j] = s[(b + 1) + j - 1]
    BY <1>1, <1>2, SubSeqProperties
  <2>2. \A j \in 1..m : (b + 1) + j - 1 = b + j
    BY <1>2
  <2> QED
    BY <1>2, <2>1, <2>2
<1>4. h[b] \in FilterState /\ Begun(h, s, b)
  BY <1>2, MatchBegun DEF IsRun
<1>5. k \in Nat /\ k < m /\ k <= b
  BY <1>4, MatchedTyped DEF Begun
<1>6. k = 0
  <2> SUFFICES ASSUME k # 0 PROVE FALSE
    OBVIOUS
  <2>1. \A j \in 1..k : s[(b - k) + j] = FindString[j]
    BY <1>4 DEF Begun
  <2> HIDE DEF k
  <2> DEFINE u == SubSeq(s, b - k + 1, b)
             v == SubSeq(FindString, 1, k)
  <2>2. /\ b - k + 1 \in 1..b /\ b <= Len(s) /\ b - (b - k + 1) + 1 = k
        /\ k \in 1..(m - 1)
    BY <1>1, <1>2, <1>5
  <2>3. /\ u \in Seq(Byte) /\ Len(u) = k
        /\ \A j \in 1..k : u[j] = s[(b - k + 1) + j - 1]
    BY <1>1, <2>2, SubSeqProperties
  <2>4. \A j \in 1..k : (b - k + 1) + j - 1 = (b - k) + j
    BY <1>2, <1>5
  <2>5. /\ v \in Seq(Byte) /\ Len(v) = k
        /\ \A j \in 1..k : v[j] = FindString[j]
    BY <1>1, <2>2
  <2> HIDE DEF u, v
  <2>6. u = v
    BY <1>5, <2>1, <2>3, <2>4, <2>5, SeqEqual
  <2>7. SubSeq(s, i - m - k + 1, i - m) = SubSeq(FindString, 1, k)
    BY <2>6 DEF u, v, b
  <2>8. i - m >= k
    BY <1>5 DEF b
  <2> QED
    BY <2>2, <2>7, <2>8 DEF FalseStart, m
<1> DEFINE T == {j \in Nat : j < m => h[b + j].offset = j}
<1>7. 0 \in T
  <2>1. b + 0 = b
    BY <1>2
  <2> QED
    BY <1>6, <2>1
<1>8. ASSUME NEW j \in T PROVE j + 1 \in T
  <2> SUFFICES ASSUME j + 1 < m PROVE h[b + (j + 1)].offset = j + 1
    OBVIOUS
  <2>1. /\ j \in Nat /\ h[b + j].offset = j /\ j + 1 \in 1..m
        /\ b + (j + 1) \in 1..Len(s) /\ (b + (j + 1)) - 1 = b + j
    BY <1>1, <1>2
  <2>2. s[b + (j + 1)] = FindString[j + 1]
    BY <1>3, <2>1
  <2>3. Continues(j, s[b + (j + 1)])
    BY <2>2 DEF Continues
  <2>4. h[b + (j + 1)] = Continued(h[b + j])
    <3> DEFINE x == b + (j + 1)
    <3>1. x \in 1..Len(s) /\ x - 1 = b + j /\ Continues(h[x - 1].offset, s[x])
      BY <2>1, <2>3
    <3> HIDE DEF x
    <3>2. h[x] = Continued(h[x - 1])
      BY <1>1, <3>1, RunStep
    <3> QED
      BY <3>1, <3>2, Zenon DEF x
  <2>5. Continued(h[b + j]).offset = h[b + j].offset + 1
    BY DEF Continued
  <2> QED
    BY <2>1, <2>4, <2>5, Zenon
<1>9. \A j \in Nat : j \in T
  <2> HIDE DEF T
  <2>1. T \in SUBSET Nat
    BY DEF T
  <2> QED
    BY <1>7, <1>8, <2>1, Induction
<1>10. m - 1 \in Nat /\ b + (m - 1) = i - 1 /\ m \in 1..m /\ (m - 1) + 1 = m
  BY <1>1, <1>2
<1>11. s[i] = FindString[m]
  BY <1>2, <1>3, <1>10
<1>12. h[i - 1].offset = m - 1
  <2>1. m - 1 < m /\ m - 1 \in T
    BY <1>1, <1>9, <1>10
  <2>2. h[b + (m - 1)].offset = m - 1
    BY <2>1
  <2> QED
    BY <1>10, <2>2, Zenon
<1> QED
  BY <1>10, <1>11, <1>12 DEF Completes

\* The replacements are numbered in the order of the FindStrings.
LEMMA NumberStep ==
    ASSUME NEW s, NEW n \in Nat
    PROVE  /\ Number(s, 0) = 0 /\ Number(s, n) \in Nat
           /\ FoundAt(s, n + 1) => Number(s, n + 1) = Number(s, n) + 1
           /\ ~FoundAt(s, n + 1) => Number(s, n + 1) = Number(s, n)
<1> DEFINE F(i) == {j \in 1..i : FoundAt(s, j)}
<1>1. F(0) = {} /\ Cardinality({}) = 0
  BY FS_EmptySet
<1>2. IsFiniteSet(F(n)) /\ n + 1 \notin F(n)
  <2>1. IsFiniteSet(1..n)
    BY FS_Interval
  <2> QED
    BY <2>1, FS_Subset
<1>3. Cardinality(F(n)) \in Nat
  BY <1>2, FS_CardinalityType
<1>4. FoundAt(s, n + 1) => F(n + 1) = F(n) \cup {n + 1}
  OBVIOUS
<1>5. ~FoundAt(s, n + 1) => F(n + 1) = F(n)
  <2>1. \A j \in 1..(n + 1) : j \in 1..n \/ j = n + 1
    OBVIOUS
  <2> QED
    BY <2>1
<1>6. Cardinality(F(n) \cup {n + 1}) = Cardinality(F(n)) + 1
  BY <1>2, FS_AddElement
<1> QED
  BY <1>1, <1>3, <1>4, <1>5, <1>6, Zenon DEF Number

LEMMA CountIs ==
    ASSUME NEW s \in Seq(Byte), NEW h, IsRun(h, InitFilter, s), ~FalseStart(s)
    PROVE  \A i \in 0..Len(s) : h[i].count = Number(s, i)
<1> DEFINE T == {i \in Nat : i <= Len(s) => h[i].count = Number(s, i)}
<1>1. 0 \in T
  BY NumberStep DEF IsRun, InitFilter
<1>2. ASSUME NEW n \in T PROVE n + 1 \in T
  <2> SUFFICES ASSUME n + 1 <= Len(s) PROVE h[n + 1].count = Number(s, n + 1)
    OBVIOUS
  <2> DEFINE i == n + 1
  <2>1. /\ n \in Nat /\ i \in 1..Len(s) /\ i - 1 = n
        /\ h[n].count = Number(s, n)
    BY LenProperties
  <2>2. CASE FoundAt(s, i)
    <3>1. Completes(h[i - 1].offset, s[i])
      BY <2>1, <2>2, Recognized
    <3>2. h[i].count = h[i - 1].count + 1
      BY <2>1, <3>1, MatchCompleted
    <3> QED
      BY <2>1, <2>2, <3>2, NumberStep
  <2>3. CASE ~FoundAt(s, i)
    <3>1. ~Completes(h[i - 1].offset, s[i])
      BY <2>1, <2>3, MatchCompleted
    <3>2. h[i].count = h[i - 1].count
      BY <2>1, <3>1, ByteWritten
    <3> QED
      BY <2>1, <2>3, <3>2, NumberStep
  <2> QED
    BY <2>2, <2>3
<1>3. \A i \in Nat : i \in T
  <2> HIDE DEF T
  <2>1. T \in SUBSET Nat
    BY DEF T
  <2> QED
    BY <1>1, <1>2, <2>1, Induction
<1> QED
  BY <1>3, LenProperties


\* The filter replaces the FindStrings of a page without a false start.
LEMMA ReplacedIs ==
    ASSUME NEW s \in Seq(Byte), ~FalseStart(s)
    PROVE  LET f == ExamineAll(InitFilter, s)
           IN f.overflow \o Matched(f) = Replaced(s)
<1>1. PICK h : IsRun(h, InitFilter, s)
  BY InitTyped, RunExists
<1> DEFINE m == FindSize
           L == Len(s)
           Next1(g, i) == IF FoundAt(s, i) THEN g[i - m] \o Replacement(Number(s, i))
                          ELSE Append(g[i - 1], s[i])
           Equation(g) == g = [i \in 0..L |-> IF i = 0 THEN <<>> ELSE Next1(g, i)]
           w == [i \in 0..L |-> Written(h, i)]
           upTo[i \in 0..L] ==
               IF i = 0 THEN <<>>
               ELSE IF FoundAt(s, i) THEN upTo[i - m] \o Replacement(Number(s, i))
                    ELSE Append(upTo[i - 1], s[i])
<1>2. L \in Nat /\ m \in Nat /\ m >= 1
  BY FindTyped, LenProperties DEF FindType
<1>3. w[0] = <<>>
  <2>1. h[0] = InitFilter
    BY <1>1 DEF IsRun
  <2>2. h[0].overflow = <<>> /\ h[0].offset = 0
    BY <2>1 DEF InitFilter
  <2>3. Matched(h[0]) = <<>>
    BY <2>2, FindTyped, SubSeqEmpty DEF Matched, FindType
  <2>4. <<>> \o <<>> = <<>>
    BY ConcatEmptySeq, EmptySeq
  <2>5. Written(h, 0) = <<>>
    BY <2>2, <2>3, <2>4, Zenon DEF Written
  <2> QED
    BY <1>2, <2>5
<1>4. ASSUME NEW i \in 1..L PROVE w[i] = Next1(w, i)
  <2>1. i \in 0..L /\ i - 1 \in 0..L /\ (FoundAt(s, i) => i - m \in 0..L)
    BY <1>2 DEF FoundAt
  <2>2. CASE FoundAt(s, i)
    <3>1. Completes(h[i - 1].offset, s[i])
      BY <1>1, <2>2, Recognized
    <3>2. Written(h, i) = Written(h, i - m) \o Replacement(h[i].count)
      BY <1>1, <3>1, MatchCompleted
    <3>3. h[i].count = Number(s, i)
      BY <1>1, <2>1, CountIs
    <3>4. w[i] = Written(h, i) /\ w[i - m] = Written(h, i - m)
      BY <2>1, <2>2
    <3> HIDE DEF w
    <3> QED
      BY <2>2, <3>2, <3>3, <3>4, Zenon
  <2>3. CASE ~FoundAt(s, i)
    <3>1. ~Completes(h[i - 1].offset, s[i])
      BY <1>1, <2>3, MatchCompleted
    <3>2. Written(h, i) = Append(Written(h, i - 1), s[i])
      BY <1>1, <3>1, ByteWritten
    <3>3. w[i] = Written(h, i) /\ w[i - 1] = Written(h, i - 1)
      BY <2>1
    <3> HIDE DEF w
    <3> QED
      BY <2>3, <3>2, <3>3, Zenon
  <2> QED
    BY <2>2, <2>3, Zenon
<1>5. Equation(w)
  <2>1. w = [i \in 0..L |-> w[i]]
    OBVIOUS
  <2> HIDE DEF w
  <2>2. \A i \in 0..L : w[i] = IF i = 0 THEN <<>> ELSE Next1(w, i)
    <3>1. \A i \in 0..L : i = 0 \/ (i \in 1..L /\ i # 0)
      BY <1>2
    <3> HIDE DEF Next1
    <3> QED
      BY <1>3, <1>4, <3>1, Zenon
  <2> HIDE DEF Next1
  <2> QED
    BY <2>1, <2>2
<1>6. upTo = CHOOSE g : Equation(g)
  BY DEF upTo
<1> HIDE DEF upTo
<1>7. Equation(upTo)
  <2> HIDE DEF Equation
  <2> QED
    BY <1>5, <1>6, Zenon
<1> HIDE DEF w
<1>8. upTo[0] = <<>> /\ \A i \in 1..L : upTo[i] = Next1(upTo, i)
  <2> HIDE DEF Next1
  <2>1. 0 \in 0..L /\ \A i \in 1..L : i \in 0..L /\ i # 0
    BY <1>2
  <2> QED
    BY <1>7, <2>1
<1> DEFINE T == {n \in Nat : \A i \in 0..n : i <= L => upTo[i] = w[i]}
<1>9. 0 \in T
  <2>1. \A i \in 0..0 : i = 0
    OBVIOUS
  <2> QED
    BY <1>3, <1>8, <2>1
<1>10. ASSUME NEW n \in T PROVE n + 1 \in T
  <2>1. n \in Nat /\ \A i \in 0..n : i <= L => upTo[i] = w[i]
    OBVIOUS
  <2>2. ASSUME n + 1 <= L PROVE upTo[n + 1] = w[n + 1]
    <3> DEFINE i == n + 1
    <3>1. /\ i \in 1..L /\ i - 1 \in 0..n /\ i - 1 <= L
          /\ FoundAt(s, i) => i - m \in 0..n /\ i - m <= L
      BY <1>2, <2>1, <2>2 DEF FoundAt
    <3>2. upTo[i] = Next1(upTo, i) /\ w[i] = Next1(w, i)
      BY <1>4, <1>8, <3>1, Zenon
    <3>3. upTo[i - 1] = w[i - 1] /\ (FoundAt(s, i) => upTo[i - m] = w[i - m])
      BY <2>1, <3>1
    <3> QED
      BY <3>2, <3>3, Zenon
  <2>3. \A i \in 0..(n + 1) : i \in 0..n \/ i = n + 1
    BY <2>1
  <2> QED
    BY <2>1, <2>2, <2>3
<1>11. \A n \in Nat : n \in T
  <2> HIDE DEF T
  <2>1. T \in SUBSET Nat
    BY DEF T
  <2> QED
    BY <1>9, <1>10, <2>1, Induction
<1>12. upTo[L] = w[L]
  <2>1. L \in T /\ L \in 0..L
    BY <1>2, <1>11
  <2> QED
    BY <1>2, <2>1
<1>13. Replaced(s) = upTo[L]
  BY DEF Replaced, upTo
<1>14. ExamineAll(InitFilter, s) = h[L]
  BY <1>1, InitTyped, RunIs
<1>15. w[L] = h[L].overflow \o Matched(h[L])
  <2>1. L \in 0..L
    BY <1>2
  <2>2. w[L] = Written(h, L)
    BY <2>1 DEF w
  <2> QED
    BY <2>2 DEF Written
<1> QED
  BY <1>12, <1>13, <1>14, <1>15, Zenon


-----------------------------------------------------------------------------
(* The calls of the filter.                                                *)

\* What does not fit is kept.
LEMMA Filled ==
    ASSUME NEW f \in FilterState, NEW d \in Seq(Byte), NEW p \in Seq(Byte),
           NEW outSize \in Nat \ {0}, NEW r, r = Filter(f, d, outSize)
    PROVE  /\ r.filter \in FilterState /\ r.out \in Seq(Byte)
           /\ Behind(p \o r.out, r.filter) = Behind(p, ExamineAll(f, d))
           /\ r.status = Status(r.filter)
           /\ r.out = <<>> => r.filter.overflow = <<>>
<1> DEFINE g == ExamineAll(f, d)
           w == g.overflow
           n == IF outSize < Len(w) THEN outSize ELSE Len(w)
           out == SubSeq(w, 1, n)
           rest == SubSeq(w, n + 1, Len(w))
<1>1. g \in FilterState
  BY RunExists, RunIs
<1>2. r = [filter |-> [g EXCEPT !.overflow = rest], out |-> out, status |-> Status(g)]
  BY DEF Filter
<1> HIDE DEF g
<1>3. /\ g.offset \in 0..(FindSize - 1) /\ g.count \in Nat /\ w \in Seq(Byte)
      /\ g = [offset |-> g.offset, count |-> g.count, overflow |-> w]
  BY <1>1 DEF FilterState
<1> HIDE DEF w
<1>4. n \in 0..Len(w) /\ (n = 0 => Len(w) = 0) /\ Len(w) \in Nat
  BY <1>3, LenProperties
<1> HIDE DEF n
<1>5. /\ out \in Seq(Byte) /\ Len(out) = n /\ rest \in Seq(Byte)
  BY <1>3, <1>4
<1>6. out \o rest = w
  <2>1. 1 \in 1..(Len(w) + 1) /\ n \in (1 - 1)..Len(w) /\ Len(w) \in n..Len(w)
    BY <1>4
  <2>2. out \o rest = SubSeq(w, 1, Len(w))
    BY <1>3, <2>1, ConcatAdjacentSubSeq
  <2> QED
    BY <1>3, <2>2, SubSeqFull
<1>7. out = <<>> => rest = <<>>
  <2> SUFFICES ASSUME out = <<>> PROVE rest = <<>>
    OBVIOUS
  <2>1. n = 0
    BY <1>5, EmptySeq
  <2>2. n + 1 > Len(w)
    BY <1>4, <2>1
  <2> QED
    BY <1>4, <2>2, SubSeqEmpty
<1> HIDE DEF out, rest
<1> DEFINE e == r.filter
<1>8. e = [g EXCEPT !.overflow = rest]
  BY <1>2
<1>9. r.out = out /\ r.status = Status(g)
  BY <1>2
<1> HIDE DEF e
<1>10. e = [offset |-> g.offset, count |-> g.count, overflow |-> rest]
  BY <1>3, <1>5, <1>8
<1>11. e \in FilterState
  BY <1>3, <1>5, <1>10 DEF FilterState
<1>12. e.offset = g.offset /\ e.count = g.count /\ e.overflow = rest
  BY <1>10
<1>13. (p \o out) \o rest = p \o w
  BY <1>5, <1>6, ConcatBytes, Zenon
<1>14. Behind(p \o out, e) = Behind(p, g)
  BY <1>12, <1>13 DEF Behind, w
<1>15. Status(e) = Status(g)
  BY <1>12 DEF Status
<1> QED
  BY <1>5, <1>7, <1>9, <1>11, <1>12, <1>14, <1>15, Zenon DEF e, g

\* What the filter wrote, in whatever calls, is what it would have written in
\* one, with all it was given, and so is what it remembers.
AsInOneCall ==
    response # "canceled" => Behind(page, filter) = ExamineAll(InitFilter, Filtered)

\* The filter's part of the invariant.  CEF comes again unless the filter has
\* nothing to write or no match has begun.
FilterInv ==
    /\ filter \in FilterState /\ page \in Seq(Byte)
    /\ data \in Seq(Byte) /\ Filtered \in Seq(Byte)
    /\ taken = Filtered \o data
    /\ response # "passing" => data = <<>>
    /\ AsInOneCall
    /\ last.status = Status(filter)
    /\ ~last.wrote => filter.overflow = <<>>
    /\ response = "complete" => ~OutputPending

\* What is given to CEF is not filtered yet.
LEMMA FilteredIs ==
    ASSUME NEW t \in Seq(Byte), NEW b \in Seq(Byte)
    PROVE  /\ SubSeq(t \o b, 1, Len(t \o b) - Len(b)) = t
           /\ SubSeq(t, 1, Len(t) - Len(<<>>)) = t
<1>1. Len(t) \in Nat /\ Len(b) \in Nat /\ Len(<<>>) = 0
  BY LenProperties
<1> DEFINE c == t \o b
           u == SubSeq(c, 1, Len(t))
<1>2. /\ c \in Seq(Byte) /\ Len(c) = Len(t) + Len(b)
      /\ \A i \in 1..Len(t) : c[i] = t[i]
  BY <1>1, ConcatProperties
<1> HIDE DEF c
<1>3. /\ u \in Seq(Byte) /\ Len(u) = Len(t)
      /\ \A i \in 1..Len(t) : u[i] = c[i]
  BY <1>1, <1>2
<1> HIDE DEF u
<1>4. u = t
  BY <1>2, <1>3, SeqEqual
<1>5. Len(c) - Len(b) = Len(t) /\ Len(t) - Len(<<>>) = Len(t)
  BY <1>1, <1>2
<1>6. SubSeq(t, 1, Len(t)) = t
  BY SubSeqFull
<1> QED
  BY <1>4, <1>5, <1>6, Zenon DEF u, c

LEMMA InitFilterInv == Init => FilterInv
<1> SUFFICES ASSUME Init PROVE FilterInv
  OBVIOUS
<1>1. /\ filter = InitFilter /\ page = <<>> /\ data = <<>> /\ taken = <<>>
      /\ response = "ready" /\ last = [status |-> "DONE", wrote |-> FALSE]
  BY DEF Init, HandlerInit
<1>2. <<>> \in Seq(Byte) /\ <<>> \o <<>> = <<>>
  BY EmptySeq, ConcatEmptySeq
<1>3. Filtered = <<>>
  BY <1>1, <1>2, FilteredIs, Zenon DEF Filtered
<1>4. Behind(<<>>, InitFilter) = InitFilter
  BY <1>2 DEF Behind, InitFilter
<1>5. ExamineAll(InitFilter, <<>>) = InitFilter
  <2>1. PICK h : IsRun(h, InitFilter, <<>>)
    BY <1>2, InitTyped, RunExists
  <2>2. ExamineAll(InitFilter, <<>>) = h[0]
    BY <1>2, <2>1, InitTyped, RunIs
  <2> QED
    BY <2>1, <2>2 DEF IsRun
<1>6. Status(InitFilter) = "DONE" /\ InitFilter.overflow = <<>>
  BY DEF Status, InitFilter
<1> QED
  BY <1>1, <1>2, <1>3, <1>4, <1>5, <1>6, InitTyped DEF FilterInv, AsInOneCall


\* A call of the filter with what it has not been given yet.
LEMMA CallStep ==
    ASSUME FilterInv, NEW outSize \in 1..MaxOut, response \in {"passing", "ended"},
           CallFilter(data, outSize), data' = <<>>, taken' = taken,
           response' \in {"ready", "ended"}
    PROVE  FilterInv'
<1> DEFINE r == Filter(filter, data, outSize)
<1>1. /\ filter \in FilterState /\ page \in Seq(Byte) /\ data \in Seq(Byte)
      /\ Filtered \in Seq(Byte) /\ taken = Filtered \o data
      /\ Behind(page, filter) = ExamineAll(InitFilter, Filtered)
  BY DEF FilterInv, AsInOneCall
<1>2. /\ filter' = r.filter /\ page' = page \o r.out
      /\ last' = [status |-> r.status, wrote |-> r.out # <<>>]
  BY DEF CallFilter
<1>3. outSize \in Nat \ {0}
  BY OutAssumption
<1> HIDE DEF r
<1>4. /\ r.filter \in FilterState /\ r.out \in Seq(Byte)
      /\ Behind(page \o r.out, r.filter) = Behind(page, ExamineAll(filter, data))
      /\ r.status = Status(r.filter)
      /\ r.out = <<>> => r.filter.overflow = <<>>
  <2>1. r = Filter(filter, data, outSize)
    BY DEF r
  <2>2. filter \in FilterState /\ page \in Seq(Byte) /\ data \in Seq(Byte)
    BY <1>1
  <2>3. PICK q : q = r
    OBVIOUS
  <2>4. q = Filter(filter, data, outSize)
    BY <2>1, <2>3
  <2>5. /\ q.filter \in FilterState /\ q.out \in Seq(Byte)
        /\ Behind(page \o q.out, q.filter) = Behind(page, ExamineAll(filter, data))
        /\ q.status = Status(q.filter)
        /\ q.out = <<>> => q.filter.overflow = <<>>
    BY <1>3, <2>2, <2>4, Filled
  <2> QED
    BY <2>3, <2>5, Zenon
<1>5. Behind(page', filter') = ExamineAll(InitFilter, taken)
  <2>1. Behind(page, ExamineAll(filter, data)) = ExamineAll(Behind(page, filter), data)
    BY <1>1, ExamineBehind, Zenon
  <2>2. ExamineAll(InitFilter, Filtered \o data) = ExamineAll(ExamineAll(InitFilter, Filtered), data)
    BY <1>1, InitTyped, ExamineConcat, Zenon
  <2> QED
    BY <1>1, <1>2, <1>4, <2>1, <2>2, Zenon
<1>6. taken \in Seq(Byte)
  BY <1>1, ConcatProperties
<1>7. Filtered' = taken /\ taken = taken \o <<>> /\ <<>> \in Seq(Byte)
  <2>1. SubSeq(taken, 1, Len(taken) - Len(<<>>)) = taken
    BY <1>6, FilteredIs
  <2> QED
    BY <1>6, <2>1, ConcatEmptySeq, EmptySeq DEF Filtered
<1>8. page' \in Seq(Byte)
  BY <1>1, <1>2, <1>4, ConcatProperties
<1>9. last'.status = Status(filter') /\ (~last'.wrote => filter'.overflow = <<>>)
  BY <1>2, <1>4
<1> QED
  BY <1>2, <1>4, <1>5, <1>6, <1>7, <1>8, <1>9 DEF FilterInv, AsInOneCall

\* CEF is given bytes.
LEMMA GiveStep ==
    ASSUME FilterInv, NEW b \in Seq(Byte), response = "ready", Give(b),
           UNCHANGED <<filter, last, page>>
    PROVE  FilterInv'
<1>1. data = <<>> /\ Filtered \in Seq(Byte) /\ taken = Filtered \o data
  BY DEF FilterInv
<1>2. taken \in Seq(Byte) /\ taken = Filtered
  BY <1>1, ConcatEmptySeq
<1>3. /\ data' = b /\ taken' = taken \o b
      /\ response' = IF b = <<>> THEN "ended" ELSE "passing"
  BY DEF Give
<1>4. Filtered' = Filtered
  <2>1. SubSeq(taken \o b, 1, Len(taken \o b) - Len(b)) = taken
    BY <1>2, FilteredIs
  <2> QED
    BY <1>2, <1>3, <2>1 DEF Filtered
<1> QED
  BY <1>1, <1>2, <1>3, <1>4 DEF FilterInv, AsInOneCall

\* A step that neither gives bytes nor filters any.
LEMMA NoCallStep ==
    ASSUME FilterInv, UNCHANGED <<filter, last, page, taken>>,
           \/ data' = data /\ response' = response
           \/ /\ data' = data /\ response \notin {"passing", "canceled"}
              /\ response' \notin {"passing", "canceled", "complete"}
           \/ data' = <<>> /\ response' = "canceled"
           \/ /\ data' = data /\ response = "ended"
              /\ response' = "complete" /\ ~OutputPending
    PROVE  FilterInv'
<1>1. CASE data' = data
  <2>1. Filtered' = Filtered /\ OutputPending' = OutputPending
    BY <1>1 DEF Filtered, OutputPending
  <2> QED
    BY <1>1, <2>1 DEF FilterInv, AsInOneCall
<1>2. CASE data' = <<>> /\ response' = "canceled"
  <2>1. taken \in Seq(Byte)
    BY ConcatProperties DEF FilterInv
  <2>2. Filtered' = taken /\ taken = taken \o <<>> /\ <<>> \in Seq(Byte)
    <3>1. SubSeq(taken, 1, Len(taken) - Len(<<>>)) = taken
      BY <2>1, FilteredIs
    <3> QED
      BY <1>2, <2>1, <3>1, ConcatEmptySeq, EmptySeq DEF Filtered
  <2> QED
    BY <1>2, <2>1, <2>2 DEF FilterInv, AsInOneCall
<1> QED
  BY <1>1, <1>2

LEMMA FilterInvStep == Inv /\ FilterInv /\ [Next]_vars => FilterInv'
<1> SUFFICES ASSUME Inv, FilterInv, [Next]_vars PROVE FilterInv'
  OBVIOUS
<1>1. ASSUME NEW n \in 1..MaxRead, ReadResponse(n), UNCHANGED <<filter, last, page>>
      PROVE  FilterInv'
  <2>1. n \in Nat
    BY <1>1, ReadAssumption
  <2>2. CASE ReadFromStream(n)
    <3>1. First(n, stream) \in Seq(Byte)
      BY <2>1, FirstRest DEF Inv, TypeInv
    <3> QED
      BY <1>1, <2>2, <3>1, GiveStep DEF ReadResponse, ReadFromStream
  <2>3. CASE ReadFromBuffer(n)
    <3>1. Unread \in Seq(Byte)
      BY Drained DEF Inv, StreamIntact
    <3>2. First(n, Unread) \in Seq(Byte)
      BY <2>1, <3>1, FirstRest
    <3>3. WriteTo(n).bytes = First(n, Unread)
      BY DEF WriteTo, Unread
    <3> QED
      BY <1>1, <2>3, <3>2, <3>3, GiveStep DEF ReadResponse, ReadFromBuffer
  <2>4. CASE ReadLater(n)
    BY <1>1, <2>4, NoCallStep DEF ReadResponse, ReadLater
  <2> QED
    BY <1>1, <2>2, <2>3, <2>4 DEF ReadResponse
<1>2. ASSUME NEW n \in 1..MaxOut, FilterData(n) PROVE FilterInv'
  BY <1>2, CallStep DEF FilterData
<1>3. ASSUME NEW n \in 1..MaxOut, FilterRest(n) PROVE FilterInv'
  <2>1. data = <<>> /\ response = "ended" /\ CallFilter(<<>>, n) /\ UNCHANGED handlerVars
    BY <1>3 DEF FilterInv, FilterRest
  <2> QED
    BY <2>1, CallStep DEF handlerVars
<1>4. CASE Complete
  BY <1>4, NoCallStep DEF Complete
<1>5. CASE FileThread
  <2>1. /\ response' = IF response = "waiting" THEN "ready" ELSE response
        /\ UNCHANGED <<filter, last, page, taken, data>>
    BY <1>5 DEF FileThread, ReadOnFileThread
  <2> QED
    BY <2>1, NoCallStep
<1>6. CASE Cancel /\ UNCHANGED <<filter, last, page>>
  BY <1>6, NoCallStep DEF Cancel
<1>7. CASE UNCHANGED vars
  BY <1>7, NoCallStep DEF vars, handlerVars
<1> QED
  BY <1>1, <1>2, <1>3, <1>4, <1>5, <1>6, <1>7 DEF Next, IOThread

LEMMA InvReplaced == FilterInv => ReplacedSoFar
<1> SUFFICES ASSUME FilterInv PROVE ReplacedSoFar
  OBVIOUS
<1>1. ASSUME response # "canceled", ~FalseStart(Filtered)
      PROVE  Output = Replaced(Filtered)
  <2> DEFINE e == ExamineAll(InitFilter, Filtered)
  <2>1. Filtered \in Seq(Byte) /\ e = Behind(page, filter)
    BY <1>1 DEF FilterInv, AsInOneCall
  <2>2. e.overflow \o Matched(e) = Replaced(Filtered)
    BY <1>1, <2>1, ReplacedIs
  <2> HIDE DEF e
  <2>3. e.overflow = page \o filter.overflow /\ Matched(e) = Matched(filter)
    BY <2>1 DEF Behind, Matched
  <2> QED
    BY <2>2, <2>3, Zenon DEF Output
<1>2. ASSUME response = "complete" PROVE filter.overflow = <<>> \/ filter.offset = 0
  <2>1. filter.offset \in Nat
    BY MatchedTyped DEF FilterInv
  <2>2. ~last.wrote \/ Status(filter) # "NEED_MORE_DATA"
    BY <1>2 DEF FilterInv, OutputPending
  <2> QED
    BY <2>1, <2>2 DEF FilterInv, Status
<1> QED
  BY <1>1, <1>2 DEF ReplacedSoFar

\* The sizes of the chunks and of the output buffers change nothing, on any
\* page: the filter keeps a match that has begun and output that did not fit.
THEOREM PiecesDoNotMatter == Spec => []AsInOneCall
<1>1. Init => Inv /\ FilterInv
  BY InitInv, InitFilterInv
<1>2. Inv /\ FilterInv /\ [Next]_vars => (Inv /\ FilterInv)'
  BY InvStep, FilterInvStep
<1>3. FilterInv => AsInOneCall
  BY DEF FilterInv
<1> QED
  BY <1>1, <1>2, <1>3, PTL DEF Spec

\* A page gets the bytes of the stream with each FindString replaced by the
\* next numbered replacement, for every page without a false start, every
\* FindString, in whatever chunks the bytes come and whatever room there is
\* for the output; and the filter is not left with output and a match begun.
THEOREM ReplacedInPieces == Spec => []ReplacedSoFar
<1>1. Init => Inv /\ FilterInv
  BY InitInv, InitFilterInv
<1>2. Inv /\ FilterInv /\ [Next]_vars => (Inv /\ FilterInv)'
  BY InvStep, FilterInvStep
<1>3. FilterInv => ReplacedSoFar
  BY InvReplaced
<1> QED
  BY <1>1, <1>2, <1>3, PTL DEF Spec
=============================================================================
