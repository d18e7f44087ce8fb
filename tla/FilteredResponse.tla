-------------------------- MODULE FilteredResponse --------------------------
(***************************************************************************)
(* A request of the page response_filter.html: CefStreamResourceHandler    *)
(* provides the bytes, FindReplaceResponseFilter rewrites them, the page   *)
(* gets them.                                                              *)
(*                                                                         *)
(* CEF is between the two.  It calls the filter as the comment of          *)
(* CefResponseFilter::Filter says: with each chunk it has got; once there  *)
(* is no more, with an empty one, for as long as the filter has written    *)
(* something and says that it needs more data.                             *)
(***************************************************************************)
EXTENDS StreamResourceHandler, ResponseFilter

CONSTANT MaxOut  \* bound: size of the output buffer

ASSUME OutAssumption == MaxOut \in Nat \ {0}
ASSUME ContentsAssumption == Contents \subseteq Seq(Byte)

VARIABLES
    filter,  \* the filter's members
    last,    \* its status at the last call, and whether it wrote something
    page     \* what the page has got

vars == <<handlerVars, filter, last, page>>

Init ==
    /\ HandlerInit
    /\ filter = InitFilter
    /\ last = [status |-> "DONE", wrote |-> FALSE]
    /\ page = <<>>

-----------------------------------------------------------------------------
CallFilter(dataIn, outSize) ==
    LET r == Filter(filter, dataIn, outSize)
    IN /\ filter' = r.filter
       /\ page' = page \o r.out
       /\ last' = [status |-> r.status, wrote |-> r.out # <<>>]

FilterData(outSize) ==
    /\ response = "passing"
    /\ CallFilter(data, outSize)
    /\ data' = <<>>
    /\ response' = "ready"
    /\ UNCHANGED <<content, mayBlock, stream, buffer, fileRead, taken>>

OutputPending == last.status = "NEED_MORE_DATA" /\ last.wrote

FilterRest(outSize) ==
    /\ response = "ended" /\ OutputPending
    /\ CallFilter(<<>>, outSize)
    /\ UNCHANGED handlerVars

Complete ==
    /\ response = "ended" /\ ~OutputPending
    /\ response' = "complete"
    /\ UNCHANGED <<content, mayBlock, stream, buffer, fileRead, data, taken,
                   filter, last, page>>

IOThread ==
    \/ \E n \in 1..MaxRead : ReadResponse(n) /\ UNCHANGED <<filter, last, page>>
    \/ \E n \in 1..MaxOut : FilterData(n) \/ FilterRest(n)
    \/ Complete

FileThread == ReadOnFileThread /\ UNCHANGED <<filter, last, page>>

Next == IOThread \/ FileThread \/ (Cancel /\ UNCHANGED <<filter, last, page>>)

\* The FILE thread runs what is queued for it, and CEF goes on with a response.
Fairness == WF_vars(FileThread) /\ WF_vars(IOThread)

Spec == Init /\ [][Next]_vars /\ Fairness

-----------------------------------------------------------------------------
(* Properties.                                                             *)

\* What the filter was given and has not been given yet is what CEF took.
Filtered == SubSeq(taken, 1, Len(taken) - Len(data))

\* The page, the bytes that did not fit and the match that has begun.
Output == page \o filter.overflow \o Matched(filter)

\* In whatever pieces the bytes come and with whatever room for the output,
\* Output is the page with its FindStrings replaced.  Unless a part of a
\* FindString comes right before one: the filter starts over behind the byte
\* that does not match.  What a complete page may lack is the output that did
\* not fit the last time, or the match that has begun at its end, but not
\* both: while a match has begun, CEF comes again for the output.
ReplacedSoFar ==
    /\ response # "canceled" /\ ~FalseStart(Filtered) => Output = Replaced(Filtered)
    /\ response = "complete" => filter.overflow = <<>> \/ filter.offset = 0

\* A response ends, whether its bytes fill the last buffer or not.
ResponseEnds == <>(response \in {"complete", "canceled"})
=============================================================================
