----------------------- MODULE StreamResourceHandler -----------------------
(***************************************************************************)
(* CefStreamResourceHandler, which answers a request with the bytes of a   *)
(* stream.  CEF's IO thread asks for them, piece by piece (ReadResponse).  *)
(* A stream that may block is read by the FILE thread into a buffer: the   *)
(* IO thread gets nothing, is called back when the buffer is full, and     *)
(* takes the buffer's bytes in as many pieces as it likes.                 *)
(*                                                                         *)
(* CEF is external.  By the contract of CefResourceHandler it does not ask *)
(* again before it was called back, and may cancel at any time, with a     *)
(* read of the FILE thread still to come.                                  *)
(***************************************************************************)
EXTENDS Naturals, Sequences

CONSTANTS
    Contents,  \* what a stream may hold
    MaxRead    \* bound: bytes CEF asks for at a time

ASSUME ReadAssumption == MaxRead \in Nat \ {0}

VARIABLES
    content,   \* what is in the stream, from its beginning
    mayBlock,  \* read_on_file_thread_
    stream,    \* what is left of it to read
    buffer,    \* buffer_: its bytes, and how many of them are taken
    fileRead,  \* bytes the queued ReadOnFileThread is to read, 0: not queued
    response,  \* where CEF is with the response
    data,      \* what ReadResponse gave CEF and CEF still has to pass on
    taken      \* history: all that ReadResponse gave

handlerVars == <<content, mayBlock, stream, buffer, fileRead, response, data, taken>>

NoBuffer == [made |-> FALSE, bytes |-> <<>>, read |-> 0]

\* "ready": CEF may ask; "waiting": for Continue; "passing": it has data to
\* pass on; "ended": it was told that there is no more.
Response == {"ready", "waiting", "passing", "ended", "complete", "canceled"}

HandlerInit ==
    /\ content \in Contents
    /\ mayBlock \in BOOLEAN
    /\ stream = content
    /\ buffer = NoBuffer
    /\ fileRead = 0
    /\ response = "ready"
    /\ data = <<>> /\ taken = <<>>

First(n, s) == IF n < Len(s) THEN SubSeq(s, 1, n) ELSE s
Rest(n, s) == SubSeq(s, n + 1, Len(s))

-----------------------------------------------------------------------------
(* Buffer.                                                                 *)

\* Mutant: only a buffer of which nothing was taken.
CanReadMutant == buffer.read = 0 /\ buffer.bytes # <<>>

CanRead == buffer.read < Len(buffer.bytes)

\* Mutant: no buffer is empty.
IsEmptyMutant == FALSE

IsEmpty == buffer.made /\ buffer.bytes = <<>>

\* The next bytes, and the buffer that is left.
WriteTo(n) ==
    LET bytes == First(n, Rest(buffer.read, buffer.bytes))
    IN [bytes |-> bytes, left |-> [buffer EXCEPT !.read = @ + Len(bytes)]]

-----------------------------------------------------------------------------
(* The IO thread.                                                          *)

\* ReadResponse returns true with bytes, or false without.
Give(bytes) ==
    /\ data' = bytes
    /\ taken' = taken \o bytes
    /\ response' = IF bytes = <<>> THEN "ended" ELSE "passing"

ReadFromStream(n) ==
    /\ ~mayBlock
    /\ Give(First(n, stream))
    /\ stream' = Rest(n, stream)
    /\ UNCHANGED <<buffer, fileRead>>

ReadFromBuffer(n) ==
    /\ mayBlock
    /\ CanRead \/ IsEmpty
    /\ Give(WriteTo(n).bytes)
    /\ buffer' = WriteTo(n).left
    /\ UNCHANGED <<stream, fileRead>>

ReadLater(n) ==
    /\ mayBlock
    /\ ~CanRead /\ ~IsEmpty
    /\ fileRead' = n
    /\ response' = "waiting"
    /\ UNCHANGED <<stream, buffer, data, taken>>

ReadResponse(n) ==
    /\ response = "ready"
    /\ ReadFromStream(n) \/ ReadFromBuffer(n) \/ ReadLater(n)
    /\ UNCHANGED <<content, mayBlock>>

\* Nothing is done about a read that is queued.
Cancel ==
    /\ response \notin {"complete", "canceled"}
    /\ response' = "canceled"
    /\ data' = <<>>
    /\ UNCHANGED <<content, mayBlock, stream, buffer, fileRead, taken>>

-----------------------------------------------------------------------------
\* The FILE thread: Reset, ReadFrom until the buffer is full or the stream has
\* no more, and Continue, of which a canceled request takes no notice.
ReadOnFileThread ==
    /\ fileRead > 0
    /\ buffer' = [made |-> TRUE, bytes |-> First(fileRead, stream), read |-> 0]
    /\ stream' = Rest(fileRead, stream)
    /\ fileRead' = 0
    /\ response' = IF response = "waiting" THEN "ready" ELSE response
    /\ UNCHANGED <<content, mayBlock, data, taken>>

-----------------------------------------------------------------------------
(* Properties.                                                             *)

\* Bytes of the buffer that CEF has not taken.
Unread == Rest(buffer.read, buffer.bytes)

\* Nothing of the stream is lost, repeated or overtaken between the two
\* threads, however the sizes of the reads differ; it is said to be at its end
\* only when it is.  The buffer is the FILE thread's (the read is queued) only
\* while CEF waits or has canceled, and CEF does not wait for nothing.
StreamIntact ==
    /\ taken \o Unread \o stream = content
    /\ response \in {"ended", "complete"} => taken = content
    /\ buffer.read <= Len(buffer.bytes)
    /\ response # "canceled" => (fileRead > 0 <=> response = "waiting")
=============================================================================
