------------------------ MODULE MessageRouter_proofs ------------------------
(***************************************************************************)
(* Theorems about MessageRouter, for any handlers and any bounds.          *)
(***************************************************************************)
EXTENDS MessageRouter, SequenceTheorems, TLAPS

-----------------------------------------------------------------------------
(* Messages and queues.                                                    *)

Elements(s) == {s[i] : i \in DOMAIN s}

\* What kinds of messages there are, and when two are the same.
LEMMA MessageKinds ==
    ASSUME NEW m \in Message
    PROVE  /\ m.type \in {"query", "cancel", "terminated"}
           /\ m.type = "query" => m.query \in Query
           /\ m.type = "cancel" => m.context \in Context /\ m.request \in Request \cup {AllRequests}
           /\ \A q : m = [type |-> "query", query |-> q] <=> m.type = "query" /\ m.query = q
           /\ \A c, r : m = [type |-> "cancel", context |-> c, request |-> r]
                          <=> m.type = "cancel" /\ m.context = c /\ m.request = r
           /\ m = [type |-> "terminated"] <=> m.type = "terminated"
<1>1. CASE m \in [type : {"query"}, query : Query]
  BY <1>1
<1>2. CASE m \in [type : {"cancel"}, context : Context, request : Request \cup {AllRequests}]
  BY <1>2
<1>3. CASE m \in [type : {"terminated"}]
  BY <1>3
<1> QED
  BY <1>1, <1>2, <1>3 DEF Message

\* Posting to a queue.
LEMMA Posting ==
    ASSUME NEW S, NEW s \in Seq(S), NEW m \in S
    PROVE  /\ Append(s, m) \in Seq(S)
           /\ Append(s, m) # <<>>
           /\ Len(Append(s, m)) = Len(s) + 1
           /\ DOMAIN Append(s, m) = 1..(Len(s) + 1)
           /\ DOMAIN s = 1..Len(s) /\ Len(s) \in Nat
           /\ \A i \in DOMAIN s : Append(s, m)[i] = s[i]
           /\ Append(s, m)[Len(s) + 1] = m
           /\ Elements(Append(s, m)) = Elements(s) \cup {m}
<1>1. /\ Append(s, m) \in Seq(S)
      /\ Append(s, m) # <<>>
      /\ Len(Append(s, m)) = Len(s) + 1
      /\ DOMAIN Append(s, m) = 1..(Len(s) + 1)
      /\ DOMAIN s = 1..Len(s) /\ Len(s) \in Nat
      /\ \A i \in DOMAIN s : Append(s, m)[i] = s[i]
      /\ Append(s, m)[Len(s) + 1] = m
  OBVIOUS
<1> QED
  BY <1>1 DEF Elements

\* Taking the oldest element.
LEMMA Taking ==
    ASSUME NEW S, NEW s \in Seq(S), s # <<>>
    PROVE  /\ Head(s) \in S /\ Head(s) = s[1] /\ Tail(s) \in Seq(S)
           /\ Len(s) \in Nat \ {0} /\ Len(Tail(s)) = Len(s) - 1
           /\ DOMAIN s = 1..Len(s) /\ DOMAIN Tail(s) = 1..(Len(s) - 1)
           /\ \A i \in DOMAIN Tail(s) : i + 1 \in DOMAIN s /\ Tail(s)[i] = s[i + 1]
           /\ \A i \in DOMAIN s : i = 1 \/ (i - 1 \in DOMAIN Tail(s) /\ Tail(s)[i - 1] = s[i])
           /\ Elements(s) = {Head(s)} \cup Elements(Tail(s))
<1>1. /\ Head(s) \in S /\ Head(s) = s[1] /\ Tail(s) \in Seq(S)
      /\ Len(s) \in Nat \ {0} /\ Len(Tail(s)) = Len(s) - 1
      /\ DOMAIN s = 1..Len(s) /\ DOMAIN Tail(s) = 1..(Len(s) - 1)
      /\ \A i \in DOMAIN Tail(s) : i + 1 \in DOMAIN s /\ Tail(s)[i] = s[i + 1]
  BY EmptySeq, HeadTailProperties
<1>2. \A i \in DOMAIN s : i = 1 \/ (i - 1 \in DOMAIN Tail(s) /\ Tail(s)[i - 1] = s[i])
  BY <1>1
<1>3. Elements(s) = {Head(s)} \cup Elements(Tail(s))
  <2> DEFINE t == Tail(s)
             h == Head(s)
  <2>1. \A i \in DOMAIN t : i + 1 \in DOMAIN s /\ t[i] = s[i + 1]
    BY <1>1
  <2>2. \A i \in DOMAIN s : s[i] = h \/ (i - 1 \in DOMAIN t /\ t[i - 1] = s[i])
    BY <1>1, <1>2
  <2>3. 1 \in DOMAIN s /\ s[1] = h
    BY <1>1
  <2> HIDE DEF t, h
  <2>4. Elements(s) = {h} \cup Elements(t)
    BY <2>1, <2>2, <2>3 DEF Elements
  <2> QED
    BY <2>4 DEF t, h
<1> QED
  BY <1>1, <1>2, <1>3

-----------------------------------------------------------------------------
(* Types.                                                                  *)

\* TypeOK, and that the IDs of what was not made are not in use.
TypeInv ==
    /\ TypeOK
    /\ \A q \in Query : q <= made => process[q] \in Process /\ key[q] \in Context \X Request
    /\ \A q \in registered : q <= made

LEMMA AnswerOK ==
    ASSUME TypeOK, NEW T \in SUBSET Query, NEW o \in Outcome, Answer(T, o)
    PROVE  answers' \in [Process -> [Query -> Seq(Outcome)]]
<1>1. \A p \in Process, q \in Query : answers[p][q] \in Seq(Outcome)
  BY DEF TypeOK
<1>2. \A p \in Process, q \in Query : Append(answers[p][q], o) \in Seq(Outcome)
  BY <1>1
<1> QED
  BY <1>1, <1>2 DEF Answer

LEMMA PagesGoneOK ==
    ASSUME TypeOK, NEW P, PagesGone(P)
    PROVE  /\ answers' \in [Process -> [Query -> Seq(Outcome)]]
           /\ contexts' \in [Process -> SUBSET Context]
           /\ alive' \subseteq Process /\ registered' \subseteq registered
<1>1. <<>> \in Seq(Outcome)
  OBVIOUS
<1> QED
  BY <1>1 DEF PagesGone, TypeOK

LEMMA PendingOK ==
    ASSUME TypeOK
    PROVE  Pending \subseteq Query
  BY DEF TypeOK, Pending

LEMMA CancelQueriesOK ==
    ASSUME TypeOK, NEW T \in SUBSET Query, NEW notify \in BOOLEAN, CancelQueries(T, notify)
    PROVE  /\ answers' \in [Process -> [Query -> Seq(Outcome)]]
           /\ pending' \in [Handler -> SUBSET Query]
           /\ told' \subseteq Query
           /\ attached' \subseteq Query
<1>1. answers' \in [Process -> [Query -> Seq(Outcome)]]
  <2>1. (IF notify THEN T ELSE {}) \in SUBSET Query /\ "failure" \in Outcome
    BY DEF Outcome
  <2> QED
    BY <2>1, AnswerOK DEF CancelQueries
<1> QED
  BY <1>1 DEF CancelQueries, TypeOK

LEMMA SentOK ==
    ASSUME TypeOK, NEW p \in Process, NEW m \in Message, UNCHANGED toBrowser \/ SendToBrowser(p, m)
    PROVE  toBrowser' \in [Process -> Seq(Message)]
<1>1. Append(toBrowser[p], m) \in Seq(Message)
  BY DEF TypeOK
<1> QED
  BY <1>1 DEF SendToBrowser, TypeOK

LEMMA CanceledByMessage ==
    ASSUME NEW m, CancelPendingRequest(m)
    PROVE  \E T \in SUBSET Pending : CancelQueries(T, FALSE)
  BY DEF CancelPendingRequest

LEMMA TypeStep ==
    ASSUME TypeInv, [Next]_vars
    PROVE  TypeInv'
<1> USE DEF TypeInv, TypeOK
<1>b. MaxQueries \in Nat /\ MaxContexts \in Nat /\ MaxProcesses \in Nat
  BY BoundAssumption
<1>1. CASE UNCHANGED vars
  BY <1>1 DEF vars, pageVars, queryVars, browserVars
<1>2. ASSUME NEW p \in Process, NEW c \in Context, NEW b \in BOOLEAN, SendQuery(p, c, b)
      PROVE  TypeInv'
  <2>1. made + 1 \in Query /\ [type |-> "query", query |-> made + 1] \in Message
    BY <1>2, <1>b DEF SendQuery, Query, Message
  <2>2. toBrowser' \in [Process -> Seq(Message)]
    BY <1>2, <2>1 DEF SendQuery, SendToBrowser
  <2>3. /\ made' = made + 1 /\ made' \in 0..MaxQueries
        /\ nextRequest[p] + 1 \in 1..MaxQueries
        /\ nextRequest' \in [Process -> 0..made']
    BY <1>2, <1>b DEF SendQuery
  <2>4. <<c, nextRequest[p] + 1>> \in Context \X Request
    BY <2>3 DEF Request
  <2>5. /\ key' \in [Query -> (Context \X Request) \cup {NoKey}]
        /\ process' \in [Query -> Process \cup {0}]
        /\ \A q \in Query : q <= made' => process'[q] \in Process /\ key'[q] \in Context \X Request
    <3>1. \A q \in Query : q <= made' => q = made + 1 \/ q <= made
      BY <2>3, <1>b DEF Query
    <3>2. /\ key' = [key EXCEPT ![made + 1] = <<c, nextRequest[p] + 1>>]
          /\ process' = [process EXCEPT ![made + 1] = p]
      BY <1>2 DEF SendQuery
    <3> QED
      BY <2>1, <2>4, <3>1, <3>2
  <2>6. nextContext' \in [Process -> 0..MaxContexts] /\ contexts' \in [Process -> SUBSET Context]
    BY <1>2, <1>b DEF SendQuery, Context
  <2>7. /\ persistent' \subseteq Query /\ registered' \subseteq Query
        /\ \A q \in registered' : q <= made'
    <3>1. /\ persistent' \in {persistent, persistent \cup {made + 1}}
          /\ registered' = registered \cup {made + 1}
      BY <1>2 DEF SendQuery
    <3>2. \A q \in registered : q <= made + 1
      BY <1>b DEF Query
    <3> QED
      BY <2>1, <2>3, <3>1, <3>2
  <2>8. UNCHANGED <<current, alive, left, answers, queryVars, browserVars>>
    BY <1>2 DEF SendQuery
  <2> QED
    BY <2>2, <2>3, <2>5, <2>6, <2>7, <2>8 DEF queryVars, browserVars
<1>3. ASSUME NEW q \in Query, CancelRequest(q)
      PROVE  TypeInv'
  <2>1. key[q][1] \in Context /\ key[q][2] \in Request
    BY <1>3 DEF CancelRequest
  <2>2. [type |-> "cancel", context |-> key[q][1], request |-> key[q][2]] \in Message
    BY <2>1 DEF Message
  <2>3. toBrowser' \in [Process -> Seq(Message)]
    BY <1>3, <2>2 DEF CancelRequest, SendToBrowser
  <2> QED
    BY <1>3, <2>3 DEF CancelRequest, queryVars, browserVars
<1>4. ASSUME NEW p \in Process, NEW q \in Query, ExecuteCallback(p, q)
      PROVE  TypeInv'
  <2>1. Tail(answers[p][q]) \in Seq(Outcome)
    BY <1>4, Taking DEF ExecuteCallback
  <2>2. answers' \in [Process -> [Query -> Seq(Outcome)]]
    BY <1>4, <2>1 DEF ExecuteCallback
  <2> QED
    BY <1>4, <2>2 DEF ExecuteCallback, queryVars, browserVars
<1>5. ASSUME NEW p \in Process, NEW c \in Context, OnContextReleased(p, c)
      PROVE  TypeInv'
  <2>1. [type |-> "cancel", context |-> c, request |-> AllRequests] \in Message
    BY DEF Message
  <2>2. toBrowser' \in [Process -> Seq(Message)]
    BY <1>5, <2>1, SentOK DEF OnContextReleased
  <2> QED
    BY <1>5, <2>2 DEF OnContextReleased, queryVars, browserVars
<1>6. ASSUME NEW p \in Process, RendererGone(p)
      PROVE  TypeInv'
  <2>1. [type |-> "terminated"] \in Message
    BY DEF Message
  <2>2. toBrowser' \in [Process -> Seq(Message)]
    BY <1>6, <2>1, SentOK DEF RendererGone
  <2>3. /\ answers' \in [Process -> [Query -> Seq(Outcome)]]
        /\ contexts' \in [Process -> SUBSET Context]
        /\ alive' \subseteq Process /\ registered' \subseteq registered
    BY <1>6, PagesGoneOK DEF RendererGone
  <2> QED
    BY <1>6, <2>2, <2>3 DEF RendererGone, queryVars, browserVars
<1>7. CASE CommitInNewProcess
  <2>1. current' \in Nat /\ left' \subseteq Process /\ alive' \subseteq Process
    BY <1>7, <1>b DEF CommitInNewProcess, Process
  <2> QED
    BY <1>7, <2>1 DEF CommitInNewProcess, queryVars
<1>8. ASSUME NEW p \in Process, ReceiveQuery(p)
      PROVE  TypeInv'
  <2>1. toBrowser' \in [Process -> Seq(Message)] /\ Head(toBrowser[p]).query \in Query
    <3>1. Tail(toBrowser[p]) \in Seq(Message) /\ Head(toBrowser[p]).query \in Query
      BY <1>8, Taking, MessageKinds DEF ReceiveQuery, Receive
    <3> QED
      BY <1>8, <3>1 DEF ReceiveQuery, Receive
  <2>2. CASE handlerSet = {}
    <3>1. Answer({Head(toBrowser[p]).query}, "failure") /\ "failure" \in Outcome
      BY <1>8, <2>2 DEF ReceiveQuery, Outcome
    <3>2. answers' \in [Process -> [Query -> Seq(Outcome)]]
      BY <2>1, <3>1, AnswerOK
    <3> QED
      BY <1>8, <2>1, <2>2, <3>2 DEF ReceiveQuery, pageVars, browserVars
  <2>3. CASE handlerSet # {}
    BY <1>8, <2>1, <2>3 DEF ReceiveQuery, pageVars, browserVars
  <2> QED
    BY <2>2, <2>3
<1>9. ASSUME NEW p \in Process, ReceiveCancel(p)
      PROVE  TypeInv'
  <2>1. toBrowser' \in [Process -> Seq(Message)]
    BY <1>9, Taking DEF ReceiveCancel, Receive
  <2>2. PICK T \in SUBSET Query : CancelQueries(T, FALSE)
    BY <1>9, CanceledByMessage, PendingOK DEF ReceiveCancel
  <2> QED
    BY <1>9, <2>1, <2>2, CancelQueriesOK DEF ReceiveCancel, pageVars, browserVars
<1>10. ASSUME NEW p \in Process, OnRenderProcessTerminated(p)
       PROVE  TypeInv'
  <2>1. toBrowser' \in [Process -> Seq(Message)]
    BY <1>10, Taking DEF OnRenderProcessTerminated, Receive
  <2>2. PICK T \in SUBSET Query : CancelQueries(T, FALSE)
    BY <1>10, PendingOK DEF OnRenderProcessTerminated, CancelAllPending
  <2> QED
    BY <1>10, <2>1, <2>2, CancelQueriesOK DEF OnRenderProcessTerminated, pageVars, browserVars
<1>11. ASSUME NEW h \in Handler, Decline(h)
       PROVE  TypeInv'
  <2>1. asking.query \in Query /\ asking.left \in SUBSET Handler
    BY <1>11 DEF Decline, NotAsking
  <2>2. answers' \in [Process -> [Query -> Seq(Outcome)]]
    <3>1. "failure" \in Outcome
      BY DEF Outcome
    <3> QED
      BY <1>11, <2>1, <3>1, AnswerOK DEF Decline
  <2>3. asking' \in [query : Query, left : (SUBSET Handler) \ {{}}] \cup {NotAsking}
    BY <1>11, <2>1 DEF Decline, NotAsking
  <2> QED
    BY <1>11, <2>1, <2>2, <2>3 DEF Decline, pageVars, browserVars
<1>12. ASSUME NEW h \in Handler, Accept(h)
       PROVE  TypeInv'
  <2>1. asking.query \in Query
    BY <1>12 DEF Accept, NotAsking
  <2>2. pending' \in [Handler -> SUBSET Query] /\ asking' = NotAsking
    BY <1>12, <2>1 DEF Accept
  <2>3. /\ posted' \in [Query -> Seq(Task)]
        /\ attached' \subseteq Query /\ holds' \subseteq Query
    <3>1. \A o \in Outcome : <<"router", o>> \in Task
      BY DEF Task
    <3>2. <<>> \in Seq(Task)
      OBVIOUS
    <3>3. \A o \in Outcome : Append(<<>>, <<"router", o>>) \in Seq(Task)
      BY <3>1, <3>2, Posting
    <3>4. CASE holds' = holds \cup {asking.query} /\ UNCHANGED <<posted, attached>>
      BY <2>1, <3>4
    <3>5. ASSUME NEW o \in Outcome, Call(asking.query, o, <<>>),
                 holds' = IF Final(asking.query, o) THEN holds ELSE holds \cup {asking.query}
          PROVE  /\ posted' \in [Query -> Seq(Task)]
                 /\ attached' \subseteq Query /\ holds' \subseteq Query
      BY <2>1, <3>2, <3>3, <3>5 DEF Call
    <3> QED
      BY <1>12, <3>4, <3>5 DEF Accept
  <2> QED
    BY <1>12, <2>2, <2>3 DEF Accept, pageVars, browserVars
<1>13. ASSUME NEW h \in Handler, AddHandler(h)
       PROVE  TypeInv'
  BY <1>13 DEF AddHandler, pageVars, queryVars
<1>14. ASSUME NEW h \in Handler, RemoveHandler(h)
       PROVE  TypeInv'
  <2>1. pending[h] \in SUBSET Query /\ CancelQueries(pending[h], TRUE)
    BY <1>14 DEF RemoveHandler, CancelPendingFor
  <2> QED
    BY <1>14, <2>1, CancelQueriesOK DEF RemoveHandler, pageVars
<1>15. CASE OnBeforeBrowse
  <2>1. Pending \in SUBSET Query /\ CancelQueries(Pending, FALSE)
    BY <1>15, PendingOK DEF OnBeforeBrowse, CancelAllPending
  <2> QED
    BY <1>15, <2>1, CancelQueriesOK DEF OnBeforeBrowse, pageVars, browserVars
<1>16. ASSUME NEW T \in SUBSET Handler, CancelPending(T)
       PROVE  TypeInv'
  <2>1. PICK U \in SUBSET Query : CancelQueries(U, TRUE)
    <3>1. UNION {pending[h] : h \in T} \in SUBSET Query
      OBVIOUS
    <3> QED
      BY <1>16, <3>1 DEF CancelPending
  <2> QED
    BY <1>16, <2>1, CancelQueriesOK DEF CancelPending, pageVars, browserVars
<1>17. ASSUME NEW q \in Query, RunCallback(q)
       PROVE  TypeInv'
  <2>1. Head(posted[q]) \in Task /\ Tail(posted[q]) \in Seq(Task)
    BY <1>17, Taking DEF RunCallback
  <2>2. Append(Tail(posted[q]), <<"router", Head(posted[q])[2]>>) \in Seq(Task)
    <3>1. <<"router", Head(posted[q])[2]>> \in Task
      BY <2>1 DEF Task
    <3> QED
      BY <2>1, <3>1
  <2> QED
    BY <1>17, <2>1, <2>2 DEF RunCallback, Call, pageVars, browserVars
<1>18. ASSUME NEW q \in Query, OnCallback(q)
       PROVE  TypeInv'
  <2>1. Head(posted[q]) \in Task /\ Tail(posted[q]) \in Seq(Task)
    BY <1>18, Taking DEF OnCallback
  <2>2. Head(posted[q])[2] \in Outcome
    BY <2>1 DEF Task
  <2>3. answers' \in [Process -> [Query -> Seq(Outcome)]]
    BY <1>18, <2>2, AnswerOK DEF OnCallback
  <2> QED
    BY <1>18, <2>1, <2>3 DEF OnCallback, pageVars, browserVars
<1>19. CASE OnBeforeClose
  <2>1. toBrowser' \in [Process -> Seq(Message)]
    BY <1>19 DEF OnBeforeClose
  <2>2. /\ answers' \in [Process -> [Query -> Seq(Outcome)]]
        /\ contexts' \in [Process -> SUBSET Context]
        /\ alive' \subseteq Process /\ registered' \subseteq registered
    BY <1>19, PagesGoneOK DEF OnBeforeClose
  <2>3. /\ pending' \in [Handler -> SUBSET Query]
        /\ told' \subseteq Query /\ attached' \subseteq Query
    BY <1>19 DEF OnBeforeClose
  <2> QED
    BY <1>19, <2>1, <2>2, <2>3 DEF OnBeforeClose
<1>20. ASSUME NEW q \in Query, NEW o \in Outcome, HandlerAnswers(q, o)
       PROVE  TypeInv'
  <2>1. posted[q] \in Seq(Task) /\ <<"router", o>> \in Task /\ <<"callback", o>> \in Task
    BY DEF Task
  <2>2. Append(posted[q], <<"router", o>>) \in Seq(Task) /\ Append(posted[q], <<"callback", o>>) \in Seq(Task)
    BY <2>1
  <2> QED
    BY <1>20, <2>1, <2>2 DEF HandlerAnswers, Call, pageVars, browserVars
<1> QED
  BY <1>1, <1>2, <1>3, <1>4, <1>5, <1>6, <1>7, <1>8, <1>9, <1>10, <1>11, <1>12, <1>13,
     <1>14, <1>15, <1>16, <1>17, <1>18, <1>19, <1>20
     DEF Next, Page, Browser, ReceiveMessage, HandlerStep

LEMMA TypeInit ==
    ASSUME Init
    PROVE  TypeInv
<1>b. MaxQueries \in Nat /\ MaxContexts \in Nat /\ MaxProcesses \in Nat
  BY BoundAssumption
<1>1. <<>> \in Seq(Message) /\ <<>> \in Seq(Outcome) /\ <<>> \in Seq(Task)
  OBVIOUS
<1>2. /\ answers \in [Process -> [Query -> Seq(Outcome)]]
      /\ toBrowser \in [Process -> Seq(Message)]
      /\ posted \in [Query -> Seq(Task)]
      /\ pending \in [Handler -> SUBSET Query]
      /\ key \in [Query -> (Context \X Request) \cup {NoKey}]
      /\ process \in [Query -> Process \cup {0}]
      /\ contexts \in [Process -> SUBSET Context]
  BY <1>1 DEF Init
<1>3. /\ nextContext \in [Process -> 0..MaxContexts] /\ nextRequest \in [Process -> 0..made]
      /\ made \in 0..MaxQueries /\ current \in Nat
      /\ \A q \in Query : ~(q <= made)
  BY <1>b DEF Init, Query
<1> QED
  BY <1>2, <1>3 DEF Init, TypeInv, TypeOK

LEMMA TypeInvariant == Spec => []TypeInv
<1>1. TypeInv /\ [Next]_vars => TypeInv'
  BY TypeStep
<1> QED
  BY <1>1, TypeInit, PTL DEF Spec

\* The values of the variables, for any handlers and any bounds.
THEOREM TypeCorrect == Spec => []TypeOK
  BY TypeInvariant, PTL DEF TypeInv

-----------------------------------------------------------------------------
(* A query in the browser process.                                         *)

\* A task that will use the query up is posted to the router.
HasFinal(s, q) == \E i \in DOMAIN s : s[i][1] = "router" /\ Final(q, s[i][2])

\* No last answer to q is on its way; no answer at all.
Unanswered(q) == \A p \in Process : Ends(p, q) = {}
NoAnswers(q) == \A p \in Process : answers[p][q] = <<>>

\* An answer on its way to q, and then none: neither to that process nor to a
\* later one, and nothing to a process that does not show the page yet.
Ordered(q) ==
    /\ \A p \in Process : Ends(p, q) \subseteq {Len(answers[p][q])}
    /\ \A p, n \in Process : Ends(p, q) # {} /\ n > p => answers[n][q] = <<>>
    /\ \A p \in Process : p > current => answers[p][q] = <<>>

\* The browser process has not seen q.
Fresh(q) ==
    /\ q \notin InBrowser \cup attached \cup told \cup holds
    /\ posted[q] = <<>> /\ NoAnswers(q)

\* A query is seen when it arrives, and not before it was made; from the
\* offer to its outcome its Callback works or has posted the outcome; and it
\* has no outcome as long as it is in the browser process.
QueryInv(q) ==
    /\ q > made \/ InTransit(q) => Fresh(q)
    /\ q > made => ~InTransit(q)
    /\ asking.query = q => q \in attached \ Pending
    /\ q \in told => q \notin InBrowser \cup attached
    /\ q \in attached => q \in InBrowser /\ ~HasFinal(posted[q], q)
    /\ q \in Pending \ attached => HasFinal(posted[q], q)
    /\ Ordered(q)
    /\ q \in InBrowser => Unanswered(q)

SameAnswers(q) == \A p \in Process : answers'[p][q] = answers[p][q]

\* Nothing about q changes, but that it may have arrived.
Same(q) ==
    /\ q \in Pending' <=> q \in Pending
    /\ q \in attached' <=> q \in attached
    /\ q \in told' <=> q \in told
    /\ q \in holds' <=> q \in holds
    /\ q \in persistent' <=> q \in persistent
    /\ posted'[q] = posted[q] /\ SameAnswers(q)
    /\ asking'.query = q <=> asking.query = q
    /\ InTransit(q)' => InTransit(q)
    /\ q > made' => q > made
    /\ \A p \in Process : p > current' => p > current

LEMMA InBrowserQuery ==
    ASSUME NEW q \in Query
    PROVE  q \in InBrowser <=> q \in Pending \/ asking.query = q
  BY BoundAssumption DEF InBrowser, Query

LEMMA SameQuery ==
    ASSUME NEW q \in Query, QueryInv(q), Same(q)
    PROVE  QueryInv(q)'
<1>1. (q \in InBrowser)' <=> q \in InBrowser
  BY BoundAssumption DEF InBrowser, Query, Same
<1>2. (\A s : HasFinal(s, q)' <=> HasFinal(s, q)) /\ \A p \in Process : Ends(p, q)' = Ends(p, q)
  BY DEF HasFinal, Ends, Final, Same, SameAnswers
<1> HIDE DEF Query, Process
<1>3. /\ Ordered(q)' /\ (NoAnswers(q) => NoAnswers(q)') /\ (Unanswered(q) => Unanswered(q)')
  BY <1>2 DEF QueryInv, Ordered, Same, SameAnswers, NoAnswers, Unanswered
<1> QED
  BY <1>1, <1>2, <1>3 DEF QueryInv, Same, Fresh

LEMMA AnswerAdded ==
    ASSUME TypeOK, NEW p \in Process, NEW q \in Query, NEW o \in Outcome,
           answers'[p][q] = Append(answers[p][q], o), UNCHANGED persistent
    PROVE  /\ Ends(p, q)' = Ends(p, q) \cup {i \in {Len(answers[p][q]) + 1} : Final(q, o)}
           /\ Len(answers'[p][q]) = Len(answers[p][q]) + 1
           /\ answers'[p][q] # <<>>
<1>1. answers[p][q] \in Seq(Outcome)
  BY DEF TypeOK
<1> DEFINE s == answers[p][q]
<1>2. /\ Append(s, o) # <<>>
      /\ Len(Append(s, o)) = Len(s) + 1
      /\ DOMAIN Append(s, o) = 1..(Len(s) + 1)
      /\ DOMAIN s = 1..Len(s) /\ Len(s) \in Nat
      /\ \A i \in DOMAIN s : Append(s, o)[i] = s[i]
      /\ Append(s, o)[Len(s) + 1] = o
  BY <1>1, Posting
<1> QED
  BY <1>2 DEF Ends, Final

LEMMA AnswerTaken ==
    ASSUME TypeOK, NEW p \in Process, NEW q \in Query, answers[p][q] # <<>>,
           answers'[p][q] = Tail(answers[p][q]), UNCHANGED persistent
    PROVE  /\ Ends(p, q) \subseteq {Len(answers[p][q])} => Ends(p, q)' \subseteq {Len(answers'[p][q])}
           /\ Ends(p, q) = {} => Ends(p, q)' = {}
           /\ Ends(p, q) # {} => Final(q, Head(answers[p][q])) \/ Ends(p, q)' # {}
           /\ Final(q, Head(answers[p][q])) => Ends(p, q) # {}
<1>1. answers[p][q] \in Seq(Outcome)
  BY DEF TypeOK
<1> DEFINE s == answers[p][q]
           t == Tail(s)
<1>2. /\ Head(s) = s[1]
      /\ Len(s) \in Nat \ {0} /\ Len(t) = Len(s) - 1
      /\ DOMAIN s = 1..Len(s) /\ DOMAIN t = 1..(Len(s) - 1)
      /\ \A i \in DOMAIN t : i + 1 \in DOMAIN s /\ t[i] = s[i + 1]
      /\ \A i \in DOMAIN s : i = 1 \/ (i - 1 \in DOMAIN t /\ t[i - 1] = s[i])
  BY <1>1, Taking
<1>3. Ends(p, q)' = {i \in DOMAIN t : Final(q, t[i])} /\ Ends(p, q) = {i \in DOMAIN s : Final(q, s[i])}
  BY DEF Ends, Final
<1>4. \A i \in Ends(p, q)' : i + 1 \in Ends(p, q)
  BY <1>2, <1>3
<1>5. \A i \in Ends(p, q) : i = 1 \/ i - 1 \in Ends(p, q)'
  BY <1>2, <1>3
<1>6. Final(q, Head(s)) <=> 1 \in Ends(p, q)
  BY <1>2, <1>3
<1>7. answers'[p][q] = t /\ Ends(p, q)' \subseteq Nat
  BY <1>2, <1>3
<1> HIDE DEF t, s
<1>8. Ends(p, q) \subseteq {Len(s)} => Ends(p, q)' \subseteq {Len(t)}
  BY <1>2, <1>4, <1>7
<1> QED
  BY <1>4, <1>5, <1>6, <1>7, <1>8 DEF s

\* An answer does not concern the other queries, ...
LEMMA AnswerElse ==
    ASSUME NEW T, NEW o, Answer(T, o), TypeOK, NEW q \in Query, q \notin T
    PROVE  SameAnswers(q)
  BY DEF Answer, SameAnswers

\* ... and goes to the process that shows the page.
LEMMA AnswerTo ==
    ASSUME NEW T, NEW o, Answer(T, o), NEW q \in Query, q \in T
    PROVE  \A p \in Process : answers'[p][q] = IF p = current /\ p \in alive
                                               THEN Append(answers[p][q], o) ELSE answers[p][q]
  BY DEF Answer

\* A failure or a last answer, for a query that had none.
LEMMA LastAnswer ==
    ASSUME TypeOK, NEW q \in Query, NEW o \in Outcome, NEW T, Answer(T, o),
           Ordered(q), Unanswered(q), UNCHANGED <<persistent, current>>
    PROVE  /\ Ordered(q)'
           /\ ~Final(q, o) \/ q \notin T => Unanswered(q)'
<1>1. CASE q \notin T
  <2>1. SameAnswers(q)
    BY <1>1, AnswerElse
  <2>2. \A p \in Process : Ends(p, q)' = Ends(p, q)
    BY <2>1 DEF Ends, Final, SameAnswers
  <2> HIDE DEF Process
  <2> QED
    BY <2>1, <2>2 DEF Ordered, Unanswered, SameAnswers
<1>2. CASE q \in T
  <2>1. \A p \in Process : answers'[p][q] = IF p = current /\ p \in alive
                                            THEN Append(answers[p][q], o) ELSE answers[p][q]
    BY <1>2, AnswerTo
  <2>2. \A p \in Process : p # current => answers'[p][q] = answers[p][q] /\ Ends(p, q)' = {}
    BY <2>1 DEF Ends, Final, Unanswered
  <2>3. ASSUME current \in Process
        PROVE  /\ Ends(current, q)' \subseteq {Len(answers'[current][q])}
               /\ ~Final(q, o) => Ends(current, q)' = {}
    <3>1. CASE answers'[current][q] = answers[current][q]
      BY <2>3, <3>1 DEF Ends, Final, Unanswered
    <3>2. CASE answers'[current][q] = Append(answers[current][q], o)
      BY <2>3, <3>2, AnswerAdded DEF Unanswered
    <3> QED
      BY <2>1, <2>3, <3>1, <3>2
  <2>4. ASSUME NEW p \in Process
        PROVE  p > current => p # current
    BY DEF TypeOK, Process
  <2> HIDE DEF Process
  <2>5. ASSUME NEW p \in Process
        PROVE  Ends(p, q)' \subseteq {Len(answers'[p][q])}
    BY <2>2, <2>3, UNCHANGED current
  <2>6. Ordered(q)'
    BY <2>2, <2>4, <2>5, UNCHANGED current DEF Ordered
  <2>7. ~Final(q, o) => Unanswered(q)'
    BY <2>2, <2>3, UNCHANGED current DEF Unanswered
  <2> QED
    BY <1>2, <2>6, <2>7
<1> QED
  BY <1>1, <1>2

\* Answers to q are lost.
LEMMA AnswersLost ==
    ASSUME NEW q \in Query, Ordered(q), UNCHANGED <<persistent, current>>,
           \A p \in Process : answers'[p][q] \in {<<>>, answers[p][q]}
    PROVE  /\ Ordered(q)'
           /\ Unanswered(q) => Unanswered(q)'
           /\ NoAnswers(q) => NoAnswers(q)'
<1>1. \A p \in Process : \/ Ends(p, q)' = {}
                         \/ Ends(p, q)' = Ends(p, q) /\ answers'[p][q] = answers[p][q]
  BY DEF Ends, Final
<1> HIDE DEF Process
<1> QED
  BY <1>1 DEF Ordered, Unanswered, NoAnswers

LEMMA TaskAdded ==
    ASSUME NEW q, NEW s \in Seq(Task), NEW t \in Task
    PROVE  HasFinal(Append(s, t), q) <=> HasFinal(s, q) \/ (t[1] = "router" /\ Final(q, t[2]))
<1>1. /\ DOMAIN Append(s, t) = 1..(Len(s) + 1)
      /\ DOMAIN s = 1..Len(s) /\ Len(s) \in Nat
      /\ \A i \in DOMAIN s : Append(s, t)[i] = s[i]
      /\ Append(s, t)[Len(s) + 1] = t
  BY Posting
<1> QED
  BY <1>1 DEF HasFinal

LEMMA TaskTaken ==
    ASSUME NEW q, NEW s \in Seq(Task), s # <<>>
    PROVE  HasFinal(s, q) <=> HasFinal(Tail(s), q) \/ (Head(s)[1] = "router" /\ Final(q, Head(s)[2]))
<1> DEFINE t == Tail(s)
           h == Head(s)
<1>1. /\ h = s[1] /\ 1 \in DOMAIN s
      /\ \A i \in DOMAIN t : i + 1 \in DOMAIN s /\ t[i] = s[i + 1]
      /\ \A i \in DOMAIN s : i = 1 \/ (i - 1 \in DOMAIN t /\ t[i - 1] = s[i])
  BY Taking
<1> HIDE DEF t, h
<1>2. HasFinal(s, q) <=> HasFinal(t, q) \/ (h[1] = "router" /\ Final(q, h[2]))
  BY <1>1 DEF HasFinal
<1> QED
  BY <1>2 DEF t, h

\* No query is sent twice, or by another process than its own; and none has two
\* handlers.
SentOnce ==
    \A p \in Process : \A i \in DOMAIN toBrowser[p] :
       toBrowser[p][i].type = "query" =>
          /\ process[toBrowser[p][i].query] = p
          /\ \A j \in DOMAIN toBrowser[p] :
                toBrowser[p][j].type = "query" /\ toBrowser[p][j].query = toBrowser[p][i].query
                => i = j
OneHandler == \A g, h \in Handler : g # h => pending[g] \cap pending[h] = {}

BrowserInv ==
    /\ \A q \in Query : QueryInv(q)
    /\ SentOnce
    /\ OneHandler

\* A query in a queue, by its place there.
Carries(s, q) == \E i \in DOMAIN s : s[i].type = "query" /\ s[i].query = q

LEMMA Transit ==
    ASSUME TypeOK, NEW q
    PROVE  InTransit(q) <=> \E p \in Process : Carries(toBrowser[p], q)
<1>1. \A p \in Process : \A i \in DOMAIN toBrowser[p] : toBrowser[p][i] \in Message
  BY DEF TypeOK
<1>2. \A p \in Process : \A i \in DOMAIN toBrowser[p] :
         toBrowser[p][i] = [type |-> "query", query |-> q]
            <=> toBrowser[p][i].type = "query" /\ toBrowser[p][i].query = q
  BY <1>1, MessageKinds
<1> QED
  BY <1>2 DEF InTransit, Queued, Carries

\* ... and its process.
LEMMA TransitOf ==
    ASSUME TypeOK, SentOnce, NEW q, NEW p \in Process, Carries(toBrowser[p], q)
    PROVE  process[q] = p
  BY DEF SentOnce, Carries

LEMMA TransitSame ==
    ASSUME UNCHANGED <<toBrowser, process>>
    PROVE  /\ SentOnce => SentOnce'
           /\ \A q : InTransit(q)' <=> InTransit(q)
           /\ \A p : Queued(p)' = Queued(p)
  BY DEF SentOnce, InTransit, Queued

\* The oldest message of p is taken.
LEMMA Received ==
    ASSUME TypeOK, TypeOK', SentOnce, NEW p \in Process, NEW type, Receive(p, type), UNCHANGED process
    PROVE  /\ Head(toBrowser[p]) \in Message /\ Head(toBrowser[p]).type = type
           /\ Head(toBrowser[p]) \in Queued(p)
           /\ SentOnce'
           /\ \A q : InTransit(q)' => InTransit(q)
           /\ \A q : InTransit(q) => InTransit(q)' \/ (type = "query" /\ q = Head(toBrowser[p]).query)
           /\ type = "query" => /\ Head(toBrowser[p]).query \in Query
                                /\ \A q : q = Head(toBrowser[p]).query => InTransit(q) /\ ~InTransit(q)'
<1> DEFINE s == toBrowser[p]
           t == Tail(s)
           h == Head(s)
<1>1. /\ s \in Seq(Message) /\ s # <<>> /\ h.type = type
      /\ toBrowser[p] = s /\ toBrowser'[p] = t
      /\ \A n \in Process : n # p => toBrowser'[n] = toBrowser[n]
  BY DEF TypeOK, Receive
<1>2. /\ h \in Message /\ h = s[1] /\ t \in Seq(Message)
      /\ Len(s) \in Nat \ {0} /\ DOMAIN s = 1..Len(s) /\ DOMAIN t = 1..(Len(s) - 1)
      /\ \A i \in DOMAIN t : i + 1 \in DOMAIN s /\ t[i] = s[i + 1]
      /\ \A i \in DOMAIN s : i = 1 \/ (i - 1 \in DOMAIN t /\ t[i - 1] = s[i])
  BY <1>1, Taking
<1>13. Head(toBrowser[p]) = h
  OBVIOUS
<1> HIDE DEF s, t, h
<1>3. 1 \in DOMAIN s
  BY <1>2
<1>4. SentOnce'
  <2>1. ASSUME NEW n \in Process, NEW i \in DOMAIN toBrowser'[n], toBrowser'[n][i].type = "query"
        PROVE  /\ process'[toBrowser'[n][i].query] = n
               /\ \A j \in DOMAIN toBrowser'[n] :
                     toBrowser'[n][j].type = "query" /\ toBrowser'[n][j].query = toBrowser'[n][i].query
                     => i = j
    <3>1. CASE n # p
      BY <1>1, <2>1, <3>1 DEF SentOnce
    <3>2. CASE n = p
      <4>1. i + 1 \in DOMAIN s /\ t[i] = s[i + 1] /\ i \in Nat
        BY <1>1, <1>2, <2>1, <3>2
      <4>2. process[s[i + 1].query] = p
        BY <1>1, <2>1, <3>2, <4>1 DEF SentOnce
      <4>3. ASSUME NEW j \in DOMAIN t, t[j].type = "query", t[j].query = t[i].query
            PROVE  i = j
        <5>1. j + 1 \in DOMAIN s /\ t[j] = s[j + 1] /\ j \in Nat
          BY <1>2
        <5>2. i + 1 = j + 1
          BY <1>1, <2>1, <3>2, <4>1, <4>3, <5>1 DEF SentOnce
        <5> QED
          BY <4>1, <5>1, <5>2
      <4> QED
        BY <1>1, <3>2, <4>1, <4>2, <4>3
    <3> QED
      BY <3>1, <3>2
  <2> QED
    BY <2>1 DEF SentOnce
<1>5. \A q : InTransit(q) <=> \E n \in Process : Carries(toBrowser[n], q)
  BY Transit
<1>6. \A q : InTransit(q)' <=> \E n \in Process : Carries(toBrowser'[n], q)
  <2>1. \A n \in Process : \A i \in DOMAIN toBrowser'[n] : toBrowser'[n][i] \in Message
    BY DEF TypeOK
  <2>2. \A q : \A n \in Process : \A i \in DOMAIN toBrowser'[n] :
           toBrowser'[n][i] = [type |-> "query", query |-> q]
              <=> toBrowser'[n][i].type = "query" /\ toBrowser'[n][i].query = q
    BY <2>1, MessageKinds
  <2> QED
    BY <2>2 DEF InTransit, Queued, Carries
<1>7. \A q : Carries(t, q) => Carries(s, q)
  BY <1>2 DEF Carries
<1>8. \A q : Carries(s, q) => Carries(t, q) \/ (type = "query" /\ q = h.query)
  BY <1>1, <1>2 DEF Carries
<1>9. ASSUME type = "query"
      PROVE  h.query \in Query /\ Carries(s, h.query) /\ ~Carries(t, h.query)
  <2>1. h.query \in Query
    BY <1>1, <1>2, <1>9, MessageKinds
  <2>2. Carries(s, h.query)
    BY <1>1, <1>2, <1>3, <1>9 DEF Carries
  <2>3. ASSUME NEW i \in DOMAIN t, t[i].type = "query", t[i].query = h.query
        PROVE  FALSE
    <3>1. i + 1 \in DOMAIN s /\ t[i] = s[i + 1] /\ i \in Nat \ {0}
      BY <1>2
    <3>2. \A j, k \in DOMAIN s :
             s[j].type = "query" /\ s[k].type = "query" /\ s[k].query = s[j].query => j = k
      BY <1>1 DEF SentOnce
    <3>3. i + 1 = 1
      BY <1>1, <1>2, <1>3, <1>9, <2>3, <3>1, <3>2
    <3> QED
      BY <3>1, <3>3
  <2> QED
    BY <2>1, <2>2, <2>3 DEF Carries
<1>10. \A q : InTransit(q)' => InTransit(q)
  BY <1>1, <1>5, <1>6, <1>7
<1>11. \A q : InTransit(q) => InTransit(q)' \/ (type = "query" /\ q = h.query)
  <2>1. ASSUME NEW q, NEW n \in Process, Carries(toBrowser[n], q)
        PROVE  InTransit(q)' \/ (type = "query" /\ q = h.query)
    <3>1. CASE n = p
      BY <1>1, <1>6, <1>8, <2>1, <3>1
    <3>2. CASE n # p
      BY <1>1, <1>6, <2>1, <3>2
    <3> QED
      BY <3>1, <3>2
  <2> QED
    BY <1>5, <2>1
<1>12. ASSUME type = "query", NEW q, q = h.query
       PROVE  InTransit(q) /\ ~InTransit(q)'
  <2>1. InTransit(q)
    BY <1>1, <1>5, <1>9, <1>12
  <2>2. ASSUME NEW n \in Process, Carries(toBrowser'[n], q)
        PROVE  FALSE
    <3>1. n # p
      BY <1>1, <1>9, <1>12, <2>2
    <3>2. process[q] = n
      BY <1>1, <2>2, <3>1, TransitOf
    <3>3. process[q] = p
      BY <1>1, <1>9, <1>12, TransitOf
    <3> QED
      BY <3>1, <3>2, <3>3
  <2> QED
    BY <1>6, <2>1, <2>2
<1>14. h \in Message /\ h.type = type /\ h \in Queued(p)
  BY <1>1, <1>2, <1>3 DEF Queued
<1> QED
  BY <1>4, <1>9, <1>10, <1>11, <1>12, <1>13, <1>14

\* The queue of p grows, by positions.
LEMMA QueueGrown ==
    ASSUME TypeOK, NEW p \in Process, NEW m \in Message, SendToBrowser(p, m)
    PROVE  /\ DOMAIN toBrowser[p] = 1..Len(toBrowser[p]) /\ Len(toBrowser[p]) \in Nat
           /\ DOMAIN toBrowser'[p] = 1..(Len(toBrowser[p]) + 1) /\ toBrowser'[p] # <<>>
           /\ Len(toBrowser'[p]) = Len(toBrowser[p]) + 1
           /\ \A i \in DOMAIN toBrowser[p] : toBrowser'[p][i] = toBrowser[p][i]
           /\ toBrowser'[p][Len(toBrowser[p]) + 1] = m
           /\ \A n \in Process : n # p => toBrowser'[n] = toBrowser[n]
           /\ \A n \in Process : Queued(n)' = IF n = p THEN Queued(n) \cup {m} ELSE Queued(n)
           /\ \A q : InTransit(q)' <=> InTransit(q) \/ m = [type |-> "query", query |-> q]
<1>1. /\ toBrowser'[p] = Append(toBrowser[p], m) /\ toBrowser[p] \in Seq(Message)
      /\ \A n \in Process : n # p => toBrowser'[n] = toBrowser[n]
  BY DEF SendToBrowser, TypeOK
<1>2. /\ DOMAIN toBrowser[p] = 1..Len(toBrowser[p]) /\ Len(toBrowser[p]) \in Nat
      /\ DOMAIN toBrowser'[p] = 1..(Len(toBrowser[p]) + 1) /\ toBrowser'[p] # <<>>
      /\ Len(toBrowser'[p]) = Len(toBrowser[p]) + 1
      /\ \A i \in DOMAIN toBrowser[p] : toBrowser'[p][i] = toBrowser[p][i]
      /\ toBrowser'[p][Len(toBrowser[p]) + 1] = m
      /\ Elements(toBrowser'[p]) = Elements(toBrowser[p]) \cup {m}
  BY <1>1, Posting
<1>3. \A n \in Process : Queued(n)' = IF n = p THEN Queued(n) \cup {m} ELSE Queued(n)
  BY <1>1, <1>2 DEF Queued, Elements
<1> HIDE DEF Process
<1>4. \A q : InTransit(q)' <=> InTransit(q) \/ m = [type |-> "query", query |-> q]
  BY <1>3 DEF InTransit
<1> QED
  BY <1>1, <1>2, <1>3, <1>4

\* A message is sent that is not a query.
LEMMA Sent ==
    ASSUME TypeOK, SentOnce, NEW p \in Process, NEW m \in Message, m.type # "query",
           SendToBrowser(p, m), UNCHANGED process
    PROVE  /\ SentOnce'
           /\ \A q : InTransit(q)' <=> InTransit(q)
<1>1. /\ DOMAIN toBrowser[p] = 1..Len(toBrowser[p]) /\ Len(toBrowser[p]) \in Nat
      /\ DOMAIN toBrowser'[p] = 1..(Len(toBrowser[p]) + 1)
      /\ \A i \in DOMAIN toBrowser[p] : toBrowser'[p][i] = toBrowser[p][i]
      /\ toBrowser'[p][Len(toBrowser[p]) + 1] = m
      /\ \A n \in Process : n # p => toBrowser'[n] = toBrowser[n]
      /\ \A q : InTransit(q)' <=> InTransit(q) \/ m = [type |-> "query", query |-> q]
  BY QueueGrown
<1>2. \A i \in DOMAIN toBrowser'[p] : i \in DOMAIN toBrowser[p] \/ i = Len(toBrowser[p]) + 1
  BY <1>1
<1>3. \A n \in Process : \A i \in DOMAIN toBrowser'[n] : toBrowser'[n][i].type = "query" =>
         i \in DOMAIN toBrowser[n] /\ toBrowser'[n][i] = toBrowser[n][i]
  BY <1>1, <1>2
<1>4. SentOnce'
  BY <1>3 DEF SentOnce
<1>5. \A q : m # [type |-> "query", query |-> q]
  OBVIOUS
<1> QED
  BY <1>1, <1>4, <1>5

LEMMA PendingCanceled ==
    ASSUME TypeOK, NEW T, pending' = [h \in Handler |-> pending[h] \ T]
    PROVE  /\ Pending' = Pending \ T
           /\ OneHandler => OneHandler'
<1>1. \A h \in Handler : pending'[h] = pending[h] \ T
  OBVIOUS
<1> QED
  BY <1>1 DEF Pending, OneHandler

\* Some queries that are with handlers are canceled.
LEMMA CancelStep ==
    ASSUME TypeInv, BrowserInv, NEW T \in SUBSET Pending, NEW notify \in BOOLEAN,
           CancelQueries(T, notify),
           UNCHANGED <<asking, posted, holds, persistent, made, current>>,
           \A q \in Query : InTransit(q)' => InTransit(q)
    PROVE  (\A q \in Query : QueryInv(q)') /\ OneHandler'
<1>1. T \in SUBSET Query
  BY PendingOK DEF TypeInv
<1>2. Pending' = Pending \ T /\ OneHandler'
  BY PendingCanceled DEF CancelQueries, BrowserInv, TypeInv
<1>3. Answer(IF notify THEN T ELSE {}, "failure") /\ "failure" \in Outcome
  BY DEF CancelQueries, Outcome
<1>4. ASSUME NEW q \in Query, q \notin T
      PROVE  QueryInv(q)'
  <2>1. SameAnswers(q)
    BY <1>3, <1>4, AnswerElse DEF TypeInv
  <2>2. Same(q)
    BY <1>2, <1>4, <2>1 DEF Same, CancelQueries
  <2> QED
    BY <2>2, SameQuery DEF BrowserInv
<1>5. ASSUME NEW q \in Query, q \in T
      PROVE  QueryInv(q)'
  <2>1. /\ q \notin Pending' /\ q \notin attached' /\ q \in told'
    BY <1>2, <1>5 DEF CancelQueries
  <2>2. /\ q \in InBrowser /\ Unanswered(q) /\ Ordered(q) /\ asking.query # q
        /\ ~(q > made) /\ ~InTransit(q)
    BY <1>5 DEF BrowserInv, QueryInv, InBrowser, Fresh
  <2>3. q \notin InBrowser' /\ ~(q > made)' /\ ~InTransit(q)' /\ asking'.query # q
    BY <2>1, <2>2 DEF InBrowser
  <2>4. Ordered(q)'
    BY <1>3, <2>2, LastAnswer DEF TypeInv
  <2> QED
    BY <2>1, <2>3, <2>4 DEF QueryInv
<1> QED
  BY <1>2, <1>4, <1>5

\* An action that leaves the browser process alone.
LEMMA PageStep ==
    ASSUME BrowserInv, UNCHANGED <<asking, pending, attached, posted, holds, told, persistent, made>>,
           \A q \in Query : InTransit(q)' => InTransit(q),
           \A p \in Process : p > current' => p > current,
           SentOnce'
    PROVE  /\ OneHandler'
           /\ \A q \in Query : SameAnswers(q) => QueryInv(q)'
<1>1. OneHandler' /\ Pending' = Pending
  BY DEF OneHandler, BrowserInv, Pending
<1>2. ASSUME NEW q \in Query, SameAnswers(q)
      PROVE  QueryInv(q)'
  <2>1. Same(q)
    BY <1>1, <1>2 DEF Same
  <2> QED
    BY <2>1, SameQuery DEF BrowserInv
<1> QED
  BY <1>1, <1>2

\* Messages to renderer processes are lost.
LEMMA LostAnswers ==
    ASSUME NEW q \in Query, QueryInv(q), \A p \in Process : answers'[p][q] \in {<<>>, answers[p][q]},
           UNCHANGED <<asking, posted, holds, persistent, made, current>>,
           q \in Pending' => q \in Pending,
           q \in Pending /\ q \notin Pending' => q \in told' /\ q \notin attached',
           q \in Pending' \/ q \notin Pending => /\ q \in told' <=> q \in told
                                                 /\ q \in attached' <=> q \in attached,
           InTransit(q)' => InTransit(q)
    PROVE  QueryInv(q)'
<1>1. /\ Ordered(q)'
      /\ Unanswered(q) => Unanswered(q)'
      /\ NoAnswers(q) => NoAnswers(q)'
  BY AnswersLost DEF QueryInv
<1>2. HasFinal(posted[q], q)' <=> HasFinal(posted[q], q)
  BY DEF HasFinal, Final
<1>3. (q \in InBrowser)' <=> q \in Pending' \/ (q \in InBrowser /\ q \notin Pending)
  BY DEF InBrowser, QueryInv
<1> HIDE DEF Query
<1>4. CASE q \in Pending /\ q \notin Pending'
  <2>1. q \in InBrowser /\ q \notin InBrowser' /\ asking.query # q
    BY <1>3, <1>4 DEF QueryInv, InBrowser
  <2> QED
    BY <1>1, <1>4, <2>1 DEF QueryInv, Fresh
<1>5. CASE q \in Pending' \/ q \notin Pending
  <2>1. (q \in InBrowser)' <=> q \in InBrowser
    BY <1>3, <1>5 DEF InBrowser
  <2> QED
    BY <1>1, <1>2, <1>5, <2>1 DEF QueryInv, Fresh
<1> QED
  BY <1>4, <1>5

LEMMA BrowserStepSend ==
    ASSUME TypeInv, BrowserInv, NEW p \in Process, NEW c \in Context, NEW b \in BOOLEAN,
           SendQuery(p, c, b)
    PROVE  BrowserInv'
<1> USE DEF TypeInv
<1> DEFINE n == made + 1
<1>1. n \in Query /\ [type |-> "query", query |-> n] \in Message /\ made \in Nat
  BY BoundAssumption DEF SendQuery, Query, Message, TypeOK
<1>2. PICK m \in Message : m = [type |-> "query", query |-> n]
  BY <1>1
<1>3. SendToBrowser(p, m) /\ m.type = "query" /\ m.query = n
  BY <1>2 DEF SendQuery
<1>4. /\ DOMAIN toBrowser[p] = 1..Len(toBrowser[p]) /\ Len(toBrowser[p]) \in Nat
      /\ DOMAIN toBrowser'[p] = 1..(Len(toBrowser[p]) + 1)
      /\ \A i \in DOMAIN toBrowser[p] : toBrowser'[p][i] = toBrowser[p][i]
      /\ toBrowser'[p][Len(toBrowser[p]) + 1] = m
      /\ \A k \in Process : k # p => toBrowser'[k] = toBrowser[k]
      /\ \A q : InTransit(q)' <=> InTransit(q) \/ m = [type |-> "query", query |-> q]
  BY <1>3, QueueGrown
<1>5. \A q : InTransit(q)' <=> InTransit(q) \/ q = n
  <2>1. \A q : m = [type |-> "query", query |-> q] <=> q = n
    BY <1>3, MessageKinds
  <2> QED
    BY <1>4, <2>1
<1>6. QueryInv(n) /\ Fresh(n) /\ ~InTransit(n)
  BY <1>1 DEF BrowserInv, QueryInv
<1>7. /\ UNCHANGED <<asking, pending, attached, posted, holds, told, answers, current>>
      /\ made' = n /\ process' = [process EXCEPT ![n] = p]
      /\ persistent' \in {persistent, persistent \cup {n}}
  BY DEF SendQuery, queryVars
<1>8. SentOnce'
  <2>1. ASSUME NEW k \in Process, NEW i \in DOMAIN toBrowser[k], toBrowser[k][i].type = "query"
        PROVE  toBrowser[k][i].query # n
    <3>1. InTransit(toBrowser[k][i].query)
      BY <2>1, Transit DEF Carries
    <3> QED
      BY <1>6, <3>1
  <2>2. process'[n] = p /\ \A q : q # n => process'[q] = process[q]
    BY <1>1, <1>7 DEF TypeOK
  <2>3. \A i \in DOMAIN toBrowser'[p] : i \in DOMAIN toBrowser[p] \/ i = Len(toBrowser[p]) + 1
    BY <1>4
  <2> HIDE DEF n
  <2>4. ASSUME NEW k \in Process, k # p, NEW i \in DOMAIN toBrowser'[k], toBrowser'[k][i].type = "query"
        PROVE  /\ process'[toBrowser'[k][i].query] = k
               /\ \A j \in DOMAIN toBrowser'[k] :
                     toBrowser'[k][j].type = "query" /\ toBrowser'[k][j].query = toBrowser'[k][i].query
                     => i = j
    BY <1>4, <2>1, <2>2, <2>4 DEF BrowserInv, SentOnce
  <2>5. ASSUME NEW i \in DOMAIN toBrowser'[p], toBrowser'[p][i].type = "query"
        PROVE  /\ process'[toBrowser'[p][i].query] = p
               /\ \A j \in DOMAIN toBrowser'[p] :
                     toBrowser'[p][j].type = "query" /\ toBrowser'[p][j].query = toBrowser'[p][i].query
                     => i = j
    <3>1. \A j \in DOMAIN toBrowser'[p] : toBrowser'[p][j].type = "query" =>
             \/ /\ j \in DOMAIN toBrowser[p] /\ toBrowser'[p][j] = toBrowser[p][j]
                /\ toBrowser[p][j].query # n
             \/ j = Len(toBrowser[p]) + 1 /\ toBrowser'[p][j].query = n
      BY <1>3, <1>4, <2>1, <2>3
    <3>2. \A j \in DOMAIN toBrowser[p] : toBrowser[p][j].type = "query" =>
             /\ process[toBrowser[p][j].query] = p
             /\ \A k \in DOMAIN toBrowser[p] :
                   toBrowser[p][k].type = "query" /\ toBrowser[p][k].query = toBrowser[p][j].query => j = k
      BY DEF BrowserInv, SentOnce
    <3> QED
      BY <2>2, <2>5, <3>1, <3>2
  <2> QED
    BY <2>4, <2>5 DEF SentOnce
<1>9. Pending' = Pending /\ OneHandler'
  BY <1>7 DEF Pending, BrowserInv, OneHandler
<1>10. ASSUME NEW q \in Query, q # n
       PROVE  QueryInv(q)'
  <2>1. Same(q)
    BY <1>1, <1>5, <1>7, <1>9, <1>10 DEF Same, Query, SameAnswers
  <2> QED
    BY <2>1, SameQuery DEF BrowserInv
<1>11. ASSUME NEW q \in Query, q = n
       PROVE  QueryInv(q)'
  <2>1. Fresh(q)'
    BY <1>6, <1>7, <1>9, <1>11 DEF Fresh, InBrowser, NoAnswers
  <2>2. ~(q > made')
    BY <1>1, <1>7, <1>11
  <2>3. Ordered(q)' /\ Unanswered(q)'
    <3>1. \A k \in Process : Ends(k, q)' = {}
      BY <2>1 DEF Fresh, NoAnswers, Ends
    <3>2. \A k \in Process : answers'[k][q] = <<>>
      BY <2>1 DEF Fresh, NoAnswers
    <3> HIDE DEF Process
    <3> QED
      BY <3>1, <3>2 DEF Ordered, Unanswered
  <2>4. asking'.query # q
    BY <2>1, <1>1, <1>11, BoundAssumption DEF Fresh, InBrowser, Query
  <2> QED
    BY <2>1, <2>2, <2>3, <2>4 DEF QueryInv, Fresh, InBrowser
<1> QED
  BY <1>8, <1>9, <1>10, <1>11 DEF BrowserInv

LEMMA BrowserStepExecute ==
    ASSUME TypeInv, BrowserInv, NEW p \in Process, NEW q \in Query, ExecuteCallback(p, q)
    PROVE  BrowserInv'
<1> USE DEF TypeInv
<1>1. /\ UNCHANGED <<asking, pending, attached, posted, holds, told, persistent, made, toBrowser,
                     process, current>>
      /\ answers[p][q] # <<>> /\ answers'[p][q] = Tail(answers[p][q])
      /\ \A n \in Process : \A r \in Query : n # p \/ r # q => answers'[n][r] = answers[n][r]
  BY DEF ExecuteCallback, queryVars, TypeOK
<1>2. SentOnce' /\ \A r : InTransit(r)' <=> InTransit(r)
  BY <1>1, TransitSame DEF BrowserInv
<1>3. OneHandler' /\ \A r \in Query : r # q => QueryInv(r)'
  BY <1>1, <1>2, PageStep DEF SameAnswers
<1>4. QueryInv(q)'
  <2>1. QueryInv(q) /\ ~(q > made) /\ ~InTransit(q) /\ Ordered(q)
    BY <1>1 DEF BrowserInv, QueryInv, Fresh, NoAnswers
  <2>2. /\ Ends(p, q)' \subseteq {Len(answers'[p][q])}
        /\ Ends(p, q) = {} => Ends(p, q)' = {}
    BY <1>1, <2>1, AnswerTaken DEF Ordered
  <2>3. \A n \in Process : n # p => Ends(n, q)' = Ends(n, q) /\ answers'[n][q] = answers[n][q]
    BY <1>1 DEF Ends, Final
  <2>4. Ordered(q)' /\ (Unanswered(q) => Unanswered(q)')
    <3>1. \A n \in Process : ~(n > n)
      BY DEF Process
    <3> HIDE DEF Process
    <3> QED
      BY <1>1, <2>1, <2>2, <2>3, <3>1 DEF Ordered, Unanswered
  <2>5. Pending' = Pending /\ InBrowser' = InBrowser
    BY <1>1 DEF Pending, InBrowser
  <2>6. HasFinal(posted[q], q)' <=> HasFinal(posted[q], q)
    BY <1>1 DEF HasFinal, Final
  <2> QED
    BY <1>1, <1>2, <2>1, <2>4, <2>5, <2>6 DEF QueryInv
<1> QED
  BY <1>2, <1>3, <1>4 DEF BrowserInv

LEMMA BrowserStepPage ==
    ASSUME TypeInv, BrowserInv, Page
    PROVE  BrowserInv'
<1> USE DEF TypeInv
<1>1. ASSUME NEW p \in Process, NEW c \in Context, NEW b \in BOOLEAN, SendQuery(p, c, b)
      PROVE  BrowserInv'
  BY <1>1, BrowserStepSend
<1>2. ASSUME NEW q \in Query, CancelRequest(q)
      PROVE  BrowserInv'
  <2>1. key[q][1] \in Context /\ key[q][2] \in Request /\ process[q] \in Process
    BY <1>2 DEF CancelRequest
  <2>2. PICK m \in Message : m.type # "query" /\ SendToBrowser(process[q], m)
    BY <1>2, <2>1 DEF CancelRequest, Message
  <2>3. UNCHANGED <<asking, pending, attached, posted, holds, told, persistent, made, process, current, answers>>
    BY <1>2 DEF CancelRequest, queryVars
  <2>4. SentOnce' /\ \A r : InTransit(r)' <=> InTransit(r)
    BY <2>1, <2>2, <2>3, Sent DEF BrowserInv
  <2> QED
    BY <2>3, <2>4, PageStep DEF BrowserInv, SameAnswers
<1>3. ASSUME NEW p \in Process, NEW q \in Query, ExecuteCallback(p, q)
      PROVE  BrowserInv'
  BY <1>3, BrowserStepExecute
<1>4. ASSUME NEW p \in Process, NEW c \in Context, OnContextReleased(p, c)
      PROVE  BrowserInv'
  <2>1. PICK m \in Message : m = [type |-> "cancel", context |-> c, request |-> AllRequests]
    BY DEF Message
  <2>2. UNCHANGED <<asking, pending, attached, posted, holds, told, persistent, made, process, current, answers>>
    BY <1>4 DEF OnContextReleased, queryVars
  <2>3. SentOnce' /\ \A r : InTransit(r)' <=> InTransit(r)
    <3>1. CASE UNCHANGED toBrowser
      BY <2>2, <3>1, TransitSame DEF BrowserInv
    <3>2. CASE SendToBrowser(p, m)
      BY <2>1, <2>2, <3>2, Sent DEF BrowserInv
    <3> QED
      BY <1>4, <2>1, <3>1, <3>2 DEF OnContextReleased
  <2> QED
    BY <2>2, <2>3, PageStep DEF BrowserInv, SameAnswers
<1>5. ASSUME NEW p \in Process, RendererGone(p)
      PROVE  BrowserInv'
  <2>1. PICK m \in Message : m = [type |-> "terminated"]
    BY DEF Message
  <2>2. /\ UNCHANGED <<asking, pending, attached, posted, holds, told, persistent, made, process, current>>
        /\ \A n \in Process : \A q \in Query : answers'[n][q] \in {<<>>, answers[n][q]}
    BY <1>5 DEF RendererGone, PagesGone, queryVars
  <2>3. SentOnce' /\ \A r : InTransit(r)' <=> InTransit(r)
    <3>1. CASE UNCHANGED toBrowser
      BY <2>2, <3>1, TransitSame DEF BrowserInv
    <3>2. CASE SendToBrowser(p, m)
      BY <2>1, <2>2, <3>2, Sent DEF BrowserInv
    <3> QED
      BY <1>5, <2>1, <3>1, <3>2 DEF RendererGone
  <2>4. OneHandler' /\ Pending' = Pending
    BY <2>2 DEF OneHandler, BrowserInv, Pending
  <2>5. ASSUME NEW q \in Query
        PROVE  QueryInv(q)'
    BY <2>2, <2>3, <2>4, LostAnswers DEF BrowserInv
  <2> QED
    BY <2>3, <2>4, <2>5 DEF BrowserInv
<1>6. CASE CommitInNewProcess
  <2>1. UNCHANGED <<asking, pending, attached, posted, holds, told, persistent, made, process, toBrowser, answers>>
    BY <1>6 DEF CommitInNewProcess, queryVars
  <2>2. SentOnce' /\ \A r : InTransit(r)' <=> InTransit(r)
    BY <2>1, TransitSame DEF BrowserInv
  <2>3. \A p \in Process : p > current' => p > current
    BY <1>6 DEF CommitInNewProcess, Process, TypeOK
  <2> QED
    BY <2>1, <2>2, <2>3, PageStep DEF BrowserInv, SameAnswers
<1> QED
  BY <1>1, <1>2, <1>3, <1>4, <1>5, <1>6 DEF Page

\* The browser process has seen q, and has it no more.
LEMMA QueryGone ==
    ASSUME NEW q \in Query, ~(q > made)', ~InTransit(q)', (asking.query # q)',
           (q \notin attached)', (q \notin Pending)', Ordered(q)'
    PROVE  QueryInv(q)'
<1>1. (q \notin InBrowser)'
  BY DEF InBrowser
<1> QED
  BY <1>1 DEF QueryInv

LEMMA BrowserStepQuery ==
    ASSUME TypeInv, TypeInv', BrowserInv, NEW p \in Process, ReceiveQuery(p)
    PROVE  BrowserInv'
<1> USE DEF TypeInv
<1> DEFINE n == Head(toBrowser[p]).query
<1>1. UNCHANGED <<pending, posted, holds, told, persistent, made, process, current>> /\ Idle
  BY DEF ReceiveQuery, pageVars, Receive
<1>2. PICK k \in Query : k = n
  BY <1>1, Received DEF ReceiveQuery, BrowserInv
<1>3. /\ SentOnce' /\ InTransit(k) /\ ~InTransit(k)'
      /\ \A q : InTransit(q)' => InTransit(q)
  BY <1>1, <1>2, Received DEF ReceiveQuery, BrowserInv
<1>4. Pending' = Pending /\ OneHandler'
  BY <1>1 DEF Pending, OneHandler, BrowserInv
<1>5. QueryInv(k) /\ Fresh(k) /\ ~(k > made)
  BY <1>3 DEF BrowserInv, QueryInv
<1> HIDE DEF n
<1>6. asking.query = 0 /\ k # 0 /\ \A q \in Query : asking.query # q
  BY <1>1, BoundAssumption DEF Idle, NotAsking, Query
<1>7. CASE handlerSet = {} /\ Answer({k}, "failure") /\ UNCHANGED <<asking, attached>>
  <2>1. ASSUME NEW q \in Query, q # k
        PROVE  QueryInv(q)'
    <3>1. SameAnswers(q)
      BY <1>7, <2>1, AnswerElse
    <3>2. Same(q)
      BY <1>1, <1>3, <1>4, <1>7, <2>1, <3>1 DEF Same
    <3> QED
      BY <3>2, SameQuery DEF BrowserInv
  <2>2. QueryInv(k)'
    <3>1. Unanswered(k)
      BY <1>5 DEF Fresh, NoAnswers, Unanswered, Ends
    <3>2. Ordered(k)'
      <4>1. "failure" \in Outcome
        BY DEF Outcome
      <4> QED
        BY <1>1, <1>5, <1>7, <3>1, <4>1, LastAnswer DEF QueryInv
    <3>3. /\ k \notin Pending' /\ k \notin attached' /\ asking'.query # k
          /\ ~(k > made)' /\ ~InTransit(k)'
      BY <1>1, <1>3, <1>4, <1>5, <1>6, <1>7 DEF Fresh, InBrowser
    <3> QED
      BY <3>2, <3>3, QueryGone
  <2> QED
    BY <1>3, <1>4, <2>1, <2>2 DEF BrowserInv
<1>8. CASE asking' = [query |-> k, left |-> handlerSet] /\ attached' = attached \cup {k} /\ UNCHANGED answers
  <2>1. asking'.query = k
    BY <1>8
  <2>2. ASSUME NEW q \in Query, q # k
        PROVE  QueryInv(q)'
    <3>1. Same(q)
      BY <1>1, <1>3, <1>4, <1>6, <1>8, <2>1, <2>2 DEF Same, SameAnswers
    <3> QED
      BY <3>1, SameQuery DEF BrowserInv
  <2>3. QueryInv(k)'
    <3>1. Ordered(k)' /\ Unanswered(k)'
      <4>1. \A i \in Process : Ends(i, k)' = {} /\ answers'[i][k] = <<>>
        BY <1>5, <1>8 DEF Fresh, NoAnswers, Ends
      <4> HIDE DEF Process
      <4> QED
        BY <4>1 DEF Ordered, Unanswered
    <3>2. ~HasFinal(posted[k], k)'
      BY <1>1, <1>5 DEF HasFinal, Fresh
    <3>3. k \in InBrowser' /\ k \notin Pending' /\ k \notin told'
      BY <1>1, <1>4, <1>5, <1>6, <2>1 DEF InBrowser, Fresh
    <3> QED
      BY <1>1, <1>3, <1>5, <1>8, <2>1, <3>1, <3>2, <3>3 DEF QueryInv
  <2> QED
    BY <1>3, <1>4, <2>2, <2>3 DEF BrowserInv
<1> QED
  BY <1>2, <1>7, <1>8 DEF ReceiveQuery, n

LEMMA BrowserStepReceive ==
    ASSUME TypeInv, TypeInv', BrowserInv, NEW p \in Process, ReceiveMessage(p)
    PROVE  BrowserInv'
<1> USE DEF TypeInv
<1>1. CASE ReceiveQuery(p)
  BY <1>1, BrowserStepQuery
<1>2. CASE ReceiveCancel(p)
  <2>1. UNCHANGED <<asking, posted, holds, persistent, made, process, current>>
    BY <1>2 DEF ReceiveCancel, pageVars
  <2>2. SentOnce' /\ \A q : InTransit(q)' => InTransit(q)
    BY <1>2, <2>1, Received DEF ReceiveCancel, BrowserInv
  <2>3. PICK T \in SUBSET Pending : CancelQueries(T, FALSE)
    BY <1>2, CanceledByMessage DEF ReceiveCancel
  <2> QED
    BY <2>1, <2>2, <2>3, CancelStep DEF BrowserInv
<1>3. CASE OnRenderProcessTerminated(p)
  <2>1. UNCHANGED <<asking, posted, holds, persistent, made, process, current>>
    BY <1>3 DEF OnRenderProcessTerminated, pageVars
  <2>2. SentOnce' /\ \A q : InTransit(q)' => InTransit(q)
    BY <1>3, <2>1, Received DEF OnRenderProcessTerminated, BrowserInv
  <2>3. PICK T \in SUBSET Pending : CancelQueries(T, FALSE)
    BY <1>3 DEF OnRenderProcessTerminated, CancelAllPending
  <2> QED
    BY <2>1, <2>2, <2>3, CancelStep DEF BrowserInv
<1> QED
  BY <1>1, <1>2, <1>3 DEF ReceiveMessage

\* A Callback is called, with the tasks s of its query behind it.
LEMMA CallEffect ==
    ASSUME TypeOK, NEW q \in Query, NEW o \in Outcome, NEW s \in Seq(Task), Call(q, o, s),
           UNCHANGED persistent
    PROVE  /\ \A r \in Query : r # q => posted'[r] = posted[r] /\ (r \in attached' <=> r \in attached)
           /\ q \in attached /\ ~HasFinal(s, q) =>
                /\ q \in attached' => ~HasFinal(posted[q], q)'
                /\ q \notin attached' => HasFinal(posted[q], q)'
           /\ q \notin attached =>
                /\ q \notin attached'
                /\ HasFinal(posted[q], q)' <=> HasFinal(s, q)
<1> DEFINE t == <<"router", o>>
<1>1. t \in Task /\ t[1] = "router" /\ t[2] = o
  BY DEF Task
<1>2. /\ posted' = [posted EXCEPT ![q] = IF q \in attached THEN Append(s, t) ELSE s]
      /\ attached' = IF Final(q, o) THEN attached \ {q} ELSE attached
  BY DEF Call
<1>3. posted'[q] = IF q \in attached THEN Append(s, t) ELSE s
  BY <1>2 DEF TypeOK
<1>4. \A z : HasFinal(z, q)' <=> HasFinal(z, q)
  BY DEF HasFinal, Final
<1>5. HasFinal(posted[q], q)' <=> HasFinal(posted'[q], q)
  BY DEF HasFinal, Final
<1>6. HasFinal(Append(s, t), q) <=> HasFinal(s, q) \/ Final(q, o)
  BY <1>1, TaskAdded
<1> HIDE DEF t
<1>7. \A r \in Query : r # q => posted'[r] = posted[r] /\ (r \in attached' <=> r \in attached)
  BY <1>2 DEF TypeOK
<1> QED
  BY <1>2, <1>3, <1>5, <1>6, <1>7

\* What the handler of q, or a task of its Callback, does to q.
LEMMA TaskStep ==
    ASSUME TypeInv, BrowserInv, NEW q \in Query,
           UNCHANGED <<toBrowser, process, current, made, persistent, asking, pending, told, answers>>,
           \A r \in Query : r # q =>
              /\ posted'[r] = posted[r]
              /\ r \in attached' <=> r \in attached
              /\ r \in holds' <=> r \in holds,
           ~Fresh(q),
           q \in attached' => q \in attached /\ ~HasFinal(posted[q], q)',
           q \in Pending /\ q \notin attached' => HasFinal(posted[q], q)',
           asking.query = q => q \in attached'
    PROVE  BrowserInv'
<1>1. /\ Pending' = Pending /\ InBrowser' = InBrowser /\ OneHandler' /\ SentOnce'
      /\ \A r : InTransit(r)' <=> InTransit(r)
  BY TransitSame DEF Pending, InBrowser, OneHandler, BrowserInv
<1>2. ASSUME NEW r \in Query, r # q
      PROVE  QueryInv(r)'
  <2>1. Same(r)
    BY <1>1, <1>2 DEF Same, SameAnswers
  <2> QED
    BY <2>1, SameQuery DEF BrowserInv
<1>3. QueryInv(q)'
  <2>1. QueryInv(q) /\ ~(q > made) /\ ~InTransit(q)
    BY DEF BrowserInv, QueryInv
  <2>2. Ordered(q)' /\ (Unanswered(q) => Unanswered(q)')
    BY <2>1, AnswersLost DEF QueryInv
  <2> QED
    BY <1>1, <2>1, <2>2 DEF QueryInv
<1> QED
  BY <1>1, <1>2, <1>3 DEF BrowserInv

\* OnQuery returns.
LEMMA BrowserStepOffer ==
    ASSUME TypeInv, BrowserInv, NEW h \in Handler, Decline(h) \/ Accept(h)
    PROVE  BrowserInv'
<1> USE DEF TypeInv
<1>1. PICK k \in Query : k = asking.query
  <2>1. asking # NotAsking
    BY DEF Decline, Accept, NotAsking
  <2> QED
    BY <2>1 DEF TypeOK
<1>2. /\ QueryInv(k) /\ k \in attached /\ k \notin Pending /\ k \notin told
      /\ k \in InBrowser /\ Unanswered(k) /\ Ordered(k) /\ ~HasFinal(posted[k], k)
      /\ ~(k > made) /\ ~InTransit(k)
  BY <1>1, InBrowserQuery DEF BrowserInv, QueryInv, Fresh
<1>3. NotAsking.query = 0 /\ \A q \in Query : q # 0
  BY BoundAssumption DEF NotAsking, Query
<1>4. UNCHANGED <<made, persistent, toBrowser, told, process, current>>
  BY DEF Decline, Accept, pageVars
<1>5. SentOnce' /\ \A r : InTransit(r)' <=> InTransit(r)
  BY <1>4, TransitSame DEF BrowserInv
<1>6. CASE Decline(h)
  <2>1. UNCHANGED <<pending, posted, holds>>
    BY <1>6 DEF Decline
  <2>2. Pending' = Pending /\ OneHandler'
    BY <2>1 DEF Pending, OneHandler, BrowserInv
  <2>3. CASE asking.left = {h}
    <3>1. asking' = NotAsking /\ attached' = attached \ {k} /\ Answer({k}, "failure")
      BY <1>1, <1>6, <2>3 DEF Decline
    <3>2. \A q \in Query : q # k => SameAnswers(q)
      BY <3>1, AnswerElse
    <3>3. ASSUME NEW q \in Query, q # k
          PROVE  QueryInv(q)'
      <4>1. Same(q)
        BY <1>1, <1>3, <1>4, <1>5, <2>1, <2>2, <3>1, <3>2, <3>3 DEF Same
      <4> QED
        BY <4>1, SameQuery DEF BrowserInv
    <3>4. QueryInv(k)'
      <4>1. Ordered(k)'
        <5>1. "failure" \in Outcome
          BY DEF Outcome
        <5> QED
          BY <1>2, <1>4, <3>1, <5>1, LastAnswer
      <4> QED
        BY <1>2, <1>3, <1>4, <1>5, <2>2, <3>1, <4>1, QueryGone
    <3> QED
      BY <1>5, <2>2, <3>3, <3>4 DEF BrowserInv
  <2>4. CASE asking.left # {h}
    <3>1. asking' = [asking EXCEPT !.left = @ \ {h}] /\ UNCHANGED <<attached, answers>>
      BY <1>6, <2>4 DEF Decline
    <3>2. asking'.query = asking.query
      BY <3>1 DEF TypeOK, NotAsking
    <3>3. \A q \in Query : Same(q)
      BY <1>4, <1>5, <2>1, <2>2, <3>1, <3>2 DEF Same, SameAnswers
    <3> QED
      BY <1>5, <2>2, <3>3, SameQuery DEF BrowserInv
  <2> QED
    BY <2>3, <2>4
<1>7. CASE Accept(h)
  <2>1. /\ asking' = NotAsking /\ UNCHANGED answers
        /\ pending' = [pending EXCEPT ![h] = @ \cup {k}]
    BY <1>1, <1>7 DEF Accept
  <2>2. \A g \in Handler : pending'[g] = IF g = h THEN pending[g] \cup {k} ELSE pending[g]
    BY <2>1 DEF TypeOK
  <2>3. Pending' = Pending \cup {k}
    <3>1. \A q : (\E g \in Handler : q \in pending'[g]) <=> (\E g \in Handler : q \in pending[g]) \/ q = k
      BY <2>2
    <3>2. \A q : /\ q \in Pending <=> (\E g \in Handler : q \in pending[g])
                 /\ q \in Pending' <=> (\E g \in Handler : q \in pending'[g])
      BY DEF Pending
    <3> QED
      BY <3>1, <3>2
  <2>4. OneHandler'
    <3>1. \A g \in Handler : k \notin pending[g]
      BY <1>2 DEF Pending
    <3>2. ASSUME NEW f \in Handler, NEW g \in Handler, f # g
          PROVE  pending'[f] \cap pending'[g] = {}
      <4>1. pending[f] \cap pending[g] = {}
        BY <3>2 DEF OneHandler, BrowserInv
      <4> QED
        BY <2>2, <3>1, <3>2, <4>1
    <3> QED
      BY <3>2 DEF OneHandler
  <2>5. /\ \A r \in Query : r # k =>
             /\ posted'[r] = posted[r]
             /\ r \in holds' <=> r \in holds
             /\ r \in attached' <=> r \in attached
        /\ k \in attached' => ~HasFinal(posted[k], k)'
        /\ k \notin attached' => HasFinal(posted[k], k)'
    <3>1. CASE holds' = holds \cup {k} /\ UNCHANGED <<posted, attached>>
      BY <1>2, <1>4, <3>1 DEF HasFinal, Final
    <3>2. ASSUME NEW o \in Outcome, Call(k, o, <<>>), holds' \in {holds, holds \cup {k}}
          PROVE  <2>5
      <4>1. <<>> \in Seq(Task) /\ ~HasFinal(<<>>, k)
        BY DEF HasFinal
      <4> QED
        BY <1>2, <1>4, <3>2, <4>1, CallEffect
    <3> QED
      BY <1>1, <1>7, <3>1, <3>2 DEF Accept
  <2>6. ASSUME NEW q \in Query, q # k
        PROVE  QueryInv(q)'
    <3>1. asking'.query = q <=> asking.query = q
      BY <1>1, <1>3, <2>1, <2>6
    <3>2. Same(q)
      BY <1>4, <1>5, <2>1, <2>3, <2>5, <2>6, <3>1 DEF Same, SameAnswers
    <3> QED
      BY <3>2, SameQuery DEF BrowserInv
  <2>7. QueryInv(k)'
    <3>1. Ordered(k)' /\ Unanswered(k)'
      BY <1>2, <1>4, <2>1, AnswersLost
    <3>2. (k \in InBrowser)' /\ k \notin told' /\ (asking.query # k)'
      BY <1>2, <1>3, <1>4, <2>1, <2>3 DEF InBrowser
    <3> QED
      BY <1>2, <1>4, <1>5, <2>3, <2>5, <3>1, <3>2 DEF QueryInv
  <2> QED
    BY <1>5, <2>4, <2>6, <2>7 DEF BrowserInv
<1> QED
  BY <1>6, <1>7

\* Handlers come and go, and queries are canceled.
LEMMA BrowserStepCancel ==
    ASSUME TypeInv, BrowserInv,
           \/ \E h \in Handler : AddHandler(h) \/ RemoveHandler(h)
           \/ OnBeforeBrowse
           \/ \E S \in SUBSET Handler : CancelPending(S)
    PROVE  BrowserInv'
<1>1. /\ UNCHANGED <<asking, posted, holds, made, persistent, toBrowser, process, current>>
      /\ \/ UNCHANGED <<pending, attached, answers, told>>
         \/ \E T \in SUBSET Pending, notify \in BOOLEAN : CancelQueries(T, notify)
  <2>1. ASSUME NEW h \in Handler, AddHandler(h)
        PROVE  <1>1
    BY <2>1 DEF AddHandler, pageVars, queryVars
  <2>2. ASSUME NEW h \in Handler, RemoveHandler(h)
        PROVE  <1>1
    <3>1. pending[h] \in SUBSET Pending
      BY DEF Pending
    <3> QED
      BY <2>2, <3>1 DEF RemoveHandler, CancelPendingFor, pageVars
  <2>3. CASE OnBeforeBrowse
    BY <2>3 DEF OnBeforeBrowse, CancelAllPending, pageVars
  <2>4. ASSUME NEW S \in SUBSET Handler, CancelPending(S)
        PROVE  <1>1
    <3>1. UNION {pending[h] : h \in S} \in SUBSET Pending
      BY DEF Pending
    <3> QED
      BY <2>4, <3>1 DEF CancelPending, pageVars
  <2> QED
    BY <2>1, <2>2, <2>3, <2>4
<1>2. SentOnce' /\ \A q : InTransit(q)' <=> InTransit(q)
  BY <1>1, TransitSame DEF BrowserInv
<1>3. CASE UNCHANGED <<pending, attached, answers, told>>
  <2>1. \A q \in Query : Same(q)
    BY <1>1, <1>2, <1>3 DEF Same, Pending, SameAnswers
  <2> QED
    BY <1>2, <1>3, <2>1, SameQuery DEF BrowserInv, OneHandler
<1>4. ASSUME NEW T \in SUBSET Pending, NEW notify \in BOOLEAN, CancelQueries(T, notify)
      PROVE  BrowserInv'
  BY <1>1, <1>2, <1>4, CancelStep DEF BrowserInv
<1> QED
  BY <1>1, <1>3, <1>4

\* A handler, or a task of the Callback of q, calls the Callback.
LEMMA CallStep ==
    ASSUME TypeInv, BrowserInv, NEW q \in Query, NEW o \in Outcome, NEW s \in Seq(Task), Idle,
           Call(q, o, s), HasFinal(s, q) <=> HasFinal(posted[q], q), ~Fresh(q),
           UNCHANGED <<toBrowser, process, current, made, persistent, asking, pending, told, answers>>,
           \A r \in Query : r # q => (r \in holds' <=> r \in holds)
    PROVE  BrowserInv'
<1>1. /\ \A r \in Query : r # q => posted'[r] = posted[r] /\ (r \in attached' <=> r \in attached)
      /\ q \in attached /\ ~HasFinal(s, q) =>
           /\ q \in attached' => ~HasFinal(posted[q], q)'
           /\ q \notin attached' => HasFinal(posted[q], q)'
      /\ q \notin attached =>
           /\ q \notin attached'
           /\ HasFinal(posted[q], q)' <=> HasFinal(s, q)
  BY CallEffect DEF TypeInv
<1>2. QueryInv(q) /\ asking.query # q
  BY BoundAssumption DEF BrowserInv, Idle, NotAsking, Query
<1>3. /\ q \in attached' => q \in attached /\ ~HasFinal(posted[q], q)'
      /\ q \in Pending /\ q \notin attached' => HasFinal(posted[q], q)'
  BY <1>1, <1>2 DEF QueryInv
<1> QED
  BY <1>1, <1>2, <1>3, TaskStep

LEMMA BrowserStepRunCallback ==
    ASSUME TypeInv, BrowserInv, NEW q \in Query, RunCallback(q)
    PROVE  BrowserInv'
<1> DEFINE s == posted[q]
<1>1. s \in Seq(Task) /\ s # <<>> /\ Head(s)[1] = "callback"
  BY DEF TypeInv, TypeOK, RunCallback
<1>2. Head(s)[2] \in Outcome /\ Tail(s) \in Seq(Task)
  BY <1>1, Taking DEF Task
<1>3. HasFinal(Tail(s), q) <=> HasFinal(s, q)
  BY <1>1, TaskTaken
<1>4. ~Fresh(q)
  BY <1>1 DEF Fresh
<1>5. /\ Call(q, Head(s)[2], Tail(s)) /\ Idle
      /\ UNCHANGED <<toBrowser, process, current, made, persistent, asking, pending, told, answers, holds>>
  BY DEF RunCallback, pageVars
<1> HIDE DEF s
<1>6. PICK o \in Outcome, t \in Seq(Task) : o = Head(s)[2] /\ t = Tail(s)
  BY <1>2
<1>7. Call(q, o, t) /\ (HasFinal(t, q) <=> HasFinal(posted[q], q))
  BY <1>3, <1>5, <1>6 DEF s
<1> QED
  BY <1>4, <1>5, <1>7, CallStep

LEMMA BrowserStepHandler ==
    ASSUME TypeInv, BrowserInv, NEW q \in Query, NEW o \in Outcome, HandlerAnswers(q, o)
    PROVE  BrowserInv'
<1>1. posted[q] \in Seq(Task) /\ <<"callback", o>> \in Task
  BY DEF TypeInv, TypeOK, Task
<1>2. ~Fresh(q)
  BY DEF HandlerAnswers, Fresh
<1>3. /\ UNCHANGED <<toBrowser, process, current, made, persistent, asking, pending, told, answers>>
      /\ \A r \in Query : r # q => (r \in holds' <=> r \in holds)
  BY DEF HandlerAnswers, pageVars
<1>4. CASE Idle /\ Call(q, o, posted[q])
  <2>1. PICK s \in Seq(Task) : s = posted[q]
    BY <1>1
  <2> QED
    BY <1>2, <1>3, <1>4, <2>1, CallStep
<1>5. CASE posted' = [posted EXCEPT ![q] = Append(@, <<"callback", o>>)] /\ UNCHANGED attached
  <2>1. /\ posted'[q] = Append(posted[q], <<"callback", o>>)
        /\ \A r \in Query : r # q => posted'[r] = posted[r]
    BY <1>5 DEF TypeInv, TypeOK
  <2>2. HasFinal(posted[q], q)' <=> HasFinal(posted[q], q)
    <3>1. HasFinal(Append(posted[q], <<"callback", o>>), q) <=> HasFinal(posted[q], q)
      BY <1>1, TaskAdded
    <3>2. \A z : HasFinal(z, q)' <=> HasFinal(z, q)
      BY <1>3 DEF HasFinal, Final
    <3>3. HasFinal(posted[q], q)' <=> HasFinal(posted'[q], q)
      BY <1>3 DEF HasFinal, Final
    <3> QED
      BY <2>1, <3>1, <3>3
  <2>3. QueryInv(q)
    BY DEF BrowserInv
  <2>4. /\ q \in attached' => q \in attached /\ ~HasFinal(posted[q], q)'
        /\ q \in Pending /\ q \notin attached' => HasFinal(posted[q], q)'
        /\ asking.query = q => q \in attached'
    BY <1>5, <2>2, <2>3 DEF QueryInv
  <2> QED
    BY <1>2, <1>3, <1>5, <2>1, <2>4, TaskStep
<1> QED
  BY <1>4, <1>5 DEF HandlerAnswers

LEMMA BrowserStepOnCallback ==
    ASSUME TypeInv, BrowserInv, NEW q \in Query, OnCallback(q)
    PROVE  BrowserInv'
<1> DEFINE s == posted[q]
<1>1. s \in Seq(Task) /\ s # <<>> /\ Head(s)[1] = "router"
  BY DEF TypeInv, TypeOK, OnCallback
<1>2. PICK o \in Outcome : o = Head(s)[2]
  BY <1>1, Taking DEF Task
<1>3. /\ posted' = [posted EXCEPT ![q] = Tail(s)]
      /\ Answer({q} \cap Pending, o)
      /\ pending' = [h \in Handler |-> IF Final(q, o) THEN pending[h] \ {q} ELSE pending[h]]
      /\ Idle
      /\ UNCHANGED <<made, persistent, toBrowser, process, current, asking, attached, holds, told>>
  BY <1>2 DEF OnCallback, pageVars
<1>4. HasFinal(s, q) <=> HasFinal(Tail(s), q) \/ Final(q, o)
  BY <1>1, <1>2, TaskTaken
<1>5. ~Fresh(q)
  BY <1>1 DEF Fresh
<1>6. /\ posted'[q] = Tail(s)
      /\ \A r \in Query : r # q => posted'[r] = posted[r]
      /\ \A r \in Query : r # q \/ q \notin Pending => SameAnswers(r)
  <2>1. \A r \in Query : r # q \/ q \notin Pending => SameAnswers(r)
    BY <1>3, AnswerElse DEF TypeInv
  <2> QED
    BY <1>3, <2>1 DEF TypeInv, TypeOK
<1>7. HasFinal(posted[q], q)' <=> HasFinal(Tail(s), q)
  BY <1>3, <1>6 DEF HasFinal, Final
<1> HIDE DEF s
<1>8. SentOnce' /\ \A r : InTransit(r)' <=> InTransit(r)
  BY <1>3, TransitSame DEF BrowserInv
<1>9. Pending' = (IF Final(q, o) THEN Pending \ {q} ELSE Pending) /\ OneHandler'
  <2>1. CASE Final(q, o)
    <3>1. pending' = [h \in Handler |-> pending[h] \ {q}]
      BY <1>3, <2>1
    <3> QED
      BY <2>1, <3>1, PendingCanceled DEF TypeInv, BrowserInv
  <2>2. CASE ~Final(q, o)
    <3>1. \A h \in Handler : pending'[h] = pending[h]
      BY <1>3, <2>2
    <3> QED
      BY <2>2, <3>1 DEF Pending, OneHandler, BrowserInv
  <2> QED
    BY <2>1, <2>2
<1>10. QueryInv(q) /\ asking.query # q /\ ~(q > made) /\ ~InTransit(q)
  BY <1>3, <1>5, BoundAssumption DEF BrowserInv, QueryInv, Idle, NotAsking, Query
<1>11. ASSUME NEW r \in Query, r # q
       PROVE  QueryInv(r)'
  <2>1. Same(r)
    BY <1>3, <1>6, <1>8, <1>9, <1>11 DEF Same
  <2> QED
    BY <2>1, SameQuery DEF BrowserInv
<1>12. /\ Ordered(q)'
       /\ ~Final(q, o) /\ q \in Pending => Unanswered(q)'
  <2>1. CASE q \in Pending
    <3>1. Unanswered(q) /\ Ordered(q)
      BY <1>10, <2>1 DEF QueryInv, InBrowser
    <3> QED
      BY <1>3, <3>1, LastAnswer DEF TypeInv
  <2>2. CASE q \notin Pending
    <3>1. \A p \in Process : answers'[p][q] = answers[p][q]
      BY <1>6, <2>2 DEF SameAnswers
    <3> QED
      BY <1>3, <1>10, <2>2, <3>1, AnswersLost DEF QueryInv
  <2> QED
    BY <2>1, <2>2
<1>13. CASE Final(q, o)
  <2>1. q \notin attached /\ HasFinal(s, q)
    BY <1>4, <1>10, <1>13 DEF QueryInv, s
  <2>2. QueryInv(q)'
    BY <1>3, <1>8, <1>9, <1>10, <1>12, <1>13, <2>1, QueryGone
  <2> QED
    BY <1>8, <1>9, <1>11, <2>2 DEF BrowserInv
<1>14. CASE ~Final(q, o)
  <2>1. HasFinal(posted[q], q)' <=> HasFinal(posted[q], q)
    BY <1>4, <1>7, <1>14 DEF s
  <2>2. Pending' = Pending /\ InBrowser' = InBrowser
    BY <1>3, <1>9, <1>14 DEF InBrowser
  <2>3. q \in InBrowser <=> q \in Pending
    BY <1>10, InBrowserQuery
  <2>4. QueryInv(q)'
    BY <1>3, <1>8, <1>10, <1>12, <1>14, <2>1, <2>2, <2>3 DEF QueryInv
  <2> QED
    BY <1>8, <1>9, <1>11, <2>4 DEF BrowserInv
<1> QED
  BY <1>13, <1>14

LEMMA BrowserStepClose ==
    ASSUME TypeInv, BrowserInv, OnBeforeClose
    PROVE  BrowserInv'
<1> DEFINE T == UNION {pending[h] : h \in handlerSet}
<1>1. /\ pending' = [h \in Handler |-> pending[h] \ T]
      /\ told' = told \cup T /\ attached' = attached \ T
      /\ toBrowser' = [p \in Process |-> <<>>]
      /\ \A p \in Process : \A q \in Query : answers'[p][q] \in {<<>>, answers[p][q]}
      /\ UNCHANGED <<asking, posted, holds, persistent, made, current, process>>
  BY DEF OnBeforeClose, PagesGone
<1>2. T \subseteq Pending
  BY DEF TypeInv, TypeOK, Pending
<1>3. Pending' = Pending \ T /\ OneHandler'
  BY <1>1, PendingCanceled DEF TypeInv, BrowserInv
<1> HIDE DEF T
<1>4. SentOnce' /\ \A q : ~InTransit(q)'
  BY <1>1 DEF SentOnce, InTransit, Queued
<1>5. ASSUME NEW q \in Query
      PROVE  QueryInv(q)'
  <2>1. /\ q \in Pending' => q \in Pending
        /\ q \in Pending /\ q \notin Pending' => q \in told' /\ q \notin attached'
        /\ q \in Pending' \/ q \notin Pending =>
              /\ q \in told' <=> q \in told
              /\ q \in attached' <=> q \in attached
    BY <1>1, <1>2, <1>3
  <2>2. QueryInv(q) /\ \A p \in Process : answers'[p][q] \in {<<>>, answers[p][q]}
    BY <1>1 DEF BrowserInv
  <2>3. UNCHANGED <<asking, posted, holds, persistent, made, current>> /\ (InTransit(q)' => InTransit(q))
    BY <1>1, <1>4
  <2> QED
    BY <2>1, <2>2, <2>3, LostAnswers
<1> QED
  BY <1>3, <1>4, <1>5 DEF BrowserInv

LEMMA BrowserStep ==
    ASSUME TypeInv, BrowserInv, [Next]_vars
    PROVE  BrowserInv'
<1>1. CASE UNCHANGED vars
  <2>1. /\ UNCHANGED <<asking, pending, attached, posted, holds, told, persistent, made, answers,
                       toBrowser, process, current>>
    BY <1>1 DEF vars, pageVars, queryVars
  <2>2. SentOnce' /\ \A q : InTransit(q)' <=> InTransit(q)
    BY <2>1, TransitSame DEF BrowserInv
  <2> QED
    BY <2>1, <2>2, PageStep DEF BrowserInv, SameAnswers
<1>2. TypeInv'
  BY TypeStep
<1>3. CASE Browser
  BY <1>2, <1>3, BrowserStepReceive, BrowserStepOffer, BrowserStepCancel, BrowserStepRunCallback,
     BrowserStepOnCallback, BrowserStepClose
     DEF Browser
<1> QED
  BY <1>1, <1>3, BrowserStepPage, BrowserStepHandler DEF Next, HandlerStep

LEMMA BrowserInit ==
    ASSUME Init
    PROVE  BrowserInv
<1>1. InBrowser = {}
  BY DEF Init, InBrowser, Pending, NotAsking
<1>2. \A q : ~InTransit(q)
  BY DEF Init, InTransit, Queued
<1>3. ASSUME NEW q \in Query
      PROVE  QueryInv(q)
  <2>1. \A p \in Process : answers[p][q] = <<>> /\ Ends(p, q) = {}
    BY DEF Init, Ends
  <2>2. NoAnswers(q) /\ Unanswered(q) /\ Ordered(q)
    BY <2>1 DEF NoAnswers, Unanswered, Ordered
  <2>3. asking.query # q /\ q \notin Pending /\ q \notin attached /\ Fresh(q)
    BY <1>1, <2>2, BoundAssumption DEF Init, Fresh, InBrowser, NotAsking, Query
  <2> QED
    BY <1>1, <1>2, <2>2, <2>3 DEF QueryInv, Fresh
<1> QED
  BY <1>3 DEF BrowserInv, Init, SentOnce, OneHandler

LEMMA BrowserInvariant == Spec => [](TypeInv /\ BrowserInv)
<1>1. TypeInv /\ BrowserInv /\ [Next]_vars => TypeInv' /\ BrowserInv'
  BY TypeStep, BrowserStep
<1>2. Init => TypeInv /\ BrowserInv
  BY TypeInit, BrowserInit
<1> QED
  BY <1>1, <1>2, PTL DEF Spec

\* A query has one handler and one outcome: CancelQueries, the last Decline and
\* OnCallback all take it out of the maps with the last answer they send, to
\* whatever process shows the page then.
THEOREM OneHandlerOneOutcome == Spec => []OneOutcome
<1>1. TypeInv /\ BrowserInv => OneOutcome
  <2>1. ASSUME TypeInv, BrowserInv, NEW p \in Process, NEW q \in Query
        PROVE  /\ Ends(p, q) \subseteq {Len(answers[p][q])}
               /\ Ends(p, q) # {} => /\ q \notin InBrowser
                                     /\ \A n \in Process : n > p => answers[n][q] = <<>>
    <3>1. QueryInv(q)
      BY <2>1 DEF BrowserInv
    <3> HIDE DEF Process
    <3> QED
      BY <3>1 DEF QueryInv, Ordered, Unanswered
  <2> QED
    BY <2>1 DEF BrowserInv, OneHandler, OneOutcome
<1> QED
  BY <1>1, BrowserInvariant, PTL

\* OnQueryCanceled comes once for a query, and its Callback is detached then.
LEMMA CanceledOnce == TypeInv /\ BrowserInv => CanceledForGood
BY DEF TypeInv, TypeOK, BrowserInv, QueryInv, CanceledForGood

\* A pending query can be answered, no other one, and never one that was
\* canceled: the DCHECK in ~CallbackImpl holds.
THEOREM PendingAnswerable == Spec => []CallbackAnswerable
<1>1. TypeInv /\ BrowserInv => CallbackAnswerable
  <2>1. ASSUME TypeInv, BrowserInv, NEW q \in Pending \ attached
        PROVE  \E i \in DOMAIN posted[q] : posted[q][i][1] = "router" /\ Final(q, posted[q][i][2])
    BY <2>1, PendingOK DEF TypeInv, BrowserInv, QueryInv, HasFinal
  <2>2. ASSUME TypeInv, BrowserInv
        PROVE  attached \subseteq InBrowser
    BY <2>2 DEF TypeInv, TypeOK, BrowserInv, QueryInv
  <2> QED
    BY <2>1, <2>2, CanceledOnce DEF CallbackAnswerable
<1> QED
  BY <1>1, BrowserInvariant, PTL

\* What a step does to the answers to a query that is canceled.
LEMMA CanceledStep ==
    ASSUME TypeInv, BrowserInv, [Next]_vars, NEW q \in told, NEW p \in Process
    PROVE  \/ answers'[p][q] = answers[p][q]
           \/ answers'[p][q] = <<>>
           \/ answers[p][q] # <<>> /\ answers'[p][q] = Tail(answers[p][q])
<1> USE DEF TypeInv
<1>1. /\ q \in Query /\ q \notin Pending /\ asking.query # q /\ ~InTransit(q)
  <2>1. q \in Query
    BY DEF TypeOK
  <2>2. QueryInv(q) /\ ~Fresh(q)
    BY <2>1 DEF BrowserInv, Fresh
  <2> QED
    BY <2>1, <2>2, InBrowserQuery DEF QueryInv
<1>2. ASSUME UNCHANGED answers
      PROVE  answers'[p][q] = answers[p][q]
  BY <1>2
<1>3. ASSUME NEW T, NEW o, Answer(T, o), q \notin T
      PROVE  answers'[p][q] = answers[p][q]
  BY <1>1, <1>3, AnswerElse DEF SameAnswers
<1>4. ASSUME NEW T \in SUBSET Pending, NEW notify \in BOOLEAN, CancelQueries(T, notify)
      PROVE  answers'[p][q] = answers[p][q]
  <2>1. PICK U, o : Answer(U, o) /\ q \notin U
    BY <1>1, <1>4 DEF CancelQueries
  <2> QED
    BY <1>3, <2>1
<1>5. CASE UNCHANGED vars
  BY <1>2, <1>5 DEF vars
<1>6. CASE Page
  <2>1. ASSUME NEW n \in Process, NEW r \in Query, ExecuteCallback(n, r)
        PROVE  answers'[p][q] = answers[p][q] \/ (answers[p][q] # <<>> /\ answers'[p][q] = Tail(answers[p][q]))
    BY <1>1, <2>1 DEF ExecuteCallback, TypeOK
  <2>2. ASSUME NEW n \in Process, RendererGone(n)
        PROVE  answers'[p][q] = answers[p][q] \/ answers'[p][q] = <<>>
    BY <1>1, <2>2 DEF RendererGone, PagesGone
  <2>3. CASE UNCHANGED answers
    BY <2>3
  <2> QED
    BY <1>6, <2>1, <2>2, <2>3
       DEF Page, SendQuery, CancelRequest, OnContextReleased, CommitInNewProcess
<1>7. ASSUME NEW n \in Process, ReceiveQuery(n)
      PROVE  answers'[p][q] = answers[p][q]
  <2>1. PICK k : k = Head(toBrowser[n]).query /\ InTransit(k)
    <3>1. TypeOK' /\ UNCHANGED process
      BY <1>7, TypeStep DEF ReceiveQuery, pageVars
    <3> QED
      BY <1>7, <3>1, Received DEF ReceiveQuery, BrowserInv
  <2>2. q \notin {k}
    BY <1>1, <2>1
  <2> QED
    BY <1>2, <1>3, <1>7, <2>1, <2>2 DEF ReceiveQuery
<1>8. ASSUME NEW n \in Process, ReceiveCancel(n)
      PROVE  answers'[p][q] = answers[p][q]
  BY <1>4, <1>8, CanceledByMessage DEF ReceiveCancel
<1>9. CASE OnBeforeBrowse \/ \E n \in Process : OnRenderProcessTerminated(n)
  BY <1>4, <1>9 DEF OnRenderProcessTerminated, OnBeforeBrowse, CancelAllPending
<1>10. ASSUME NEW h \in Handler, Decline(h) \/ Accept(h) \/ AddHandler(h)
       PROVE  answers'[p][q] = answers[p][q]
  <2>1. q \notin {asking.query}
    BY <1>1
  <2> QED
    BY <1>2, <1>3, <1>10, <2>1 DEF Decline, Accept, AddHandler
<1>11. ASSUME NEW h \in Handler, RemoveHandler(h)
       PROVE  answers'[p][q] = answers[p][q]
  <2>1. pending[h] \in SUBSET Pending
    BY DEF Pending
  <2> QED
    BY <1>4, <1>11, <2>1 DEF RemoveHandler, CancelPendingFor
<1>12. ASSUME NEW S \in SUBSET Handler, CancelPending(S)
       PROVE  answers'[p][q] = answers[p][q]
  <2>1. UNION {pending[h] : h \in S} \in SUBSET Pending
    BY DEF Pending
  <2> QED
    BY <1>4, <1>12, <2>1 DEF CancelPending
<1>13. ASSUME NEW r \in Query, RunCallback(r)
       PROVE  answers'[p][q] = answers[p][q]
  BY <1>13 DEF RunCallback
<1>14. ASSUME NEW r \in Query, OnCallback(r)
       PROVE  answers'[p][q] = answers[p][q]
  <2>1. Answer({r} \cap Pending, Head(posted[r])[2]) /\ q \notin {r} \cap Pending
    BY <1>1, <1>14 DEF OnCallback
  <2> QED
    BY <1>3, <2>1
<1>15. CASE OnBeforeClose
  BY <1>1, <1>15 DEF OnBeforeClose, PagesGone
<1>16. CASE HandlerStep
  BY <1>16 DEF HandlerStep, HandlerAnswers
<1> QED
  BY <1>5, <1>6, <1>7, <1>8, <1>9, <1>10, <1>11, <1>12, <1>13, <1>14, <1>15, <1>16
     DEF Next, Browser, ReceiveMessage

\* The browser process sends no answer to a query after OnQueryCanceled.
THEOREM NoLateAnswer == Spec => NoAnswerAfterCancel
<1>1. TypeInv /\ BrowserInv /\ [Next]_vars
         => [\A p \in Process, q \in told : Len(answers'[p][q]) <= Len(answers[p][q])]_vars
  <2>1. ASSUME TypeInv, BrowserInv, [Next]_vars, NEW p \in Process, NEW q \in told
        PROVE  Len(answers'[p][q]) <= Len(answers[p][q])
    <3>1. answers[p][q] \in Seq(Outcome)
      BY <2>1 DEF TypeInv, TypeOK
    <3>2. CASE answers'[p][q] = answers[p][q]
      BY <3>1, <3>2
    <3>3. CASE answers'[p][q] = <<>>
      BY <3>1, <3>3
    <3>4. CASE answers[p][q] # <<>> /\ answers'[p][q] = Tail(answers[p][q])
      BY <3>1, <3>4, Taking
    <3> QED
      BY <2>1, <3>2, <3>3, <3>4, CanceledStep
  <2> QED
    BY <2>1
<1> QED
  BY <1>1, BrowserInvariant, PTL DEF Spec, NoAnswerAfterCancel

-----------------------------------------------------------------------------
(* Handlers.                                                               *)

LEMMA HandlersStep ==
    ASSUME TypeOK, HandlersRegistered, [Next]_vars
    PROVE  HandlersRegistered'
<1> USE DEF HandlersRegistered
<1>0. Idle => asking.left = {}
  BY DEF Idle, NotAsking
<1>1. ASSUME UNCHANGED handlerSet,
             \A h \in Handler : pending'[h] \subseteq pending[h],
             \A h \in Handler : h \in asking'.left => h \in asking.left \cup handlerSet
      PROVE  HandlersRegistered'
  BY <1>1
<1>2. ASSUME UNCHANGED <<handlerSet, asking>>, NEW T, NEW notify, CancelQueries(T, notify)
      PROVE  HandlersRegistered'
  <2>1. \A h \in Handler : pending'[h] = pending[h] \ T
    BY <1>2 DEF CancelQueries
  <2> QED
    BY <1>1, <1>2, <2>1
<1>3. ASSUME UNCHANGED <<handlerSet, asking, pending>>
      PROVE  HandlersRegistered'
  BY <1>3
<1>4. CASE UNCHANGED vars
  BY <1>3, <1>4 DEF vars, queryVars, browserVars
<1>5. CASE Page
  BY <1>3, <1>5 DEF Page, SendQuery, CancelRequest, ExecuteCallback, OnContextReleased,
                    RendererGone, CommitInNewProcess, queryVars, browserVars
<1>6. ASSUME NEW p \in Process, ReceiveQuery(p)
      PROVE  HandlersRegistered'
  <2>1. asking' = asking \/ asking'.left = handlerSet
    BY <1>6 DEF ReceiveQuery
  <2>2. UNCHANGED <<handlerSet, pending>>
    BY <1>6 DEF ReceiveQuery, browserVars
  <2> QED
    BY <1>1, <2>1, <2>2
<1>7. ASSUME NEW p \in Process, ReceiveCancel(p)
      PROVE  HandlersRegistered'
  BY <1>2, <1>7, CanceledByMessage DEF ReceiveCancel, browserVars
<1>8. CASE OnBeforeBrowse \/ \E p \in Process : OnRenderProcessTerminated(p)
  BY <1>2, <1>8 DEF OnRenderProcessTerminated, OnBeforeBrowse, CancelAllPending, browserVars
<1>9. ASSUME NEW h \in Handler, Decline(h)
      PROVE  HandlersRegistered'
  <2>1. asking'.left \subseteq asking.left
    BY <1>9 DEF Decline, TypeOK, NotAsking
  <2> QED
    BY <1>1, <1>9, <2>1 DEF Decline, browserVars
<1>10. ASSUME NEW h \in Handler, Accept(h)
       PROVE  HandlersRegistered'
  <2>1. /\ asking'.left = {} /\ h \in asking.left /\ UNCHANGED handlerSet
        /\ pending'[h] = pending[h] \cup {asking.query}
        /\ \A g \in Handler : g # h => pending'[g] = pending[g]
    BY <1>10 DEF Accept, NotAsking, TypeOK, browserVars
  <2> QED
    BY <2>1
<1>11. ASSUME NEW h \in Handler, AddHandler(h)
       PROVE  HandlersRegistered'
  BY <1>11 DEF AddHandler, queryVars
<1>12. ASSUME NEW h \in Handler, RemoveHandler(h)
       PROVE  HandlersRegistered'
  <2>1. /\ handlerSet' = handlerSet \ {h} /\ UNCHANGED asking
        /\ \A g \in Handler : pending'[g] = pending[g] \ pending[h]
    BY <1>12 DEF RemoveHandler, CancelPendingFor, CancelQueries
  <2> QED
    BY <2>1
<1>13. ASSUME NEW S \in SUBSET Handler, CancelPending(S)
       PROVE  HandlersRegistered'
  BY <1>2, <1>13 DEF CancelPending, browserVars
<1>14. ASSUME NEW q \in Query, RunCallback(q)
       PROVE  HandlersRegistered'
  BY <1>3, <1>14 DEF RunCallback, browserVars
<1>15. ASSUME NEW q \in Query, OnCallback(q)
       PROVE  HandlersRegistered'
  <2>1. \A h \in Handler : pending'[h] \subseteq pending[h]
    BY <1>15 DEF OnCallback
  <2> QED
    BY <1>1, <1>15, <2>1 DEF OnCallback, browserVars
<1>16. CASE OnBeforeClose
  <2> DEFINE T == UNION {pending[h] : h \in handlerSet}
  <2>1. /\ \A h \in Handler : pending'[h] = pending[h] \ T
        /\ UNCHANGED asking /\ Idle
    BY <1>16 DEF OnBeforeClose
  <2>2. \A h \in handlerSet : pending[h] \subseteq T
    OBVIOUS
  <2> HIDE DEF T
  <2> QED
    BY <1>0, <2>1, <2>2
<1>17. CASE HandlerStep
  BY <1>3, <1>17 DEF HandlerStep, HandlerAnswers, browserVars
<1> QED
  BY <1>4, <1>5, <1>6, <1>7, <1>8, <1>9, <1>10, <1>11, <1>12, <1>13, <1>14, <1>15, <1>16, <1>17
     DEF Next, Browser, ReceiveMessage

\* OnQueryCanceled and OnQuery are called on registered handlers, but for the
\* one query of an OnQuery from within which a handler was removed.
THEOREM OnlyRegisteredHandlers == Spec => []HandlersRegistered
<1>1. Init => HandlersRegistered
  BY DEF Init, HandlersRegistered, NotAsking
<1>2. TypeOK /\ HandlersRegistered /\ [Next]_vars => HandlersRegistered'
  BY HandlersStep
<1> QED
  BY <1>1, <1>2, TypeCorrect, PTL DEF Spec

-----------------------------------------------------------------------------
(* A query on its way: its IDs, and the messages about it.                 *)

\* Message m, read by q's process, ends what the browser process knows of q.
Withdraws(m, q) ==
    \/ m.type = "terminated"
    \/ m.type = "cancel" /\ m.context = key[q][1] /\ m.request \in {AllRequests, key[q][2]}

WithdrawnBehind(q, p, i) == \E j \in DOMAIN toBrowser[p] : j > i /\ Withdraws(toBrowser[p][j], q)

Waiting(q) == InTransit(q) \/ q \in InBrowser

\* The end of q's process is not announced.
Unannounced(q) == process[q] \in left \ alive

\* Nothing is left of process p.
Gone(p) ==
    /\ p \notin alive /\ toBrowser[p] = <<>>
    /\ \A q \in Query : process[q] = p => q \notin InBrowser /\ NoAnswers(q)

\* The processes come one after another.  Nothing is left of those that were
\* gone when the next one came; and of the last one, when it is gone, only the
\* messages that it got out, and then the one about its end.
ProcessInv ==
    /\ current # 0
    /\ \A p \in alive : p <= current
    /\ \A p \in left : p < current
    /\ \A q \in Query : IF q <= made THEN process[q] <= current ELSE process[q] = 0
    /\ closed => alive = {}
    /\ \A q \in registered : process[q] \in alive
    /\ \A p \in Process \ alive : contexts[p] = {} /\ \A q \in Query : answers[p][q] = <<>>
    /\ \A p \in Process : \A q \in Query : answers[p][q] # <<>> => process[q] <= p
    /\ \A p \in Process : p > current => toBrowser[p] = <<>>
    /\ \A p \in Process : \A i \in DOMAIN toBrowser[p] :
          toBrowser[p][i].type = "terminated" => p = current /\ p \notin alive
    /\ \A p \in Process : p = current /\ p \notin alive /\ ~closed =>
          IF toBrowser[p] = <<>> THEN \A q \in InBrowser : process[q] # p
          ELSE toBrowser[p][Len(toBrowser[p])].type = "terminated"
    /\ \A p \in Process : p < current => p \in left \/ Gone(p)

\* No two queries of a process have the same IDs, and none is ahead of its
\* generator.
KeyInv ==
    /\ \A q, r \in Query :
          q <= made /\ r <= made /\ process[q] = process[r] /\ key[q] = key[r] => q = r
    /\ \A q \in Query : q <= made => key[q][2] <= nextRequest[process[q]]

\* A cancel message is about what its page has given up, and will be: neither a
\* context nor a query of that page gets the IDs in it again.
CancelOK(p, m) ==
    /\ \E r \in Query : r <= made /\ process[r] = p /\ key[r][1] = m.context
    /\ m.request = AllRequests => m.context \notin contexts[p] /\ m.context <= nextContext[p]
    /\ m.request # AllRequests =>
          /\ m.request <= nextRequest[p]
          /\ \A q \in registered :
                process[q] = p => ~(key[q][1] = m.context /\ key[q][2] = m.request)

CancelInv ==
    /\ \A q \in registered : key[q][1] \in contexts[process[q]]
    /\ \A p \in Process : \A c \in contexts[p] : c <= nextContext[p]
    /\ \A p \in Process : \A i \in DOMAIN toBrowser[p] :
          toBrowser[p][i].type = "cancel" => CancelOK(p, toBrowser[p][i])

\* What the page has given up is withdrawn behind the query itself.
QueueInv ==
    /\ \A p \in Process : \A i \in DOMAIN toBrowser[p] : toBrowser[p][i].type = "query" =>
          LET q == toBrowser[p][i].query IN
          q \in registered \/ Unannounced(q) \/ Twins(q) # {} \/ WithdrawnBehind(q, p, i)
    /\ \A q \in InBrowser :
          \/ q \in registered \/ closed \/ Unannounced(q) \/ Twins(q) # {}
          \/ WithdrawnBehind(q, process[q], 0)

RouterInv ==
    /\ TypeInv /\ BrowserInv
    /\ ProcessInv /\ KeyInv /\ CancelInv /\ QueueInv /\ NoQueryForgotten

\* What a step of the browser process does to q.
Shape(q) ==
    /\ q \in InBrowser' => Waiting(q)
    /\ \A p \in Process :
          \/ answers'[p][q] = answers[p][q]
          \/ /\ p = current /\ p \in alive /\ Waiting(q)
             /\ \E o \in Outcome : answers'[p][q] = Append(answers[p][q], o)
    /\ Waiting(q) /\ q \in registered /\ process[q] = current /\ Twins(q) = {} =>
          Waiting(q)' \/ Ends(current, q)' # {} \/ q \in silenced'

\* ... and to the queues.
ConsumedFrom(p) ==
    /\ toBrowser[p] # <<>> /\ toBrowser' = [toBrowser EXCEPT ![p] = Tail(@)]
    /\ \A q \in Query : process[q] = p /\ Withdraws(Head(toBrowser[p]), q) =>
          q \notin InBrowser' \/ (Twins(q) # {} /\ Head(toBrowser[p]).type # "terminated")

Consumed == UNCHANGED toBrowser \/ \E p \in Process : ConsumedFrom(p)

LEMMA InBrowserOK == TypeOK => InBrowser \subseteq Query
<1>1. TypeOK => asking.query \in Query \cup {0}
  BY DEF TypeOK, NotAsking
<1> QED
  BY <1>1, PendingOK DEF InBrowser

\* What is registered, or known to the browser process, was made.
LEMMA Known ==
    ASSUME TypeInv, BrowserInv, NEW q \in Query,
           Waiting(q) \/ q \in registered \/ ~NoAnswers(q)
    PROVE  /\ q <= made /\ made \in Nat /\ q \in Nat
           /\ process[q] \in Process /\ key[q] \in Context \X Request
<1>1. made \in Nat /\ q \in Nat
  BY BoundAssumption DEF TypeInv, TypeOK, Query
<1>2. ~(q > made)
  <2>1. CASE q \in registered
    BY <1>1, <2>1 DEF TypeInv
  <2>2. CASE q \notin registered
    BY <2>2 DEF Waiting, BrowserInv, QueryInv, Fresh
  <2> QED
    BY <2>1, <2>2
<1>3. q <= made
  BY <1>1, <1>2
<1> QED
  BY <1>1, <1>3 DEF TypeInv

\* Processes are numbers.
LEMMA Numbers ==
    ASSUME TypeOK
    PROVE  /\ current \in Nat /\ Process \subseteq Nat \ {0} /\ 0 \notin Process
           /\ \A q \in Query : process[q] \in Nat
           /\ left \subseteq Process /\ alive \subseteq Process
<1>1. Process \subseteq Nat \ {0}
  BY BoundAssumption DEF Process
<1>2. /\ \A q \in Query : process[q] \in Process \cup {0}
      /\ left \subseteq Process /\ alive \subseteq Process /\ current \in Nat
  BY DEF TypeOK
<1>3. ASSUME NEW q \in Query
      PROVE  process[q] \in Nat
  <2>1. 0 \in Nat /\ \A p \in Process : p \in Nat
    BY <1>1
  <2>2. process[q] = 0 \/ process[q] \in Process
    BY <1>2
  <2> QED
    BY <2>1, <2>2
<1>4. 0 \notin Process
  BY <1>1
<1> QED
  BY <1>1, <1>2, <1>3, <1>4

\* A query in a queue has a process and was made.
LEMMA Carried ==
    ASSUME TypeInv, BrowserInv, NEW p \in Process, NEW i \in DOMAIN toBrowser[p],
           toBrowser[p][i].type = "query", NEW q, q = toBrowser[p][i].query
    PROVE  /\ q \in Query /\ process[q] = p /\ InTransit(q)
           /\ q <= made
<1>1. toBrowser[p][i] \in Message
  BY DEF TypeInv, TypeOK
<1>2. q \in Query
  BY <1>1, MessageKinds
<1>3. Carries(toBrowser[p], q)
  BY DEF Carries
<1>4. InTransit(q)
  BY <1>3, Transit DEF TypeInv
<1>5. process[q] = p
  BY <1>3, TransitOf DEF TypeInv, BrowserInv
<1>6. q <= made
  BY <1>2, <1>4, Known DEF Waiting
<1> QED
  BY <1>2, <1>4, <1>5, <1>6

\* ... and the queue that it is in is that of its process.
LEMMA CarriedBy ==
    ASSUME TypeInv, BrowserInv, NEW q, InTransit(q)
    PROVE  process[q] \in Process /\ Carries(toBrowser[process[q]], q) /\ toBrowser[process[q]] # <<>>
<1>1. PICK p \in Process : Carries(toBrowser[p], q)
  BY Transit DEF TypeInv
<1>2. process[q] = p
  BY <1>1, TransitOf DEF TypeInv, BrowserInv
<1>3. toBrowser[p] # <<>>
  BY <1>1 DEF Carries
<1> QED
  BY <1>1, <1>2, <1>3

\* Nothing comes back.
LEMMA GoneWaits ==
    ASSUME TypeInv, BrowserInv, NEW p \in Process, Gone(p), NEW q \in Query, process[q] = p
    PROVE  ~Waiting(q) /\ NoAnswers(q)
  BY CarriedBy DEF Gone, Waiting

\* The IDs of two queries that both sides know.
LEMMA SameIDs ==
    ASSUME RouterInv, NEW q \in Query, NEW r \in Query,
           Waiting(q) \/ ~NoAnswers(q), Waiting(r) \/ r \in registered, key[q][1] = key[r][1],
           process[q] # process[r]
    PROVE  r \in Twins(q)
<1>1. /\ q <= made /\ r <= made /\ process[q] \in Process /\ process[r] \in Process
      /\ process[q] <= current /\ process[r] <= current
  BY Known DEF RouterInv, ProcessInv
<1>2. process[q] \in Nat /\ process[r] \in Nat /\ current \in Nat
  BY Numbers DEF RouterInv, TypeInv
<1>3. CASE process[q] < process[r]
  <2>1. process[q] < current
    BY <1>1, <1>2, <1>3
  <2>2. ~Gone(process[q])
    BY <1>1, GoneWaits DEF RouterInv
  <2>3. process[q] \in left
    BY <1>1, <2>1, <2>2 DEF RouterInv, ProcessInv
  <2> QED
    BY <1>3, <2>3 DEF Twins, Swapped
<1>4. CASE process[r] < process[q]
  <2>1. process[r] < current
    BY <1>1, <1>2, <1>4
  <2>2. ~Gone(process[r])
    BY <1>1, GoneWaits DEF RouterInv, ProcessInv, Gone
  <2>3. process[r] \in left
    BY <1>1, <2>1, <2>2 DEF RouterInv, ProcessInv
  <2> QED
    BY <1>4, <2>3 DEF Twins, Swapped
<1> QED
  BY <1>2, <1>3, <1>4

\* A queue after such a step, by positions.
LEMMA Taken ==
    ASSUME TypeOK, Consumed, NEW p \in Process
    PROVE  /\ \A i \in DOMAIN toBrowser[p] : toBrowser[p][i] \in Message
           /\ \A i \in DOMAIN toBrowser'[p] : \E j \in DOMAIN toBrowser[p] : toBrowser'[p][i] = toBrowser[p][j]
           /\ \/ toBrowser'[p] = toBrowser[p]
              \/ /\ ConsumedFrom(p)
                 /\ Head(toBrowser[p]) = toBrowser[p][1]
                 /\ \A i \in DOMAIN toBrowser'[p] :
                       i + 1 \in DOMAIN toBrowser[p] /\ toBrowser'[p][i] = toBrowser[p][i + 1]
                 /\ \A i \in DOMAIN toBrowser[p] :
                       i = 1 \/ (i - 1 \in DOMAIN toBrowser'[p] /\ toBrowser'[p][i - 1] = toBrowser[p][i])
                 /\ Len(toBrowser[p]) \in Nat \ {0} /\ Len(toBrowser'[p]) = Len(toBrowser[p]) - 1
                 /\ DOMAIN toBrowser[p] = 1..Len(toBrowser[p])
                 /\ DOMAIN toBrowser'[p] = 1..(Len(toBrowser[p]) - 1)
                 /\ toBrowser'[p] = <<>> <=> Len(toBrowser[p]) = 1
<1>1. toBrowser[p] \in Seq(Message) /\ toBrowser \in [Process -> Seq(Message)]
  BY DEF TypeOK
<1>2. \A i \in DOMAIN toBrowser[p] : toBrowser[p][i] \in Message
  BY <1>1
<1>3. CASE toBrowser'[p] = toBrowser[p]
  BY <1>2, <1>3
<1>4. CASE ConsumedFrom(p)
  <2>1. toBrowser[p] # <<>> /\ toBrowser'[p] = Tail(toBrowser[p])
    BY <1>1, <1>4 DEF ConsumedFrom
  <2> DEFINE s == toBrowser[p]
             t == toBrowser'[p]
  <2>2. /\ Head(s) = s[1] /\ t \in Seq(Message)
        /\ Len(s) \in Nat \ {0} /\ Len(t) = Len(s) - 1
        /\ DOMAIN s = 1..Len(s) /\ DOMAIN t = 1..(Len(s) - 1)
        /\ \A i \in DOMAIN t : i + 1 \in DOMAIN s /\ t[i] = s[i + 1]
        /\ \A i \in DOMAIN s : i = 1 \/ (i - 1 \in DOMAIN t /\ t[i - 1] = s[i])
    BY <1>1, <2>1, Taking
  <2>3. t = <<>> <=> Len(s) = 1
    <3> HIDE DEF s, t
    <3>1. t = <<>> <=> Len(t) = 0
      BY <2>2, EmptySeq
    <3> QED
      BY <2>2, <3>1
  <2> QED
    BY <1>2, <1>4, <2>2, <2>3
<1> QED
  BY <1>1, <1>3, <1>4 DEF Consumed, ConsumedFrom

LEMMA TakenTransit ==
    ASSUME TypeOK, Consumed
    PROVE  \A q : InTransit(q)' => InTransit(q)
<1>1. \A p \in Process : Queued(p)' \subseteq Queued(p)
  BY Taken DEF Queued
<1> QED
  BY <1>1 DEF InTransit

LEMMA ShapeWaiting ==
    ASSUME TypeOK, TypeOK', Consumed, \A q \in Query : Shape(q)
    PROVE  /\ \A q \in Query : Waiting(q)' => Waiting(q)
           /\ \A q \in InBrowser' : q \in Query /\ Waiting(q)
<1>1. InBrowser' \subseteq Query
  <2>1. (TypeOK => InBrowser \subseteq Query)'
    BY InBrowserOK, PTL
  <2> QED
    BY <2>1
<1> QED
  BY <1>1, TakenTransit DEF Shape, Waiting

LEMMA ShapeProcess ==
    ASSUME RouterInv, TypeInv', UNCHANGED <<pageVars, closed>>, Consumed, \A q \in Query : Shape(q)
    PROVE  ProcessInv'
<1> USE DEF RouterInv
<1>1. /\ UNCHANGED <<current, alive, contexts, process, registered, made, left, closed>>
      /\ TypeOK /\ TypeOK'
  BY DEF pageVars, TypeInv
<1>2. \A q \in InBrowser' : q \in Query /\ Waiting(q)
  BY <1>1, ShapeWaiting
<1>3. \A p \in Process \ alive : \A q \in Query : answers'[p][q] = <<>>
  BY DEF Shape, ProcessInv
<1>4. ASSUME NEW p \in Process, NEW q \in Query, answers'[p][q] # <<>>
      PROVE  process[q] <= p
  <2>1. CASE answers'[p][q] = answers[p][q]
    BY <1>4, <2>1 DEF ProcessInv
  <2>2. CASE p = current /\ Waiting(q)
    BY <2>2, Known DEF ProcessInv
  <2> QED
    BY <2>1, <2>2 DEF Shape
<1>5. \A p \in Process : toBrowser[p] = <<>> => toBrowser'[p] = <<>>
  BY <1>1, Taken DEF ConsumedFrom
<1>6. \A p \in Process : \A i \in DOMAIN toBrowser'[p] :
         toBrowser'[p][i].type = "terminated" => p = current /\ p \notin alive
  BY <1>1, Taken DEF ProcessInv
<1>7. ASSUME NEW p \in Process, p = current, p \notin alive, ~closed
      PROVE  IF toBrowser'[p] = <<>> THEN \A q \in InBrowser' : process[q] # p
             ELSE toBrowser'[p][Len(toBrowser'[p])].type = "terminated"
  <2>1. CASE toBrowser[p] = <<>>
    <3>1. ASSUME NEW q \in InBrowser', process[q] = p
          PROVE  FALSE
      <4>1. q \in Query /\ Waiting(q) /\ q \notin InBrowser
        BY <1>2, <1>7, <2>1, <3>1 DEF ProcessInv
      <4>2. InTransit(q)
        BY <4>1 DEF Waiting
      <4> QED
        BY <2>1, <3>1, <4>2, CarriedBy
    <3> QED
      BY <1>5, <2>1, <3>1
  <2>2. CASE toBrowser[p] # <<>> /\ toBrowser'[p] = toBrowser[p]
    BY <1>7, <2>2 DEF ProcessInv
  <2>3. CASE ConsumedFrom(p)
    <3>1. toBrowser[p] # <<>>
      BY <2>3 DEF ConsumedFrom
    <3>2. toBrowser[p][Len(toBrowser[p])].type = "terminated"
      BY <1>7, <3>1 DEF ProcessInv
    <3>3. CASE toBrowser'[p] = toBrowser[p]
      BY <1>7, <3>1, <3>3 DEF ProcessInv
    <3>4. CASE toBrowser'[p] # toBrowser[p]
      <4>1. /\ Head(toBrowser[p]) = toBrowser[p][1]
            /\ \A i \in DOMAIN toBrowser[p] :
                  i = 1 \/ (i - 1 \in DOMAIN toBrowser'[p] /\ toBrowser'[p][i - 1] = toBrowser[p][i])
            /\ Len(toBrowser[p]) \in Nat \ {0} /\ Len(toBrowser'[p]) = Len(toBrowser[p]) - 1
            /\ DOMAIN toBrowser[p] = 1..Len(toBrowser[p])
            /\ toBrowser'[p] = <<>> <=> Len(toBrowser[p]) = 1
        BY <1>1, <3>4, Taken
      <4>2. CASE toBrowser'[p] = <<>>
        <5>1. Head(toBrowser[p]).type = "terminated"
          BY <3>2, <4>1, <4>2
        <5>2. \A q \in Query : process[q] = p => q \notin InBrowser'
          BY <2>3, <5>1 DEF ConsumedFrom, Withdraws
        <5> QED
          BY <1>2, <4>2, <5>2
      <4>3. CASE toBrowser'[p] # <<>>
        <5>1. Len(toBrowser[p]) \in DOMAIN toBrowser[p] /\ Len(toBrowser[p]) # 1
          BY <4>1, <4>3
        <5> QED
          BY <3>2, <4>1, <4>3, <5>1
      <4> QED
        BY <4>2, <4>3
    <3> QED
      BY <3>3, <3>4
  <2> QED
    BY <1>1, <2>1, <2>2, <2>3, Taken
<1>8. ASSUME NEW p \in Process, Gone(p)
      PROVE  Gone(p)'
  <2>1. ASSUME NEW q \in Query, process[q] = p
        PROVE  q \notin InBrowser' /\ \A n \in Process : answers'[n][q] = <<>>
    <3>1. ~Waiting(q) /\ NoAnswers(q)
      BY <1>8, <2>1, GoneWaits
    <3> QED
      BY <3>1 DEF Shape, NoAnswers
  <2> QED
    BY <1>1, <1>5, <1>8, <2>1 DEF Gone, NoAnswers
<1>9. (\A p \in Process : p < current => p \in left \/ Gone(p))'
  BY <1>1, <1>8 DEF ProcessInv
<1> HIDE DEF Gone
<1>10. ProcessInv
  OBVIOUS
<1> QED
  BY <1>1, <1>3, <1>4, <1>5, <1>6, <1>7, <1>9, <1>10 DEF ProcessInv

LEMMA ShapeQueue ==
    ASSUME RouterInv, TypeInv', UNCHANGED <<pageVars, closed>>, Consumed, \A q \in Query : Shape(q)
    PROVE  QueueInv'
<1> USE DEF RouterInv
<1>1. /\ UNCHANGED <<current, alive, process, key, registered, left, closed>>
      /\ TypeOK /\ TypeOK'
  BY DEF pageVars, TypeInv
<1>2. \A q \in InBrowser' : q \in Query /\ Waiting(q)
  BY <1>1, ShapeWaiting
<1>3. /\ \A q : Unannounced(q)' <=> Unannounced(q)
      /\ \A q : Twins(q)' = Twins(q)
      /\ \A m, q : Withdraws(m, q)' <=> Withdraws(m, q)
  BY <1>1 DEF Unannounced, Twins, Swapped, Withdraws
<1>4. ASSUME NEW q, NEW p \in Process, NEW i \in DOMAIN toBrowser'[p], toBrowser'[p][i].type = "query",
             q = toBrowser'[p][i].query
      PROVE  q \in registered \/ Unannounced(q) \/ Twins(q) # {} \/ WithdrawnBehind(q, p, i)'
  <2>1. CASE toBrowser'[p] = toBrowser[p]
    BY <1>3, <1>4, <2>1 DEF QueueInv, WithdrawnBehind
  <2>2. CASE toBrowser'[p] # toBrowser[p]
    <3>1. /\ i + 1 \in DOMAIN toBrowser[p] /\ toBrowser'[p][i] = toBrowser[p][i + 1]
          /\ \A j \in DOMAIN toBrowser[p] :
                j = 1 \/ (j - 1 \in DOMAIN toBrowser'[p] /\ toBrowser'[p][j - 1] = toBrowser[p][j])
          /\ DOMAIN toBrowser[p] \subseteq Nat /\ i \in Nat \ {0}
      BY <1>1, <1>4, <2>2, Taken
    <3>2. q \in registered \/ Unannounced(q) \/ Twins(q) # {} \/ WithdrawnBehind(q, p, i + 1)
      BY <1>4, <3>1 DEF QueueInv
    <3>3. ASSUME NEW j \in DOMAIN toBrowser[p], j > i + 1
          PROVE  j - 1 \in DOMAIN toBrowser'[p] /\ toBrowser'[p][j - 1] = toBrowser[p][j] /\ j - 1 > i
      BY <3>1, <3>3
    <3> QED
      BY <1>3, <3>2, <3>3 DEF WithdrawnBehind
  <2> QED
    BY <2>1, <2>2
<1>5. ASSUME NEW q \in InBrowser'
      PROVE  \/ q \in registered \/ closed \/ Unannounced(q) \/ Twins(q) # {}
             \/ WithdrawnBehind(q, process[q], 0)'
  <2>1. q \in Query /\ Waiting(q) /\ process[q] \in Process
    BY <1>2, <1>5, Known
  <2>2. PICK p \in Process : p = process[q]
    BY <2>1
  <2>3. \/ q \in registered \/ closed \/ Unannounced(q) \/ Twins(q) # {}
        \/ \E j \in DOMAIN toBrowser[p] : Withdraws(toBrowser[p][j], q)
    <3>1. CASE q \in InBrowser
      BY <2>2, <3>1 DEF QueueInv, WithdrawnBehind
    <3>2. CASE InTransit(q)
      <4>1. PICK i \in DOMAIN toBrowser[p] : toBrowser[p][i].type = "query" /\ toBrowser[p][i].query = q
        BY <2>2, <3>2, CarriedBy DEF Carries
      <4> QED
        BY <4>1 DEF QueueInv, WithdrawnBehind
    <3> QED
      BY <2>1, <3>1, <3>2 DEF Waiting
  <2>4. ASSUME NEW j \in DOMAIN toBrowser[p], Withdraws(toBrowser[p][j], q), Twins(q) = {}
        PROVE  \E i \in DOMAIN toBrowser'[p] : i > 0 /\ Withdraws(toBrowser'[p][i], q)
    <3>1. CASE toBrowser'[p] = toBrowser[p]
      <4>1. j > 0
        BY <1>1 DEF TypeOK
      <4> QED
        BY <2>4, <3>1, <4>1
    <3>2. CASE toBrowser'[p] # toBrowser[p]
      <4>1. /\ ConsumedFrom(p) /\ Head(toBrowser[p]) = toBrowser[p][1]
            /\ j = 1 \/ (j - 1 \in DOMAIN toBrowser'[p] /\ toBrowser'[p][j - 1] = toBrowser[p][j])
            /\ DOMAIN toBrowser'[p] \subseteq Nat \ {0}
        BY <1>1, <3>2, Taken
      <4>2. j # 1
        BY <1>5, <2>1, <2>2, <2>4, <4>1 DEF ConsumedFrom
      <4> QED
        BY <2>4, <4>1, <4>2
    <3> QED
      BY <3>1, <3>2
  <2> QED
    BY <1>1, <1>3, <2>2, <2>3, <2>4 DEF WithdrawnBehind
<1> QED
  BY <1>1, <1>3, <1>4, <1>5 DEF QueueInv

\* An answer takes none away.
LEMMA EndsGrow ==
    ASSUME TypeOK, NEW q \in Query, NEW p \in Process, UNCHANGED persistent,
           \/ answers'[p][q] = answers[p][q]
           \/ \E o \in Outcome : answers'[p][q] = Append(answers[p][q], o)
    PROVE  Ends(p, q) \subseteq Ends(p, q)'
<1>1. CASE answers'[p][q] = answers[p][q]
  BY <1>1 DEF Ends, Final
<1>2. ASSUME NEW o \in Outcome, answers'[p][q] = Append(answers[p][q], o)
      PROVE  Ends(p, q) \subseteq Ends(p, q)'
  BY <1>2, AnswerAdded
<1> QED
  BY <1>1, <1>2

\* Such a step keeps everything in its place.
LEMMA ShapeStep ==
    ASSUME RouterInv, TypeInv', BrowserInv', UNCHANGED <<pageVars, closed>>, Consumed,
           silenced \subseteq silenced', \A q \in Query : Shape(q)
    PROVE  RouterInv'
<1>1. /\ UNCHANGED <<current, alive, contexts, nextContext, nextRequest, process, key, persistent,
                     registered, made, left>>
      /\ TypeOK /\ TypeOK'
  BY DEF pageVars, TypeInv, RouterInv
<1>2. ProcessInv' /\ QueueInv'
  BY ShapeProcess, ShapeQueue
<1>3. KeyInv'
  BY <1>1 DEF KeyInv, RouterInv
<1>4. CancelInv'
  <2>1. \A p, m : CancelOK(p, m)' <=> CancelOK(p, m)
    BY <1>1 DEF CancelOK
  <2> QED
    BY <1>1, <2>1, Taken DEF CancelInv, RouterInv
<1>5. NoQueryForgotten'
  <2>1. ASSUME NEW q \in registered, q \notin silenced', process[q] = current, Twins(q) = {}
        PROVE  Waiting(q)' \/ Ends(current, q)' # {}
    <3>1. q \in Query /\ q \notin silenced /\ current \in Process
      BY <1>1, <2>1, Known DEF TypeOK, RouterInv
    <3>2. CASE Waiting(q)
      BY <2>1, <3>1, <3>2 DEF Shape
    <3>3. CASE ~Waiting(q)
      <4>1. Ends(current, q) # {}
        BY <2>1, <3>1, <3>3 DEF NoQueryForgotten, Waiting, RouterInv
      <4>2. Ends(current, q) \subseteq Ends(current, q)'
        BY <1>1, <3>1, EndsGrow DEF Shape
      <4> QED
        BY <1>1, <4>1, <4>2
    <3> QED
      BY <3>2, <3>3
  <2>2. \A q : Twins(q)' = Twins(q)
    BY <1>1 DEF Twins, Swapped
  <2> QED
    BY <1>1, <2>1, <2>2 DEF NoQueryForgotten, Waiting
<1> QED
  BY <1>2, <1>3, <1>4, <1>5 DEF RouterInv

\* The last answer to q is sent.
LEMMA ShapeAnswered ==
    ASSUME RouterInv, NEW q \in Query, Waiting(q), NEW T, NEW o \in Outcome, Answer(T, o),
           q \in T, Final(q, o), UNCHANGED <<persistent, current>>,
           q \in InBrowser' => q \in InBrowser
    PROVE  Shape(q)
<1>1. \A p \in Process : answers'[p][q] = IF p = current /\ p \in alive
                                          THEN Append(answers[p][q], o) ELSE answers[p][q]
  BY AnswerTo
<1>2. ASSUME q \in registered, process[q] = current
      PROVE  Ends(current, q)' # {}
  <2>1. current \in alive /\ current \in Process
    BY <1>2, Numbers DEF RouterInv, ProcessInv, TypeInv
  <2>2. PICK p \in Process : p = current
    BY <2>1
  <2>3. answers'[p][q] = Append(answers[p][q], o)
    BY <1>1, <2>1, <2>2
  <2>4. Ends(p, q)' # {}
    BY <2>3, AnswerAdded DEF RouterInv, TypeInv
  <2> QED
    BY <2>2, <2>4
<1> QED
  BY <1>1, <1>2 DEF Shape, Waiting

\* Nothing happens to q.
LEMMA ShapeSame ==
    ASSUME NEW q \in Query, SameAnswers(q), InTransit(q)' <=> InTransit(q),
           q \in InBrowser' <=> q \in InBrowser
    PROVE  Shape(q)
<1>1. Waiting(q)' <=> Waiting(q)
  BY DEF Waiting
<1> QED
  BY <1>1 DEF Shape, Waiting, SameAnswers

LEMMA ShapeOffer ==
    ASSUME RouterInv, NEW h \in Handler, Decline(h) \/ Accept(h)
    PROVE  /\ UNCHANGED <<pageVars, closed>> /\ Consumed
           /\ silenced \subseteq silenced' /\ \A q \in Query : Shape(q)
<1> USE DEF RouterInv
<1>1. /\ UNCHANGED <<pageVars, closed, toBrowser, silenced, persistent, current>>
      /\ Consumed /\ silenced \subseteq silenced'
      /\ \A q : InTransit(q)' <=> InTransit(q)
  BY DEF Decline, Accept, browserVars, pageVars, Consumed, InTransit, Queued
<1>2. PICK k \in Query : k = asking.query
  <2>1. asking # NotAsking
    BY DEF Decline, Accept, NotAsking
  <2> QED
    BY <2>1 DEF TypeInv, TypeOK
<1>3. Waiting(k)
  BY <1>2, InBrowserQuery DEF Waiting
<1>4. CASE Decline(h)
  <2>1. Pending' = Pending
    BY <1>4 DEF Decline, Pending
  <2>2. CASE asking.left = {h}
    <3>1. asking' = NotAsking /\ Answer({k}, "failure") /\ "failure" \in Outcome
      BY <1>2, <1>4, <2>2 DEF Decline, Outcome
    <3>2. k \in InBrowser
      BY <1>2, InBrowserQuery
    <3>3. Shape(k)
      BY <1>1, <1>3, <3>1, <3>2, ShapeAnswered DEF Final
    <3>4. ASSUME NEW q \in Query, q # k
          PROVE  Shape(q)
      <4>1. SameAnswers(q)
        BY <3>1, <3>4, AnswerElse DEF TypeInv
      <4>2. q \in InBrowser' <=> q \in InBrowser
        BY <1>2, <2>1, <3>1, <3>4, BoundAssumption DEF InBrowser, NotAsking, Query
      <4> QED
        BY <1>1, <4>1, <4>2, ShapeSame
    <3> QED
      BY <1>1, <3>3, <3>4
  <2>3. CASE asking.left # {h}
    <3>1. asking'.query = asking.query /\ UNCHANGED answers
      BY <1>4, <2>3 DEF Decline, TypeInv, TypeOK, NotAsking
    <3>2. InBrowser' = InBrowser
      BY <2>1, <3>1 DEF InBrowser
    <3> QED
      BY <1>1, <3>1, <3>2, ShapeSame DEF SameAnswers
  <2> QED
    BY <2>2, <2>3
<1>5. CASE Accept(h)
  <2>1. /\ asking' = NotAsking /\ UNCHANGED answers
        /\ \A g \in Handler : pending'[g] = IF g = h THEN pending[g] \cup {k} ELSE pending[g]
    BY <1>2, <1>5 DEF Accept, TypeInv, TypeOK
  <2>2. \A q : q \in Pending' <=> q \in Pending \/ q = k
    <3>1. \A q : (\E g \in Handler : q \in pending'[g]) <=> (\E g \in Handler : q \in pending[g]) \/ q = k
      BY <2>1
    <3>2. \A q : /\ q \in Pending <=> (\E g \in Handler : q \in pending[g])
                 /\ q \in Pending' <=> (\E g \in Handler : q \in pending'[g])
      BY DEF Pending
    <3> QED
      BY <3>1, <3>2
  <2>3. \A q \in Query : q \in InBrowser' <=> q \in InBrowser
    <3>1. NotAsking.query = 0 /\ k # 0
      BY BoundAssumption DEF NotAsking, Query
    <3> QED
      BY <1>2, <2>1, <2>2, <3>1 DEF InBrowser
  <2> QED
    BY <1>1, <2>1, <2>3, ShapeSame DEF SameAnswers
<1> QED
  BY <1>4, <1>5

\* The queries T are canceled, and it is announced or the page does not await
\* them; or a page left before has its part in it.
LEMMA ShapeCancel ==
    ASSUME RouterInv, NEW T \in SUBSET Pending, NEW notify \in BOOLEAN, CancelQueries(T, notify),
           UNCHANGED <<asking, persistent, current>>,
           \A q \in Query : InTransit(q)' <=> InTransit(q),
           notify \/ \A q \in T \cap registered :
                        q \in silenced' \/ process[q] # current \/ Twins(q) # {}
    PROVE  (\A q \in Query : Shape(q)) /\ (\A q \in T : q \notin InBrowser')
<1> USE DEF RouterInv
<1>1. Pending' = Pending \ T /\ T \subseteq Query
  BY PendingCanceled, PendingOK DEF CancelQueries, TypeInv
<1>2. InBrowser' = InBrowser \ T /\ T \subseteq InBrowser
  <2>1. asking.query \notin Pending
    BY PendingOK DEF BrowserInv, QueryInv, TypeInv
  <2> QED
    BY <1>1, <2>1 DEF InBrowser
<1>3. Answer(IF notify THEN T ELSE {}, "failure") /\ "failure" \in Outcome
  BY DEF CancelQueries, Outcome
<1>4. ASSUME NEW q \in Query, q \in T, notify
      PROVE  Shape(q)
  <2>1. Answer(T, "failure") /\ Final(q, "failure") /\ Waiting(q)
    BY <1>2, <1>3, <1>4 DEF Final, Waiting
  <2> QED
    BY <1>2, <1>3, <1>4, <2>1, ShapeAnswered
<1>5. ASSUME NEW q \in Query, q \notin T \/ ~notify
      PROVE  Shape(q)
  <2>1. SameAnswers(q)
    BY <1>3, <1>5, AnswerElse DEF TypeInv
  <2> QED
    BY <1>2, <1>5, <2>1 DEF Shape, Waiting, SameAnswers
<1> QED
  BY <1>2, <1>4, <1>5

LEMMA ShapeHandlers ==
    ASSUME RouterInv,
           \/ \E h \in Handler : AddHandler(h) \/ RemoveHandler(h)
           \/ OnBeforeBrowse
           \/ \E S \in SUBSET Handler : CancelPending(S)
    PROVE  /\ UNCHANGED <<pageVars, closed>> /\ Consumed
           /\ silenced \subseteq silenced' /\ \A q \in Query : Shape(q)
<1>1. /\ UNCHANGED <<pageVars, closed, toBrowser, asking>>
      /\ silenced \subseteq silenced'
      /\ \/ UNCHANGED <<pending, answers>>
         \/ \E T \in SUBSET Pending : CancelQueries(T, TRUE)
         \/ CancelQueries(Pending, FALSE) /\ silenced' = silenced \cup (Pending \cap registered)
  <2>1. ASSUME NEW h \in Handler, AddHandler(h)
        PROVE  <1>1
    BY <2>1 DEF AddHandler, queryVars
  <2>2. ASSUME NEW h \in Handler, RemoveHandler(h)
        PROVE  <1>1
    <3>1. pending[h] \in SUBSET Pending
      BY DEF Pending
    <3> QED
      BY <2>2, <3>1 DEF RemoveHandler, CancelPendingFor
  <2>3. CASE OnBeforeBrowse
    BY <2>3 DEF OnBeforeBrowse, CancelAllPending
  <2>4. ASSUME NEW S \in SUBSET Handler, CancelPending(S)
        PROVE  <1>1
    <3>1. UNION {pending[h] : h \in S} \in SUBSET Pending
      BY DEF Pending
    <3> QED
      BY <2>4, <3>1 DEF CancelPending, browserVars
  <2> QED
    BY <2>1, <2>2, <2>3, <2>4
<1>2. Consumed /\ UNCHANGED <<persistent, current>> /\ \A q : InTransit(q)' <=> InTransit(q)
  BY <1>1 DEF Consumed, pageVars, InTransit, Queued
<1>3. CASE UNCHANGED <<pending, answers>>
  <2>1. InBrowser' = InBrowser
    BY <1>1, <1>3 DEF InBrowser, Pending
  <2> QED
    BY <1>1, <1>2, <1>3, <2>1, ShapeSame DEF SameAnswers
<1>4. ASSUME NEW T \in SUBSET Pending, CancelQueries(T, TRUE)
      PROVE  \A q \in Query : Shape(q)
  BY <1>1, <1>2, <1>4, ShapeCancel
<1>5. ASSUME CancelQueries(Pending, FALSE), silenced' = silenced \cup (Pending \cap registered)
      PROVE  \A q \in Query : Shape(q)
  BY <1>1, <1>2, <1>5, ShapeCancel
<1> QED
  BY <1>1, <1>2, <1>3, <1>4, <1>5

LEMMA ShapeCall ==
    ASSUME RouterInv,
           (\E q \in Query : RunCallback(q)) \/ HandlerStep \/ UNCHANGED vars
    PROVE  /\ UNCHANGED <<pageVars, closed>> /\ Consumed
           /\ silenced \subseteq silenced' /\ \A q \in Query : Shape(q)
<1>1. UNCHANGED <<pageVars, closed, toBrowser, asking, pending, answers, silenced>>
  BY DEF RunCallback, HandlerStep, HandlerAnswers, vars, queryVars, browserVars
<1>2. InBrowser' = InBrowser /\ \A q : (InTransit(q)' <=> InTransit(q))
  BY <1>1 DEF InBrowser, Pending, InTransit, Queued
<1> QED
  BY <1>1, <1>2, ShapeSame DEF Consumed, SameAnswers

LEMMA ShapeOnCallback ==
    ASSUME RouterInv, NEW q \in Query, OnCallback(q)
    PROVE  /\ UNCHANGED <<pageVars, closed>> /\ Consumed
           /\ silenced \subseteq silenced' /\ \A r \in Query : Shape(r)
<1>1. PICK o \in Outcome : o = Head(posted[q])[2]
  <2>1. Head(posted[q]) \in Task
    BY Taking DEF OnCallback, RouterInv, TypeInv, TypeOK
  <2> QED
    BY <2>1 DEF Task
<1>2. /\ UNCHANGED <<pageVars, closed, toBrowser, asking, silenced>>
      /\ Answer({q} \cap Pending, o)
      /\ pending' = [h \in Handler |-> IF Final(q, o) THEN pending[h] \ {q} ELSE pending[h]]
  BY <1>1 DEF OnCallback, browserVars
<1>3. \A r \in Query : InTransit(r)' <=> InTransit(r)
  BY <1>2 DEF InTransit, Queued
<1>4. Pending' = IF Final(q, o) THEN Pending \ {q} ELSE Pending
  <2>1. CASE Final(q, o)
    <3>1. pending' = [h \in Handler |-> pending[h] \ {q}]
      BY <1>2, <2>1
    <3> QED
      BY <2>1, <3>1, PendingCanceled DEF RouterInv, TypeInv
  <2>2. CASE ~Final(q, o)
    <3>1. \A h \in Handler : pending'[h] = pending[h]
      BY <1>2, <2>2
    <3> QED
      BY <2>2, <3>1 DEF Pending
  <2> QED
    BY <2>1, <2>2
<1>5. ASSUME NEW r \in Query, r # q \/ q \notin Pending
      PROVE  Shape(r)
  <2>1. SameAnswers(r)
    BY <1>2, <1>5, AnswerElse DEF RouterInv, TypeInv
  <2>2. r \in InBrowser' <=> r \in InBrowser
    BY <1>2, <1>4, <1>5 DEF InBrowser
  <2> QED
    BY <1>3, <2>1, <2>2, ShapeSame
<1>6. ASSUME q \in Pending
      PROVE  Shape(q)
  <2>1. q \in {q} \cap Pending /\ Waiting(q) /\ UNCHANGED <<persistent, current>> /\ q \in InBrowser
    BY <1>2, <1>6 DEF Waiting, InBrowser, pageVars
  <2>2. CASE Final(q, o)
    BY <1>2, <2>1, <2>2, ShapeAnswered
  <2>3. CASE ~Final(q, o)
    <3>1. InBrowser' = InBrowser
      BY <1>2, <1>4, <2>3 DEF InBrowser
    <3>2. \A p \in Process : answers'[p][q] = IF p = current /\ p \in alive
                                              THEN Append(answers[p][q], o) ELSE answers[p][q]
      BY <1>2, <2>1, AnswerTo
    <3> QED
      BY <1>3, <2>1, <3>1, <3>2 DEF Shape, Waiting
  <2> QED
    BY <2>2, <2>3
<1> QED
  BY <1>2, <1>5, <1>6 DEF Consumed

\* The queries that the oldest message of p names are given up.  Of those that
\* the page which is shown awaits, only twins of another page's are among them.
LEMMA ShapeCancelMessage ==
    ASSUME RouterInv, TypeInv', NEW p \in Process, ReceiveCancel(p) \/ OnRenderProcessTerminated(p)
    PROVE  /\ UNCHANGED <<pageVars, closed>> /\ Consumed
           /\ silenced \subseteq silenced' /\ \A q \in Query : Shape(q)
<1> USE DEF RouterInv
<1> DEFINE m == Head(toBrowser[p])
<1>1. /\ UNCHANGED <<pageVars, closed, asking, silenced, process, persistent, current>> /\ Idle
      /\ toBrowser[p] # <<>> /\ toBrowser' = [toBrowser EXCEPT ![p] = Tail(@)]
      /\ Receive(p, m.type) /\ m.type \in {"cancel", "terminated"}
  BY DEF ReceiveCancel, OnRenderProcessTerminated, Receive, browserVars, pageVars
<1>2. m \in Message /\ m = toBrowser[p][1] /\ 1 \in DOMAIN toBrowser[p]
  BY <1>1, Taking DEF TypeInv, TypeOK
<1>3. \A q \in Query : InTransit(q)' <=> InTransit(q)
  <2>1. m.type # "query"
    BY <1>1
  <2> QED
    BY <1>1, <2>1, Received DEF TypeInv, BrowserInv
<1>4. Pending \subseteq Query
  BY PendingOK DEF TypeInv
<1>5. PICK T \in SUBSET Pending :
         /\ CancelQueries(T, FALSE)
         /\ \A q \in T : m.type = "cancel" =>
               m.context = key[q][1] /\ m.request \in {AllRequests, key[q][2]}
         /\ \A q \in Pending : process[q] = p /\ Withdraws(m, q) =>
               q \in T \/ (m.type # "terminated" /\ Twins(q) # {})
  <2>1. CASE ReceiveCancel(p)
    <3>1. m.type = "cancel" /\ CancelPendingRequest(m)
      BY <2>1 DEF ReceiveCancel, Receive
    <3> HIDE DEF m
    <3> DEFINE F == {q \in Pending : key[q][1] = m.context
                                       /\ m.request \in {AllRequests, key[q][2]}}
    <3>2. CASE CancelQueries(F, FALSE)
      <4>1. \A q \in Pending : Withdraws(m, q) => q \in F
        BY <3>1 DEF Withdraws
      <4> QED
        BY <3>2, <4>1
    <3>3. ASSUME m.request # AllRequests, NEW r \in F, CancelQueries({r}, FALSE)
          PROVE  /\ \A q \in {r} : m.context = key[q][1] /\ m.request \in {AllRequests, key[q][2]}
                 /\ \A q \in Pending : process[q] = p /\ Withdraws(m, q) => q \in {r} \/ Twins(q) # {}
      <4>1. ASSUME NEW q \in Pending, process[q] = p, Withdraws(m, q), q # r
            PROVE  Twins(q) # {}
        <5>1. key[q][1] = m.context /\ key[q][2] = m.request /\ key[r][1] = m.context /\ key[r][2] = m.request
          BY <3>1, <3>3, <4>1 DEF Withdraws
        <5>2. q \in Query /\ r \in Query /\ Waiting(q) /\ Waiting(r)
          BY <1>4, <4>1 DEF Waiting, InBrowser
        <5>3. q <= made /\ r <= made /\ key[q] = key[r]
          BY <5>1, <5>2, Known
        <5>4. process[q] # process[r]
          BY <4>1, <5>2, <5>3 DEF KeyInv
        <5>5. r \in Twins(q)
          BY <5>2, <5>3, <5>4, SameIDs
        <5> QED
          BY <5>5
      <4> QED
        BY <3>1, <3>3, <4>1
    <3>4. \/ CancelQueries(F, FALSE)
          \/ m.request # AllRequests /\ \E r \in F : CancelQueries({r}, FALSE)
      BY <3>1 DEF CancelPendingRequest
    <3>5. F \subseteq Pending
      OBVIOUS
    <3> HIDE DEF F
    <3>6. ASSUME m.request # AllRequests, NEW r \in F, CancelQueries({r}, FALSE)
          PROVE  \E T \in SUBSET Pending :
                    /\ CancelQueries(T, FALSE)
                    /\ \A q \in T : m.type = "cancel" =>
                          m.context = key[q][1] /\ m.request \in {AllRequests, key[q][2]}
                    /\ \A q \in Pending : process[q] = p /\ Withdraws(m, q) =>
                          q \in T \/ (m.type # "terminated" /\ Twins(q) # {})
      <4>1. {r} \in SUBSET Pending
        BY <3>5
      <4>2. m.type # "terminated"
        BY <3>1
      <4> QED
        BY <3>3, <3>6, <4>1, <4>2
    <3> QED
      BY <3>2, <3>4, <3>6
  <2>2. CASE OnRenderProcessTerminated(p)
    <3>1. m.type = "terminated" /\ CancelQueries(Pending, FALSE)
      BY <2>2 DEF OnRenderProcessTerminated, Receive, CancelAllPending
    <3> QED
      BY <3>1
  <2> QED
    BY <2>1, <2>2
<1> HIDE DEF m
<1>6. ASSUME NEW q \in T, q \in registered, process[q] = current
      PROVE  Twins(q) # {}
  <2>1. q \in Query /\ Waiting(q) /\ q <= made /\ current \in alive /\ current \in Nat
    BY <1>4, <1>6, Known, Numbers DEF Waiting, InBrowser, ProcessInv, TypeInv
  <2>2. m.type # "terminated"
    BY <1>2, <2>1 DEF ProcessInv
  <2>3. m.type = "cancel" /\ m.context = key[q][1] /\ m.request \in {AllRequests, key[q][2]}
    BY <1>1, <1>5, <2>2
  <2>4. CancelOK(p, m)
    BY <1>2, <2>3 DEF CancelInv
  <2>5. CASE p = current
    <3>1. key[q][1] \in contexts[p]
      BY <1>6, <2>5 DEF CancelInv
    <3> QED
      BY <1>6, <2>3, <2>4, <2>5, <3>1 DEF CancelOK
  <2>6. CASE p # current
    <3>1. PICK r \in Query : r <= made /\ process[r] = p /\ key[r][1] = m.context
      BY <2>4 DEF CancelOK
    <3>2. p < current
      <4>1. p \in Nat /\ ~(p > current)
        BY <1>1, Numbers DEF TypeInv, ProcessInv
      <4> QED
        BY <2>1, <2>6, <4>1
    <3>3. p \in left
      BY <1>1, <3>2 DEF ProcessInv, Gone
    <3>4. r \in Twins(q)
      BY <1>6, <2>3, <3>1, <3>2, <3>3 DEF Twins, Swapped
    <3> QED
      BY <3>4
  <2> QED
    BY <2>5, <2>6
<1>7. (\A q \in Query : Shape(q)) /\ (\A q \in T : q \notin InBrowser')
  BY <1>1, <1>3, <1>5, <1>6, ShapeCancel
<1>8. ASSUME NEW q \in Query, q \notin Pending
      PROVE  q \notin InBrowser'
  <2>1. Pending' = Pending \ T
    BY <1>4, <1>5, PendingCanceled DEF CancelQueries, TypeInv
  <2>2. asking'.query # q
    BY <1>1, BoundAssumption DEF Idle, NotAsking, Query
  <2> QED
    BY <1>8, <2>1, <2>2 DEF InBrowser
<1>9. ConsumedFrom(p)
  BY <1>1, <1>5, <1>7, <1>8 DEF ConsumedFrom, m
<1> QED
  BY <1>1, <1>7, <1>9 DEF Consumed

LEMMA ShapeReceiveQuery ==
    ASSUME RouterInv, TypeInv', NEW p \in Process, ReceiveQuery(p)
    PROVE  /\ UNCHANGED <<pageVars, closed>> /\ Consumed
           /\ silenced \subseteq silenced' /\ \A q \in Query : Shape(q)
<1> USE DEF RouterInv
<1> DEFINE m == Head(toBrowser[p])
<1>1. /\ UNCHANGED <<pageVars, closed, silenced, pending, process, persistent, current>> /\ Idle
      /\ toBrowser[p] # <<>> /\ toBrowser' = [toBrowser EXCEPT ![p] = Tail(@)]
      /\ Receive(p, "query")
  BY DEF ReceiveQuery, Receive, browserVars, pageVars
<1>2. /\ m.type = "query" /\ m.query \in Query
      /\ \A q : InTransit(q)' => InTransit(q)
      /\ \A q : InTransit(q) => InTransit(q)' \/ q = m.query
      /\ \A q : q = m.query => InTransit(q)
  BY <1>1, Received DEF TypeInv, BrowserInv
<1>3. PICK k \in Query : k = m.query
  BY <1>2
<1>4. /\ InTransit(k) /\ Waiting(k) /\ Pending' = Pending
      /\ \A q \in Query : q # k => (InTransit(q)' <=> InTransit(q))
  BY <1>1, <1>2, <1>3 DEF Waiting, Pending
<1>5. Consumed
  <2>1. ConsumedFrom(p)
    BY <1>1, <1>2 DEF ConsumedFrom, Withdraws
  <2> QED
    BY <2>1 DEF Consumed
<1>6. \/ Answer({k}, "failure") /\ UNCHANGED asking
      \/ asking' = [query |-> k, left |-> handlerSet] /\ UNCHANGED answers
  BY <1>3 DEF ReceiveQuery
<1> HIDE DEF m
<1>7. CASE Answer({k}, "failure") /\ UNCHANGED asking
  <2>1. "failure" \in Outcome /\ Final(k, "failure")
    BY DEF Outcome, Final
  <2>2. InBrowser' = InBrowser
    BY <1>4, <1>7 DEF InBrowser
  <2>3. Shape(k)
    BY <1>1, <1>4, <1>7, <2>1, <2>2, ShapeAnswered
  <2>4. ASSUME NEW q \in Query, q # k
        PROVE  Shape(q)
    <3>1. SameAnswers(q)
      BY <1>7, <2>4, AnswerElse DEF TypeInv
    <3> QED
      BY <1>4, <2>2, <2>4, <3>1, ShapeSame
  <2> QED
    BY <1>1, <1>5, <2>3, <2>4
<1>8. CASE asking' = [query |-> k, left |-> handlerSet] /\ UNCHANGED answers
  <2>1. InBrowser' = InBrowser \cup {k}
    BY <1>1, <1>4, <1>8, BoundAssumption DEF InBrowser, Idle, NotAsking, Query
  <2>2. \A q \in Query : Shape(q)
    BY <1>4, <1>8, <2>1 DEF Shape, Waiting
  <2> QED
    BY <1>1, <1>5, <2>2
<1> QED
  BY <1>6, <1>7, <1>8

LEMMA RouterStepBrowser ==
    ASSUME RouterInv, TypeInv', BrowserInv', Browser \/ HandlerStep \/ UNCHANGED vars, ~OnBeforeClose
    PROVE  RouterInv'
<1>1. \/ \E p \in Process : ReceiveQuery(p)
      \/ \E p \in Process : ReceiveCancel(p) \/ OnRenderProcessTerminated(p)
      \/ \E h \in Handler : Decline(h) \/ Accept(h)
      \/ \/ \E h \in Handler : AddHandler(h) \/ RemoveHandler(h)
         \/ OnBeforeBrowse
         \/ \E S \in SUBSET Handler : CancelPending(S)
      \/ (\E q \in Query : RunCallback(q)) \/ HandlerStep \/ UNCHANGED vars
      \/ \E q \in Query : OnCallback(q)
  BY DEF Browser, ReceiveMessage
<1>2. /\ UNCHANGED <<pageVars, closed>> /\ Consumed
      /\ silenced \subseteq silenced' /\ \A q \in Query : Shape(q)
  BY <1>1, ShapeReceiveQuery, ShapeCancelMessage, ShapeOffer, ShapeHandlers, ShapeCall, ShapeOnCallback
<1> QED
  BY <1>2, ShapeStep

\* What excuses a query goes on excusing it.
LEMMA Excuses ==
    ASSUME RouterInv, NEW q \in Query, q <= made,
           \A r \in Query : r <= made => key'[r] = key[r] /\ process'[r] = process[r],
           left \subseteq left', left \ alive \subseteq left' \ alive'
    PROVE  /\ Unannounced(q) => Unannounced(q)'
           /\ Twins(q) # {} => Twins(q)' # {}
           /\ \A m : Withdraws(m, q)' <=> Withdraws(m, q)
<1> USE DEF RouterInv
<1>1. ASSUME NEW r \in Twins(q)
      PROVE  r \in Twins(q)'
  <2>1. r \in Query /\ (Swapped(process[q], process[r]) \/ Swapped(process[r], process[q]))
    BY DEF Twins
  <2>2. r <= made
    <3>1. process[q] \in Nat /\ 0 \notin left
      BY Numbers DEF TypeInv
    <3>2. process[r] # 0
      BY <2>1, <3>1 DEF Swapped
    <3> QED
      BY <2>1, <3>2 DEF ProcessInv
  <2>3. key'[r] = key[r] /\ process'[r] = process[r] /\ key'[q] = key[q] /\ process'[q] = process[q]
    BY <2>1, <2>2
  <2> QED
    BY <2>1, <2>3 DEF Twins, Swapped
<1>2. Unannounced(q) => Unannounced(q)'
  BY DEF Unannounced
<1>3. \A m : Withdraws(m, q)' <=> Withdraws(m, q)
  BY DEF Withdraws
<1> QED
  BY <1>1, <1>2, <1>3

\* The messages of the queues, ...
LEMMA QueueInvStep ==
    ASSUME RouterInv, TypeInv', BrowserInv', closed => closed', InBrowser' = InBrowser,
           \A r \in Query : r <= made => key'[r] = key[r] /\ process'[r] = process[r],
           left \subseteq left', left \ alive \subseteq left' \ alive',
           NEW p \in Process, NEW m \in Message,
           UNCHANGED toBrowser \/ SendToBrowser(p, m),
           m.type = "query" => m.query \in registered',
           \A q \in registered \ registered' :
              \/ q \notin InBrowser /\ ~InTransit(q)
              \/ Twins(q) # {} \/ Unannounced(q)'
              \/ process[q] = p /\ SendToBrowser(p, m) /\ Withdraws(m, q)
    PROVE  QueueInv'
<1> USE DEF RouterInv
<1>1. \A n \in Process : \A i \in DOMAIN toBrowser[n] :
         /\ i \in DOMAIN toBrowser'[n] /\ toBrowser'[n][i] = toBrowser[n][i]
         /\ SendToBrowser(p, m) /\ n = p =>
               \E j \in DOMAIN toBrowser'[n] : j > i /\ toBrowser'[n][j] = m
  BY QueueGrown DEF TypeInv
<1>2. SendToBrowser(p, m) => \E j \in DOMAIN toBrowser'[p] : j > 0 /\ toBrowser'[p][j] = m
  BY QueueGrown DEF TypeInv
<1>3. ASSUME NEW q \in Query, q <= made, NEW n \in Process, NEW i, WithdrawnBehind(q, n, i)
      PROVE  WithdrawnBehind(q, n, i)'
  <2>1. \A x : Withdraws(x, q)' <=> Withdraws(x, q)
    BY <1>3, Excuses
  <2> QED
    BY <1>1, <1>3, <2>1 DEF WithdrawnBehind
<1>4. ASSUME NEW n \in Process, NEW i \in DOMAIN toBrowser'[n], toBrowser'[n][i].type = "query",
             NEW q, q = toBrowser'[n][i].query
      PROVE  (q \in registered \/ Unannounced(q) \/ Twins(q) # {} \/ WithdrawnBehind(q, n, i))'
  <2>1. CASE i \in DOMAIN toBrowser[n]
    <3>1. toBrowser'[n][i] = toBrowser[n][i]
      BY <1>1, <2>1
    <3>2. q \in Query /\ q <= made /\ process[q] = n /\ InTransit(q)
      BY <1>4, <2>1, <3>1, Carried
    <3>3. q \in registered \/ Unannounced(q) \/ Twins(q) # {} \/ WithdrawnBehind(q, n, i)
      BY <1>4, <2>1, <3>1 DEF QueueInv
    <3>4. /\ Unannounced(q) => Unannounced(q)'
          /\ Twins(q) # {} => Twins(q)' # {}
          /\ Withdraws(m, q)' <=> Withdraws(m, q)
      BY <3>2, Excuses
    <3>5. ASSUME n = p, SendToBrowser(p, m), Withdraws(m, q)
          PROVE  WithdrawnBehind(q, n, i)'
      BY <1>1, <2>1, <3>4, <3>5 DEF WithdrawnBehind
    <3>6. CASE q \in registered \ registered'
      BY <3>2, <3>4, <3>5, <3>6
    <3>7. CASE WithdrawnBehind(q, n, i)
      BY <1>3, <3>2, <3>7
    <3> QED
      BY <3>3, <3>4, <3>6, <3>7
  <2>2. CASE i \notin DOMAIN toBrowser[n]
    <3>1. SendToBrowser(p, m) /\ n = p /\ toBrowser'[n][i] = m
      <4>1. SendToBrowser(p, m)
        BY <2>2
      <4>2. n = p
        BY <2>2, <4>1, QueueGrown DEF TypeInv
      <4>3. i = Len(toBrowser[p]) + 1
        BY <2>2, <4>1, <4>2, QueueGrown DEF TypeInv
      <4> QED
        BY <4>1, <4>2, <4>3, QueueGrown DEF TypeInv
    <3> QED
      BY <1>4, <3>1
  <2> QED
    BY <2>1, <2>2
<1>5. ASSUME NEW q \in InBrowser
      PROVE  (q \in registered \/ closed \/ Unannounced(q) \/ Twins(q) # {}
              \/ WithdrawnBehind(q, process[q], 0))'
  <2>1. q \in Query /\ q <= made /\ process[q] \in Process /\ process'[q] = process[q]
    BY <1>5, InBrowserOK, Known DEF Waiting, TypeInv
  <2>2. \/ q \in registered \/ closed \/ Unannounced(q) \/ Twins(q) # {}
        \/ WithdrawnBehind(q, process[q], 0)
    BY DEF QueueInv
  <2>3. /\ Unannounced(q) => Unannounced(q)'
        /\ Twins(q) # {} => Twins(q)' # {}
        /\ Withdraws(m, q)' <=> Withdraws(m, q)
    BY <2>1, Excuses
  <2>4. ASSUME process[q] = p, SendToBrowser(p, m), Withdraws(m, q)
        PROVE  WithdrawnBehind(q, process[q], 0)'
    BY <1>2, <2>1, <2>3, <2>4 DEF WithdrawnBehind
  <2>5. CASE q \in registered \ registered'
    BY <1>5, <2>3, <2>4, <2>5
  <2>6. CASE WithdrawnBehind(q, process[q], 0)
    <3>1. PICK n \in Process : n = process[q] /\ n = process'[q]
      BY <2>1
    <3> QED
      BY <1>3, <2>1, <2>6, <3>1
  <2> QED
    BY <2>2, <2>3, <2>5, <2>6
<1> QED
  BY <1>4, <1>5 DEF QueueInv

\* ... the page, ...
LEMMA ForgottenStep ==
    ASSUME RouterInv, TypeInv', InBrowser' = InBrowser, UNCHANGED <<current, silenced>>,
           \A r \in Query : r <= made => key'[r] = key[r] /\ process'[r] = process[r],
           left \subseteq left', left \ alive \subseteq left' \ alive',
           \A q : InTransit(q) => InTransit(q)',
           \A q \in registered' :
              \/ InTransit(q)'
              \/ /\ q \in registered
                 /\ process[q] = current /\ Ends(current, q) # {} => Ends(current, q)' # {}
    PROVE  NoQueryForgotten'
<1> USE DEF RouterInv
<1>1. ASSUME NEW q \in registered', q \notin silenced', (process[q] = current /\ Twins(q) = {})', ~InTransit(q)'
      PROVE  (q \in InBrowser \/ Ends(current, q) # {})'
  <2>1. q \in registered /\ q \in Query /\ q <= made
    BY <1>1, Known DEF TypeInv, TypeOK
  <2>2. Twins(q) = {} /\ process[q] = current
    BY <1>1, <2>1, Excuses
  <2>3. q \in InBrowser \/ Ends(current, q) # {}
    BY <1>1, <2>1, <2>2 DEF NoQueryForgotten
  <2> QED
    BY <1>1, <2>2, <2>3
<1> QED
  BY <1>1 DEF NoQueryForgotten

\* A process that is gone stays so.
LEMMA GoneStays ==
    ASSUME RouterInv, NEW p \in Process, Gone(p), p \notin alive', toBrowser'[p] = <<>>,
           InBrowser' \subseteq InBrowser,
           \A q \in Query : q <= made => process'[q] = process[q],
           \A q \in Query : q > made => process'[q] # p,
           \A n \in Process : \A q \in Query : answers[n][q] = <<>> => answers'[n][q] = <<>>
    PROVE  Gone(p)'
<1>1. made \in Nat /\ \A q \in Query : q \in Nat
  BY BoundAssumption DEF RouterInv, TypeInv, TypeOK, Query
<1>2. \A q \in Query : process'[q] = p => process[q] = p
  BY <1>1
<1> QED
  BY <1>2 DEF Gone, NoAnswers

LEMMA RouterStepClose ==
    ASSUME RouterInv, TypeInv', BrowserInv', OnBeforeClose
    PROVE  RouterInv'
<1> USE DEF RouterInv
<1>1. /\ closed' = TRUE /\ alive' = {} /\ registered' = {}
      /\ \A p \in Process : contexts'[p] = {} /\ toBrowser'[p] = <<>> /\ \A q \in Query : answers'[p][q] = <<>>
      /\ UNCHANGED <<asking, key, process, current, left, made, nextContext, nextRequest>>
      /\ \E T : pending' = [h \in Handler |-> pending[h] \ T]
  BY DEF OnBeforeClose, PagesGone, TypeInv, TypeOK
<1>2. InBrowser' \subseteq InBrowser
  <2>1. Pending' \subseteq Pending
    BY <1>1, PendingCanceled DEF TypeInv
  <2> QED
    BY <1>1, <2>1 DEF InBrowser
<1>3. \A p \in Process : Gone(p) => Gone(p)'
  BY <1>1, <1>2 DEF Gone, NoAnswers
<1> HIDE DEF Gone
<1>4. ProcessInv'
  BY <1>1, <1>3 DEF ProcessInv
<1>5. KeyInv' /\ CancelInv' /\ QueueInv' /\ NoQueryForgotten'
  BY <1>1 DEF KeyInv, CancelInv, QueueInv, NoQueryForgotten
<1> QED
  BY <1>4, <1>5

LEMMA RouterStepSend ==
    ASSUME RouterInv, TypeInv', BrowserInv', NEW p \in Process, NEW c \in Context, NEW b \in BOOLEAN,
           SendQuery(p, c, b)
    PROVE  RouterInv'
<1> USE DEF RouterInv
<1> DEFINE n == made + 1
           k == nextRequest[p] + 1
<1>1. /\ p \in alive
      /\ c \in contexts[p] \/ c = nextContext[p] + 1
      /\ contexts' = [contexts EXCEPT ![p] = @ \cup {c}]
      /\ nextContext' = [nextContext EXCEPT ![p] = IF c \in contexts[p] THEN @ ELSE c]
      /\ nextRequest' = [nextRequest EXCEPT ![p] = k]
      /\ process' = [process EXCEPT ![n] = p]
      /\ key' = [key EXCEPT ![n] = <<c, k>>]
      /\ registered' = registered \cup {n}
      /\ SendToBrowser(p, [type |-> "query", query |-> n])
      /\ made' = n
      /\ UNCHANGED <<current, alive, left, answers, asking, pending, silenced, closed>>
  BY DEF SendQuery, queryVars, browserVars
<1>2. /\ n \in Query /\ ~(n <= made) /\ n > made /\ made \in Nat
      /\ \A q \in Query : q \in Nat /\ (q <= n => q <= made \/ q = n)
      /\ nextContext[p] \in Nat /\ nextRequest[p] \in Nat /\ k \in Nat /\ c \in Nat
      /\ \A q \in Query : q <= made => key[q][2] \in Nat
      /\ Context \subseteq Nat
  <2>1. n \in Query /\ \A q \in Query : q \in Nat
    BY BoundAssumption DEF SendQuery, Query, TypeInv, TypeOK
  <2>2. made \in Nat /\ nextContext[p] \in Nat /\ nextRequest[p] \in Nat /\ c \in Nat
    BY BoundAssumption DEF TypeInv, TypeOK, Context
  <2>3. \A q \in Query : q <= made => key[q][2] \in Request
    BY DEF TypeInv
  <2>4. Request \subseteq Nat /\ Context \subseteq Nat
    BY BoundAssumption DEF Request, Context
  <2>5. ~(n <= made) /\ n > made /\ k \in Nat /\ \A q \in Query : q <= n => q <= made \/ q = n
    BY <2>1, <2>2
  <2> QED
    BY <2>1, <2>2, <2>3, <2>4, <2>5
<1>3. InBrowser' = InBrowser
  BY <1>1 DEF InBrowser, Pending
<1>4. n \notin InBrowser /\ NoAnswers(n) /\ n \notin registered
  BY <1>2 DEF BrowserInv, QueryInv, Fresh, TypeInv
<1>5. /\ \A q \in Query : q # n => key'[q] = key[q] /\ process'[q] = process[q]
      /\ key'[n][1] = c /\ key'[n][2] = k /\ process'[n] = p
      /\ \A x \in Process : x # p => /\ contexts'[x] = contexts[x] /\ nextContext'[x] = nextContext[x]
                                     /\ nextRequest'[x] = nextRequest[x]
      /\ contexts'[p] = contexts[p] \cup {c} /\ nextRequest'[p] = k
      /\ nextContext'[p] = IF c \in contexts[p] THEN nextContext[p] ELSE c
  BY <1>1, <1>2 DEF TypeInv, TypeOK
<1>6. k = nextRequest[p] + 1
  OBVIOUS
<1> HIDE DEF n, k
<1>7. \A r \in Query : r <= made => r # n /\ key'[r] = key[r] /\ process'[r] = process[r]
  BY <1>2, <1>5
<1>8. PICK m \in Message : m = [type |-> "query", query |-> n]
  BY <1>2 DEF Message
<1>9. m.type = "query" /\ m.query = n /\ SendToBrowser(p, m)
  BY <1>1, <1>8
<1>10. /\ \A x \in Process : x # p => toBrowser'[x] = toBrowser[x]
       /\ \A x \in Process : \A i \in DOMAIN toBrowser'[x] :
             \/ i \in DOMAIN toBrowser[x] /\ toBrowser'[x][i] = toBrowser[x][i]
             \/ toBrowser'[x][i] = m
       /\ \A q : InTransit(q)' <=> InTransit(q) \/ q = n
  BY <1>8, <1>9, QueueGrown DEF TypeInv
<1>11. ProcessInv'
  <2>1. p <= current /\ ~closed /\ p \in Nat /\ current \in Nat
    BY <1>1, Numbers DEF ProcessInv, TypeInv
  <2>2. \A q \in Query : IF q <= made' THEN process'[q] <= current ELSE process'[q] = 0
    <3>1. ASSUME NEW q \in Query
          PROVE  IF q <= made' THEN process'[q] <= current ELSE process'[q] = 0
      <4>1. CASE q = n
        BY <1>1, <1>2, <1>5, <2>1, <4>1
      <4>2. CASE q # n
        <5>1. q <= made' <=> q <= made
          BY <1>1, <1>2, <4>2 DEF n
        <5> QED
          BY <1>5, <4>2, <5>1 DEF ProcessInv
      <4> QED
        BY <4>1, <4>2
    <3> QED
      BY <3>1
  <2>3. \A q \in registered' : process'[q] \in alive
    <3>1. \A q \in registered : q \in Query /\ q <= made
      BY DEF TypeInv, TypeOK
    <3> QED
      BY <1>1, <1>5, <1>7, <3>1 DEF ProcessInv
  <2>4. \A x \in Process \ alive : contexts'[x] = {} /\ \A q \in Query : answers[x][q] = <<>>
    BY <1>1, <1>5 DEF ProcessInv
  <2>5. \A x \in Process : \A q \in Query : answers[x][q] # <<>> => process'[q] <= x
    BY <1>4, <1>5 DEF ProcessInv, NoAnswers
  <2>6. \A x \in Process : x > current => toBrowser'[x] = <<>>
    BY <1>10, <2>1 DEF ProcessInv
  <2>7. \A x \in Process : \A i \in DOMAIN toBrowser'[x] :
           toBrowser'[x][i].type = "terminated" => x = current /\ x \notin alive
    BY <1>9, <1>10 DEF ProcessInv
  <2>8. \A x \in Process : x = current /\ x \notin alive /\ ~closed =>
           IF toBrowser'[x] = <<>> THEN \A q \in InBrowser : process'[q] # x
           ELSE toBrowser'[x][Len(toBrowser'[x])].type = "terminated"
    <3>1. \A q \in InBrowser : process'[q] = process[q]
      BY <1>4, <1>5, InBrowserOK DEF TypeInv
    <3> QED
      BY <1>1, <1>10, <3>1 DEF ProcessInv
  <2>9. \A x \in Process : Gone(x) => Gone(x)'
    <3>1. ASSUME NEW x \in Process, Gone(x)
          PROVE  Gone(x)'
      <4>1. x # p /\ x \notin alive /\ toBrowser[x] = <<>> /\ x # 0
        BY <1>1, <3>1, Numbers DEF Gone, TypeInv
      <4>2. \A q \in Query : q > made => process'[q] # x
        <5>1. \A q \in Query : q > made => process[q] = 0
          BY <1>2 DEF ProcessInv
        <5> QED
          BY <1>5, <4>1, <5>1
      <4> QED
        BY <1>1, <1>3, <1>7, <1>10, <3>1, <4>1, <4>2, GoneStays
    <3> QED
      BY <3>1
  <2> HIDE DEF Gone
  <2>10. ProcessInv
    OBVIOUS
  <2> QED
    BY <1>1, <1>3, <2>1, <2>2, <2>3, <2>4, <2>5, <2>6, <2>7, <2>8, <2>9, <2>10 DEF ProcessInv
<1>12. KeyInv'
  <2>1. ASSUME NEW q \in Query, q <= made
        PROVE  ~(process'[q] = p /\ key'[q][2] = k)
    BY <1>2, <1>6, <1>7, <2>1 DEF KeyInv
  <2>2. ASSUME NEW q \in Query, NEW r \in Query, q <= n, r <= n,
               process'[q] = process'[r], key'[q] = key'[r]
        PROVE  q = r
    <3>1. CASE q # n /\ r # n
      <4>1. q <= made /\ r <= made
        BY <1>2, <2>2, <3>1
      <4> QED
        BY <1>7, <2>2, <4>1 DEF KeyInv
    <3>2. CASE q = n /\ r # n
      BY <1>2, <1>5, <2>1, <2>2, <3>2
    <3>3. CASE q # n /\ r = n
      BY <1>2, <1>5, <2>1, <2>2, <3>3
    <3> QED
      BY <3>1, <3>2, <3>3
  <2>3. ASSUME NEW q \in Query, q <= n
        PROVE  key'[q][2] <= nextRequest'[process'[q]]
    <3>1. CASE q = n
      BY <1>2, <1>5, <3>1
    <3>2. CASE q # n
      <4>1. q <= made /\ process[q] \in Process /\ key[q][2] \in Nat /\ key[q][2] <= nextRequest[process[q]]
        BY <1>2, <2>3, <3>2 DEF KeyInv, TypeInv
      <4>2. key'[q] = key[q] /\ process'[q] = process[q]
        BY <1>7, <4>1
      <4> QED
        BY <1>2, <1>5, <1>6, <4>1, <4>2
    <3> QED
      BY <3>1, <3>2
  <2> QED
    BY <1>1, <2>2, <2>3 DEF KeyInv
<1>13. CancelInv'
  <2>1. \A q \in registered' : key'[q][1] \in contexts'[process'[q]]
    <3>1. ASSUME NEW q \in registered
          PROVE  key'[q][1] \in contexts'[process'[q]]
      <4>1. q \in Query /\ q <= made /\ process[q] \in Process
        BY Known DEF TypeInv, TypeOK
      <4>2. key[q][1] \in contexts[process[q]]
        BY DEF CancelInv
      <4> QED
        BY <1>5, <1>7, <4>1, <4>2
    <3> QED
      BY <1>1, <1>5, <3>1
  <2>2. \A x \in Process : \A d \in contexts'[x] : d <= nextContext'[x]
    <3>1. \A d \in contexts[p] : d <= nextContext[p] /\ d \in Nat
      BY <1>2 DEF CancelInv, TypeInv, TypeOK
    <3>2. \A d \in contexts'[p] : d <= nextContext'[p]
      BY <1>1, <1>2, <1>5, <3>1
    <3> QED
      BY <1>5, <3>2 DEF CancelInv
  <2>3. ASSUME NEW x \in Process, NEW z, z \in Message, z.type = "cancel", CancelOK(x, z)
        PROVE  CancelOK(x, z)'
    <3>1. \E r \in Query : r <= made' /\ process'[r] = x /\ key'[r][1] = z.context
      <4>1. PICK r \in Query : r <= made /\ process[r] = x /\ key[r][1] = z.context
        BY <2>3 DEF CancelOK
      <4>2. r <= n
        BY <1>2, <4>1 DEF n
      <4> QED
        BY <1>1, <1>7, <4>1, <4>2
    <3>2. z.context \in Nat /\ z.request \in Nat
      <4>1. z.context \in Context /\ z.request \in Request \cup {AllRequests}
        BY <2>3, MessageKinds
      <4>2. Request \subseteq Nat /\ AllRequests \in Nat
        BY BoundAssumption DEF Request, AllRequests
      <4> QED
        BY <1>2, <4>1, <4>2
    <3>3. z.request = AllRequests => z.context \notin contexts'[x] /\ z.context <= nextContext'[x]
      <4>1. CASE x # p
        BY <1>5, <2>3, <4>1 DEF CancelOK
      <4>2. ASSUME x = p, z.request = AllRequests
            PROVE  z.context \notin contexts'[x] /\ z.context <= nextContext'[x]
        <5>1. z.context \notin contexts[p] /\ z.context <= nextContext[p]
          BY <2>3, <4>2 DEF CancelOK
        <5>2. z.context # c
          BY <1>1, <1>2, <3>2, <5>1
        <5> QED
          BY <1>1, <1>2, <1>5, <3>2, <4>2, <5>1, <5>2
      <4> QED
        BY <4>1, <4>2
    <3>4. z.request # AllRequests =>
             /\ z.request <= nextRequest'[x]
             /\ \A q \in registered' :
                   process'[q] = x => ~(key'[q][1] = z.context /\ key'[q][2] = z.request)
      <4>1. ASSUME z.request # AllRequests
            PROVE  /\ z.request <= nextRequest[x]
                   /\ \A q \in registered : process[q] = x => ~(key[q][1] = z.context /\ key[q][2] = z.request)
        BY <2>3, <4>1 DEF CancelOK
      <4>2. ASSUME z.request # AllRequests
            PROVE  z.request <= nextRequest'[x]
        BY <1>2, <1>5, <1>6, <3>2, <4>1, <4>2
      <4>3. ASSUME z.request # AllRequests, x = p
            PROVE  z.request # k
        BY <1>2, <1>6, <3>2, <4>1, <4>3
      <4>4. \A q \in registered : q \in Query /\ q <= made
        BY DEF TypeInv, TypeOK
      <4> QED
        BY <1>1, <1>5, <1>7, <4>1, <4>2, <4>3, <4>4
    <3> QED
      BY <3>1, <3>3, <3>4 DEF CancelOK
  <2>4. \A x \in Process : \A i \in DOMAIN toBrowser[x] : toBrowser[x][i] \in Message
    BY DEF TypeInv, TypeOK
  <2> QED
    BY <1>9, <1>10, <2>1, <2>2, <2>3, <2>4 DEF CancelInv
<1>14. QueueInv'
  BY <1>1, <1>3, <1>7, <1>9, QueueInvStep
<1>15. NoQueryForgotten'
  <2>1. \A q \in registered' : InTransit(q)' \/ (q \in registered /\ Ends(current, q)' = Ends(current, q))
    <3>1. ASSUME NEW q \in registered
          PROVE  Ends(current, q)' = Ends(current, q)
      <4>1. q # n /\ (q \in persistent' <=> q \in persistent)
        BY <1>4 DEF SendQuery, n
      <4> QED
        BY <1>1, <4>1 DEF Ends, Final
    <3> QED
      BY <1>1, <1>10, <3>1
  <2> QED
    BY <1>1, <1>3, <1>7, <1>10, <2>1, ForgottenStep
<1> QED
  BY <1>11, <1>12, <1>13, <1>14, <1>15

\* The page gives the queries D up, and says so.
LEMMA GiveUp ==
    ASSUME RouterInv, TypeInv', BrowserInv', NEW p \in Process, p \in alive, NEW D \in SUBSET registered,
           registered' = registered \ D, \A q \in D : process[q] = p,
           \A x \in Process : contexts'[x] \subseteq contexts[x],
           UNCHANGED <<current, alive, left, closed, nextContext, nextRequest, process, key,
                       persistent, made, answers, asking, pending, silenced>>,
           \A q \in registered' : key[q][1] \in contexts'[process[q]],
           NEW m \in Message, m.type = "cancel", UNCHANGED toBrowser \/ SendToBrowser(p, m),
           SendToBrowser(p, m) => CancelOK(p, m)',
           \A q \in D : SendToBrowser(p, m) /\ Withdraws(m, q)
    PROVE  RouterInv'
<1> USE DEF RouterInv
<1>1. InBrowser' = InBrowser
  BY DEF InBrowser, Pending
<1>2. p <= current /\ ~closed /\ p \in Nat /\ current \in Nat
  BY Numbers DEF ProcessInv, TypeInv
<1>3. /\ \A x \in Process : x # p => toBrowser'[x] = toBrowser[x]
      /\ \A x \in Process : \A i \in DOMAIN toBrowser'[x] :
            \/ i \in DOMAIN toBrowser[x] /\ toBrowser'[x][i] = toBrowser[x][i]
            \/ x = p /\ SendToBrowser(p, m) /\ toBrowser'[x][i] = m
      /\ \A q : InTransit(q)' <=> InTransit(q)
  <2>1. CASE UNCHANGED toBrowser
    BY <2>1 DEF InTransit, Queued
  <2>2. CASE SendToBrowser(p, m)
    <3>1. \A q : m # [type |-> "query", query |-> q]
      BY MessageKinds
    <3>2. /\ DOMAIN toBrowser[p] = 1..Len(toBrowser[p]) /\ Len(toBrowser[p]) \in Nat
          /\ DOMAIN toBrowser'[p] = 1..(Len(toBrowser[p]) + 1)
          /\ \A i \in DOMAIN toBrowser[p] : toBrowser'[p][i] = toBrowser[p][i]
          /\ toBrowser'[p][Len(toBrowser[p]) + 1] = m
          /\ \A n \in Process : n # p => toBrowser'[n] = toBrowser[n]
          /\ \A q : InTransit(q)' <=> InTransit(q) \/ m = [type |-> "query", query |-> q]
      BY <2>2, QueueGrown DEF TypeInv
    <3> QED
      BY <2>2, <3>1, <3>2
  <2> QED
    BY <2>1, <2>2
<1>4. ProcessInv'
  <2>1. \A x \in Process : x > current => toBrowser'[x] = <<>>
    BY <1>2, <1>3 DEF ProcessInv
  <2>2. \A x \in Process : \A i \in DOMAIN toBrowser'[x] :
           toBrowser'[x][i].type = "terminated" => x = current /\ x \notin alive
    BY <1>3 DEF ProcessInv
  <2>3. \A x \in Process : x \notin alive => toBrowser'[x] = toBrowser[x] /\ contexts'[x] \subseteq contexts[x]
    BY <1>3
  <2>4. \A x \in Process : Gone(x) => Gone(x)'
    BY <1>1, <2>3 DEF Gone, NoAnswers
  <2> HIDE DEF Gone
  <2>5. ProcessInv
    OBVIOUS
  <2> QED
    BY <1>1, <2>1, <2>2, <2>3, <2>4, <2>5 DEF ProcessInv
<1>5. KeyInv'
  BY DEF KeyInv
<1>6. CancelInv'
  <2>1. ASSUME NEW x \in Process, NEW z, CancelOK(x, z)
        PROVE  CancelOK(x, z)'
    BY <2>1 DEF CancelOK
  <2> QED
    BY <1>3, <2>1 DEF CancelInv
<1>7. QueueInv'
  BY <1>1, QueueInvStep
<1>8. NoQueryForgotten'
  <2>1. \A q : Ends(current, q)' = Ends(current, q)
    BY DEF Ends, Final
  <2> QED
    BY <1>1, <1>3, <2>1, ForgottenStep
<1> QED
  BY <1>4, <1>5, <1>6, <1>7, <1>8

LEMMA RouterStepCancelRequest ==
    ASSUME RouterInv, TypeInv', BrowserInv', NEW q \in Query, CancelRequest(q)
    PROVE  RouterInv'
<1> USE DEF RouterInv
<1>1. /\ q \in registered /\ registered' = registered \ {q}
      /\ SendToBrowser(process[q], [type |-> "cancel", context |-> key[q][1], request |-> key[q][2]])
      /\ UNCHANGED <<current, alive, left, closed, contexts, nextContext, nextRequest, process, key,
                     persistent, made, answers, asking, pending, silenced>>
  BY DEF CancelRequest, queryVars, browserVars
<1>2. /\ q <= made /\ process[q] \in Process /\ process[q] \in alive
      /\ key[q][1] \in Context /\ key[q][2] \in Request /\ key[q][2] # AllRequests
      /\ key[q][2] <= nextRequest[process[q]]
  <2>1. q <= made /\ process[q] \in Process /\ key[q] \in Context \X Request
    BY <1>1, Known
  <2> QED
    BY <1>1, <2>1, BoundAssumption DEF ProcessInv, KeyInv, Request, AllRequests
<1>3. PICK p \in Process : p = process[q]
  BY <1>2
<1>4. PICK m \in Message : m = [type |-> "cancel", context |-> key[q][1], request |-> key[q][2]]
  BY <1>2 DEF Message
<1>5. m.type = "cancel" /\ m.context = key[q][1] /\ m.request = key[q][2] /\ SendToBrowser(p, m)
  BY <1>1, <1>3, <1>4
<1>6. \A r \in registered' : process[r] = p => ~(key[r][1] = m.context /\ key[r][2] = m.request)
  <2>1. ASSUME NEW r \in registered, r # q, process[r] = p
        PROVE  ~(key[r][1] = m.context /\ key[r][2] = m.request)
    <3>1. r \in Query /\ r <= made /\ key[r] \in Context \X Request /\ key[q] \in Context \X Request
      BY <1>1, Known DEF TypeInv, TypeOK
    <3>2. key[r] # key[q]
      BY <1>2, <1>3, <2>1, <3>1 DEF KeyInv
    <3> QED
      BY <1>5, <3>1, <3>2
  <2> QED
    BY <1>1, <2>1
<1>7. CancelOK(p, m)'
  BY <1>1, <1>2, <1>3, <1>5, <1>6 DEF CancelOK
<1>8. Withdraws(m, q)
  BY <1>5 DEF Withdraws
<1>9. \A r \in registered' : key[r][1] \in contexts'[process[r]]
  BY <1>1 DEF CancelInv
<1>10. {q} \in SUBSET registered /\ \A x \in Process : contexts'[x] \subseteq contexts[x]
  BY <1>1
<1> QED
  BY <1>1, <1>2, <1>3, <1>5, <1>7, <1>8, <1>9, <1>10, GiveUp

LEMMA RouterStepReleased ==
    ASSUME RouterInv, TypeInv', BrowserInv', NEW p \in Process, NEW c \in Context, OnContextReleased(p, c)
    PROVE  RouterInv'
<1> USE DEF RouterInv
<1> DEFINE D == Awaited(p, c)
<1>1. /\ c \in contexts[p] /\ contexts' = [contexts EXCEPT ![p] = @ \ {c}]
      /\ registered' = registered \ D
      /\ IF D = {} THEN UNCHANGED toBrowser
         ELSE SendToBrowser(p, [type |-> "cancel", context |-> c, request |-> AllRequests])
      /\ UNCHANGED <<current, alive, left, closed, nextContext, nextRequest, process, key,
                     persistent, made, answers, asking, pending, silenced>>
  BY DEF OnContextReleased, queryVars, browserVars
<1>2. D \in SUBSET registered /\ \A q \in registered : q \in D <=> process[q] = p /\ key[q][1] = c
  BY DEF Awaited
<1> HIDE DEF D
<1>3. p \in alive /\ c <= nextContext[p]
  BY <1>1 DEF ProcessInv, CancelInv
<1>4. contexts'[p] = contexts[p] \ {c} /\ \A x \in Process : x # p => contexts'[x] = contexts[x]
  BY <1>1 DEF TypeInv, TypeOK
<1>5. ASSUME NEW q \in registered'
      PROVE  key[q][1] \in contexts'[process[q]]
  <2>1. q \in registered /\ q \in Query /\ q \notin D
    BY <1>1, <1>5 DEF TypeInv, TypeOK
  <2>2. key[q][1] \in contexts[process[q]] /\ process[q] \in Process
    BY <2>1, Known DEF CancelInv
  <2> QED
    BY <1>2, <1>4, <2>1, <2>2
<1>6. PICK m \in Message : m = [type |-> "cancel", context |-> c, request |-> AllRequests]
  BY DEF Message
<1>7. m.type = "cancel" /\ m.context = c /\ m.request = AllRequests
  BY <1>6
<1>8. SendToBrowser(p, m) \/ UNCHANGED toBrowser
  BY <1>1, <1>6
<1>9. D # {} => SendToBrowser(p, m) /\ CancelOK(p, m)'
  <2>1. ASSUME NEW q \in D
        PROVE  CancelOK(p, m)'
    <3>1. q \in Query /\ q <= made /\ process[q] = p /\ key[q][1] = c
      BY <1>2, Known DEF TypeInv, TypeOK
    <3> QED
      BY <1>1, <1>3, <1>4, <1>7, <3>1 DEF CancelOK
  <2> QED
    BY <1>1, <1>6, <2>1
<1>10. \A q \in D : Withdraws(m, q) /\ process[q] = p
  BY <1>2, <1>7 DEF Withdraws
<1>11. SendToBrowser(p, m) => D # {}
  <2>1. ASSUME SendToBrowser(p, m), UNCHANGED toBrowser
        PROVE  FALSE
    <3>1. Len(toBrowser'[p]) = Len(toBrowser[p]) + 1 /\ Len(toBrowser[p]) \in Nat
      BY <2>1, QueueGrown DEF TypeInv
    <3> QED
      BY <2>1, <3>1
  <2> QED
    BY <1>1, <2>1
<1>12. \A x \in Process : contexts'[x] \subseteq contexts[x]
  BY <1>4
<1> QED
  BY <1>1, <1>2, <1>3, <1>5, <1>7, <1>8, <1>9, <1>10, <1>11, <1>12, GiveUp

\* An answer is taken.  A request that it ends and that is not the query's own
\* has a twin.
LEMMA RouterStepExecute ==
    ASSUME RouterInv, TypeInv', BrowserInv', NEW p \in Process, NEW q \in Query, ExecuteCallback(p, q)
    PROVE  RouterInv'
<1> USE DEF RouterInv
<1> DEFINE o == Head(answers[p][q])
<1>1. /\ p \in alive /\ answers[p][q] # <<>> /\ answers'[p][q] = Tail(answers[p][q])
      /\ \A x \in Process, r \in Query : x # p \/ r # q => answers'[x][r] = answers[x][r]
      /\ registered' = registered \
            {r \in registered : process[r] = p /\ key[r] = key[q] /\ Final(r, o)}
      /\ UNCHANGED <<current, alive, left, closed, contexts, nextContext, nextRequest, process, key,
                     persistent, made, toBrowser, asking, pending, silenced>>
  BY DEF ExecuteCallback, queryVars, browserVars, TypeInv, TypeOK
<1> HIDE DEF o
<1>2. /\ Ends(p, q) # {} => Final(q, o) \/ Ends(p, q)' # {}
      /\ Final(q, o) => Ends(p, q) # {}
  BY <1>1, AnswerTaken DEF TypeInv, o
<1>3. /\ q <= made /\ ~NoAnswers(q) /\ ~InTransit(q)
      /\ Final(q, o) => q \notin InBrowser
  <2>1. ~NoAnswers(q)
    BY <1>1 DEF NoAnswers
  <2>2. ~InTransit(q) /\ (q \in InBrowser => Unanswered(q))
    BY <2>1 DEF BrowserInv, QueryInv, Fresh
  <2> QED
    BY <1>2, <2>1, <2>2, Known DEF Unanswered
<1>4. ASSUME NEW r \in registered \ registered', r # q
      PROVE  Twins(r) # {}
  <2>1. r \in Query /\ r <= made /\ process[r] = p /\ key[r] = key[q]
    BY <1>1, <1>4, Known DEF TypeInv, TypeOK
  <2>2. process[q] # process[r]
    BY <1>3, <1>4, <2>1 DEF KeyInv
  <2>3. r \in Twins(q)
    BY <1>3, <1>4, <2>1, <2>2, SameIDs
  <2>4. q \in Twins(r)
    BY <2>1, <2>3 DEF Twins
  <2> QED
    BY <2>4
<1>5. InBrowser' = InBrowser /\ \A r : InTransit(r)' <=> InTransit(r)
  BY <1>1 DEF InBrowser, Pending, InTransit, Queued
<1>6. \A x \in Process, r \in Query : answers[x][r] = <<>> => answers'[x][r] = <<>>
  BY <1>1
<1>7. registered' \subseteq registered
  BY <1>1
<1>8. ProcessInv'
  <2>1. \A x \in Process : Gone(x) => Gone(x)'
    BY <1>1, <1>5, <1>6 DEF Gone, NoAnswers
  <2> HIDE DEF Gone
  <2>2. ProcessInv
    OBVIOUS
  <2> QED
    BY <1>1, <1>5, <1>6, <1>7, <2>1, <2>2 DEF ProcessInv
<1>9. KeyInv'
  BY <1>1 DEF KeyInv
<1>10. CancelInv'
  <2>1. ASSUME NEW x, NEW z, CancelOK(x, z)
        PROVE  CancelOK(x, z)'
    BY <1>1, <1>7, <2>1 DEF CancelOK
  <2> QED
    BY <1>1, <1>7, <2>1 DEF CancelInv
<1>11. QueueInv'
  <2>1. \A r \in registered \ registered' : (r \notin InBrowser /\ ~InTransit(r)) \/ Twins(r) # {}
    BY <1>1, <1>3, <1>4
  <2>2. PICK m \in Message : m.type = "terminated"
    <3>1. [type |-> "terminated"] \in Message
      BY DEF Message
    <3> QED
      BY <3>1
  <2> QED
    BY <1>1, <1>5, <2>1, <2>2, QueueInvStep
<1>12. NoQueryForgotten'
  <2>1. ASSUME NEW r \in registered', process[r] = current, Ends(current, r) # {}
        PROVE  Ends(current, r)' # {}
    <3>1. r \in Query /\ current \in Process
      BY <1>7, <2>1, Known DEF TypeInv, TypeOK
    <3>2. CASE r # q \/ p # current
      <4>1. Ends(current, r)' = Ends(current, r)
        BY <1>1, <3>1, <3>2 DEF Ends, Final
      <4> QED
        BY <2>1, <4>1
    <3>3. CASE r = q /\ p = current
      <4>1. ~Final(q, o)
        BY <1>1, <2>1, <3>3
      <4> QED
        BY <1>1, <1>2, <2>1, <3>3, <4>1
    <3> QED
      BY <3>2, <3>3
  <2> QED
    BY <1>1, <1>5, <1>7, <2>1, ForgottenStep
<1> QED
  BY <1>8, <1>9, <1>10, <1>11, <1>12

\* The queries of a process that ends are withdrawn by the message about it, if
\* it showed the page, and nobody hears of it otherwise.
LEMMA RouterStepGone ==
    ASSUME RouterInv, TypeInv', BrowserInv', NEW p \in Process, RendererGone(p)
    PROVE  RouterInv'
<1> USE DEF RouterInv
<1>1. /\ p \in alive /\ alive' = alive \ {p}
      /\ \A x \in Process : contexts'[x] = IF x = p THEN {} ELSE contexts[x]
      /\ registered' = {q \in registered : process[q] # p}
      /\ \A x \in Process, q \in Query : answers'[x][q] = IF x = p THEN <<>> ELSE answers[x][q]
      /\ p = current => SendToBrowser(p, [type |-> "terminated"])
      /\ p # current => UNCHANGED toBrowser
      /\ UNCHANGED <<current, left, closed, nextContext, nextRequest, process, key,
                     persistent, made, asking, pending, silenced>>
  BY DEF RendererGone, PagesGone, queryVars, browserVars
<1>2. InBrowser' = InBrowser
  BY <1>1 DEF InBrowser, Pending
<1>3. p <= current /\ ~closed /\ p \in Nat /\ current \in Nat
  BY <1>1, Numbers DEF ProcessInv, TypeInv
<1>4. p # current => p \in left
  <2>1. ~Gone(p)
    BY <1>1 DEF Gone
  <2> QED
    BY <1>3, <2>1 DEF ProcessInv
<1>5. PICK m \in Message : m = [type |-> "terminated"]
  BY DEF Message
<1>6. m.type = "terminated" /\ (p = current => SendToBrowser(p, m)) /\ \A q : Withdraws(m, q)
  BY <1>1, <1>5 DEF Withdraws
<1>7. /\ \A x \in Process : x # p => toBrowser'[x] = toBrowser[x]
      /\ \A x \in Process : \A i \in DOMAIN toBrowser'[x] :
            \/ i \in DOMAIN toBrowser[x] /\ toBrowser'[x][i] = toBrowser[x][i]
            \/ x = p /\ p = current /\ toBrowser'[x][i] = m
      /\ p = current => toBrowser'[p] # <<>> /\ toBrowser'[p][Len(toBrowser'[p])] = m
      /\ \A q : InTransit(q)' <=> InTransit(q)
  <2>1. CASE p # current
    BY <1>1, <2>1 DEF InTransit, Queued
  <2>2. CASE p = current
    <3>1. \A q : m # [type |-> "query", query |-> q]
      BY <1>6, MessageKinds
    <3>2. /\ DOMAIN toBrowser[p] = 1..Len(toBrowser[p]) /\ Len(toBrowser[p]) \in Nat
          /\ DOMAIN toBrowser'[p] = 1..(Len(toBrowser[p]) + 1) /\ toBrowser'[p] # <<>>
          /\ Len(toBrowser'[p]) = Len(toBrowser[p]) + 1
          /\ \A i \in DOMAIN toBrowser[p] : toBrowser'[p][i] = toBrowser[p][i]
          /\ toBrowser'[p][Len(toBrowser[p]) + 1] = m
          /\ \A n \in Process : n # p => toBrowser'[n] = toBrowser[n]
          /\ \A q : InTransit(q)' <=> InTransit(q) \/ m = [type |-> "query", query |-> q]
      BY <1>6, <2>2, QueueGrown DEF TypeInv
    <3> QED
      BY <2>2, <3>1, <3>2
  <2> QED
    BY <2>1, <2>2
<1>8. ProcessInv'
  <2>1. \A x \in Process : x > current => toBrowser'[x] = <<>>
    BY <1>3, <1>7 DEF ProcessInv
  <2>2. \A x \in Process : \A i \in DOMAIN toBrowser'[x] :
           toBrowser'[x][i].type = "terminated" => x = current /\ x \notin alive'
    BY <1>1, <1>7 DEF ProcessInv
  <2>3. \A x \in Process : x = current /\ x \notin alive' =>
           IF toBrowser'[x] = <<>> THEN \A q \in InBrowser : process[q] # x
           ELSE toBrowser'[x][Len(toBrowser'[x])].type = "terminated"
    BY <1>1, <1>3, <1>6, <1>7 DEF ProcessInv
  <2>4. \A x \in Process : Gone(x) => Gone(x)'
    BY <1>1, <1>2, <1>7 DEF Gone, NoAnswers
  <2>5. \A q \in registered' : process[q] \in alive'
    BY <1>1 DEF ProcessInv
  <2>6. \A x \in Process \ alive' : contexts'[x] = {} /\ \A q \in Query : answers'[x][q] = <<>>
    BY <1>1 DEF ProcessInv
  <2>7. \A x \in Process : \A q \in Query : answers'[x][q] # <<>> => process[q] <= x
    BY <1>1 DEF ProcessInv
  <2> HIDE DEF Gone
  <2>8. ProcessInv
    OBVIOUS
  <2> QED
    BY <1>1, <1>2, <1>3, <2>1, <2>2, <2>3, <2>4, <2>5, <2>6, <2>7, <2>8 DEF ProcessInv
<1>9. KeyInv'
  BY <1>1 DEF KeyInv
<1>10. CancelInv'
  <2>1. ASSUME NEW x \in Process, NEW z, CancelOK(x, z)
        PROVE  CancelOK(x, z)'
    BY <1>1, <2>1 DEF CancelOK
  <2>2. \A q \in registered' : process[q] \in Process /\ process[q] # p /\ q \in registered
    <3>1. \A q \in registered : q \in Query
      BY DEF TypeInv, TypeOK
    <3> QED
      BY <1>1, <3>1, Known
  <2>3. \A q \in registered' : key[q][1] \in contexts'[process[q]]
    BY <1>1, <2>2 DEF CancelInv
  <2>4. \A x \in Process : \A c \in contexts'[x] : c <= nextContext[x]
    BY <1>1 DEF CancelInv
  <2> QED
    BY <1>1, <1>6, <1>7, <2>1, <2>3, <2>4 DEF CancelInv
<1>11. QueueInv'
  <2>1. \A q \in registered \ registered' : process[q] = p
    BY <1>1
  <2>2. ASSUME p # current, NEW q, process[q] = p
        PROVE  Unannounced(q)'
    BY <1>1, <1>4, <2>2 DEF Unannounced
  <2>3. left \ alive \subseteq left' \ alive'
    BY <1>1
  <2> QED
    BY <1>1, <1>2, <1>6, <2>1, <2>2, <2>3, QueueInvStep
<1>12. NoQueryForgotten'
  <2>1. ASSUME NEW q \in registered', process[q] = current
        PROVE  Ends(current, q)' = Ends(current, q)
    <3>1. q \in Query /\ current \in Process /\ current # p
      BY <1>1, <2>1, Known DEF TypeInv, TypeOK
    <3> QED
      BY <1>1, <3>1 DEF Ends, Final
  <2>2. left \ alive \subseteq left' \ alive' /\ registered' \subseteq registered
    BY <1>1
  <2> QED
    BY <1>1, <1>2, <1>7, <2>1, <2>2, ForgottenStep
<1> QED
  BY <1>8, <1>9, <1>10, <1>11, <1>12

\* When another process takes over, the last one is left with its page, or
\* nothing is left of it.
LEMMA RouterStepCommit ==
    ASSUME RouterInv, TypeInv', BrowserInv', CommitInNewProcess
    PROVE  RouterInv'
<1> USE DEF RouterInv
<1>1. /\ ~closed /\ current < MaxProcesses /\ current' = current + 1
      /\ current \in alive \/ toBrowser[current] = <<>>
      /\ left' = left \cup ({current} \cap alive)
      /\ alive' = alive \cup {current + 1}
      /\ UNCHANGED <<contexts, nextContext, nextRequest, process, key, persistent, registered, made,
                     toBrowser, answers, asking, pending, silenced, closed>>
  BY DEF CommitInNewProcess, queryVars
<1>2. /\ current \in Nat \ {0} /\ current \in Process /\ current + 1 \in Process
      /\ \A p \in Process : p \in Nat /\ (p < current + 1 => p < current \/ p = current)
      /\ \A q \in Query : process[q] \in Nat
  <2>1. current \in Nat \ {0}
    BY Numbers DEF ProcessInv, TypeInv
  <2>2. current \in Process /\ current + 1 \in Process
    BY <1>1, <2>1, BoundAssumption DEF Process
  <2>3. \A p \in Process : p \in Nat
    BY Numbers DEF TypeInv
  <2> QED
    BY <2>1, <2>2, <2>3, Numbers DEF TypeInv
<1>3. /\ InBrowser' = InBrowser
      /\ \A q : InTransit(q)' <=> InTransit(q)
  BY <1>1 DEF InBrowser, Pending, InTransit, Queued
<1>4. \A p \in left : p < current /\ p \in Process /\ p \in Nat
  BY Numbers DEF ProcessInv, TypeInv
<1>5. left \subseteq left' /\ left \ alive \subseteq left' \ alive'
  BY <1>1, <1>2, <1>4
<1>6. current \notin alive => Gone(current)
  <2>1. ASSUME current \notin alive, NEW q \in Query, process[q] = current
        PROVE  q \notin InBrowser /\ NoAnswers(q)
    <3>1. q \notin InBrowser
      BY <1>1, <1>2, <2>1 DEF ProcessInv
    <3>2. ASSUME NEW p \in Process, answers[p][q] # <<>>
          PROVE  FALSE
      <4>1. ~(p > current)
        BY <3>2 DEF BrowserInv, QueryInv, Ordered
      <4>2. current <= p
        BY <2>1, <3>2 DEF ProcessInv
      <4>3. p = current
        BY <1>2, <4>1, <4>2
      <4> QED
        BY <2>1, <3>2, <4>3 DEF ProcessInv
    <3> QED
      BY <3>1, <3>2 DEF NoAnswers
  <2> QED
    BY <1>1, <2>1 DEF Gone
<1>7. ProcessInv'
  <2>1. \A p \in Process : p < current' => p \in left' \/ Gone(p)
    BY <1>1, <1>2, <1>6 DEF ProcessInv
  <2>2. ASSUME NEW p \in Process, p < current', Gone(p)
        PROVE  Gone(p)'
    <3>1. p \notin alive'
      BY <1>1, <1>2, <2>2 DEF Gone
    <3> QED
      BY <1>1, <1>3, <2>2, <3>1 DEF Gone, NoAnswers
  <2> HIDE DEF Gone
  <2>3. \A p \in Process : \A i \in DOMAIN toBrowser[p] : toBrowser[p][i].type # "terminated"
    BY <1>1 DEF ProcessInv
  <2>4. \A p \in alive' : p <= current'
    <3>1. \A p \in alive : p \in Nat /\ p <= current
      BY <1>2, Numbers DEF ProcessInv, TypeInv
    <3> QED
      BY <1>1, <1>2, <3>1
  <2>5. \A p \in left' : p < current'
    BY <1>1, <1>2, <1>4
  <2>6. \A q \in Query : IF q <= made THEN process[q] <= current' ELSE process[q] = 0
    BY <1>1, <1>2 DEF ProcessInv
  <2>7. \A q \in registered : process[q] \in alive'
    BY <1>1 DEF ProcessInv
  <2>8. \A p \in Process : p > current' => toBrowser[p] = <<>>
    BY <1>1, <1>2 DEF ProcessInv
  <2>9. current' # 0 /\ current' \in alive'
    BY <1>1, <1>2
  <2>10. \A p \in Process \ alive' : contexts[p] = {} /\ \A q \in Query : answers[p][q] = <<>>
    BY <1>1 DEF ProcessInv
  <2>11. \A p \in Process : \A q \in Query : answers[p][q] # <<>> => process[q] <= p
    BY DEF ProcessInv
  <2> QED
    BY <1>1, <1>3, <2>1, <2>2, <2>3, <2>4, <2>5, <2>6, <2>7, <2>8, <2>9, <2>10, <2>11 DEF ProcessInv
<1>8. KeyInv'
  BY <1>1 DEF KeyInv
<1>9. CancelInv'
  <2>1. \A p, m : CancelOK(p, m)' <=> CancelOK(p, m)
    BY <1>1 DEF CancelOK
  <2> QED
    BY <1>1, <2>1 DEF CancelInv
<1>10. QueueInv'
  <2>1. PICK m \in Message : m.type = "terminated"
    <3>1. [type |-> "terminated"] \in Message
      BY DEF Message
    <3> QED
      BY <3>1
  <2> QED
    BY <1>1, <1>2, <1>3, <1>5, <2>1, QueueInvStep
<1>11. NoQueryForgotten'
  <2>1. ASSUME NEW q \in registered, process[q] = current'
        PROVE  FALSE
    <3>1. q \in Query /\ q <= made
      BY Known DEF TypeInv, TypeOK
    <3>2. process[q] <= current
      BY <3>1 DEF ProcessInv
    <3> QED
      BY <1>1, <1>2, <2>1, <3>1, <3>2
  <2> QED
    BY <1>1, <2>1 DEF NoQueryForgotten
<1> QED
  BY <1>7, <1>8, <1>9, <1>10, <1>11

LEMMA RouterStep ==
    ASSUME RouterInv, [Next]_vars
    PROVE  RouterInv'
<1>1. TypeInv' /\ BrowserInv'
  BY TypeStep, BrowserStep DEF RouterInv
<1>2. CASE Page
  BY <1>1, <1>2, RouterStepSend, RouterStepCancelRequest, RouterStepReleased, RouterStepExecute,
     RouterStepGone, RouterStepCommit
     DEF Page
<1>3. CASE OnBeforeClose
  BY <1>1, <1>3, RouterStepClose
<1> QED
  BY <1>1, <1>2, <1>3, RouterStepBrowser DEF Next

LEMMA RouterInvariant == Spec => []RouterInv
<1>1. Init => RouterInv
  <2> SUFFICES ASSUME Init
               PROVE  RouterInv
    OBVIOUS
  <2>1. TypeInv /\ BrowserInv
    BY TypeInit, BrowserInit
  <2>2. /\ current = 1 /\ alive \subseteq {1} /\ left = {} /\ registered = {} /\ made = 0
        /\ \A p \in Process : contexts[p] = {} /\ toBrowser[p] = <<>> /\ \A q \in Query : answers[p][q] = <<>>
        /\ \A q \in Query : process[q] = 0
        /\ closed = FALSE
    BY DEF Init
  <2>3. InBrowser = {}
    BY DEF Init, InBrowser, Pending, NotAsking
  <2>4. /\ \A q \in Query : ~(q <= made)
        /\ \A p \in Process : ~(p < current)
    BY <2>2, BoundAssumption DEF Query, Process
  <2>5. ProcessInv
    BY <2>2, <2>3, <2>4 DEF ProcessInv
  <2>6. KeyInv /\ CancelInv /\ QueueInv /\ NoQueryForgotten
    BY <2>2, <2>3, <2>4 DEF KeyInv, CancelInv, QueueInv, NoQueryForgotten
  <2> QED
    BY <2>1, <2>5, <2>6 DEF RouterInv
<1>2. RouterInv /\ [Next]_vars => RouterInv'
  BY RouterStep
<1> QED
  BY <1>1, <1>2, PTL DEF Spec

\* No query that the page which is shown awaits is forgotten, but by
\* OnBeforeBrowse, or by a page left before that uses the same IDs.
THEOREM QueriesAccounted == Spec => []NoQueryForgotten
  BY RouterInvariant, PTL DEF RouterInv

LEMMA WithdrawnAt ==
    ASSUME TypeOK, NEW q \in Query, process[q] \in Process, WithdrawnBehind(q, process[q], 0)
    PROVE  Withdrawn(q)
<1>1. PICK j \in DOMAIN toBrowser[process[q]] : Withdraws(toBrowser[process[q]][j], q)
  BY DEF WithdrawnBehind
<1>2. toBrowser[process[q]][j] \in Queued(process[q])
  BY DEF Queued
<1> QED
  BY <1>1, <1>2 DEF Withdrawn, Withdraws

\* A query of a page that has given it up, or is gone, is withdrawn; but for
\* the queries of pages that were left, and those with IDs of another page.
THEOREM LeftQueriesWithdrawn == Spec => []NoQueryKept
<1>1. RouterInv => NoQueryKept
  <2>1. ASSUME RouterInv, NEW q \in InBrowser
        PROVE  \/ q \in registered \/ Withdrawn(q) \/ closed
               \/ Twins(q) # {} \/ process[q] \in left \ alive
    <3>1. q \in Query /\ process[q] \in Process
      BY <2>1, InBrowserOK, Known DEF RouterInv, TypeInv, Waiting
    <3>2. \/ q \in registered \/ closed \/ Unannounced(q) \/ Twins(q) # {}
          \/ WithdrawnBehind(q, process[q], 0)
      BY <2>1 DEF RouterInv, QueueInv
    <3> QED
      BY <2>1, <3>1, <3>2, WithdrawnAt DEF Unannounced, RouterInv, TypeInv
  <2> QED
    BY <2>1 DEF NoQueryKept
<1> QED
  BY <1>1, RouterInvariant, PTL

\* Whatever renderer processes there have been, one after another or side by
\* side: an answer finds its own query or, across a change of process that left
\* the old page there, one of the page on the other side with the same IDs; and
\* a cancellation likewise.
THEOREM IDsCollideAcrossSwapOnly == Spec => []IDsSharedAcrossSwapOnly
<1>1. RouterInv => IDsSharedAcrossSwapOnly
  <2> SUFFICES ASSUME RouterInv
               PROVE  IDsSharedAcrossSwapOnly
    OBVIOUS
  <2>1. InBrowser \subseteq Query /\ registered \subseteq Query
    BY InBrowserOK DEF RouterInv, TypeInv, TypeOK
  <2>2. ASSUME NEW q \in InBrowser \cup Answered, NEW r \in registered \cup InBrowser, key[q] = key[r]
        PROVE  q = r \/ r \in Twins(q)
    <3>1. q \in Query /\ r \in Query /\ (Waiting(q) \/ ~NoAnswers(q)) /\ (Waiting(r) \/ r \in registered)
      BY <2>1 DEF Answered, Waiting, NoAnswers
    <3>2. q <= made /\ r <= made
      BY <3>1, Known DEF RouterInv
    <3>3. process[q] = process[r] => q = r
      BY <2>2, <3>1, <3>2 DEF RouterInv, KeyInv
    <3> QED
      BY <2>2, <3>1, <3>3, SameIDs
  <2>3. ASSUME NEW p \in Process, NEW r \in InBrowser, NEW m \in Queued(p)
        PROVE  process[r] = p \/ Swapped(p, process[r]) \/ Swapped(process[r], p)
    <3>1. r \in Query /\ Waiting(r) /\ r <= made /\ process[r] \in Process /\ process[r] <= current
      BY <2>1, Known DEF Waiting, RouterInv, ProcessInv
    <3>2. toBrowser[p] # <<>>
      BY DEF Queued
    <3>3. /\ p \in Nat /\ process[r] \in Nat /\ current \in Nat /\ p <= current
      <4>1. p \in Nat /\ process[r] \in Nat /\ current \in Nat
        BY <3>1, Numbers DEF RouterInv, TypeInv
      <4>2. ~(p > current)
        BY <3>2 DEF RouterInv, ProcessInv
      <4> QED
        BY <4>1, <4>2
    <3>4. ~Gone(p) /\ ~Gone(process[r])
      BY <2>3, <3>1, <3>2 DEF Gone
    <3>5. CASE p < process[r]
      <4>1. p \in left
        BY <3>1, <3>3, <3>4, <3>5 DEF RouterInv, ProcessInv
      <4> QED
        BY <3>5, <4>1 DEF Swapped
    <3>6. CASE process[r] < p
      <4>1. process[r] \in left
        BY <3>1, <3>3, <3>4, <3>6 DEF RouterInv, ProcessInv
      <4> QED
        BY <3>6, <4>1 DEF Swapped
    <3> QED
      BY <3>3, <3>5, <3>6
  <2> QED
    BY <2>2, <2>3 DEF IDsSharedAcrossSwapOnly
<1> QED
  BY <1>1, RouterInvariant, PTL
=============================================================================
