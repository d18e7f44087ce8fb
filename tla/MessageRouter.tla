--------------------------- MODULE MessageRouter ----------------------------
(***************************************************************************)
(* The CEF message router: window.cefQuery of a page, the IPC between its  *)
(* renderer process and the browser process, and the handlers that answer. *)
(*                                                                         *)
(* Three parties take steps: the renderer's main thread, on behalf of the  *)
(* scripts of its contexts; the browser's UI thread, the only one to touch *)
(* the browser side's state; and the threads of the handlers, whose calls  *)
(* to a Callback post themselves to the UI thread.                         *)
(*                                                                         *)
(* A query is known by different names on the two sides.  The renderer     *)
(* side has a context ID and a request ID, both counted from one in every  *)
(* renderer process: `key'.  The browser side has a query ID, unique for   *)
(* the life of the router.  Messages carry keys, so whether an answer or a *)
(* cancellation finds its query is a matter of what else has that key.     *)
(*                                                                         *)
(* A router has one browser, as in ClientHandler, and a browser has one    *)
(* renderer process after another: the next one when a navigation leads to *)
(* another origin, or after the last one died.  In the first case the old  *)
(* page is still there when the new one starts, under the same browser ID. *)
(* Of the handlers' code it is assumed only that a handler uses a Callback *)
(* it was given.                                                           *)
(***************************************************************************)
EXTENDS Naturals, Sequences, FiniteSets

CONSTANTS
    Handler,
    MaxQueries,   \* bound: queries made by pages
    MaxPersistent,\* bound: persistent ones among them
    MaxContexts,  \* bound: contexts of one renderer process
    MaxProcesses, \* bound: renderer processes of the browser, one after another
    MaxAnswers    \* bound: answers of one query on their way

ASSUME BoundAssumption ==
    {MaxQueries, MaxPersistent, MaxContexts, MaxProcesses, MaxAnswers} \subseteq Nat

VARIABLES
    \* The renderer processes of the browser.
    current,      \* the one that shows the browser's page
    alive,        \* those that run: `current' and old ones that are still there
    contexts,     \* context_map_ of each
    nextContext,  \* context_id_generator_ of each
    nextRequest,  \* request_id_generator_ of each
    process,      \* which one made each query
    key,          \* context ID and request ID of each query
    persistent,   \* queries made with persistent: true
    registered,   \* browser_request_info_map_ of them all
    \* The messages between the processes.
    toBrowser,    \* for each renderer process, oldest first
    answers,      \* for each renderer process and query, oldest first
    \* The browser process.
    handlerSet,   \* handler_set_
    asking,       \* the query in OnProcessMessageReceived, and whom to ask
    pending,      \* browser_query_info_map_: for each handler, its queries
    attached,     \* queries whose Callback has its router_
    posted,       \* for each query, the UI thread's tasks of its Callback
    navigating,   \* a navigation of the main frame has begun
    closed,       \* the browser is gone
    \* The handlers.
    holds,        \* queries that a handler may still answer
    \* Bounds and history.
    made,
    left,         \* processes whose page was there when the next one started
    silenced,     \* canceled by OnBeforeBrowse while the page awaited them
    told          \* handed to OnQueryCanceled

pageVars == <<current, alive, contexts, nextContext, nextRequest, process, key,
              persistent, registered, made, left>>
queryVars == <<asking, pending, attached, posted, holds, silenced, told>>
browserVars == <<handlerSet, navigating, closed>>
vars == <<pageVars, toBrowser, answers, queryVars, browserVars>>

Query == 1..MaxQueries
Context == 1..MaxContexts
Process == 1..MaxProcesses
Request == 1..MaxQueries
NoKey == <<0, 0>>
AllRequests == 0   \* kReservedId in a cancel message

Message ==
    [type : {"query"}, query : Query]
    \cup [type : {"cancel"}, context : Context, request : Request \cup {AllRequests}]
    \cup [type : {"terminated"}]

Outcome == {"success", "failure"}
Task == {"callback", "router"} \X Outcome

\* What uses a query up: a persistent one only ends with a failure.
Final(q, o) == o = "failure" \/ q \notin persistent

Pending == UNION {pending[h] : h \in Handler}
NotAsking == [query |-> 0, left |-> {}]
Idle == asking = NotAsking

Init ==
    /\ current = 1 /\ alive = {1} \cap Process /\ left = {}
    /\ contexts = [p \in Process |-> {}]
    /\ nextContext = [p \in Process |-> 0] /\ nextRequest = [p \in Process |-> 0]
    /\ process = [q \in Query |-> 0]
    /\ key = [q \in Query |-> NoKey]
    /\ persistent = {} /\ registered = {}
    /\ toBrowser = [p \in Process |-> <<>>]
    /\ answers = [p \in Process |-> [q \in Query |-> <<>>]]
    /\ handlerSet = {} /\ asking = NotAsking
    /\ pending = [h \in Handler |-> {}]
    /\ attached = {} /\ posted = [q \in Query |-> <<>>]
    /\ navigating = FALSE /\ closed = FALSE
    /\ holds = {} /\ made = 0
    /\ silenced = {} /\ told = {}

----------------------------------------------------------------------------
(* The renderer processes *)

SendToBrowser(p, m) == toBrowser' = [toBrowser EXCEPT ![p] = Append(@, m)]

\* cefQuery in context c of process p; a context gets its ID with its first
\* query.  A page that is being replaced still makes queries.
SendQuery(p, c, isPersistent) ==
    LET q == made + 1 IN
    /\ p \in alive /\ made < MaxQueries
    /\ isPersistent => Cardinality(persistent) < MaxPersistent
    /\ c \in contexts[p] \/ c = nextContext[p] + 1
    /\ contexts' = [contexts EXCEPT ![p] = @ \cup {c}]
    /\ nextContext' = [nextContext EXCEPT ![p] = IF c \in contexts[p] THEN @ ELSE c]
    /\ nextRequest' = [nextRequest EXCEPT ![p] = @ + 1]
    /\ process' = [process EXCEPT ![q] = p]
    /\ key' = [key EXCEPT ![q] = <<c, nextRequest[p] + 1>>]
    /\ persistent' = IF isPersistent THEN persistent \cup {q} ELSE persistent
    /\ registered' = registered \cup {q}
    /\ SendToBrowser(p, [type |-> "query", query |-> q])
    /\ made' = q
    /\ UNCHANGED <<current, alive, left, answers, queryVars, browserVars>>

\* cefQueryCancel of the page's own query q.
CancelRequest(q) ==
    /\ q \in registered
    /\ registered' = registered \ {q}
    /\ SendToBrowser(process[q],
          [type |-> "cancel", context |-> key[q][1], request |-> key[q][2]])
    /\ UNCHANGED <<current, alive, left, contexts, nextContext, nextRequest, process,
                   key, persistent, made, answers, queryVars, browserVars>>

\* The queries that the scripts of p's context c await.
Awaited(p, c) == {q \in registered : process[q] = p /\ key[q][1] = c}

\* Mutant: the browser process is not told.
OnContextReleasedMutant(p, c) ==
    /\ c \in contexts[p]
    /\ contexts' = [contexts EXCEPT ![p] = @ \ {c}]
    /\ registered' = registered \ Awaited(p, c)
    /\ UNCHANGED <<current, alive, left, nextContext, nextRequest, process, key,
                   persistent, made, toBrowser, answers, queryVars, browserVars>>

\* A context goes away, and takes its queries along.
OnContextReleased(p, c) ==
    /\ c \in contexts[p]
    /\ contexts' = [contexts EXCEPT ![p] = @ \ {c}]
    /\ registered' = registered \ Awaited(p, c)
    /\ IF Awaited(p, c) = {} THEN UNCHANGED toBrowser
       ELSE SendToBrowser(p, [type |-> "cancel", context |-> c, request |-> AllRequests])
    /\ UNCHANGED <<current, alive, left, nextContext, nextRequest, process, key,
                   persistent, made, answers, queryVars, browserVars>>

\* ExecuteSuccessCallback, ExecuteFailureCallback: the oldest answer to q that
\* was sent to p looks p's request up by the IDs it carries.
ExecuteCallback(p, q) ==
    /\ p \in alive /\ answers[p][q] # <<>>
    /\ answers' = [answers EXCEPT ![p][q] = Tail(@)]
    /\ registered' = registered \
          {r \in registered : /\ process[r] = p /\ key[r] = key[q]
                              /\ Final(r, Head(answers[p][q]))}
    /\ UNCHANGED <<current, alive, left, contexts, nextContext, nextRequest, process,
                   key, persistent, made, toBrowser, queryVars, browserVars>>

\* The queries and the contexts of the processes P are gone, and with them the
\* answers on their way.
PagesGone(P) ==
    /\ alive' = alive \ P
    /\ contexts' = [p \in Process |-> IF p \in P THEN {} ELSE contexts[p]]
    /\ registered' = {q \in registered : process[q] \notin P}
    /\ answers' = [p \in Process |->
                     [q \in Query |-> IF p \in P THEN <<>> ELSE answers[p][q]]]

\* A renderer process ends.  If the browser's page was in it, the browser
\* process learns of it after the messages that it still got out.
RendererGone(p) ==
    /\ p \in alive
    /\ PagesGone({p})
    /\ IF p = current THEN SendToBrowser(p, [type |-> "terminated"])
                      ELSE UNCHANGED toBrowser
    /\ UNCHANGED <<current, left, nextContext, nextRequest, process, key, persistent,
                   made, queryVars, browserVars>>

\* A navigation commits in a new renderer process, whose generators start at
\* one: across origins, beside the old page, which goes when it is told to; or
\* after the browser process has learned that the old one died.
CommitInNewProcess ==
    /\ Idle /\ ~closed /\ navigating /\ current < MaxProcesses
    /\ current \in alive \/ toBrowser[current] = <<>>
    /\ current' = current + 1
    /\ left' = left \cup ({current} \cap alive)
    /\ alive' = alive \cup {current + 1}
    /\ navigating' = FALSE
    /\ UNCHANGED <<contexts, nextContext, nextRequest, process, key, persistent,
                   registered, made, toBrowser, answers, queryVars, handlerSet, closed>>

----------------------------------------------------------------------------
(* The browser process *)

\* SendProcessMessage(PID_RENDERER): to the process that shows the page now,
\* whichever asked, and lost if that one is gone.
Answer(S, o) ==
    answers' = [p \in Process |-> [q \in Query |->
                  IF p = current /\ p \in alive /\ q \in S
                  THEN Append(answers[p][q], o) ELSE answers[p][q]]]

\* CancelQuery for each query of S.
CancelQueries(S, notify_renderer) ==
    /\ Answer(IF notify_renderer THEN S ELSE {}, "failure")
    /\ pending' = [h \in Handler |-> pending[h] \ S]
    /\ told' = told \cup S
    /\ attached' = attached \ S

CancelPendingFor(h, notify_renderer) == CancelQueries(pending[h], notify_renderer)
CancelAllPending(notify_renderer) == CancelQueries(Pending, notify_renderer)

\* CancelPendingRequest, by the IDs in the message m, whoever sent it: all
\* queries with that context ID, or one with both IDs.  (Should there be two,
\* it is the one with the lower query ID; the model leaves open which that is.)
CancelPendingRequest(m) ==
    LET found == {q \in Pending : key[q][1] = m.context
                                    /\ m.request \in {AllRequests, key[q][2]}}
    IN  IF m.request = AllRequests \/ found = {}
        THEN CancelQueries(found, FALSE)
        ELSE \E q \in found : CancelQueries({q}, FALSE)

Receive(p, type) ==
    /\ Idle /\ ~closed
    /\ toBrowser[p] # <<>> /\ Head(toBrowser[p]).type = type
    /\ toBrowser' = [toBrowser EXCEPT ![p] = Tail(@)]

\* Without a handler the query is canceled (CancelUnhandledQuery); else the
\* handlers of the moment are asked, one after another.
ReceiveQuery(p) ==
    LET q == Head(toBrowser[p]).query IN
    /\ Receive(p, "query")
    /\ \/ /\ handlerSet = {} /\ Answer({q}, "failure")
          /\ UNCHANGED <<asking, attached>>
       \/ /\ handlerSet # {}
          /\ asking' = [query |-> q, left |-> handlerSet]
          /\ attached' = attached \cup {q}
          /\ UNCHANGED answers
    /\ UNCHANGED <<pageVars, pending, posted, holds, silenced, told, browserVars>>

\* Mutants of Decline: the last one leaves the query open, ...
DeclineLeavesOpen(h) ==
    /\ h \in asking.left
    /\ asking' = [asking EXCEPT !.left = @ \ {h}]
    /\ UNCHANGED <<pageVars, toBrowser, answers, pending, attached, posted, holds,
                   silenced, told, browserVars>>

\* ... or does not answer it.
DeclineSilently(h) ==
    /\ h \in asking.left
    /\ IF asking.left = {h}
       THEN asking' = NotAsking /\ attached' = attached \ {asking.query}
       ELSE asking' = [asking EXCEPT !.left = @ \ {h}] /\ UNCHANGED attached
    /\ UNCHANGED <<pageVars, toBrowser, answers, pending, posted, holds, silenced,
                   told, browserVars>>

\* OnQuery returns false.  The last one to do so leaves the query canceled.
Decline(h) ==
    LET q == asking.query IN
    /\ h \in asking.left
    /\ IF asking.left = {h}
       THEN /\ asking' = NotAsking
            /\ attached' = attached \ {q}
            /\ Answer({q}, "failure")
       ELSE /\ asking' = [asking EXCEPT !.left = @ \ {h}]
            /\ UNCHANGED <<attached, answers>>
    /\ UNCHANGED <<pageVars, toBrowser, pending, posted, holds, silenced, told,
                   browserVars>>

\* Mutant: any call uses the Callback up.
CallMutant(q, o, tasks) ==
    /\ posted' = [posted EXCEPT ![q] = IF q \in attached
                                       THEN Append(tasks, <<"router", o>>)
                                       ELSE tasks]
    /\ attached' = attached \ {q}

\* CallbackImpl::Success and ::Failure on the UI thread; `tasks' are the other
\* tasks of q.
Call(q, o, tasks) ==
    /\ posted' = [posted EXCEPT ![q] = IF q \in attached
                                       THEN Append(tasks, <<"router", o>>)
                                       ELSE tasks]
    /\ attached' = IF Final(q, o) THEN attached \ {q} ELSE attached

\* OnQuery returns true, perhaps having answered already.
Accept(h) ==
    LET q == asking.query IN
    /\ h \in asking.left
    /\ asking' = NotAsking
    /\ pending' = [pending EXCEPT ![h] = @ \cup {q}]
    /\ \/ holds' = holds \cup {q} /\ UNCHANGED <<posted, attached>>
       \/ \E o \in Outcome :
             /\ Call(q, o, <<>>)
             /\ holds' = IF Final(q, o) THEN holds ELSE holds \cup {q}
    /\ UNCHANGED <<pageVars, toBrowser, answers, silenced, told, browserVars>>

ReceiveCancel(p) ==
    /\ Receive(p, "cancel")
    /\ CancelPendingRequest(Head(toBrowser[p]))
    /\ UNCHANGED <<pageVars, asking, posted, holds, silenced, browserVars>>

\* Mutant: the queries of the page that is gone are kept.
OnRenderProcessTerminatedMutant(p) ==
    /\ Receive(p, "terminated")
    /\ UNCHANGED <<pageVars, answers, queryVars, browserVars>>

OnRenderProcessTerminated(p) ==
    /\ Receive(p, "terminated")
    /\ CancelAllPending(FALSE)
    /\ UNCHANGED <<pageVars, asking, posted, holds, silenced, browserVars>>

\* A navigation of the main frame begins; the page may still be there after it.
OnBeforeBrowse ==
    /\ Idle /\ ~closed
    /\ CancelAllPending(FALSE)
    /\ silenced' = silenced \cup (Pending \cap registered)
    /\ navigating' = TRUE
    /\ UNCHANGED <<pageVars, toBrowser, asking, posted, holds, handlerSet, closed>>

\* The Callback of a query a handler holds: on the UI thread at once, on
\* another one by a task.
HandlerAnswers(q, o) ==
    /\ q \in holds
    /\ Final(q, o) \/ Len(posted[q]) + Len(answers[current][q]) < MaxAnswers
    /\ holds' = IF Final(q, o) THEN holds \ {q} ELSE holds
    /\ \/ Idle /\ Call(q, o, posted[q])
       \/ /\ posted' = [posted EXCEPT ![q] = Append(@, <<"callback", o>>)]
          /\ UNCHANGED attached
    /\ UNCHANGED <<pageVars, toBrowser, answers, asking, pending, silenced, told,
                   browserVars>>

\* The posted Success or Failure reaches the UI thread.
RunCallback(q) ==
    /\ Idle /\ posted[q] # <<>> /\ Head(posted[q])[1] = "callback"
    /\ Call(q, Head(posted[q])[2], Tail(posted[q]))
    /\ UNCHANGED <<pageVars, toBrowser, answers, asking, pending, holds, silenced,
                   told, browserVars>>

\* Mutants of OnCallback: the query is not looked up, ...
OnCallbackUnchecked(q) ==
    LET o == Head(posted[q])[2] IN
    /\ Idle /\ posted[q] # <<>> /\ Head(posted[q])[1] = "router"
    /\ posted' = [posted EXCEPT ![q] = Tail(@)]
    /\ Answer({q}, o)
    /\ pending' = [h \in Handler |-> IF Final(q, o) THEN pending[h] \ {q} ELSE pending[h]]
    /\ UNCHANGED <<pageVars, toBrowser, asking, attached, holds, silenced, told,
                   browserVars>>

\* ... or stays in the map.
OnCallbackKeepsQuery(q) ==
    /\ Idle /\ posted[q] # <<>> /\ Head(posted[q])[1] = "router"
    /\ posted' = [posted EXCEPT ![q] = Tail(@)]
    /\ Answer({q} \cap Pending, Head(posted[q])[2])
    /\ UNCHANGED <<pageVars, toBrowser, asking, pending, attached, holds, silenced,
                   told, browserVars>>

\* OnCallbackSuccess, OnCallbackFailure.
OnCallback(q) ==
    LET o == Head(posted[q])[2] IN
    /\ Idle /\ posted[q] # <<>> /\ Head(posted[q])[1] = "router"
    /\ posted' = [posted EXCEPT ![q] = Tail(@)]
    /\ Answer({q} \cap Pending, o)
    /\ pending' = [h \in Handler |-> IF Final(q, o) THEN pending[h] \ {q} ELSE pending[h]]
    /\ UNCHANGED <<pageVars, toBrowser, asking, attached, holds, silenced, told,
                   browserVars>>

\* The program's own calls, which may come from within an OnQuery as well.
AddHandler(h) ==
    /\ ~closed /\ h \notin handlerSet
    /\ handlerSet' = handlerSet \cup {h}
    /\ UNCHANGED <<pageVars, toBrowser, answers, queryVars, navigating, closed>>

\* Mutants of RemoveHandler: the page is not told, ...
RemoveHandlerSilently(h) ==
    /\ ~closed /\ h \in handlerSet
    /\ handlerSet' = handlerSet \ {h}
    /\ CancelPendingFor(h, FALSE)
    /\ UNCHANGED <<pageVars, toBrowser, asking, posted, holds, silenced, navigating, closed>>

\* ... or the handler's queries stay.
RemoveHandlerOnly(h) ==
    /\ ~closed /\ h \in handlerSet
    /\ handlerSet' = handlerSet \ {h}
    /\ UNCHANGED <<pageVars, toBrowser, answers, queryVars, navigating, closed>>

RemoveHandler(h) ==
    /\ ~closed /\ h \in handlerSet
    /\ handlerSet' = handlerSet \ {h}
    /\ CancelPendingFor(h, TRUE)
    /\ UNCHANGED <<pageVars, toBrowser, asking, posted, holds, silenced, navigating, closed>>

CancelPending(S) ==
    /\ ~closed
    /\ S \in {{h} : h \in Handler} \cup {Handler}
    /\ CancelQueries(UNION {pending[h] : h \in S}, TRUE)
    /\ UNCHANGED <<pageVars, toBrowser, asking, posted, holds, silenced, browserVars>>

\* ClientHandler::OnBeforeClose of the browser: it removes every handler and
\* drops the router.  The page goes with the browser.
OnBeforeClose ==
    /\ Idle /\ ~closed
    /\ closed' = TRUE /\ handlerSet' = {}
    /\ LET S == UNION {pending[h] : h \in handlerSet} IN
       /\ pending' = [h \in Handler |-> pending[h] \ S]
       /\ told' = told \cup S
       /\ attached' = attached \ S
    /\ PagesGone(Process) /\ toBrowser' = [p \in Process |-> <<>>]
    /\ UNCHANGED <<current, left, nextContext, nextRequest, process, key, persistent,
                   made, asking, posted, holds, silenced, navigating>>

----------------------------------------------------------------------------
Page ==
    \/ \E p \in Process, c \in Context :
          OnContextReleased(p, c) \/ \E b \in BOOLEAN : SendQuery(p, c, b)
    \/ \E q \in Query : CancelRequest(q) \/ \E p \in Process : ExecuteCallback(p, q)
    \/ \E p \in Process : RendererGone(p)
    \/ CommitInNewProcess

ReceiveMessage(p) == ReceiveQuery(p) \/ ReceiveCancel(p) \/ OnRenderProcessTerminated(p)

Browser ==
    \/ \E p \in Process : ReceiveMessage(p)
    \/ \E h \in Handler : Decline(h) \/ Accept(h) \/ AddHandler(h) \/ RemoveHandler(h)
    \/ OnBeforeBrowse
    \/ \E S \in SUBSET Handler : CancelPending(S)
    \/ \E q \in Query : RunCallback(q) \/ OnCallback(q)
    \/ OnBeforeClose

HandlerStep == \E q \in Query, o \in Outcome : HandlerAnswers(q, o)

Next == Page \/ Browser \/ HandlerStep

Spec == Init /\ [][Next]_vars

\* Both threads run what is queued for them, a handler returns from OnQuery,
\* and ends a query that it may answer only once.
Fairness ==
    /\ \A p \in Process : WF_vars(ReceiveMessage(p))
    /\ WF_vars(\E h \in Handler : Decline(h) \/ Accept(h))
    /\ \A q \in Query :
          /\ \A p \in Process : WF_vars(ExecuteCallback(p, q))
          /\ WF_vars(RunCallback(q) \/ OnCallback(q))
          /\ WF_vars(q \notin persistent /\ \E o \in Outcome : HandlerAnswers(q, o))

FairSpec == Spec /\ Fairness

----------------------------------------------------------------------------
(* Properties *)

\* The values the variables take.
TypeOK ==
    /\ current \in Nat /\ alive \subseteq Process /\ left \subseteq Process
    /\ navigating \in BOOLEAN /\ closed \in BOOLEAN
    /\ contexts \in [Process -> SUBSET Context]
    /\ nextContext \in [Process -> 0..MaxContexts]
    /\ nextRequest \in [Process -> 0..made]
    /\ process \in [Query -> Process \cup {0}]
    /\ key \in [Query -> (Context \X Request) \cup {NoKey}]
    /\ persistent \subseteq Query /\ registered \subseteq Query
    /\ toBrowser \in [Process -> Seq(Message)]
    /\ answers \in [Process -> [Query -> Seq(Outcome)]]
    /\ handlerSet \subseteq Handler
    /\ asking \in [query : Query, left : (SUBSET Handler) \ {{}}] \cup {NotAsking}
    /\ pending \in [Handler -> SUBSET Query]
    /\ attached \subseteq Query /\ holds \subseteq Query
    /\ posted \in [Query -> Seq(Task)]
    /\ made \in 0..MaxQueries
    /\ silenced \subseteq Query /\ told \subseteq Query

Queued(p) == {toBrowser[p][i] : i \in DOMAIN toBrowser[p]}
InTransit(q) == \E p \in Process : [type |-> "query", query |-> q] \in Queued(p)
Ends(p, q) == {i \in DOMAIN answers[p][q] : Final(q, answers[p][q][i])}
InBrowser == Pending \cup ({asking.query} \ {0})

\* The process of q has sent what takes q out of the browser process.
Withdrawn(q) ==
    \E m \in Queued(process[q]) :
       \/ m.type = "terminated"
       \/ /\ m.type = "cancel" /\ m.context = key[q][1]
          /\ m.request \in {AllRequests, key[q][2]}

\* The page of process p was there when that of n, or one between, started.
Swapped(p, n) == p < n /\ p \in left

\* Queries of two such pages in contexts of the same ID.
Twins(q) ==
    {r \in Query : /\ key[q][1] = key[r][1]
                   /\ Swapped(process[q], process[r]) \/ Swapped(process[r], process[q])}

\* No query is forgotten: while the page that is shown awaits an answer, its
\* query is on its way, being offered, with a handler, or ended by an answer on
\* its way.  Two things take a query from its handler and leave the page
\* without an answer: a navigation (OnBeforeBrowse does not notify the
\* renderer), and a cancellation by a page left before that used the same IDs.
NoQueryForgotten ==
    \A q \in registered \ silenced :
       process[q] = current /\ Twins(q) = {} =>
          InTransit(q) \/ q \in InBrowser \/ Ends(current, q) # {}

\* The browser process keeps no query of a page that is gone, or that the page
\* gave up, but for as long as the message that says so is on its way.  (After
\* the browser is gone, see HandlersRegistered.)  Not so across a change of
\* process: the cancellation may hit a query of another page with the same IDs,
\* and the end of a process that shows no page is not announced.
NoQueryKept ==
    \A q \in InBrowser :
       \/ q \in registered \/ Withdrawn(q) \/ closed
       \/ Twins(q) # {} \/ process[q] \in left \ alive

Answered == {q \in Query : \E p \in Process : answers[p][q] # <<>>}

\* The IDs that the messages carry are counted anew in each renderer process.
\* Still, a query of which the browser process knows, or which it has
\* answered, has the IDs of another one that a page awaits only if the older
\* page was there when the younger one started; and so for the queries that a
\* cancellation takes along.  Never after a termination.
IDsSharedAcrossSwapOnly ==
    /\ \A q \in InBrowser \cup Answered : \A r \in registered \cup InBrowser :
          key[q] = key[r] => q = r \/ r \in Twins(q)
    /\ \A p \in Process, r \in InBrowser :
          (\E m \in Queued(p) : m.type = "cancel" /\ m.context = key[r][1]) =>
             process[r] = p \/ Swapped(p, process[r]) \/ Swapped(process[r], p)

\* A query has one handler, and one outcome: neither is it with a handler when
\* a last answer is on its way, nor is there an answer after the last one.
OneOutcome ==
    /\ \A g, h \in Handler : g # h => pending[g] \cap pending[h] = {}
    /\ \A p \in Process, q \in Query :
          /\ Ends(p, q) \subseteq {Len(answers[p][q])}
          /\ Ends(p, q) # {} => /\ q \notin InBrowser
                                /\ \A n \in Process : n > p => answers[n][q] = <<>>

\* A handler that is told that its query is canceled was told so once, the
\* query is not with a handler any more, and its Callback is without effect.
CanceledForGood == told \cap (InBrowser \cup attached) = {}

\* The Callback of a query with a handler still works, or has done its work
\* and the answer is posted: a pending query can be answered.  The Callback of
\* no other query works (the DCHECK in ~CallbackImpl), and that of a canceled
\* one never will again.
CallbackAnswerable ==
    /\ attached \subseteq InBrowser
    /\ \A q \in Pending \ attached :
          \E i \in DOMAIN posted[q] : posted[q][i][1] = "router" /\ Final(q, posted[q][i][2])
    /\ CanceledForGood

\* The handlers that OnQueryCanceled may be called on, or that may be offered
\* a query, are registered.  Only one that was removed from within an OnQuery
\* may yet be offered the query of that moment, and keep it; it never has more.
HandlersRegistered ==
    \A h \in Handler \ handlerSet :
       /\ \A q, r \in pending[h] : q = r
       /\ h \in asking.left => pending[h] = {}

\* Once a query is canceled in the browser process, that process does not
\* answer it any more: the handler's late answers are dropped, whatever thread
\* they come from.
NoAnswerAfterCancel ==
    [][\A p \in Process, q \in told : Len(answers'[p][q]) <= Len(answers[p][q])]_vars

\* Every query that takes one answer ends: answered, failed, canceled, given
\* up, or silently dropped by a navigation; or its page is left, or a page left
\* before uses its IDs.
QueryEnds ==
    \A q \in Query :
       q \in registered \ persistent ~>
          q \notin registered \/ q \in silenced \/ process[q] \in left \/ Twins(q) # {}

\* A query, a persistent one too, does not stay with its handler when the page
\* has given it up, has gone, or has crashed; but for what NoQueryKept excepts.
LeftQueryLeavesHandler ==
    \A q \in Query :
       q \in Pending /\ q \notin registered ~>
          \/ q \notin Pending \/ closed
          \/ Twins(q) # {} \/ process[q] \in left \ alive
=============================================================================
