-------------------------- MODULE ResourceManager --------------------------
(***************************************************************************)
(* CefResourceManager: the walk of a resource request along the list of    *)
(* providers, while providers are added and removed and the manager itself *)
(* may go.                                                                 *)
(*                                                                         *)
(* Everything here happens on the browser process's IO thread, but not at  *)
(* once: what a provider decides is posted to the same thread, and when    *)
(* the task runs the list may have changed.  A call from another thread is *)
(* the same call, later.  Tasks of different requests run in any order.    *)
(*                                                                         *)
(* An Entry is a ProviderEntry with the provider it owns, added once.  Of  *)
(* providers it is assumed that they answer a request they took.  Those of *)
(* Archive are ArchiveProviders, which are modelled.                       *)
(***************************************************************************)
EXTENDS Naturals, FiniteSets

CONSTANTS
    Request, Entry,
    Archive,      \* the entries whose provider is an ArchiveProvider
    Identifier, IdentifierOf, OrderOf,
    NoEntry, NoRequest

ASSUME ArchiveAssumption == Archive \subseteq Entry
ASSUME EntryAssumption == IdentifierOf \in [Entry -> Identifier] /\ OrderOf \in [Entry -> Nat]
ASSUME NoneAssumption == NoEntry \notin Entry /\ NoRequest \notin Request

VARIABLES
    alive,        \* the manager exists
    providers,    \* providers_: the entries in the list, ...
    before,       \* ... and who comes before whom
    doomed,       \* entries with deletion_pending_
    visitors,     \* pending_requests_ of each entry
    at,           \* current_entry_pos_ of each request
    stage,        \* what has become of each request
    asking,       \* the request in a provider's OnRequest
    handlers,     \* pending_handlers_
    archive,      \* what each ArchiveProvider knows of its file
    looping,      \* the IO thread is stuck in a loop over providers_
    \* History.
    added,        \* the entries that were in the list when each was added
    abandoned     \* queued for an archive that did not have their file

listVars == <<providers, before, doomed, added>>
requestVars == <<visitors, at, stage, asking>>
vars == <<alive, listVars, requestVars, handlers, archive, looping, abandoned>>

\* "asked": a Request object has the state; "continue", "handled", "stop": the
\* state is with a posted task; "done": the callback was executed; "loaded":
\* CEF has asked for the handler.
Stage == {"new", "asked", "continue", "handled", "stop", "done", "loaded"}
Posted == {"continue", "handled", "stop"}
Pending == {r \in Request : stage[r] \in Posted \cup {"asked"}}

Init ==
    /\ alive = TRUE
    /\ providers = {} /\ before = {} /\ doomed = {}
    /\ visitors = [e \in Entry |-> {}]
    /\ at = [r \in Request |-> NoEntry]
    /\ stage = [r \in Request |-> "new"]
    /\ asking = NoRequest
    /\ handlers = {}
    /\ archive = [e \in Archive |-> "unloaded"]
    /\ looping = FALSE
    /\ added = [e \in Entry |-> {}]
    /\ abandoned = {}

\* The IO thread can take a new task.
Idle == asking = NoRequest /\ ~looping

----------------------------------------------------------------------------
(* The list *)

\* The first of S in the list, as a set of at most one.
First(S) == {e \in S : \A f \in S \ {e} : <<e, f>> \in before}

\* GetNextValidProvider from the beginning, and from behind e.
FirstValidProvider == First(providers \ doomed)

NextValidProvider(e) == First({f \in providers \ doomed : <<e, f>> \in before})

\* Mutant: before the first entry whose order is not lower.
AddProviderMutant(e) ==
    LET higher == {f \in providers : OrderOf[f] >= OrderOf[e]}
        ahead == {f \in providers : \A h \in higher : <<f, h>> \in before} IN
    /\ alive /\ ~looping /\ e \notin providers /\ added[e] = {}
    /\ providers' = providers \cup {e}
    /\ before' = before \cup (ahead \X {e}) \cup ({e} \X (providers \ ahead))
    /\ added' = [added EXCEPT ![e] = providers \cup {e}]
    /\ UNCHANGED <<alive, doomed, requestVars, handlers, archive, looping, abandoned>>

\* Before the first entry with a higher order.
AddProvider(e) ==
    LET higher == {f \in providers : OrderOf[f] > OrderOf[e]}
        ahead == {f \in providers : \A h \in higher : <<f, h>> \in before} IN
    /\ alive /\ ~looping /\ e \notin providers /\ added[e] = {}
    /\ providers' = providers \cup {e}
    /\ before' = before \cup (ahead \X {e}) \cup ({e} \X (providers \ ahead))
    /\ added' = [added EXCEPT ![e] = providers \cup {e}]
    /\ UNCHANGED <<alive, doomed, requestVars, handlers, archive, looping, abandoned>>

\* Mutants of Detach: a doomed entry is never deleted, ...
DetachKeepsEntry(r, newAt) ==
    /\ visitors' = [f \in Entry |-> IF {f} = newAt THEN visitors[f] \cup {r}
                                   ELSE visitors[f] \ {r}]
    /\ at' = [at EXCEPT ![r] = IF newAt = {} THEN NoEntry ELSE CHOOSE f \in newAt : TRUE]
    /\ UNCHANGED listVars

\* ... or deleted although other requests are there.
DetachDeletesEarly(r, newAt) ==
    /\ visitors' = [f \in Entry |-> IF {f} = newAt THEN visitors[f] \cup {r}
                                   ELSE visitors[f] \ {r}]
    /\ at' = [at EXCEPT ![r] = IF newAt = {} THEN NoEntry ELSE CHOOSE f \in newAt : TRUE]
    /\ providers' = IF at[r] \in doomed THEN providers \ {at[r]} ELSE providers
    /\ doomed' = doomed \ {at[r]}
    /\ UNCHANGED <<before, added>>

\* ... or stays pending for deletion.
DetachKeepsMark(r, newAt) ==
    LET e == at[r] IN
    /\ visitors' = [f \in Entry |-> IF {f} = newAt THEN visitors[f] \cup {r}
                                   ELSE visitors[f] \ {r}]
    /\ at' = [at EXCEPT ![r] = IF newAt = {} THEN NoEntry ELSE CHOOSE f \in newAt : TRUE]
    /\ providers' = IF e \in doomed /\ visitors[e] = {r} THEN providers \ {e} ELSE providers
    /\ UNCHANGED <<before, doomed, added>>

\* DetachRequestFromProvider: r leaves its entry, the last one to leave a
\* doomed entry removes it.  `newAt' is where it goes, if anywhere.
Detach(r, newAt) ==
    LET e == at[r] IN
    /\ visitors' = [f \in Entry |-> IF {f} = newAt THEN visitors[f] \cup {r}
                                   ELSE visitors[f] \ {r}]
    /\ at' = [at EXCEPT ![r] = IF newAt = {} THEN NoEntry ELSE CHOOSE f \in newAt : TRUE]
    /\ IF e \in doomed /\ visitors[e] = {r}
       THEN providers' = providers \ {e} /\ doomed' = doomed \ {e}
       ELSE UNCHANGED <<providers, doomed>>
    /\ UNCHANGED <<before, added>>

\* StopRequest: the state goes, and executes the callback.
StopRequest(r) ==
    /\ Detach(r, {})
    /\ stage' = [stage EXCEPT ![r] = "done"]
    /\ asking' = NoRequest

\* IncrementProvider, and SendRequest or StopRequest.
SendToNext(r) ==
    LET next == NextValidProvider(at[r]) IN
    IF next = {} THEN StopRequest(r)
    ELSE /\ Detach(r, next)
         /\ stage' = [stage EXCEPT ![r] = "asked"]
         /\ asking' = r

----------------------------------------------------------------------------
(* A request *)

OnBeforeResourceLoad(r) ==
    /\ alive /\ Idle /\ stage[r] = "new"
    /\ IF FirstValidProvider = {}
       THEN /\ stage' = [stage EXCEPT ![r] = "done"]
            /\ UNCHANGED <<visitors, at, asking, listVars>>
       ELSE /\ Detach(r, FirstValidProvider)
            /\ stage' = [stage EXCEPT ![r] = "asked"]
            /\ asking' = r
    /\ UNCHANGED <<alive, handlers, archive, looping, abandoned>>

\* Mutant: the next provider is not asked.
OnRequestFalseMutant(r) ==
    /\ asking = r /\ ~looping
    /\ at[r] \in Archive => stage[r] = "asked"
    /\ asking' = NoRequest
    /\ UNCHANGED <<alive, listVars, visitors, at, stage, handlers, archive, looping,
                   abandoned>>

\* OnRequest returns false.  Only if the state is still there the next
\* provider is asked.  An ArchiveProvider declines a URL that is not under its
\* own, before or after its file is loaded, and never what it has continued.
OnRequestFalse(r) ==
    /\ asking = r /\ ~looping
    /\ at[r] \in Archive => stage[r] = "asked"
    /\ IF stage[r] = "asked" THEN SendToNext(r)
       ELSE asking' = NoRequest /\ UNCHANGED <<visitors, at, stage, listVars>>
    /\ UNCHANGED <<alive, handlers, archive, looping, abandoned>>

\* OnRequest returns true.  An ArchiveProvider does so for a request that it
\* queues or has continued, and starts to load its file at the first one.
OnRequestTrue(r) ==
    /\ asking = r /\ ~looping
    /\ asking' = NoRequest
    /\ IF at[r] \in Archive
       THEN /\ archive[at[r]] = "loaded" => stage[r] # "asked"
            /\ archive' = [archive EXCEPT ![at[r]] = IF @ = "unloaded" THEN "loading" ELSE @]
       ELSE UNCHANGED archive
    /\ UNCHANGED <<alive, listVars, visitors, at, stage, handlers, looping, abandoned>>

\* Request::Continue(handler), Request::Continue(NULL) and Request::Stop by a
\* provider: within OnRequest or later.  Without the state it has no effect.
ProviderAnswers(r, answer) ==
    /\ ~looping /\ stage[r] = "asked"
    /\ at[r] \in Archive => asking = r /\ archive[at[r]] = "loaded" /\ answer = "handled"
    /\ stage' = [stage EXCEPT ![r] = answer]
    /\ UNCHANGED <<alive, listVars, visitors, at, asking, handlers, archive, looping,
                   abandoned>>

\* ContinueOnIOThread of an ArchiveProvider: the requests that were queued are
\* continued with the files of `found'; the result of ContinueRequest for the
\* others is ignored.
ArchiveLoaded(e, found) ==
    LET queued == {r \in visitors[e] : stage[r] = "asked"} IN
    /\ Idle /\ e \in providers /\ archive[e] = "loading"
    /\ found \subseteq queued
    /\ archive' = [archive EXCEPT ![e] = "loaded"]
    /\ stage' = [r \in Request |-> IF r \in found THEN "handled" ELSE stage[r]]
    /\ abandoned' = abandoned \cup (queued \ found)
    /\ UNCHANGED <<alive, listVars, visitors, at, asking, handlers, looping>>

\* ContinueOnIOThread and StopOnIOThread of a Request: with the manager gone,
\* only the callback is executed.
RunTask(r) ==
    /\ Idle /\ stage[r] \in Posted
    /\ IF alive
       THEN /\ IF stage[r] = "continue" THEN SendToNext(r) ELSE StopRequest(r)
            /\ handlers' = IF stage[r] = "handled" THEN handlers \cup {r} ELSE handlers
       ELSE /\ stage' = [stage EXCEPT ![r] = "done"]
            /\ at' = [at EXCEPT ![r] = NoEntry]
            /\ UNCHANGED <<visitors, asking, listVars, handlers>>
    /\ UNCHANGED <<alive, archive, looping, abandoned>>

GetResourceHandler(r) ==
    /\ Idle /\ stage[r] = "done"
    /\ stage' = [stage EXCEPT ![r] = "loaded"]
    /\ handlers' = handlers \ {r}
    /\ UNCHANGED <<alive, listVars, visitors, at, asking, archive, looping, abandoned>>

----------------------------------------------------------------------------
(* Removal *)

\* DeleteProvider for each of S in the order of the list: an entry without
\* requests goes, one with requests is doomed, and its requests are continued
\* or stopped.  At an entry that is doomed already it returns without moving
\* the iterator, so its caller's loop never ends.
DeleteProviders(S, answer) ==
    LET reached == {e \in S : \A f \in S \cap doomed : e = f \/ <<e, f>> \in before} \ doomed
        empty == {e \in reached : visitors[e] = {}}
        withState == {r \in Request : stage[r] = "asked" /\ at[r] \in reached} IN
    /\ providers' = providers \ empty
    /\ doomed' = doomed \cup (reached \ empty)
    /\ stage' = [r \in Request |-> IF r \in withState THEN answer ELSE stage[r]]
    /\ looping' = (S \cap doomed # {})
    /\ UNCHANGED <<before, added>>

\* From a task, or from within a provider's OnRequest.
RemoveProviders(identifier) ==
    /\ alive /\ ~looping
    /\ DeleteProviders({e \in providers : IdentifierOf[e] = identifier}, "continue")
    /\ UNCHANGED <<alive, visitors, at, asking, handlers, archive, abandoned>>

RemoveAllProviders ==
    /\ alive /\ ~looping
    /\ DeleteProviders(providers, "stop")
    /\ UNCHANGED <<alive, visitors, at, asking, handlers, archive, abandoned>>

\* ~CefResourceManager: RemoveAllProviders; if that returns, the entries go
\* with their requests, and tasks find that the manager is gone.
DestroyManager ==
    /\ alive /\ Idle
    /\ IF doomed = {}
       THEN /\ alive' = FALSE
            /\ providers' = {} /\ doomed' = {}
            /\ stage' = [r \in Request |-> IF stage[r] = "asked" THEN "stop" ELSE stage[r]]
            /\ visitors' = [e \in Entry |-> {}]
            /\ handlers' = {}
            /\ UNCHANGED <<before, added, looping>>
       ELSE DeleteProviders(providers, "stop") /\ UNCHANGED <<alive, visitors, handlers>>
    /\ UNCHANGED <<at, asking, archive, abandoned>>

----------------------------------------------------------------------------
Answer == {"continue", "handled", "stop"}

RequestStep(r) ==
    \/ OnBeforeResourceLoad(r) \/ OnRequestFalse(r) \/ OnRequestTrue(r)
    \/ \E answer \in Answer : ProviderAnswers(r, answer)
    \/ RunTask(r) \/ GetResourceHandler(r)

Next ==
    \/ \E r \in Request : RequestStep(r)
    \/ \E e \in Entry : AddProvider(e)
    \/ \E e \in Archive, found \in SUBSET Request : ArchiveLoaded(e, found)
    \/ \E identifier \in Identifier : RemoveProviders(identifier)
    \/ RemoveAllProviders \/ DestroyManager

Spec == Init /\ [][Next]_vars

\* The IO thread runs its tasks, OnRequest returns, an archive's load ends, and
\* a provider answers what it took.
Fairness ==
    /\ \A r \in Request :
          /\ WF_vars(OnRequestFalse(r) \/ OnRequestTrue(r))
          /\ WF_vars(\E answer \in Answer : ProviderAnswers(r, answer))
          /\ WF_vars(RunTask(r))
    /\ \A e \in Archive : WF_vars(\E found \in SUBSET Request : ArchiveLoaded(e, found))

FairSpec == Spec /\ Fairness

----------------------------------------------------------------------------
(* Properties *)

\* The values the variables take.
TypeOK ==
    /\ alive \in BOOLEAN /\ looping \in BOOLEAN
    /\ providers \subseteq Entry /\ doomed \subseteq providers
    /\ before \subseteq Entry \X Entry
    /\ visitors \in [Entry -> SUBSET Request]
    /\ at \in [Request -> Entry \cup {NoEntry}]
    /\ stage \in [Request -> Stage]
    /\ asking \in Request \cup {NoRequest}
    /\ handlers \subseteq Request
    /\ archive \in [Archive -> {"unloaded", "loading", "loaded"}]
    /\ added \in [Entry -> SUBSET Entry]
    /\ abandoned \subseteq Request

\* An entry that is to be deleted waits for requests that are on their way
\* out: it has some, and its provider has the state of none of them.
DoomedEntriesEmpty ==
    \A e \in doomed : visitors[e] # {} /\ \A r \in visitors[e] : stage[r] # "asked"

\* The iterators that a request keeps, to its entry and into that entry's
\* list, are good for as long as the request may use them: its entry is in the
\* list, and the entry's pending requests are those that are there.  No
\* request was sent to an entry since it was to be deleted ("Should not be on
\* a deleted entry").
PositionsValid ==
    /\ alive => \A r \in Request : stage[r] \in Posted \cup {"asked"} => at[r] \in providers
    /\ alive => \A e \in Entry : visitors[e] = {r \in Pending : at[r] = e}
    /\ DoomedEntriesEmpty

\* e before f: by order, and by time of addition where that is the same.
Precedes(e, f) == OrderOf[e] < OrderOf[f] \/ (OrderOf[e] = OrderOf[f] /\ e \in added[f])

\* Whatever is added and removed meanwhile, a request goes from a provider to
\* one of higher order, or of the same order and added later; so none is
\* asked twice.
AskedInOrder ==
    [][\A r \in Request :
          at[r] \in Entry /\ at'[r] \in Entry /\ at'[r] # at[r] => Precedes(at[r], at'[r])]_vars

\* Every request that a provider took is continued; but for those that an
\* archive was too late to miss, and unless the IO thread is stuck.
RequestContinues ==
    \A r \in Request :
       r \in Pending ~> stage[r] \in {"done", "loaded"} \/ r \in abandoned \/ looping

\* "The removed providers may be deleted immediately or at a later time": a
\* provider that is to be deleted is, unless the IO thread is stuck.
DoomedEntriesGo == \A e \in Entry : e \in doomed ~> e \notin providers \/ looping
=============================================================================
