----------------------- MODULE ResourceManager_proofs -----------------------
(***************************************************************************)
(* Theorems about the resource manager, for any providers and requests.    *)
(*                                                                         *)
(* The list is an order of the entries that are in it, by OrderOf and then *)
(* by time of addition; pairs with entries that are gone stay, and do no   *)
(* harm because an entry is added once (ListInv).  A request is with the   *)
(* entry it points to, or on its way out of it (PositionsValid), and the   *)
(* manager that is gone has no entries (EndInv).                           *)
(***************************************************************************)
EXTENDS ResourceManager, TLAPS

\* The entries that were ever added.
Added == {e \in Entry : added[e] # {}}

ListInv ==
    /\ providers \subseteq Added /\ before \subseteq Added \X Added
    /\ \A e, f \in providers : e = f \/ <<e, f>> \in before \/ <<f, e>> \in before
    /\ \A e, f \in Entry : <<e, f>> \in before => <<f, e>> \notin before
    /\ \A e, f \in Entry : <<e, f>> \in before => Precedes(e, f)

EndInv ==
    /\ \A r \in Request : stage[r] = "new" => at[r] = NoEntry
    /\ \A r \in Request : stage[r] = "asked" => alive
    /\ asking \in Request => alive
    /\ ~alive => providers = {}

Inv == TypeOK /\ PositionsValid /\ ListInv /\ EndInv

-----------------------------------------------------------------------------
(* The list.                                                               *)

LEMMA FirstUnique ==
    ASSUME TypeOK, ListInv, NEW S \in SUBSET Entry
    PROVE  First(S) = {} \/ \E e \in S : First(S) = {e}
<1>1. ASSUME NEW e \in First(S), NEW f \in First(S), e # f
      PROVE  FALSE
  <2>1. <<e, f>> \in before /\ <<f, e>> \in before
    BY <1>1 DEF First
  <2>2. e \in Entry /\ f \in Entry
    BY DEF First
  <2> QED BY <2>1, <2>2 DEF ListInv
<1>2. First(S) \subseteq S
  BY DEF First
<1> QED BY <1>1, <1>2

\* A list that entries left is in order still.
LEMMA ListShrinks ==
    ASSUME ListInv, providers' \subseteq providers, UNCHANGED <<before, added>>
    PROVE  ListInv'
BY DEF ListInv, Added, Precedes

LEMMA AddKeepsOrder ==
    ASSUME TypeOK, ListInv, NEW e \in Entry, AddProvider(e)
    PROVE  ListInv' /\ before' \subseteq Entry \X Entry
<1> DEFINE higher == {f \in providers : OrderOf[f] > OrderOf[e]}
           ahead == {f \in providers : \A h \in higher : <<f, h>> \in before}
<1>1. /\ e \notin providers /\ added[e] = {}
      /\ providers' = providers \cup {e}
      /\ before' = before \cup (ahead \X {e}) \cup ({e} \X (providers \ ahead))
      /\ \A f \in Entry : added'[f] = IF f = e THEN providers \cup {e} ELSE added[f]
  BY DEF AddProvider, TypeOK
<1>2. \A f \in Entry : OrderOf[f] \in Nat
  BY EntryAssumption
<1>3. /\ \A f, g \in Entry : <<f, g>> \in before => f # e /\ g # e
      /\ ahead \subseteq providers /\ providers \subseteq Entry /\ e \notin Added
  BY <1>1 DEF ListInv, Added, TypeOK
<1>4. \A f, g \in Entry : <<f, g>> \in before' <=>
          \/ <<f, g>> \in before
          \/ f \in ahead /\ g = e
          \/ f = e /\ g \in providers \ ahead
  BY <1>1
<1>5. Added \subseteq Added' /\ e \in Added'
  BY <1>1 DEF Added
<1>6. before' \subseteq Added' \X Added' /\ providers' \subseteq Added'
  BY <1>1, <1>3, <1>5 DEF ListInv
<1>7. \A f, g \in providers' : f = g \/ <<f, g>> \in before' \/ <<g, f>> \in before'
  BY <1>1, <1>3, <1>4 DEF ListInv
<1>8. \A f, g \in Entry : <<f, g>> \in before' => <<g, f>> \notin before'
  BY <1>1, <1>3, <1>4 DEF ListInv
<1>9. ASSUME NEW f \in Entry, NEW g \in Entry, <<f, g>> \in before'
      PROVE  Precedes(f, g)'
  <2>1. CASE <<f, g>> \in before
    BY <1>1, <1>3, <2>1 DEF ListInv, Precedes
  <2>2. CASE f \in ahead /\ g = e
    <3>1. <<f, f>> \notin before
      BY DEF ListInv
    <3>2. ~(OrderOf[f] > OrderOf[e])
      BY <2>2, <3>1
    <3> QED BY <1>1, <1>2, <2>2, <3>2 DEF Precedes
  <2>3. CASE f = e /\ g \in providers \ ahead
    <3>1. PICK h \in higher : <<g, h>> \notin before
      BY <2>3
    <3>2. g = h \/ Precedes(h, g)
      BY <1>3, <2>3, <3>1 DEF ListInv
    <3>3. OrderOf[h] <= OrderOf[g] /\ OrderOf[h] > OrderOf[e]
      BY <1>2, <1>3, <3>1, <3>2 DEF Precedes
    <3>4. OrderOf[e] < OrderOf[g]
      BY <1>2, <1>3, <3>1, <3>3
    <3> QED BY <2>3, <3>4 DEF Precedes
  <2> QED BY <1>4, <1>9, <2>1, <2>2, <2>3
<1>10. before' \subseteq Entry \X Entry
  BY <1>6 DEF Added
<1> QED BY <1>6, <1>7, <1>8, <1>9, <1>10 DEF ListInv

-----------------------------------------------------------------------------
(* Moving a request.                                                       *)

\* What Detach does, for one who goes nowhere or to an entry that is there.
LEMMA Moved ==
    ASSUME Inv, alive, UNCHANGED alive, NEW r \in Request, NEW s, NEW newAt,
           Detach(r, newAt), stage' = [stage EXCEPT ![r] = s],
           r \in Pending \/ at[r] = NoEntry,
           \/ newAt = {} /\ s = "done"
           \/ s = "asked" /\ \E f \in providers \ doomed : newAt = {f}
    PROVE  /\ visitors' \in [Entry -> SUBSET Request]
           /\ at' \in [Request -> Entry \cup {NoEntry}]
           /\ stage' \in [Request -> Stage]
           /\ doomed' \subseteq providers' /\ providers' \subseteq providers
           /\ \A q \in Request \ {r} : at'[q] = at[q]
           /\ \A q \in Request : at'[q] = at[q] \/ at'[q] = NoEntry \/ newAt = {at'[q]}
           /\ ListInv' /\ PositionsValid'
<1> DEFINE e == at[r]
<1>1. /\ \A f \in Entry : visitors'[f] = IF {f} = newAt THEN visitors[f] \cup {r}
                                         ELSE visitors[f] \ {r}
      /\ visitors' \in [Entry -> SUBSET Request]
  BY DEF Detach, Inv, TypeOK
<1>2. PICK g \in Entry \cup {NoEntry} :
          /\ at' = [at EXCEPT ![r] = g]
          /\ newAt = {} => g = NoEntry
          /\ newAt # {} => g \in providers \ doomed /\ newAt = {g}
  BY DEF Detach, Inv, TypeOK
<1>3. /\ at' \in [Request -> Entry \cup {NoEntry}]
      /\ at'[r] = g /\ \A q \in Request \ {r} : at'[q] = at[q]
  BY <1>2 DEF Inv, TypeOK
<1>4. /\ stage' \in [Request -> Stage]
      /\ stage'[r] = s /\ \A q \in Request \ {r} : stage'[q] = stage[q]
  BY DEF Inv, TypeOK, Stage
<1>5. /\ \/ /\ e \in doomed /\ visitors[e] = {r}
            /\ providers' = providers \ {e} /\ doomed' = doomed \ {e}
         \/ /\ ~(e \in doomed /\ visitors[e] = {r})
            /\ providers' = providers /\ doomed' = doomed
      /\ UNCHANGED <<before, added>>
  BY DEF Detach
<1>6. doomed' \subseteq providers' /\ providers' \subseteq providers
  BY <1>5 DEF Inv, TypeOK
<1>7. ListInv'
  BY <1>5, <1>6, ListShrinks DEF Inv
<1>8. /\ \A q \in Request : q \in Pending => at[q] \in providers
      /\ \A f \in Entry : visitors[f] = {q \in Pending : at[q] = f}
      /\ DoomedEntriesEmpty
      /\ providers \subseteq Entry /\ doomed \subseteq providers /\ NoEntry \notin Entry
  BY NoneAssumption DEF Inv, PositionsValid, Pending, TypeOK
<1>9. \A q \in Request : q \in Pending' <=> IF q = r THEN newAt # {} ELSE q \in Pending
  BY <1>4 DEF Pending, Posted
<1>10. \A q \in Request : q \in Pending' => at'[q] \in providers'
  <2>1. CASE newAt # {}
    BY <1>2, <1>3, <1>5, <1>8, <1>9, <2>1
  <2>2. CASE newAt = {}
    BY <1>3, <1>5, <1>8, <1>9, <2>2
  <2> QED BY <2>1, <2>2
<1>11. \A f \in Entry : visitors'[f] = {q \in Pending' : at'[q] = f}
  <2> SUFFICES ASSUME NEW f \in Entry, NEW q \in Request
               PROVE  q \in visitors'[f] <=> q \in Pending' /\ at'[q] = f
    BY <1>1 DEF Pending
  <2>1. CASE q = r
    BY <1>1, <1>2, <1>3, <1>8, <1>9, <2>1
  <2>2. CASE q # r
    BY <1>1, <1>3, <1>8, <1>9, <2>2
  <2> QED BY <2>1, <2>2
<1>12. DoomedEntriesEmpty'
  <2> SUFFICES ASSUME NEW f \in doomed'
               PROVE  visitors'[f] # {} /\ \A q \in visitors'[f] : stage'[q] # "asked"
    BY DEF DoomedEntriesEmpty
  <2>1. f \in doomed /\ f \in Entry /\ {f} # newAt
    BY <1>2, <1>5, <1>8
  <2>2. visitors'[f] = visitors[f] \ {r}
    BY <1>1, <2>1
  <2>3. visitors[f] # {} /\ visitors[f] # {r}
    <3>1. CASE f = e
      BY <1>5, <1>8, <2>1, <3>1 DEF DoomedEntriesEmpty
    <3>2. CASE f # e
      BY <1>8, <2>1, <3>2 DEF DoomedEntriesEmpty
    <3> QED BY <3>1, <3>2
  <2>4. \A q \in visitors[f] \ {r} : stage'[q] # "asked"
    BY <1>1, <1>4, <1>8, <2>1 DEF DoomedEntriesEmpty, Pending
  <2> QED BY <2>2, <2>3, <2>4
<1>13. PositionsValid'
  BY <1>10, <1>11, <1>12 DEF PositionsValid, Pending
<1>14. \A q \in Request : at'[q] = at[q] \/ at'[q] = NoEntry \/ newAt = {at'[q]}
  BY <1>2, <1>3
<1> QED BY <1>1, <1>3, <1>4, <1>6, <1>7, <1>13, <1>14

\* SendToNext stops the request or moves it behind the entry it was at.
LEMMA SentToNext ==
    ASSUME Inv, alive, UNCHANGED alive, NEW r \in Request, r \in Pending, SendToNext(r)
    PROVE  \E s \in {"done", "asked"}, newAt \in SUBSET Entry :
              /\ Detach(r, newAt) /\ stage' = [stage EXCEPT ![r] = s]
              /\ asking' \in {r, NoRequest}
              /\ \/ newAt = {} /\ s = "done"
                 \/ s = "asked" /\ \E f \in providers \ doomed : newAt = {f}
              /\ \A f \in newAt : <<at[r], f>> \in before
<1> DEFINE next == NextValidProvider(at[r])
           S == {f \in providers \ doomed : <<at[r], f>> \in before}
<1>1. S \subseteq Entry
  BY DEF Inv, TypeOK
<1>2. next = {} \/ \E f \in S : next = {f}
  BY <1>1, FirstUnique DEF Inv, NextValidProvider
<1>3. CASE next = {}
  BY <1>3 DEF SendToNext, StopRequest
<1>4. CASE \E f \in S : next = {f}
  <2>1. Detach(r, next) /\ stage' = [stage EXCEPT ![r] = "asked"] /\ asking' = r
    BY <1>4 DEF SendToNext
  <2>2. next \in SUBSET Entry /\ \A f \in next : <<at[r], f>> \in before
    BY <1>1, <1>4
  <2> QED BY <1>4, <2>1, <2>2
<1> QED BY <1>2, <1>3, <1>4

\* The same of a step by which a request is stopped.
LEMMA Stopped ==
    ASSUME NEW r \in Request, StopRequest(r)
    PROVE  /\ Detach(r, {}) /\ stage' = [stage EXCEPT ![r] = "done"]
           /\ asking' = NoRequest
BY DEF StopRequest

\* A step of a provider or of CEF that leaves requests where they are, and
\* changes who has their state at most.
Stays ==
    /\ UNCHANGED <<alive, providers, before, doomed, added, visitors, at, looping>>
    /\ asking' \in {asking, NoRequest}
    /\ handlers' \subseteq handlers
    /\ archive' \in [Archive -> {"unloaded", "loading", "loaded"}]
    /\ abandoned' \subseteq Request
    /\ stage' \in [Request -> Stage]
    /\ \A r \in Request : \/ stage'[r] = stage[r]
                          \/ stage[r] = "asked" /\ stage'[r] \in Posted
                          \/ stage[r] = "done" /\ stage'[r] = "loaded"

LEMMA StateGoes ==
    ASSUME Inv, Stays
    PROVE  /\ PositionsValid' /\ ListInv'
           /\ \A r \in Request : stage'[r] \in {"new", "asked"} => stage'[r] = stage[r]
<1>1. UNCHANGED <<providers, before, doomed, added>>
  BY DEF Stays
<1>2. \A r \in Request : stage'[r] \in {"new", "asked"} => stage'[r] = stage[r]
  BY DEF Posted, Stays
<1>3. \A r \in Request : r \in Pending' <=> r \in Pending
  BY DEF Pending, Posted, Stays
<1>4. Pending' = Pending
  BY <1>3 DEF Pending
<1>5. DoomedEntriesEmpty => DoomedEntriesEmpty'
  BY <1>1, <1>2 DEF DoomedEntriesEmpty, Inv, TypeOK, Stays
<1>6. PositionsValid'
  BY <1>1, <1>4, <1>5 DEF PositionsValid, Inv, Pending, Stays
<1>7. ListInv'
  BY <1>1, ListShrinks DEF Inv
<1> QED BY <1>2, <1>6, <1>7

-----------------------------------------------------------------------------
(* Every step keeps the invariant.                                         *)

LEMMA InvInit == Init => Inv
<1> SUFFICES ASSUME Init PROVE Inv
  OBVIOUS
<1>1. TypeOK
  BY NoneAssumption DEF Init, TypeOK, Stage
<1>2. PositionsValid
  BY DEF Init, PositionsValid, DoomedEntriesEmpty, Pending, Posted
<1>3. ListInv
  BY DEF Init, ListInv
<1>4. EndInv
  BY NoneAssumption DEF Init, EndInv
<1> QED BY <1>1, <1>2, <1>3, <1>4 DEF Inv

\* A request that moves from entry to entry, of a manager that is there.
LEMMA MoveInv ==
    ASSUME Inv, alive, UNCHANGED <<alive, archive, looping, abandoned>>,
           NEW r \in Request, NEW s, NEW newAt,
           Detach(r, newAt), stage' = [stage EXCEPT ![r] = s],
           r \in Pending \/ at[r] = NoEntry,
           asking' \in {r, NoRequest}, handlers' \subseteq handlers \cup {r},
           \/ newAt = {} /\ s = "done"
           \/ s = "asked" /\ \E f \in providers \ doomed : newAt = {f}
    PROVE  Inv'
<1>1. /\ visitors' \in [Entry -> SUBSET Request]
      /\ at' \in [Request -> Entry \cup {NoEntry}]
      /\ stage' \in [Request -> Stage]
      /\ doomed' \subseteq providers' /\ providers' \subseteq providers
      /\ \A q \in Request \ {r} : at'[q] = at[q]
      /\ ListInv' /\ PositionsValid'
  BY Moved
<1>2. UNCHANGED <<before, added>>
  BY DEF Detach
<1>3. TypeOK'
  BY <1>1, <1>2 DEF Inv, TypeOK
<1>4. \A q \in Request : stage'[q] = IF q = r THEN s ELSE stage[q]
  BY DEF Inv, TypeOK
<1>5. EndInv'
  BY <1>1, <1>4 DEF Inv, EndInv
<1> QED BY <1>1, <1>3, <1>5 DEF Inv

LEMMA StayInv ==
    ASSUME Inv, Stays
    PROVE  Inv'
<1>1. /\ PositionsValid' /\ ListInv'
      /\ \A r \in Request : stage'[r] \in {"new", "asked"} => stage'[r] = stage[r]
  BY StateGoes
<1>3. TypeOK'
  BY DEF Inv, TypeOK, Stays
<1>4. EndInv'
  BY <1>1, NoneAssumption DEF Inv, EndInv, Stays
<1> QED BY <1>1, <1>3, <1>4 DEF Inv

LEMMA OnBeforeResourceLoadInv ==
    ASSUME Inv, NEW r \in Request, OnBeforeResourceLoad(r)
    PROVE  Inv'
<1>1. /\ alive /\ stage[r] = "new" /\ asking = NoRequest /\ at[r] = NoEntry
      /\ UNCHANGED <<alive, handlers, archive, looping, abandoned>>
  BY DEF OnBeforeResourceLoad, Idle, Inv, EndInv
<1>2. CASE FirstValidProvider = {}
  <2>1. /\ UNCHANGED <<visitors, at, asking, providers, before, doomed, added>>
        /\ stage' = [stage EXCEPT ![r] = "done"]
    BY <1>2 DEF OnBeforeResourceLoad, listVars
  <2>2. /\ stage' \in [Request -> Stage]
        /\ \A q \in Request : stage'[q] = IF q = r THEN "done" ELSE stage[q]
    BY <2>1 DEF Inv, TypeOK, Stage
  <2>3. TypeOK'
    BY <1>1, <2>1, <2>2 DEF Inv, TypeOK
  <2>4. Pending' = Pending
    BY <1>1, <2>2 DEF Pending, Posted
  <2>5. DoomedEntriesEmpty'
    BY <2>1, <2>2 DEF Inv, PositionsValid, DoomedEntriesEmpty, TypeOK
  <2>6. PositionsValid'
    BY <1>1, <2>1, <2>4, <2>5 DEF Inv, PositionsValid, Pending
  <2>7. ListInv'
    BY <2>1, ListShrinks DEF Inv
  <2>8. EndInv'
    BY <1>1, <2>1, <2>2 DEF Inv, EndInv
  <2> QED BY <2>3, <2>6, <2>7, <2>8 DEF Inv
<1>3. CASE FirstValidProvider # {}
  <2>1. /\ Detach(r, FirstValidProvider)
        /\ stage' = [stage EXCEPT ![r] = "asked"] /\ asking' = r
    BY <1>3 DEF OnBeforeResourceLoad
  <2>2. providers \ doomed \subseteq Entry
    BY DEF Inv, TypeOK
  <2>3. \E f \in providers \ doomed : FirstValidProvider = {f}
    BY <1>3, <2>2, FirstUnique DEF Inv, FirstValidProvider
  <2> QED BY <1>1, <2>1, <2>3, MoveInv
<1> QED BY <1>2, <1>3

LEMMA SendToNextInv ==
    ASSUME Inv, alive, UNCHANGED <<alive, handlers, archive, looping, abandoned>>,
           NEW r \in Request, r \in Pending, SendToNext(r)
    PROVE  Inv'
BY SentToNext, MoveInv

LEMMA OnRequestFalseInv ==
    ASSUME Inv, NEW r \in Request, OnRequestFalse(r)
    PROVE  Inv'
<1>1. asking = r /\ alive /\ UNCHANGED <<alive, handlers, archive, looping, abandoned>>
  BY DEF OnRequestFalse, Inv, EndInv
<1>2. CASE stage[r] = "asked"
  BY <1>1, <1>2, SendToNextInv DEF OnRequestFalse, Pending
<1>3. CASE stage[r] # "asked"
  <2>1. /\ UNCHANGED <<alive, providers, before, doomed, added, visitors, at, looping>>
        /\ UNCHANGED <<stage, handlers, archive, abandoned>> /\ asking' = NoRequest
    BY <1>3 DEF OnRequestFalse, listVars
  <2>2. /\ stage \in [Request -> Stage] /\ abandoned \subseteq Request
        /\ archive \in [Archive -> {"unloaded", "loading", "loaded"}]
    BY DEF Inv, TypeOK
  <2>3. Stays
    BY <2>1, <2>2 DEF Stays
  <2> QED BY <2>3, StayInv
<1> QED BY <1>2, <1>3

LEMMA OnRequestTrueInv ==
    ASSUME Inv, NEW r \in Request, OnRequestTrue(r)
    PROVE  Inv'
<1>1. archive' \in [Archive -> {"unloaded", "loading", "loaded"}]
  BY DEF OnRequestTrue, Inv, TypeOK
<1>2. /\ UNCHANGED <<alive, providers, before, doomed, added, visitors, at, looping>>
      /\ UNCHANGED <<stage, handlers, abandoned>> /\ asking' = NoRequest
  BY DEF OnRequestTrue, listVars
<1>3. stage \in [Request -> Stage] /\ abandoned \subseteq Request
  BY DEF Inv, TypeOK
<1>4. Stays
  BY <1>1, <1>2, <1>3 DEF Stays
<1> QED BY <1>4, StayInv

LEMMA ProviderAnswersInv ==
    ASSUME Inv, NEW r \in Request, NEW answer \in Answer, ProviderAnswers(r, answer)
    PROVE  Inv'
<1>1. /\ stage[r] = "asked" /\ answer \in Posted
      /\ stage' \in [Request -> Stage]
      /\ \A q \in Request : stage'[q] = IF q = r THEN answer ELSE stage[q]
  BY DEF ProviderAnswers, Answer, Posted, Stage, Inv, TypeOK
<1>2. /\ UNCHANGED <<alive, providers, before, doomed, added, visitors, at, looping>>
      /\ UNCHANGED <<handlers, asking, archive, abandoned>>
  BY DEF ProviderAnswers, listVars
<1>3. /\ abandoned \subseteq Request
      /\ archive \in [Archive -> {"unloaded", "loading", "loaded"}]
  BY DEF Inv, TypeOK
<1>4. Stays
  BY <1>1, <1>2, <1>3 DEF Stays
<1> QED BY <1>4, StayInv

LEMMA ArchiveLoadedInv ==
    ASSUME Inv, NEW e \in Archive, NEW found \in SUBSET Request, ArchiveLoaded(e, found)
    PROVE  Inv'
<1> DEFINE queued == {r \in visitors[e] : stage[r] = "asked"}
<1>1. e \in Entry /\ queued \subseteq Request /\ found \subseteq queued
  BY ArchiveAssumption DEF ArchiveLoaded, Inv, TypeOK
<1>5. stage' = [r \in Request |-> IF r \in found THEN "handled" ELSE stage[r]]
  BY DEF ArchiveLoaded
<1>2. /\ stage' \in [Request -> Stage]
      /\ \A r \in Request : \/ stage'[r] = stage[r]
                            \/ stage[r] = "asked" /\ stage'[r] \in Posted
  BY <1>1, <1>5 DEF Inv, TypeOK, Stage, Posted
<1>3. abandoned' \subseteq Request
  BY <1>1 DEF ArchiveLoaded, Inv, TypeOK
<1>4. archive' \in [Archive -> {"unloaded", "loading", "loaded"}]
  BY DEF ArchiveLoaded, Inv, TypeOK
<1>6. UNCHANGED <<alive, providers, before, doomed, added, visitors, at, looping, handlers, asking>>
  BY DEF ArchiveLoaded, listVars
<1>7. Stays
  BY <1>2, <1>3, <1>4, <1>6 DEF Stays
<1> QED BY <1>7, StayInv

LEMMA RunTaskInv ==
    ASSUME Inv, NEW r \in Request, RunTask(r)
    PROVE  Inv'
<1>1. /\ stage[r] \in Posted /\ asking = NoRequest /\ r \in Pending
      /\ UNCHANGED <<alive, archive, looping, abandoned>>
  BY DEF RunTask, Idle, Pending
<1>2. CASE alive /\ stage[r] = "continue"
  <2>1. SendToNext(r) /\ UNCHANGED handlers
    BY <1>2 DEF RunTask
  <2> QED BY <1>1, <1>2, <2>1, SendToNextInv
<1>3. CASE alive /\ stage[r] # "continue"
  <2>1. StopRequest(r) /\ handlers' \subseteq handlers \cup {r}
    BY <1>3 DEF RunTask
  <2> QED BY <1>1, <1>3, <2>1, Stopped, MoveInv
<1>4. CASE ~alive
  <2>1. /\ stage' = [stage EXCEPT ![r] = "done"] /\ at' = [at EXCEPT ![r] = NoEntry]
        /\ UNCHANGED <<visitors, asking, providers, before, doomed, added, handlers>>
    BY <1>4 DEF RunTask, listVars
  <2>2. TypeOK'
    BY <1>1, <2>1 DEF Inv, TypeOK, Stage
  <2>3. doomed = {}
    BY <1>4 DEF Inv, EndInv, TypeOK
  <2>4. PositionsValid'
    BY <1>1, <1>4, <2>1, <2>3 DEF PositionsValid, DoomedEntriesEmpty
  <2>5. ListInv'
    BY <2>1, ListShrinks DEF Inv
  <2>6. \A q \in Request : stage'[q] = IF q = r THEN "done" ELSE stage[q]
    BY <2>1 DEF Inv, TypeOK
  <2>7. \A q \in Request : at'[q] = IF q = r THEN NoEntry ELSE at[q]
    BY <2>1 DEF Inv, TypeOK
  <2>8. EndInv'
    BY <1>1, <2>1, <2>6, <2>7 DEF Inv, EndInv
  <2> QED BY <2>2, <2>4, <2>5, <2>8 DEF Inv
<1> QED BY <1>2, <1>3, <1>4

LEMMA GetResourceHandlerInv ==
    ASSUME Inv, NEW r \in Request, GetResourceHandler(r)
    PROVE  Inv'
<1>1. /\ stage[r] = "done" /\ stage' \in [Request -> Stage]
      /\ \A q \in Request : stage'[q] = IF q = r THEN "loaded" ELSE stage[q]
  BY DEF GetResourceHandler, Stage, Inv, TypeOK
<1>2. /\ UNCHANGED <<alive, providers, before, doomed, added, visitors, at, looping>>
      /\ UNCHANGED <<asking, archive, abandoned>> /\ handlers' \subseteq handlers
  BY DEF GetResourceHandler, listVars
<1>3. /\ abandoned \subseteq Request
      /\ archive \in [Archive -> {"unloaded", "loading", "loaded"}]
  BY DEF Inv, TypeOK
<1>4. Stays
  BY <1>1, <1>2, <1>3 DEF Stays
<1> QED BY <1>4, StayInv

LEMMA AddProviderInv ==
    ASSUME Inv, NEW e \in Entry, AddProvider(e)
    PROVE  Inv'
<1>1. /\ alive /\ e \in Entry
      /\ providers' = providers \cup {e}
      /\ added' = [added EXCEPT ![e] = providers \cup {e}]
      /\ UNCHANGED <<alive, doomed, visitors, at, stage, asking, handlers, archive,
                     looping, abandoned>>
  BY DEF AddProvider, requestVars
<1>2. ListInv' /\ before' \subseteq Entry \X Entry
  BY AddKeepsOrder DEF Inv
<1>3. TypeOK'
  BY <1>1, <1>2 DEF Inv, TypeOK
<1>4. PositionsValid'
  <2>1. Pending' = Pending /\ DoomedEntriesEmpty'
    BY <1>1 DEF Pending, DoomedEntriesEmpty, Inv, PositionsValid
  <2> QED BY <1>1, <2>1 DEF Inv, PositionsValid, Pending
<1>5. EndInv'
  BY <1>1 DEF Inv, EndInv
<1> QED BY <1>2, <1>3, <1>4, <1>5 DEF Inv

\* The loop over entries that are to be removed.
LEMMA DeleteProvidersInv ==
    ASSUME Inv, alive, NEW S \in SUBSET providers, NEW answer \in {"continue", "stop"},
           DeleteProviders(S, answer),
           UNCHANGED <<alive, visitors, at, asking, handlers, archive, abandoned>>
    PROVE  Inv'
<1> DEFINE reached == {e \in S : \A f \in S \cap doomed : e = f \/ <<e, f>> \in before} \ doomed
           empty == {e \in reached : visitors[e] = {}}
           withState == {r \in Request : stage[r] = "asked" /\ at[r] \in reached}
<1>1. /\ providers' = providers \ empty
      /\ doomed' = doomed \cup (reached \ empty)
      /\ stage' = [r \in Request |-> IF r \in withState THEN answer ELSE stage[r]]
      /\ looping' = (S \cap doomed # {})
      /\ UNCHANGED <<before, added>>
  BY DEF DeleteProviders
<1>2. /\ reached \subseteq providers /\ empty \subseteq reached
      /\ reached \cap doomed = {} /\ withState \subseteq Request
      /\ \A r \in withState : stage[r] = "asked"
      /\ \A r \in Request : stage[r] = "asked" /\ at[r] \in reached => r \in withState
      /\ \A e \in reached : e \notin empty => visitors[e] # {}
      /\ \A e \in empty : visitors[e] = {}
  OBVIOUS
<1> HIDE DEF reached, empty, withState
<1>3. \A r \in Request : stage'[r] = IF r \in withState THEN answer ELSE stage[r]
  BY <1>1
<1>4. stage' \in [Request -> Stage]
  BY <1>1 DEF Inv, TypeOK, Stage
<1>5. looping' \in BOOLEAN
  BY <1>1
<1>6. TypeOK'
  BY <1>1, <1>2, <1>4, <1>5 DEF Inv, TypeOK
<1>7. Pending' = Pending
  BY <1>2, <1>3 DEF Pending, Posted
<1>8. /\ \A r \in Pending : at[r] \in providers
      /\ \A e \in Entry : visitors[e] = {r \in Pending : at[r] = e}
      /\ DoomedEntriesEmpty /\ providers \subseteq Entry
  BY DEF Inv, PositionsValid, Pending, TypeOK
<1>9. \A r \in Pending : at[r] \notin empty
  BY <1>2, <1>8
<1>10. ASSUME NEW e \in doomed'
       PROVE  visitors'[e] # {} /\ \A r \in visitors'[e] : stage'[r] # "asked"
  <2>1. CASE e \in doomed
    <3>1. visitors[e] # {} /\ \A r \in visitors[e] : r \in Request /\ stage[r] # "asked"
      BY <1>8, <2>1 DEF DoomedEntriesEmpty, Inv, TypeOK
    <3> QED BY <1>3, <3>1
  <2>2. CASE e \in reached \ empty
    <3>1. visitors[e] # {} /\ \A r \in visitors[e] : r \in Request /\ at[r] = e
      BY <1>2, <1>8, <2>2 DEF Inv, TypeOK
    <3> QED BY <1>2, <1>3, <2>2, <3>1
  <2> QED BY <1>1, <1>10, <2>1, <2>2
<1>11. PositionsValid'
  BY <1>1, <1>7, <1>8, <1>9, <1>10 DEF PositionsValid, DoomedEntriesEmpty, Pending
<1>12. ListInv'
  BY <1>1, ListShrinks DEF Inv
<1>13. EndInv'
  BY <1>1, <1>3 DEF Inv, EndInv
<1> QED BY <1>6, <1>11, <1>12, <1>13 DEF Inv

LEMMA DestroyManagerInv ==
    ASSUME Inv, DestroyManager
    PROVE  Inv'
<1>1. alive /\ asking = NoRequest /\ UNCHANGED <<at, asking, archive, abandoned>>
  BY DEF DestroyManager, Idle
<1>2. CASE doomed = {}
  <2>1. /\ ~alive' /\ providers' = {} /\ doomed' = {} /\ handlers' = {}
        /\ alive' \in BOOLEAN
        /\ stage' = [r \in Request |-> IF stage[r] = "asked" THEN "stop" ELSE stage[r]]
        /\ visitors' = [e \in Entry |-> {}]
        /\ UNCHANGED <<before, added, looping>>
    BY <1>2 DEF DestroyManager
  <2>2. /\ stage' \in [Request -> Stage]
        /\ \A r \in Request : stage'[r] = IF stage[r] = "asked" THEN "stop" ELSE stage[r]
    BY <2>1 DEF Inv, TypeOK, Stage
  <2>3. TypeOK'
    BY <1>1, <2>1, <2>2 DEF Inv, TypeOK
  <2>4. PositionsValid'
    BY <2>1 DEF PositionsValid, DoomedEntriesEmpty
  <2>5. ListInv'
    BY <2>1, ListShrinks DEF Inv
  <2>6. EndInv'
    BY <1>1, <2>1, <2>2, NoneAssumption DEF Inv, EndInv
  <2> QED BY <2>3, <2>4, <2>5, <2>6 DEF Inv
<1>3. CASE doomed # {}
  <2>1. DeleteProviders(providers, "stop") /\ UNCHANGED <<alive, visitors, handlers>>
    BY <1>3 DEF DestroyManager
  <2> QED BY <1>1, <2>1, DeleteProvidersInv
<1> QED BY <1>2, <1>3

LEMMA InvNext == Inv /\ [Next]_vars => Inv'
<1> SUFFICES ASSUME Inv, [Next]_vars PROVE Inv'
  OBVIOUS
<1>1. CASE UNCHANGED vars
  <2>1. UNCHANGED <<alive, providers, before, doomed, added, visitors, at, stage, asking,
                    handlers, archive, looping, abandoned>>
    BY <1>1 DEF vars, listVars, requestVars
  <2>2. Stays
    BY <2>1 DEF Stays, Inv, TypeOK
  <2> QED BY <2>2, StayInv
<1>2. ASSUME NEW identifier \in Identifier, RemoveProviders(identifier) PROVE Inv'
  BY <1>2, DeleteProvidersInv DEF RemoveProviders
<1>3. CASE RemoveAllProviders
  BY <1>3, DeleteProvidersInv DEF RemoveAllProviders
<1>4. ASSUME NEW r \in Request, RequestStep(r) PROVE Inv'
  BY <1>4, OnBeforeResourceLoadInv, OnRequestFalseInv, OnRequestTrueInv,
     ProviderAnswersInv, RunTaskInv, GetResourceHandlerInv DEF RequestStep
<1> QED BY <1>1, <1>2, <1>3, <1>4, AddProviderInv, ArchiveLoadedInv, DestroyManagerInv DEF Next

LEMMA Invariant == Spec => []Inv
BY InvInit, InvNext, PTL DEF Spec

-----------------------------------------------------------------------------
(* Theorems.                                                               *)

\* The lists, positions and states keep their types, whatever providers and
\* requests do and also after the manager is gone.
THEOREM TypeCorrect == Spec => []TypeOK
BY Invariant, PTL DEF Inv

\* A request's entry is in the list, the entry counts it, and no request that
\* is still with a provider is at an entry that is to be deleted: whatever is
\* added and removed while requests are on their way, for any number of both.
THEOREM PositionsStayValid == Spec => []PositionsValid
BY Invariant, PTL DEF Inv

\* A request walks the list forward only, in the order of the providers, so it
\* is offered to none twice.
THEOREM WalkGoesForward == Spec => AskedInOrder
<1>1. ASSUME Inv, [Next]_vars, NEW r \in Request,
             at[r] \in Entry, at'[r] \in Entry, at'[r] # at[r]
      PROVE  Precedes(at[r], at'[r])
  <2>1. ASSUME NEW q \in Request, alive, UNCHANGED alive, q \in Pending, SendToNext(q)
        PROVE  <<at[r], at'[r]>> \in before
    <3>1. PICK s \in {"done", "asked"}, newAt \in SUBSET Entry :
              /\ Detach(q, newAt) /\ stage' = [stage EXCEPT ![q] = s]
              /\ \/ newAt = {} /\ s = "done"
                 \/ s = "asked" /\ \E f \in providers \ doomed : newAt = {f}
              /\ \A f \in newAt : <<at[q], f>> \in before
      BY <1>1, <2>1, SentToNext
    <3>2. /\ \A p \in Request \ {q} : at'[p] = at[p]
          /\ \A p \in Request : at'[p] = at[p] \/ at'[p] = NoEntry \/ newAt = {at'[p]}
      BY <1>1, <2>1, <3>1, Moved
    <3>3. r = q /\ newAt = {at'[r]}
      BY <1>1, <3>2, NoneAssumption
    <3> QED BY <3>1, <3>3
  <2>2. ASSUME NEW q \in Request, alive, UNCHANGED alive, q \in Pending, StopRequest(q)
        PROVE  FALSE
    <3>1. /\ Detach(q, {}) /\ stage' = [stage EXCEPT ![q] = "done"]
      BY <2>2, Stopped
    <3>2. at' = [at EXCEPT ![q] = NoEntry]
      BY <3>1 DEF Detach
    <3>3. \A p \in Request : at'[p] = at[p] \/ at'[p] = NoEntry
      BY <1>1, <3>2 DEF Inv, TypeOK
    <3> QED BY <1>1, <3>3, NoneAssumption
  <2>3. ASSUME NEW q \in Request, OnBeforeResourceLoad(q)
        PROVE  FALSE
    <3>1. at[q] = NoEntry
      BY <1>1, <2>3 DEF OnBeforeResourceLoad, Inv, EndInv
    <3>2. \A p \in Request \ {q} : at'[p] = at[p]
      BY <1>1, <2>3 DEF OnBeforeResourceLoad, Detach, Inv, TypeOK
    <3> QED BY <1>1, <3>1, <3>2, NoneAssumption
  <2>4. ASSUME NEW q \in Request, OnRequestFalse(q)
        PROVE  <<at[r], at'[r]>> \in before
    <3>1. stage[q] = "asked" /\ SendToNext(q) /\ UNCHANGED alive
      BY <1>1, <2>4 DEF OnRequestFalse
    <3>2. alive /\ q \in Pending
      BY <1>1, <3>1 DEF Inv, EndInv, Pending
    <3> QED BY <2>1, <3>1, <3>2
  <2>5. ASSUME NEW q \in Request, RunTask(q)
        PROVE  <<at[r], at'[r]>> \in before
    <3>1. q \in Pending /\ UNCHANGED alive
      BY <2>5 DEF RunTask, Pending
    <3>2. CASE alive
      BY <2>1, <2>2, <2>5, <3>1, <3>2 DEF RunTask
    <3>3. CASE ~alive
      BY <1>1, <2>5, <3>3, NoneAssumption DEF RunTask, Inv, TypeOK
    <3> QED BY <3>2, <3>3
  <2>6. at' # at
    BY <1>1
  <2>7. \/ UNCHANGED at
        \/ \E q \in Request : OnBeforeResourceLoad(q) \/ OnRequestFalse(q) \/ RunTask(q)
    BY <1>1 DEF Next, RequestStep, OnRequestTrue, ProviderAnswers, GetResourceHandler,
       AddProvider, ArchiveLoaded, RemoveProviders, RemoveAllProviders, DestroyManager,
       vars, requestVars
  <2>8. <<at[r], at'[r]>> \in before
    BY <2>3, <2>4, <2>5, <2>6, <2>7
  <2> QED BY <1>1, <2>8 DEF Inv, ListInv
<1>2. Inv /\ [Next]_vars =>
          [\A r \in Request :
              at[r] \in Entry /\ at'[r] \in Entry /\ at'[r] # at[r] => Precedes(at[r], at'[r])]_vars
  BY <1>1
<1> QED BY <1>2, Invariant, PTL DEF Spec, AskedInOrder
=============================================================================
