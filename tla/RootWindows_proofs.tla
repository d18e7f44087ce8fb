------------------------- MODULE RootWindows_proofs --------------------------
(***************************************************************************)
(* Proofs about RootWindows for any set of windows and any bounds.         *)
(***************************************************************************)
EXTENDS RootWindows, SequenceTheorems, FiniteSetTheorems, TLAPS

-----------------------------------------------------------------------------
(* What receiving and posting do to a queue.                               *)

Once(q, m) == \A i, j \in 1..Len(q) : q[i] = m /\ q[j] = m => i = j
Before(q, a, b) == \A i, j \in 1..Len(q) : q[i] = a /\ q[j] = b => i < j

\* Two messages are the same iff their kinds and windows are.
LEMMA MsgEqual ==
    \A s, t, v, w : Msg(s, v) = Msg(t, w) <=> s = t /\ v = w
BY DEF Msg

\* Receiving the head of a queue.
LEMMA Received ==
    ASSUME NEW S, NEW q \in Seq(S), q # <<>>
    PROVE  /\ Tail(q) \in Seq(S) /\ Head(q) \in S
           /\ Queued(q, Head(q))
           /\ \A m : Queued(Tail(q), m) => Queued(q, m)
           /\ \A m : Queued(q, m) => m = Head(q) \/ Queued(Tail(q), m)
           /\ \A m : Once(q, m) => Once(Tail(q), m)
           /\ Once(q, Head(q)) => ~Queued(Tail(q), Head(q))
           /\ \A a, b : Before(q, a, b) => Before(Tail(q), a, b)
           /\ \A a : Before(q, a, Head(q)) => ~Queued(q, a)
<1> DEFINE r == Tail(q)
           h == Head(q)
<1>1. Len(q) \in Nat \ {0}
  BY EmptySeq
<1>2. r \in Seq(S) /\ h \in S /\ Len(r) = Len(q) - 1 /\ h = q[1]
      /\ \A i \in 1..Len(r) : r[i] = q[i + 1]
  BY HeadTailProperties, <1>1
<1>3. \A i \in 1..Len(r) : i + 1 \in 1..Len(q) /\ r[i] = q[i + 1]
  BY <1>1, <1>2
<1>4. 1 \in 1..Len(q) /\ q[1] = h
  BY <1>1, <1>2
<1>5. \A i \in 1..Len(q) : i = 1 \/ (i - 1 \in 1..Len(r) /\ r[i - 1] = q[i])
  BY <1>1, <1>2
<1> HIDE DEF r, h
<1>6. Queued(q, h) /\ \A m : Queued(r, m) => Queued(q, m)
  BY <1>3, <1>4 DEF Queued
<1>7. \A m : Queued(q, m) => m = h \/ Queued(r, m)
  BY <1>4, <1>5 DEF Queued
<1>8. \A m : Once(q, m) => Once(r, m)
  BY <1>1, <1>2, <1>3 DEF Once
<1>9. Once(q, h) => ~Queued(r, h)
  BY <1>1, <1>2, <1>3, <1>4 DEF Once, Queued
<1>10. \A a, b : Before(q, a, b) => Before(r, a, b)
  BY <1>1, <1>2, <1>3 DEF Before
<1>11. \A a : Before(q, a, h) => ~Queued(q, a)
  BY <1>1, <1>4 DEF Before, Queued
<1> QED
  BY <1>2, <1>6, <1>7, <1>8, <1>9, <1>10, <1>11 DEF r, h

\* Posting messages s to a queue q.
LEMMA Posted ==
    ASSUME NEW S, NEW q \in Seq(S), NEW s \in Seq(S)
    PROVE  /\ q \o s \in Seq(S)
           /\ \A m : Queued(q \o s, m) <=> Queued(q, m) \/ Queued(s, m)
           /\ \A m : Once(q, m) /\ ~Queued(s, m) => Once(q \o s, m)
           /\ \A m : Once(s, m) /\ ~Queued(q, m) => Once(q \o s, m)
           /\ \A a, b : Before(q, a, b) /\ Before(s, a, b)
                        /\ (Queued(q, b) => ~Queued(s, a)) => Before(q \o s, a, b)
<1> DEFINE r == q \o s
<1>1. Len(q) \in Nat /\ Len(s) \in Nat
  BY LenProperties
<1>2. r \in Seq(S) /\ Len(r) = Len(q) + Len(s)
      /\ \A i \in 1..Len(q) + Len(s) :
            r[i] = IF i <= Len(q) THEN q[i] ELSE s[i - Len(q)]
  BY ConcatProperties
<1>3. \A i \in 1..Len(q) : i \in 1..Len(r) /\ r[i] = q[i]
  BY <1>1, <1>2
<1>4. \A i \in 1..Len(s) : i + Len(q) \in 1..Len(r) /\ r[i + Len(q)] = s[i]
  BY <1>1, <1>2
<1>5. \A i \in 1..Len(r) : \/ i \in 1..Len(q) /\ r[i] = q[i]
                           \/ /\ i > Len(q) /\ i - Len(q) \in 1..Len(s)
                              /\ r[i] = s[i - Len(q)]
  BY <1>1, <1>2
<1> HIDE DEF r
<1>6. \A m : Queued(r, m) <=> Queued(q, m) \/ Queued(s, m)
  BY <1>3, <1>4, <1>5 DEF Queued
<1>7. ASSUME NEW m, Once(q, m), ~Queued(s, m) PROVE Once(r, m)
  BY <1>5, <1>7 DEF Once, Queued
<1>8. ASSUME NEW m, Once(s, m), ~Queued(q, m) PROVE Once(r, m)
  <2> SUFFICES ASSUME NEW i \in 1..Len(r), NEW j \in 1..Len(r), r[i] = m, r[j] = m
               PROVE  i = j
    BY DEF Once
  <2>1. i - Len(q) \in 1..Len(s) /\ s[i - Len(q)] = m
        /\ j - Len(q) \in 1..Len(s) /\ s[j - Len(q)] = m
    BY <1>5, <1>8 DEF Queued
  <2>2. i - Len(q) = j - Len(q)
    BY <1>8, <2>1 DEF Once
  <2> QED
    BY <1>1, <1>2, <2>2 DEF r
<1>9. ASSUME NEW a, NEW b, Before(q, a, b), Before(s, a, b), Queued(q, b) => ~Queued(s, a)
      PROVE  Before(r, a, b)
  <2> SUFFICES ASSUME NEW i \in 1..Len(r), NEW j \in 1..Len(r), r[i] = a, r[j] = b
               PROVE  i < j
    BY DEF Before
  <2>1. Len(r) \in Nat
    BY <1>1, <1>2 DEF r
  <2>2. CASE i \in 1..Len(q) /\ j \in 1..Len(q)
    BY <1>3, <1>9, <2>2 DEF Before
  <2>3. CASE i \in 1..Len(q) /\ ~(j \in 1..Len(q))
    BY <1>1, <1>5, <2>1, <2>3
  <2>4. CASE ~(i \in 1..Len(q)) /\ j \in 1..Len(q)
    BY <1>3, <1>5, <1>9, <2>4 DEF Queued
  <2>5. CASE ~(i \in 1..Len(q)) /\ ~(j \in 1..Len(q))
    <3>1. i - Len(q) \in 1..Len(s) /\ s[i - Len(q)] = a
          /\ j - Len(q) \in 1..Len(s) /\ s[j - Len(q)] = b
      BY <1>5, <2>5
    <3>2. i - Len(q) < j - Len(q)
      BY <1>9, <3>1 DEF Before
    <3> QED
      BY <1>1, <2>1, <3>2
  <2> QED
    BY <2>2, <2>3, <2>4, <2>5
<1> QED
  BY <1>2, <1>6, <1>7, <1>8, <1>9 DEF r

\* Posting one message.
LEMMA PostedOne ==
    ASSUME NEW S, NEW q \in Seq(S), NEW e \in S
    PROVE  /\ q \o <<e>> \in Seq(S) /\ Append(q, e) = q \o <<e>>
           /\ \A m : Queued(q \o <<e>>, m) <=> Queued(q, m) \/ m = e
           /\ \A m : Once(q, m) /\ m # e => Once(q \o <<e>>, m)
           /\ ~Queued(q, e) => Once(q \o <<e>>, e)
           /\ \A a, b : a # e /\ Before(q, a, b) => Before(q \o <<e>>, a, b)
           /\ \A b : b # e /\ ~Queued(q, b) => Before(q \o <<e>>, e, b)
<1> DEFINE s == <<e>>
<1>1. s \in Seq(S) /\ Len(s) = 1 /\ s[1] = e
  OBVIOUS
<1>2. Append(q, e) = q \o s
  BY AppendIsConcat
<1> HIDE DEF s
<1>3. \A m : Queued(s, m) <=> m = e
  BY <1>1 DEF Queued
<1>4. \A m : Once(s, m)
  BY <1>1 DEF Once
<1>5. \A a, b : a # b => Before(s, a, b)
  BY <1>1 DEF Before
<1>6. \A a, b : a # e => Before(s, a, b)
  BY <1>1 DEF Before
<1>7. \A a, b : ~Queued(q, b) => Before(q, a, b)
  BY DEF Before, Queued
<1> QED
  BY <1>1, <1>2, <1>3, <1>4, <1>5, <1>6, <1>7, Posted DEF s

-----------------------------------------------------------------------------
(* Type correctness.                                                       *)

\* The messages that exist: what w may be in each.
LEMMA MessageTypes ==
    ASSUME NEW W
    PROVE  /\ \A t \in {"CreateRootWindow", "OnRootWindowCreated",
                        "OnBrowserCreated", "OnBrowserClosing", "OnBrowserClosed",
                        "UserClose", "CefClose", "CommandQuit", "CommandUse"} :
                 \A w : Msg(t, w) \in MainMsg(W) <=> w \in W
           /\ Msg("Quit", NoWindow) \in MainMsg(W)
           /\ \A t \in {"CreateBrowser", "CloseBrowser"} :
                 \A w : Msg(t, w) \in UiTask(W) <=> w \in W
           /\ Msg("CleanupOnUIThread", NoWindow) \in UiTask(W)
           /\ \A t \in {"CreateRootWindow", "OnBeforeContextMenu"} :
                 \A w : Msg(t, w) \in UiStep(W) <=> w \in W
           /\ UiIdle \in UiStep(W)
BY DEF Msg, MainMsg, UiTask, UiStep, UiIdle

\* Making a window only adds messages that may name it.
LEMMA MessagesGrow ==
    ASSUME NEW V, NEW W, V \subseteq W
    PROVE  MainMsg(V) \subseteq MainMsg(W) /\ UiTask(V) \subseteq UiTask(W)
           /\ UiStep(V) \subseteq UiStep(W)
BY DEF MainMsg, UiTask, UiStep

\* Receiving keeps the types, and tells that the window of the message is made.
LEMMA ReceiveType ==
    ASSUME TypeOK, NEW t, NEW w, Receive(t, w)
    PROVE  /\ mainQ' \in Seq(MainMsg(Made)) /\ Msg(t, w) \in MainMsg(Made)
           /\ Made' = Made
           /\ t # "Quit" => w \in Made
<1>1. mainQ \in Seq(MainMsg(Made)) /\ mainQ # <<>> /\ Head(mainQ) = Msg(t, w)
      /\ mainQ' = Tail(mainQ) /\ kind' = kind
  BY DEF TypeOK, Receive, makeVars
<1>2. mainQ' \in Seq(MainMsg(Made)) /\ Msg(t, w) \in MainMsg(Made)
  BY <1>1, Received
<1> QED
  BY <1>1, <1>2 DEF MainMsg, Msg, Made

LEMMA TakeType ==
    ASSUME TypeOK, NEW t, NEW w, TakeUiTask(t, w)
    PROVE  /\ uiQ' \in Seq(UiTask(Made)) /\ Msg(t, w) \in UiTask(Made)
           /\ Made' = Made
           /\ t # "CleanupOnUIThread" => w \in Made
<1>1. uiQ \in Seq(UiTask(Made)) /\ uiQ # <<>> /\ Head(uiQ) = Msg(t, w)
      /\ uiQ' = Tail(uiQ) /\ kind' = kind
  BY DEF TypeOK, TakeUiTask, makeVars
<1>2. uiQ' \in Seq(UiTask(Made)) /\ Msg(t, w) \in UiTask(Made)
  BY <1>1, Received
<1> QED
  BY <1>1, <1>2 DEF UiTask, Msg, Made

\* The halves of a window that is destroyed stay made windows, and so does
\* what the manager keeps.
LEMMA NotifyType ==
    ASSUME TypeOK, Made' = Made, NEW w \in Made, NotifyDestroyedIfDone(w)
    PROVE  /\ rootWindows' \subseteq Made
           /\ activeWindow' \in Made \cup {NoWindow}
           /\ activeBrowser' \in Made \cup {NoWindow}
           /\ uiQ' \in Seq(UiTask(Made))
<1>1. CASE w \in windowDestroyed' /\ w \in browserDestroyed'
  <2>1. OnRootWindowDestroyed(w)
    BY <1>1 DEF NotifyDestroyedIfDone
  <2>2. Append(uiQ, Msg("CleanupOnUIThread", NoWindow)) \in Seq(UiTask(Made))
    BY MessageTypes, PostedOne DEF TypeOK
  <2> QED
    BY <2>1, <2>2 DEF OnRootWindowDestroyed, TypeOK
<1>2. CASE ~(w \in windowDestroyed' /\ w \in browserDestroyed')
  BY <1>2 DEF NotifyDestroyedIfDone, managerVars, TypeOK
<1> QED
  BY <1>1, <1>2

LEMMA InitType == Init => TypeOK
<1> SUFFICES ASSUME Init PROVE TypeOK
  OBVIOUS
<1>1. <<>> \in Seq(MainMsg(Made)) /\ <<>> \in Seq(UiTask(Made))
  BY EmptySeq
<1>2. UiIdle \in UiStep(Made)
  BY MessageTypes
<1>3. closes \in 0..MaxCloses /\ commands \in 0..MaxCommands
  BY BoundAssumption DEF Init
<1>4. kind \in [Window -> {"none", "window", "popup"}]
      /\ opener \in [Window -> Made \cup {NoWindow}]
      /\ cef \in [Window -> CefState] /\ \A w \in Window : cef[w] = "none"
  BY DEF Init, CefState
<1> QED
  BY <1>1, <1>2, <1>3, <1>4 DEF Init, TypeOK

\* Every step of the main thread, of its callers and of the UI thread keeps
\* the types.
LEMMA TypeStep == TypeOK /\ [Next]_vars => TypeOK'
<1> SUFFICES ASSUME TypeOK, [Next]_vars PROVE TypeOK'
  OBVIOUS
<1> USE WindowAssumption, BoundAssumption
<1>a. /\ kind \in [Window -> {"none", "window", "popup"}]
      /\ opener \in [Window -> Made \cup {NoWindow}]
      /\ mainQ \in Seq(MainMsg(Made)) /\ uiQ \in Seq(UiTask(Made))
      /\ uiStep \in UiStep(Made) /\ cef \in [Window -> CefState]
      /\ Made \subseteq Window
  BY DEF TypeOK, Made
<1>1. CASE RunMain
  <2>1. Made' = Made \cup {First}
    BY <1>1, <1>a DEF RunMain, Made
  <2>2. /\ mainQ \in Seq(MainMsg(Made'))
        /\ uiQ \in Seq(UiTask(Made')) /\ uiStep \in UiStep(Made')
    BY <1>a, <2>1, MessagesGrow, SeqMonotonic
  <2>3. uiQ' \in Seq(UiTask(Made'))
    BY <1>1, <2>1, <2>2, MessageTypes, PostedOne DEF RunMain
  <2>4. kind' \in [Window -> {"none", "window", "popup"}]
    BY <1>1, <1>a DEF RunMain
  <2> QED
    BY <1>1, <2>1, <2>2, <2>3, <2>4 DEF RunMain, TypeOK, boundVars
<1>2. ASSUME NEW w \in Window, CreateRootWindow(w) PROVE TypeOK'
  <2>1. Receive("CreateRootWindow", w)
    BY <1>2 DEF CreateRootWindow
  <2>2. Made' = Made /\ w \in Made /\ mainQ' \in Seq(MainMsg(Made))
    BY <2>1, ReceiveType
  <2>3. uiQ' \in Seq(UiTask(Made))
    BY <1>2, <1>a, <2>2, MessageTypes, PostedOne DEF CreateRootWindow
  <2> QED
    BY <1>2, <2>1, <2>2, <2>3
    DEF CreateRootWindow, Receive, TypeOK, makeVars, managerVars, boundVars
<1>3. ASSUME NEW w \in Window, OnRootWindowCreated(w) PROVE TypeOK'
  <2>1. Receive("OnRootWindowCreated", w)
    BY <1>3 DEF OnRootWindowCreated
  <2>2. Made' = Made /\ w \in Made /\ mainQ' \in Seq(MainMsg(Made))
    BY <2>1, ReceiveType
  <2>3. activeWindow' \in Made \cup {NoWindow} /\ activeBrowser' \in Made \cup {NoWindow}
    BY <1>3, <2>2 DEF OnRootWindowCreated, Activated, TypeOK
  <2> QED
    BY <1>3, <2>1, <2>2, <2>3
    DEF OnRootWindowCreated, Receive, TypeOK, makeVars, windowVars, boundVars
<1>4. ASSUME NEW w \in Window, OnBrowserCreated(w) PROVE TypeOK'
  <2>1. Receive("OnBrowserCreated", w)
    BY <1>4 DEF OnBrowserCreated
  <2>2. Made' = Made /\ w \in Made /\ mainQ' \in Seq(MainMsg(Made))
    BY <2>1, ReceiveType
  <2>3. /\ activeBrowser' \in Made \cup {NoWindow}
        /\ browser' \subseteq Made /\ hwnd' \subseteq Made
    BY <1>4, <2>2 DEF OnBrowserCreated, TypeOK
  <2> QED
    BY <1>4, <2>1, <2>2, <2>3
    DEF OnBrowserCreated, Receive, TypeOK, makeVars, boundVars
<1>5. ASSUME NEW w \in Window, OnBrowserClosing(w) PROVE TypeOK'
  <2>1. Receive("OnBrowserClosing", w)
    BY <1>5 DEF OnBrowserClosing
  <2>2. Made' = Made /\ w \in Made /\ mainQ' \in Seq(MainMsg(Made))
    BY <2>1, ReceiveType
  <2> QED
    BY <1>5, <2>1, <2>2
    DEF OnBrowserClosing, Receive, TypeOK, makeVars, managerVars, boundVars
<1>6. ASSUME NEW w \in Window, OnBrowserClosed(w) PROVE TypeOK'
  <2>1. Receive("OnBrowserClosed", w)
    BY <1>6 DEF OnBrowserClosed
  <2>2. Made' = Made /\ w \in Made /\ mainQ' \in Seq(MainMsg(Made))
    BY <2>1, ReceiveType
  <2>3. CASE w \in delegate
    <3>1. NotifyDestroyedIfDone(w)
      BY <1>6, <2>3 DEF OnBrowserClosed
    <3>2. /\ rootWindows' \subseteq Made /\ activeWindow' \in Made \cup {NoWindow}
          /\ activeBrowser' \in Made \cup {NoWindow} /\ uiQ' \in Seq(UiTask(Made))
      BY <2>2, <3>1, NotifyType
    <3>3. /\ browser' \subseteq Made /\ delegate' \subseteq Made
          /\ browserWindow' \subseteq Made /\ hwnd' \subseteq Made
          /\ windowDestroyed' \subseteq Made /\ browserDestroyed' \subseteq Made
          /\ closing' \subseteq Made
      BY <1>6, <2>2, <2>3 DEF OnBrowserClosed, TypeOK
    <3> QED
      BY <1>6, <2>1, <2>2, <3>2, <3>3
      DEF OnBrowserClosed, Receive, TypeOK, makeVars, boundVars
  <2>4. CASE w \notin delegate
    BY <1>6, <2>1, <2>2, <2>4
    DEF OnBrowserClosed, Receive, TypeOK, makeVars, windowVars, managerVars, boundVars
  <2> QED
    BY <2>3, <2>4
<1>b. ASSUME NEW w \in Made, DestroyNativeWindow(w), Made' = Made
      PROVE  /\ hwnd' \cup browserWindow' \cup browser' \cup closing' \cup delegate'
                \cup windowDestroyed' \cup browserDestroyed' \cup rootWindows'
                \subseteq Made
             /\ activeWindow' \in Made \cup {NoWindow}
             /\ activeBrowser' \in Made \cup {NoWindow}
             /\ uiQ' \in Seq(UiTask(Made))
  <2>1. NotifyDestroyedIfDone(w)
    BY <1>b DEF DestroyNativeWindow
  <2>2. /\ rootWindows' \subseteq Made /\ activeWindow' \in Made \cup {NoWindow}
        /\ activeBrowser' \in Made \cup {NoWindow} /\ uiQ' \in Seq(UiTask(Made))
    BY <1>b, <2>1, NotifyType
  <2>3. hwnd' \cup browserWindow' \cup browser' \cup closing' \cup delegate'
        \cup windowDestroyed' \cup browserDestroyed' \subseteq Made
    BY <1>b DEF DestroyNativeWindow, TypeOK
  <2> QED
    BY <2>2, <2>3
<1>7. ASSUME NEW w \in Window, OnClose(w) PROVE TypeOK'
  <2>1. PICK t \in {"UserClose", "CefClose"} : Receive(t, w)
    BY <1>7 DEF OnClose
  <2>2. Made' = Made /\ w \in Made /\ mainQ' \in Seq(MainMsg(Made))
    BY <2>1, ReceiveType
  <2>3. CASE UNCHANGED <<windowVars, managerVars, uiQ>>
    BY <1>7, <2>1, <2>2, <2>3
    DEF OnClose, Receive, TypeOK, makeVars, windowVars, managerVars, boundVars
  <2>4. CASE /\ uiQ' = Append(uiQ, Msg("CloseBrowser", w))
             /\ UNCHANGED <<windowVars, managerVars>>
    <3>1. uiQ' \in Seq(UiTask(Made))
      BY <1>a, <2>2, <2>4, MessageTypes, PostedOne
    <3> QED
      BY <1>7, <2>1, <2>2, <2>4, <3>1
      DEF OnClose, Receive, TypeOK, makeVars, windowVars, managerVars, boundVars
  <2>5. CASE DestroyNativeWindow(w)
    BY <1>7, <1>b, <2>1, <2>2, <2>5
    DEF OnClose, Receive, TypeOK, makeVars, boundVars
  <2> QED
    BY <1>7, <2>3, <2>4, <2>5 DEF OnClose
<1>8. ASSUME NEW w \in Window, HandleCustomTask(w) PROVE TypeOK'
  <2>1. PICK t \in {"CommandQuit", "CommandUse"} : Receive(t, w)
    BY <1>8 DEF HandleCustomTask
  <2>2. Made' = Made /\ w \in Made /\ mainQ' \in Seq(MainMsg(Made))
    BY <2>1, ReceiveType
  <2>3. CASE UNCHANGED <<windowVars, managerVars, uiQ>>
    BY <1>8, <2>1, <2>2, <2>3
    DEF HandleCustomTask, Receive, TypeOK, makeVars, windowVars, managerVars, boundVars
  <2>4. CASE DestroyNativeWindow(w)
    BY <1>8, <1>b, <2>1, <2>2, <2>4
    DEF HandleCustomTask, Receive, TypeOK, makeVars, boundVars
  <2> QED
    BY <1>8, <2>3, <2>4 DEF HandleCustomTask
<1>9. CASE PostQuitMessage
  <2>1. Receive("Quit", NoWindow)
    BY <1>9 DEF PostQuitMessage
  <2>2. Made' = Made /\ mainQ' \in Seq(MainMsg(Made))
    BY <2>1, ReceiveType
  <2> QED
    BY <1>9, <2>1, <2>2
    DEF PostQuitMessage, Receive, TypeOK, makeVars, windowVars, managerVars, boundVars
<1>10. CASE RunReturns \/ Shutdown
  <2>1. Made' = Made
    BY <1>10 DEF RunReturns, Shutdown, Made, makeVars
  <2> QED
    BY <1>10, <2>1
    DEF RunReturns, Shutdown, TypeOK, makeVars, windowVars, managerVars, boundVars
<1>11. ASSUME NEW w \in Window, OnActivate(w) PROVE TypeOK'
  <2>1. Made' = Made /\ w \in Made
    BY <1>11 DEF OnActivate, External, Made, makeVars, TypeOK
  <2>2. activeWindow' \in Made \cup {NoWindow} /\ activeBrowser' \in Made \cup {NoWindow}
    BY <1>11, <2>1 DEF OnActivate, Activated, TypeOK
  <2> QED
    BY <1>11, <2>1, <2>2
    DEF OnActivate, External, TypeOK, makeVars, windowVars, boundVars
<1>12. ASSUME NEW w \in Window, UserClose(w) PROVE TypeOK'
  <2>1. Made' = Made /\ w \in Made
    BY <1>12 DEF UserClose, External, Made, makeVars, TypeOK
  <2>2. mainQ' \in Seq(MainMsg(Made))
    BY <1>12, <1>a, <2>1, MessageTypes, PostedOne DEF UserClose
  <2>3. closes' \in 0..MaxCloses
    BY <1>12 DEF UserClose, TypeOK
  <2> QED
    BY <1>12, <2>1, <2>2, <2>3
    DEF UserClose, External, TypeOK, makeVars, windowVars, managerVars
<1>13. CASE OnExit
  <2>1. Made' = Made
    BY <1>13 DEF OnExit, External, Made, makeVars
  <2> DEFINE open == rootWindows \cap hwnd
             n == Cardinality(open)
  <2>2. PICK order \in [1..n -> open] :
          mainQ' = mainQ \o [i \in 1..n |-> Msg("UserClose", order[i])]
    BY <1>13 DEF OnExit
  <2> DEFINE asked == [i \in 1..n |-> Msg("UserClose", order[i])]
  <2>3. asked \in Seq(MainMsg(Made))
    <3>1. n \in Nat
      <4>1. IsFiniteSet(open)
        BY <1>a, FS_Subset DEF TypeOK
      <4> QED
        BY <4>1, FS_CardinalityType
    <3> HIDE DEF n
    <3>2. \A i \in 1..n : Msg("UserClose", order[i]) \in MainMsg(Made)
      BY MessageTypes DEF TypeOK
    <3> QED
      BY <3>1, <3>2
  <2>4. mainQ' \in Seq(MainMsg(Made))
    <3>1. mainQ' = mainQ \o asked
      BY <2>2
    <3> HIDE DEF asked
    <3> QED
      BY <1>a, <2>3, <3>1, Posted
  <2>5. closes' \in 0..MaxCloses
    BY <1>13 DEF OnExit, TypeOK
  <2> QED
    BY <1>13, <2>1, <2>4, <2>5
    DEF OnExit, External, TypeOK, makeVars, windowVars, managerVars
<1>14. ASSUME NEW w \in Window, ParentDestroyed(w) PROVE TypeOK'
  <2>1. Made' = Made /\ w \in Made
    BY <1>14 DEF ParentDestroyed, Made, makeVars, TypeOK
  <2> QED
    BY <1>14, <1>b, <2>1
    DEF ParentDestroyed, TypeOK, makeVars, boundVars
<1>15. ASSUME NEW w \in Window, HandleCustomMsg(w) PROVE TypeOK'
  <2>1. Made' = Made /\ w \in Made
    BY <1>15 DEF HandleCustomMsg, External, Made, makeVars, TypeOK
  <2>2. mainQ' \in Seq(MainMsg(Made))
    BY <1>15, <1>a, <2>1, MessageTypes, PostedOne DEF HandleCustomMsg
  <2>3. commands' \in 0..MaxCommands
    BY <1>15 DEF HandleCustomMsg, TypeOK
  <2> QED
    BY <1>15, <2>1, <2>2, <2>3
    DEF HandleCustomMsg, External, TypeOK, makeVars, windowVars, managerVars
\* What the UI thread posts.
<1>c. ASSUME NEW t \in {"OnRootWindowCreated", "OnBrowserCreated", "OnBrowserClosed"},
             NEW w \in Made
      PROVE  mainQ \o <<Msg(t, w)>> \in Seq(MainMsg(Made))
  BY <1>a, MessageTypes, PostedOne
<1>d. ASSUME NEW w \in Made, DoClose(w)
      PROVE  mainQ' \in Seq(MainMsg(Made)) /\ cef' \in [Window -> CefState]
             /\ \A v \in Window : cef'[v] # "none" => cef[v] # "none" \/ v = w
  <2>1. CloseMessages(w) \in Seq(MainMsg(Made))
    BY MessageTypes DEF CloseMessages
  <2>2. mainQ' \in Seq(MainMsg(Made))
    BY <1>a, <1>d, <2>1, Posted DEF DoClose, PostToMain
  <2> QED
    BY <1>a, <1>d, <2>2 DEF DoClose, CefState
<1>16. ASSUME NEW w \in Window, OnAfterCreated(w) PROVE TypeOK'
  <2>1. TakeUiTask("CreateBrowser", w)
    BY <1>16 DEF OnAfterCreated
  <2>2. Made' = Made /\ w \in Made /\ uiQ' \in Seq(UiTask(Made))
    BY <2>1, TakeType
  <2>c. mainQ \o <<Msg("OnBrowserCreated", w)>> \in Seq(MainMsg(Made))
    BY <1>c, <2>2
  <2>3. mainQ' \in Seq(MainMsg(Made))
    BY <1>16, <1>a, <2>c DEF OnAfterCreated, PostToMain
  <2>4. cef' \in [Window -> CefState]
        /\ \A v \in Window : cef'[v] # "none" => v \in Made
    BY <1>16, <2>2 DEF OnAfterCreated, TypeOK, CefState
  <2> QED
    BY <1>16, <2>1, <2>2, <2>3, <2>4
    DEF OnAfterCreated, TakeUiTask, TypeOK, makeVars, windowVars, managerVars, boundVars
<1>17. ASSUME NEW w \in Window, CloseBrowser(w) PROVE TypeOK'
  <2>1. TakeUiTask("CloseBrowser", w)
    BY <1>17 DEF CloseBrowser
  <2>2. Made' = Made /\ w \in Made /\ uiQ' \in Seq(UiTask(Made))
    BY <2>1, TakeType
  <2>3. /\ mainQ' \in Seq(MainMsg(Made)) /\ cef' \in [Window -> CefState]
        /\ \A v \in Window : cef'[v] # "none" => v \in Made
    BY <1>17, <1>a, <1>d, <2>2 DEF CloseBrowser, TypeOK
  <2> QED
    BY <1>17, <2>1, <2>2, <2>3
    DEF CloseBrowser, TakeUiTask, TypeOK, makeVars, windowVars, managerVars, boundVars
<1>18. ASSUME NEW w \in Window, PageCloses(w) PROVE TypeOK'
  <2>1. Made' = Made /\ w \in Made
    BY <1>18 DEF PageCloses, Made, makeVars, TypeOK
  <2>2. /\ mainQ' \in Seq(MainMsg(Made)) /\ cef' \in [Window -> CefState]
        /\ \A v \in Window : cef'[v] # "none" => v \in Made
    BY <1>18, <1>d, <2>1 DEF PageCloses, TypeOK
  <2> QED
    BY <1>18, <2>1, <2>2
    DEF PageCloses, UiOnly, TypeOK, makeVars, windowVars, managerVars, boundVars
<1>19. ASSUME NEW w \in Window, OnBeforeClose(w) PROVE TypeOK'
  <2>1. Made' = Made /\ w \in Made
    BY <1>19 DEF OnBeforeClose, Live, Made, makeVars, TypeOK
  <2>2. mainQ' \in Seq(MainMsg(Made))
    BY <1>19, <1>c, <2>1 DEF OnBeforeClose, PostToMain
  <2>3. cef' \in [Window -> CefState]
        /\ \A v \in Window : cef'[v] # "none" => v \in Made
    BY <1>19, <2>1 DEF OnBeforeClose, TypeOK, CefState
  <2> QED
    BY <1>19, <2>1, <2>2, <2>3
    DEF OnBeforeClose, UiOnly, TypeOK, makeVars, windowVars, managerVars, boundVars
\* Making a window.
<1>e. ASSUME NEW new \in Window, NEW k \in {"window", "popup"}, kind[new] = "none",
             kind' = [kind EXCEPT ![new] = k]
      PROVE  /\ kind' \in [Window -> {"none", "window", "popup"}]
             /\ Made' = Made \cup {new}
             /\ mainQ \in Seq(MainMsg(Made'))
             /\ uiQ \in Seq(UiTask(Made')) /\ uiStep \in UiStep(Made')
             /\ \A t \in {"CreateRootWindow", "OnRootWindowCreated"} :
                   mainQ \o <<Msg(t, new)>> \in Seq(MainMsg(Made'))
  <2>0. kind' \in [Window -> {"none", "window", "popup"}] /\ kind'[new] = k
        /\ k # "none" /\ \A v \in Window : v # new => kind'[v] = kind[v]
    BY <1>a, <1>e
  <2>1. /\ kind' \in [Window -> {"none", "window", "popup"}]
        /\ Made' = Made \cup {new}
    BY <2>0 DEF Made
  <2>2. /\ mainQ \in Seq(MainMsg(Made'))
        /\ uiQ \in Seq(UiTask(Made')) /\ uiStep \in UiStep(Made')
    <3>1. /\ MainMsg(Made) \subseteq MainMsg(Made')
          /\ UiTask(Made) \subseteq UiTask(Made') /\ UiStep(Made) \subseteq UiStep(Made')
      BY <2>1, MessagesGrow
    <3>2. mainQ \in Seq(MainMsg(Made')) /\ uiQ \in Seq(UiTask(Made'))
      BY <1>a, <3>1, SeqMonotonic
    <3> QED
      BY <1>a, <3>1, <3>2
  <2>3. ASSUME NEW t \in {"CreateRootWindow", "OnRootWindowCreated"}
        PROVE  mainQ \o <<Msg(t, new)>> \in Seq(MainMsg(Made'))
    <3>1. Msg(t, new) \in MainMsg(Made')
      BY <2>1, MessageTypes
    <3> QED
      BY <2>2, <3>1, PostedOne
  <2> QED
    BY <2>1, <2>2, <2>3
<1>20. ASSUME NEW w \in Window, NEW new \in Window, OnOpenURLFromTab(w, new)
       PROVE  TypeOK'
  <2>1. kind[new] = "none" /\ kind' = [kind EXCEPT ![new] = "window"]
    BY <1>20 DEF OnOpenURLFromTab
  <2>2. /\ kind' \in [Window -> {"none", "window", "popup"}]
        /\ Made' = Made \cup {new} /\ uiQ \in Seq(UiTask(Made'))
        /\ mainQ \o <<Msg("CreateRootWindow", new)>> \in Seq(MainMsg(Made'))
    BY <1>e, <2>1
  <2>3. uiStep' \in UiStep(Made')
    BY <1>20, <2>2, MessageTypes DEF OnOpenURLFromTab
  <2>4. mainQ' \in Seq(MainMsg(Made')) /\ uiQ' \in Seq(UiTask(Made'))
    BY <1>20, <2>2 DEF OnOpenURLFromTab, PostToMain
  <2> QED
    BY <1>20, <2>2, <2>3, <2>4
    DEF OnOpenURLFromTab, TypeOK, managerVars, boundVars
<1>21. CASE OnOpenURLFromTabEnds
  <2>1. Made' = Made
    BY <1>21 DEF OnOpenURLFromTabEnds, Made, makeVars
  <2>2. uiStep.w \in Made
    BY <1>21, <1>a DEF OnOpenURLFromTabEnds, UiStep, UiIdle, Msg
  <2>3. mainQ' \in Seq(MainMsg(Made)) /\ uiStep' \in UiStep(Made)
    BY <1>21, <1>c, <2>2, MessageTypes DEF OnOpenURLFromTabEnds, PostToMain
  <2> QED
    BY <1>21, <2>1, <2>3
    DEF OnOpenURLFromTabEnds, UiOnly, TypeOK, makeVars, windowVars, managerVars, boundVars
<1>22. ASSUME NEW w \in Window, NEW new \in Window, OnBeforePopup(w, new)
       PROVE  TypeOK'
  <2>1. kind[new] = "none" /\ kind' = [kind EXCEPT ![new] = "popup"] /\ w \in Made
    BY <1>22 DEF OnBeforePopup, Live, TypeOK
  <2>2. /\ kind' \in [Window -> {"none", "window", "popup"}]
        /\ Made' = Made \cup {new} /\ uiQ \in Seq(UiTask(Made'))
        /\ uiStep \in UiStep(Made')
        /\ mainQ \o <<Msg("OnRootWindowCreated", new)>> \in Seq(MainMsg(Made'))
    BY <1>e, <2>1
  <2>3. /\ mainQ' \in Seq(MainMsg(Made')) /\ uiQ' \in Seq(UiTask(Made'))
        /\ uiStep' \in UiStep(Made')
    BY <1>22, <2>2 DEF OnBeforePopup, PostToMain
  <2>4. opener' \in [Window -> Made' \cup {NoWindow}]
    BY <1>22, <1>a, <2>1, <2>2 DEF OnBeforePopup
  <2>5. cef' \in [Window -> CefState] /\ \A v \in Window : cef'[v] # "none" => v \in Made'
    BY <1>22, <2>2 DEF OnBeforePopup, TypeOK, CefState
  <2> QED
    BY <1>22, <2>2, <2>3, <2>4, <2>5
    DEF OnBeforePopup, TypeOK, managerVars, boundVars
<1>23. ASSUME NEW w \in Window, PopupCreated(w) PROVE TypeOK'
  <2>1. Made' = Made /\ w \in Made
    BY <1>23 DEF PopupCreated, Made, makeVars, TypeOK
  <2>2. mainQ' \in Seq(MainMsg(Made))
    BY <1>23, <1>a, <1>c, <2>1 DEF PopupCreated, PostToMain
  <2>3. cef' \in [Window -> CefState]
        /\ \A v \in Window : cef'[v] # "none" => v \in Made
    BY <1>23, <2>1 DEF PopupCreated, TypeOK, CefState
  <2> QED
    BY <1>23, <2>1, <2>2, <2>3
    DEF PopupCreated, UiOnly, TypeOK, makeVars, windowVars, managerVars, boundVars
<1>24. ASSUME NEW w \in Window, OnBeforeContextMenu(w) PROVE TypeOK'
  <2>1. Made' = Made /\ w \in Made
    BY <1>24 DEF OnBeforeContextMenu, Made, makeVars, TypeOK
  <2>2. uiStep' \in UiStep(Made)
    BY <1>24, <2>1, MessageTypes DEF OnBeforeContextMenu
  <2> QED
    BY <1>24, <2>1, <2>2
    DEF OnBeforeContextMenu, UiOnly, TypeOK, makeVars, windowVars, managerVars, boundVars
<1>25. CASE OnBeforeContextMenuEnds
  <2>1. Made' = Made
    BY <1>25 DEF OnBeforeContextMenuEnds, Made, makeVars
  <2>2. uiStep' \in UiStep(Made)
    BY <1>25, MessageTypes DEF OnBeforeContextMenuEnds
  <2> QED
    BY <1>25, <2>1, <2>2
    DEF OnBeforeContextMenuEnds, UiOnly, TypeOK, makeVars, windowVars, managerVars,
        boundVars
<1>26. CASE CleanupOnUIThread
  <2>1. TakeUiTask("CleanupOnUIThread", NoWindow)
    BY <1>26 DEF CleanupOnUIThread
  <2>2. Made' = Made /\ uiQ' \in Seq(UiTask(Made))
    BY <2>1, TakeType
  <2>3. mainQ' \in Seq(MainMsg(Made))
    BY <1>26, <1>a, MessageTypes, PostedOne DEF CleanupOnUIThread, PostToMain
  <2> QED
    BY <1>26, <2>1, <2>2, <2>3
    DEF CleanupOnUIThread, TakeUiTask, TypeOK, makeVars, windowVars, managerVars, boundVars
<1>27. CASE UNCHANGED vars
  <2>1. Made' = Made
    BY <1>27 DEF vars, Made, makeVars
  <2> QED
    BY <1>27, <2>1 DEF vars, TypeOK, makeVars, windowVars, managerVars, boundVars
<1> QED
  BY <1>1, <1>2, <1>3, <1>4, <1>5, <1>6, <1>7, <1>8, <1>9, <1>10, <1>11, <1>12, <1>13,
     <1>14, <1>15, <1>16, <1>17, <1>18, <1>19, <1>20, <1>21, <1>22, <1>23, <1>24, <1>25,
     <1>26, <1>27
  DEF Next, MainStep, MainTask, Environment, UiStepForced, UiEvent, BrowserFollowsWindow,
      BrowserGoesFirst

\* Nothing ever has a value it cannot have, and no queue, list or set names a
\* window that was not made.
THEOREM TypeCorrect == Spec => []TypeOK
<1> QED
  BY InitType, TypeStep, PTL DEF Spec

=============================================================================
