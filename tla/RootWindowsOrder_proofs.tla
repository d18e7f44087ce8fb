---------------------- MODULE RootWindowsOrder_proofs ------------------------
(***************************************************************************)
(* Proofs about RootWindows, continued: the order in which the callbacks   *)
(* of CEF reach a window, and what depends on it, for any set of windows   *)
(* and any bounds.                                                         *)
(***************************************************************************)
EXTENDS RootWindows_proofs, WellFoundedInduction

-----------------------------------------------------------------------------
(* The inductive invariant, window by window.                              *)

Native(w) == w \in hwnd \cup windowDestroyed

\* A root window is created once, and its browser is asked for once.
CreateInv(w) ==
    /\ Once(uiQ, Msg("CreateBrowser", w))
    /\ Queued(uiQ, Msg("CreateBrowser", w)) =>
          kind[w] = "window" /\ cef[w] = "none" /\ Native(w)
    /\ Once(mainQ, Msg("CreateRootWindow", w))
    /\ Queued(mainQ, Msg("CreateRootWindow", w)) =>
          kind[w] = "window" /\ cef[w] = "none" /\ ~Native(w)
    /\ cef[w] = "popup" => kind[w] = "popup"
    /\ kind[w] = "popup" /\ Native(w) =>
          /\ cef[w] \in {"open", "closing", "closed"}
          /\ ~Queued(mainQ, Msg("OnBrowserCreated", w))

\* The queued callbacks of a window are in order, and their targets are there.
CallbackInv(w) ==
    LET Created == Msg("OnBrowserCreated", w)
        Closing == Msg("OnBrowserClosing", w)
        Closed  == Msg("OnBrowserClosed", w)
    IN /\ cef[w] \in {"none", "popup", "canceled"} =>
             /\ w \notin browser /\ ~Queued(mainQ, Created)
             /\ ~Queued(mainQ, Closing) /\ ~Queued(mainQ, Closed)
       /\ Once(mainQ, Created) /\ Once(mainQ, Closed)
       /\ Before(mainQ, Created, Closing) /\ Before(mainQ, Created, Closed)
       /\ Before(mainQ, Closing, Closed)
       /\ Queued(mainQ, Closing) \/ Queued(mainQ, Closed) =>
             w \in browser \/ Queued(mainQ, Created)
       /\ Queued(mainQ, Created) =>
             /\ w \notin browser /\ w \in delegate
             /\ kind[w] = "window" => Native(w)
       /\ Queued(mainQ, Closed) => w \in delegate /\ cef[w] = "closed"
       /\ cef[w] # "closed" => w \in delegate
       /\ cef[w] \in {"open", "closing"} => w \in browser \/ Queued(mainQ, Created)
       /\ w \in browser => w \in delegate /\ Native(w)

\* A window is registered until both halves are destroyed, and only then.
LifeInv(w) ==
    /\ w \in delegate <=> w \in browserWindow
    /\ w \in delegate => w \notin browserDestroyed
    /\ w \in browserDestroyed => cef[w] = "closed" /\ ~Registering(w)
    /\ Before(mainQ, Msg("OnRootWindowCreated", w), Msg("OnBrowserClosed", w))
    /\ uiStep = Msg("CreateRootWindow", w) => cef[w] = "none"
    /\ w \in rootWindows \/ Registering(w)
          <=> ~(w \in windowDestroyed /\ w \in browserDestroyed)

\* Before RunMain there is no window; a browser whose handler runs is live.
ThreadInv ==
    /\ mainPc = "start" => Made = {}
    /\ uiStep.t = "OnBeforeContextMenu" => Live(uiStep.w)

WindowOrder(w) == CreateInv(w) /\ CallbackInv(w) /\ LifeInv(w)

OrderInv ==
    /\ ThreadInv
    /\ \A w \in Made : WindowOrder(w)

-----------------------------------------------------------------------------
(* A step that does not concern a window keeps the window's invariants.    *)

Callbacks == {"CreateRootWindow", "OnRootWindowCreated", "OnBrowserCreated",
              "OnBrowserClosing", "OnBrowserClosed"}

\* Nothing changes in the main queue for w, nothing in the UI thread's.
SameMain(w) ==
    \A t \in Callbacks :
        /\ Queued(mainQ', Msg(t, w)) <=> Queued(mainQ, Msg(t, w))
        /\ Once(mainQ, Msg(t, w)) => Once(mainQ', Msg(t, w))
        /\ \A u \in Callbacks : Before(mainQ, Msg(t, w), Msg(u, w))
                                   => Before(mainQ', Msg(t, w), Msg(u, w))
SameUi(w) ==
    /\ Queued(uiQ', Msg("CreateBrowser", w)) <=> Queued(uiQ, Msg("CreateBrowser", w))
    /\ Once(uiQ, Msg("CreateBrowser", w)) => Once(uiQ', Msg("CreateBrowser", w))

\* Nothing changes in the state of w.
SameState(w) ==
    /\ kind'[w] = kind[w] /\ cef'[w] = cef[w]
    /\ w \in hwnd' <=> w \in hwnd
    /\ w \in windowDestroyed' <=> w \in windowDestroyed
    /\ w \in browserDestroyed' <=> w \in browserDestroyed
    /\ w \in browser' <=> w \in browser
    /\ w \in delegate' <=> w \in delegate
    /\ w \in browserWindow' <=> w \in browserWindow
    /\ w \in rootWindows' <=> w \in rootWindows
    /\ uiStep' = Msg("CreateRootWindow", w) <=> uiStep = Msg("CreateRootWindow", w)

LEMMA Frame ==
    ASSUME NEW w, WindowOrder(w), SameMain(w), SameUi(w), SameState(w)
    PROVE  WindowOrder(w)'
<1>1. CreateInv(w)'
  BY DEF WindowOrder, CreateInv, Native, SameMain, SameUi, SameState, Callbacks
<1>2. CallbackInv(w)'
  BY DEF WindowOrder, CallbackInv, Native, SameMain, SameState, Callbacks
<1>3. LifeInv(w)'
  BY DEF WindowOrder, LifeInv, Registering, SameMain, SameState, Callbacks
<1> QED
  BY <1>1, <1>2, <1>3 DEF WindowOrder

LEMMA QueueSame ==
    /\ mainQ' = mainQ => \A w : SameMain(w)
    /\ uiQ' = uiQ => \A w : SameUi(w)
BY DEF SameMain, SameUi

\* Receiving a message about v, or none of the callbacks.
LEMMA ReceiveSame ==
    ASSUME TypeOK, NEW t, NEW v, Receive(t, v), NEW w, w # v \/ t \notin Callbacks
    PROVE  SameMain(w)
<1>1. mainQ \in Seq(MainMsg(Made)) /\ mainQ # <<>> /\ Head(mainQ) = Msg(t, v)
      /\ mainQ' = Tail(mainQ)
  BY DEF TypeOK, Receive
<1>2. \A u \in Callbacks : Msg(u, w) # Msg(t, v)
  BY MsgEqual
<1> QED
  BY <1>1, <1>2, Received DEF SameMain

\* The message received was queued; if only once, it is gone, and nothing
\* that comes before it is queued.
LEMMA ReceiveSelf ==
    ASSUME TypeOK, NEW t, NEW v, Receive(t, v)
    PROVE  /\ Queued(mainQ, Msg(t, v))
           /\ \A m : Queued(mainQ', m) => Queued(mainQ, m)
           /\ \A u : u # t => (Queued(mainQ', Msg(u, v)) <=> Queued(mainQ, Msg(u, v)))
           /\ \A m : Once(mainQ, m) => Once(mainQ', m)
           /\ Once(mainQ, Msg(t, v)) => ~Queued(mainQ', Msg(t, v))
           /\ \A a, b : Before(mainQ, a, b) => Before(mainQ', a, b)
           /\ \A a : Before(mainQ, a, Msg(t, v)) => ~Queued(mainQ, a)
<1>1. mainQ \in Seq(MainMsg(Made)) /\ mainQ # <<>> /\ Head(mainQ) = Msg(t, v)
      /\ mainQ' = Tail(mainQ)
  BY DEF TypeOK, Receive
<1>2. \A u : u # t => Msg(u, v) # Msg(t, v)
  BY MsgEqual
<1> QED
  BY <1>1, <1>2, Received

\* The same for the UI thread.
LEMMA TakeSame ==
    ASSUME TypeOK, NEW t, NEW v, TakeUiTask(t, v), NEW w, w # v \/ t # "CreateBrowser"
    PROVE  SameUi(w)
<1>1. uiQ \in Seq(UiTask(Made)) /\ uiQ # <<>> /\ Head(uiQ) = Msg(t, v)
      /\ uiQ' = Tail(uiQ)
  BY DEF TypeOK, TakeUiTask
<1>2. Msg("CreateBrowser", w) # Msg(t, v)
  BY MsgEqual
<1> QED
  BY <1>1, <1>2, Received DEF SameUi

LEMMA TakeSelf ==
    ASSUME TypeOK, NEW t, NEW v, TakeUiTask(t, v)
    PROVE  /\ Queued(uiQ, Msg(t, v))
           /\ \A m : Once(uiQ, m) => Once(uiQ', m)
           /\ Once(uiQ, Msg(t, v)) => ~Queued(uiQ', Msg(t, v))
<1>1. uiQ \in Seq(UiTask(Made)) /\ uiQ # <<>> /\ Head(uiQ) = Msg(t, v)
      /\ uiQ' = Tail(uiQ)
  BY DEF TypeOK, TakeUiTask
<1> QED
  BY <1>1, Received

\* Posting a message about v, or none of the callbacks, to the main thread.
LEMMA PostSame ==
    ASSUME NEW W, mainQ \in Seq(MainMsg(W)), NEW t, NEW v, Msg(t, v) \in MainMsg(W),
           PostToMain(<<Msg(t, v)>>), NEW w, w # v \/ t \notin Callbacks
    PROVE  SameMain(w)
<1>1. mainQ' = mainQ \o <<Msg(t, v)>>
  BY DEF PostToMain
<1>2. \A u \in Callbacks : Msg(u, w) # Msg(t, v)
  BY MsgEqual
<1> QED
  BY <1>1, <1>2, PostedOne DEF SameMain

LEMMA PostSelf ==
    ASSUME NEW W, mainQ \in Seq(MainMsg(W)), NEW t, NEW v, Msg(t, v) \in MainMsg(W),
           PostToMain(<<Msg(t, v)>>)
    PROVE  /\ Queued(mainQ', Msg(t, v))
           /\ \A u : u # t => (Queued(mainQ', Msg(u, v)) <=> Queued(mainQ, Msg(u, v)))
           /\ \A u : u # t /\ Once(mainQ, Msg(u, v)) => Once(mainQ', Msg(u, v))
           /\ ~Queued(mainQ, Msg(t, v)) => Once(mainQ', Msg(t, v))
           /\ \A a, b : a # Msg(t, v) /\ Before(mainQ, a, b) => Before(mainQ', a, b)
           /\ \A b : b # Msg(t, v) /\ ~Queued(mainQ, b) => Before(mainQ', Msg(t, v), b)
<1>1. mainQ' = mainQ \o <<Msg(t, v)>>
  BY DEF PostToMain
<1>2. \A u : u # t => Msg(u, v) # Msg(t, v)
  BY MsgEqual
<1> QED
  BY <1>1, <1>2, PostedOne

\* Giving a task to the UI thread.
LEMMA TaskQueued ==
    ASSUME NEW S, NEW q \in Seq(S), NEW e \in S, NEW r, r = Append(q, e)
    PROVE  /\ \A m : Queued(r, m) <=> Queued(q, m) \/ m = e
           /\ \A m : Once(q, m) /\ m # e => Once(r, m)
           /\ ~Queued(q, e) => Once(r, e)
<1>1. r = q \o <<e>>
  BY AppendIsConcat
<1>2. /\ \A m : Queued(q \o <<e>>, m) <=> Queued(q, m) \/ m = e
      /\ \A m : Once(q, m) /\ m # e => Once(q \o <<e>>, m)
      /\ ~Queued(q, e) => Once(q \o <<e>>, e)
  BY PostedOne
<1> QED
  BY <1>1, <1>2, Zenon

LEMMA TaskSame ==
    ASSUME TypeOK, NEW t, NEW v, Msg(t, v) \in UiTask(Made),
           uiQ' = Append(uiQ, Msg(t, v)), NEW w, w # v \/ t # "CreateBrowser"
    PROVE  SameUi(w)
<1>1. uiQ \in Seq(UiTask(Made)) /\ Msg("CreateBrowser", w) # Msg(t, v)
  BY MsgEqual DEF TypeOK
<1> DEFINE e == Msg(t, v)
           r == uiQ'
<1>2. /\ \A m : Queued(r, m) <=> Queued(uiQ, m) \/ m = e
      /\ \A m : Once(uiQ, m) /\ m # e => Once(r, m)
  <2>1. r = Append(uiQ, e) /\ e \in UiTask(Made) /\ uiQ \in Seq(UiTask(Made))
    BY <1>1
  <2> HIDE DEF e, r
  <2> QED
    BY ONLY <2>1, TaskQueued
<1> QED
  BY <1>1, <1>2 DEF SameUi

\* What NotifyDestroyedIfDone does to the list of windows and to the tasks.
LEMMA NotifySame ==
    ASSUME TypeOK, NEW v, NotifyDestroyedIfDone(v)
    PROVE  /\ \A w : SameUi(w)
           /\ \A w : w # v => (w \in rootWindows' <=> w \in rootWindows)
           /\ v \in windowDestroyed' /\ v \in browserDestroyed' => v \notin rootWindows'
           /\ ~(v \in windowDestroyed' /\ v \in browserDestroyed')
                 => (v \in rootWindows' <=> v \in rootWindows)
<1>1. CASE v \in windowDestroyed' /\ v \in browserDestroyed'
  <2>1. OnRootWindowDestroyed(v)
    BY <1>1 DEF NotifyDestroyedIfDone
  <2>2. Msg("CleanupOnUIThread", NoWindow) \in UiTask(Made)
    BY MessageTypes
  <2>3. \A w : SameUi(w)
    BY <2>1, <2>2, QueueSame, TaskSame DEF OnRootWindowDestroyed
  <2> QED
    BY <1>1, <2>1, <2>3 DEF OnRootWindowDestroyed
<1>2. CASE ~(v \in windowDestroyed' /\ v \in browserDestroyed')
  <2>1. UNCHANGED <<managerVars, uiQ>>
    BY <1>2 DEF NotifyDestroyedIfDone
  <2> QED
    BY <1>2, <2>1, QueueSame DEF managerVars
<1> QED
  BY <1>1, <1>2

\* Destroying the native window of v, in whatever step.
LEMMA DestroyStep ==
    ASSUME TypeOK, NEW v \in hwnd, DestroyNativeWindow(v),
           UNCHANGED <<kind, cef, uiStep>>, \A w : SameMain(w),
           NEW w, WindowOrder(w)
    PROVE  WindowOrder(w)'
<1>1. NotifyDestroyedIfDone(v)
  BY DEF DestroyNativeWindow
<1>2. SameUi(w) /\ SameMain(w)
  BY <1>1, NotifySame
<1>3. CASE w # v
  <2>1. SameState(w)
    BY <1>1, <1>3, NotifySame DEF SameState, DestroyNativeWindow
  <2> QED
    BY <1>2, <2>1, Frame
<1>4. CASE w = v
  <2>1. Native(w)' /\ Native(w)
    BY <1>4 DEF DestroyNativeWindow, Native
  <2>2. CreateInv(w)'
    BY <1>2, <2>1 DEF WindowOrder, CreateInv, SameMain, SameUi, Callbacks
  <2>3. CallbackInv(w)'
    BY <1>2, <2>1
    DEF WindowOrder, CallbackInv, SameMain, Callbacks, DestroyNativeWindow
  <2>4. Registering(w)' <=> Registering(w)
    BY <1>2 DEF Registering, SameMain, Callbacks
  <2>5. LifeInv(w)'
    BY <1>1, <1>2, <1>4, <2>4, NotifySame
    DEF WindowOrder, LifeInv, SameMain, Callbacks, DestroyNativeWindow
  <2> QED
    BY <2>2, <2>3, <2>5 DEF WindowOrder
<1> QED
  BY <1>3, <1>4

-----------------------------------------------------------------------------
(* The invariant is kept by every step.                                    *)

LEMMA MainOrderStep ==
    ASSUME TypeOK, OrderInv, NEW v \in Window, MainTask(v)
    PROVE  \A w \in Made : WindowOrder(w)'
<1> SUFFICES ASSUME NEW w \in Made PROVE WindowOrder(w)'
  OBVIOUS
<1>a. WindowOrder(w)
  BY DEF OrderInv
<1>1. CASE CreateRootWindow(v)
  <2>1. Receive("CreateRootWindow", v)
    BY <1>1 DEF CreateRootWindow
  <2>2. v \in Made /\ Msg("CreateBrowser", v) \in UiTask(Made)
    BY <2>1, ReceiveType, MessageTypes
  <2>3. CASE w # v
    <3>1. SameMain(w)
      BY <2>1, <2>3, ReceiveSame
    <3>2. SameUi(w)
      BY <1>1, <2>2, <2>3, TaskSame DEF CreateRootWindow
    <3>3. SameState(w)
      BY <1>1, <2>1, <2>3 DEF CreateRootWindow, Receive, SameState, makeVars, managerVars
    <3> QED
      BY <1>a, <3>1, <3>2, <3>3, Frame
  <2>4. CASE w = v
    <3>1. /\ Queued(mainQ, Msg("CreateRootWindow", w))
          /\ ~Queued(mainQ', Msg("CreateRootWindow", w))
          /\ \A u : u # "CreateRootWindow" =>
                (Queued(mainQ', Msg(u, w)) <=> Queued(mainQ, Msg(u, w)))
          /\ \A m : Once(mainQ, m) => Once(mainQ', m)
          /\ \A a, b : Before(mainQ, a, b) => Before(mainQ', a, b)
      BY <1>a, <2>1, <2>4, ReceiveSelf DEF WindowOrder, CreateInv
    <3>2. kind[w] = "window" /\ cef[w] = "none" /\ ~Native(w)
      BY <1>a, <3>1 DEF WindowOrder, CreateInv
    <3>3. ~Queued(uiQ, Msg("CreateBrowser", w))
      BY <1>a, <3>2 DEF WindowOrder, CreateInv
    <3>4. Once(uiQ', Msg("CreateBrowser", w))
      <4> DEFINE e == Msg("CreateBrowser", w)
                 r == uiQ'
      <4>1. r = Append(uiQ, e) /\ e \in UiTask(Made) /\ uiQ \in Seq(UiTask(Made))
            /\ ~Queued(uiQ, e)
        BY <1>1, <2>2, <2>4, <3>3 DEF CreateRootWindow, TypeOK
      <4>2. Once(r, e)
        <5> HIDE DEF e, r
        <5> QED
          BY ONLY <4>1, TaskQueued
      <4> QED
        BY <4>2
    <3>5. /\ kind' = kind /\ cef' = cef /\ uiStep' = uiStep /\ hwnd' = hwnd \cup {w}
          /\ UNCHANGED <<browserWindow, browser, delegate, windowDestroyed,
                         browserDestroyed, rootWindows>>
      BY <1>1, <2>1, <2>4 DEF CreateRootWindow, Receive, makeVars, managerVars
    <3>6. Native(w)'
      BY <3>5 DEF Native
    <3>7. CreateInv(w)'
      BY <1>a, <3>1, <3>2, <3>4, <3>5, <3>6 DEF WindowOrder, CreateInv
    <3>8. CallbackInv(w)'
      BY <1>a, <3>1, <3>2, <3>5, <3>6 DEF WindowOrder, CallbackInv
    <3>9. LifeInv(w)'
      BY <1>a, <3>1, <3>2, <3>5 DEF WindowOrder, LifeInv, Registering
    <3> QED
      BY <3>7, <3>8, <3>9 DEF WindowOrder
  <2> QED
    BY <2>3, <2>4
<1>2. CASE OnRootWindowCreated(v)
  <2>1. Receive("OnRootWindowCreated", v)
    BY <1>2 DEF OnRootWindowCreated
  <2>2. SameUi(w)
    BY <1>2, QueueSame DEF OnRootWindowCreated
  <2>3. CASE w # v
    <3>1. SameMain(w)
      BY <2>1, <2>3, ReceiveSame
    <3>2. SameState(w)
      BY <1>2, <2>1, <2>3 DEF OnRootWindowCreated, Receive, SameState, makeVars, windowVars
    <3> QED
      BY <1>a, <2>2, <3>1, <3>2, Frame
  <2>4. CASE w = v
    <3>1. /\ Queued(mainQ, Msg("OnRootWindowCreated", w))
          /\ \A u : u # "OnRootWindowCreated" =>
                (Queued(mainQ', Msg(u, w)) <=> Queued(mainQ, Msg(u, w)))
          /\ \A m : Once(mainQ, m) => Once(mainQ', m)
          /\ \A a, b : Before(mainQ, a, b) => Before(mainQ', a, b)
      BY <2>1, <2>4, ReceiveSelf
    <3>2. /\ kind' = kind /\ cef' = cef /\ uiStep' = uiStep
          /\ UNCHANGED windowVars /\ rootWindows' = rootWindows \cup {w}
      BY <1>2, <2>1, <2>4 DEF OnRootWindowCreated, Receive, makeVars
    <3>3. Registering(w) /\ w \in rootWindows'
      BY <3>1, <3>2 DEF Registering
    <3>4. CreateInv(w)'
      BY <1>a, <2>2, <3>1, <3>2
      DEF WindowOrder, CreateInv, Native, SameUi, windowVars
    <3>5. CallbackInv(w)'
      BY <1>a, <3>1, <3>2 DEF WindowOrder, CallbackInv, Native, windowVars
    <3>6. LifeInv(w)'
      BY <1>a, <3>1, <3>2, <3>3 DEF WindowOrder, LifeInv, windowVars
    <3> QED
      BY <3>4, <3>5, <3>6 DEF WindowOrder
  <2> QED
    BY <2>3, <2>4
<1>3. CASE OnBrowserCreated(v)
  <2>1. Receive("OnBrowserCreated", v)
    BY <1>3 DEF OnBrowserCreated
  <2>2. SameUi(w)
    BY <1>3, QueueSame DEF OnBrowserCreated
  <2>3. CASE w # v
    <3>1. SameMain(w)
      BY <2>1, <2>3, ReceiveSame
    <3>2. SameState(w)
      BY <1>3, <2>1, <2>3 DEF OnBrowserCreated, Receive, SameState, makeVars
    <3> QED
      BY <1>a, <2>2, <3>1, <3>2, Frame
  <2>4. CASE w = v
    <3>1. /\ Queued(mainQ, Msg("OnBrowserCreated", w))
          /\ ~Queued(mainQ', Msg("OnBrowserCreated", w))
          /\ \A u : u # "OnBrowserCreated" =>
                (Queued(mainQ', Msg(u, w)) <=> Queued(mainQ, Msg(u, w)))
          /\ \A m : Once(mainQ, m) => Once(mainQ', m)
          /\ \A a, b : Before(mainQ, a, b) => Before(mainQ', a, b)
      BY <1>a, <2>1, <2>4, ReceiveSelf DEF WindowOrder, CallbackInv
    <3>2. /\ w \in delegate /\ cef[w] \notin {"none", "popup", "canceled"}
          /\ kind[w] = "window" => Native(w)
      BY <1>a, <3>1 DEF WindowOrder, CallbackInv
    <3>3. /\ kind' = kind /\ cef' = cef /\ uiStep' = uiStep
          /\ browser' = browser \cup {w}
          /\ hwnd' = IF kind[w] = "popup" THEN hwnd \cup {w} ELSE hwnd
          /\ UNCHANGED <<browserWindow, delegate, windowDestroyed, browserDestroyed,
                         rootWindows>>
      BY <1>3, <2>1, <2>4, <3>2 DEF OnBrowserCreated, Receive, makeVars
    <3>4. kind[w] \in {"window", "popup"} /\ cef[w] \in {"open", "closing", "closed"}
      BY <3>2 DEF Made, TypeOK, CefState
    <3>5. Native(w)'
      BY <3>2, <3>3, <3>4 DEF Native
    <3>6. CreateInv(w)'
      BY <1>a, <2>2, <3>1, <3>2, <3>3, <3>4, <3>5
      DEF WindowOrder, CreateInv, SameUi
    <3>7. CallbackInv(w)'
      BY <1>a, <3>1, <3>2, <3>3, <3>5 DEF WindowOrder, CallbackInv
    <3>8. LifeInv(w)'
      BY <1>a, <3>1, <3>3 DEF WindowOrder, LifeInv, Registering
    <3> QED
      BY <3>6, <3>7, <3>8 DEF WindowOrder
  <2> QED
    BY <2>3, <2>4
<1>4. CASE OnBrowserClosing(v)
  <2>1. Receive("OnBrowserClosing", v)
    BY <1>4 DEF OnBrowserClosing
  <2>2. SameUi(w)
    BY <1>4, QueueSame DEF OnBrowserClosing
  <2>3. SameState(w)
    BY <1>4, <2>1 DEF OnBrowserClosing, Receive, SameState, makeVars, managerVars
  <2>4. CASE w # v
    BY <1>a, <2>1, <2>2, <2>3, <2>4, ReceiveSame, Frame
  <2>5. CASE w = v
    <3>1. /\ Queued(mainQ, Msg("OnBrowserClosing", w))
          /\ \A u : u # "OnBrowserClosing" =>
                (Queued(mainQ', Msg(u, w)) <=> Queued(mainQ, Msg(u, w)))
          /\ \A m : Once(mainQ, m) => Once(mainQ', m)
          /\ \A a, b : Before(mainQ, a, b) => Before(mainQ', a, b)
      BY <2>1, <2>5, ReceiveSelf
    <3>2. Queued(mainQ', Msg("OnBrowserClosing", w))
            => Queued(mainQ, Msg("OnBrowserClosing", w))
      BY <3>1
    <3>3. CreateInv(w)'
      BY <1>a, <2>2, <2>3, <3>1 DEF WindowOrder, CreateInv, Native, SameUi, SameState
    <3>4. CallbackInv(w)'
      BY <1>a, <2>3, <3>1, <3>2 DEF WindowOrder, CallbackInv, Native, SameState
    <3>5. LifeInv(w)'
      BY <1>a, <2>3, <3>1 DEF WindowOrder, LifeInv, Registering, SameState
    <3> QED
      BY <3>3, <3>4, <3>5 DEF WindowOrder
  <2> QED
    BY <2>4, <2>5
<1>5. CASE OnBrowserClosed(v)
  <2>1. Receive("OnBrowserClosed", v)
    BY <1>5 DEF OnBrowserClosed
  <2>2. v \in Made
    BY <2>1, ReceiveType
  <2>3. WindowOrder(v)
    BY <2>2 DEF OrderInv
  <2>4. /\ Queued(mainQ, Msg("OnBrowserClosed", v))
        /\ ~Queued(mainQ', Msg("OnBrowserClosed", v))
        /\ ~Queued(mainQ, Msg("OnBrowserCreated", v))
        /\ ~Queued(mainQ, Msg("OnBrowserClosing", v))
        /\ ~Queued(mainQ, Msg("OnRootWindowCreated", v))
        /\ \A u : u # "OnBrowserClosed" =>
              (Queued(mainQ', Msg(u, v)) <=> Queued(mainQ, Msg(u, v)))
        /\ \A m : Once(mainQ, m) => Once(mainQ', m)
        /\ \A a, b : Before(mainQ, a, b) => Before(mainQ', a, b)
    BY <2>1, <2>3, ReceiveSelf DEF WindowOrder, CallbackInv, LifeInv
  <2>5. v \in delegate /\ cef[v] = "closed" /\ v \in browser /\ Native(v)
    BY <2>3, <2>4 DEF WindowOrder, CallbackInv
  <2>6. /\ kind' = kind /\ cef' = cef /\ uiStep' = uiStep
        /\ browser' = browser \ {v} /\ delegate' = delegate \ {v}
        /\ browserWindow' = browserWindow \ {v} /\ hwnd' = hwnd \ {v}
        /\ windowDestroyed' = windowDestroyed \cup {v}
        /\ browserDestroyed' = browserDestroyed \cup {v}
        /\ NotifyDestroyedIfDone(v)
    <3>1. v \in hwnd \/ v \in windowDestroyed
      BY <2>5 DEF Native
    <3> QED
      BY <1>5, <2>1, <2>5, <3>1 DEF OnBrowserClosed, Receive, makeVars
  <2>7. SameUi(w)
    BY <2>6, NotifySame
  <2>8. CASE w # v
    <3>1. SameMain(w)
      BY <2>1, <2>8, ReceiveSame
    <3>2. SameState(w)
      BY <2>6, <2>8, NotifySame DEF SameState
    <3> QED
      BY <1>a, <2>7, <3>1, <3>2, Frame
  <2>9. CASE w = v
    <3>1. Native(w)' /\ v \notin rootWindows'
      BY <2>6, <2>9, NotifySame DEF Native
    <3>2. CreateInv(w)'
      BY <2>3, <2>4, <2>5, <2>6, <2>7, <2>9, <3>1 DEF WindowOrder, CreateInv, SameUi
    <3>3. CallbackInv(w)'
      BY <2>3, <2>4, <2>5, <2>6, <2>9 DEF WindowOrder, CallbackInv
    <3>4. ~Registering(w)'
      BY <2>3, <2>4, <2>5, <2>6, <2>9 DEF WindowOrder, LifeInv, Registering
    <3>5. LifeInv(w)'
      BY <2>3, <2>4, <2>5, <2>6, <2>9, <3>1, <3>4 DEF WindowOrder, LifeInv
    <3> QED
      BY <3>2, <3>3, <3>5 DEF WindowOrder
  <2> QED
    BY <2>8, <2>9
\* A message that is none of the callbacks.
<1>b. ASSUME NEW t, t \notin Callbacks, Receive(t, v)
      PROVE  /\ (UNCHANGED <<windowVars, managerVars, uiQ>> => WindowOrder(w)')
             /\ (v \in hwnd /\ DestroyNativeWindow(v) => WindowOrder(w)')
  <2>1. \A u : SameMain(u)
    BY <1>b, ReceiveSame
  <2>2. kind' = kind /\ cef' = cef /\ uiStep' = uiStep
    BY <1>b DEF Receive, makeVars
  <2>3. ASSUME UNCHANGED <<windowVars, managerVars, uiQ>> PROVE WindowOrder(w)'
    <3>1. SameState(w)
      BY <2>2, <2>3 DEF SameState, windowVars, managerVars
    <3> QED
      BY <1>a, <2>1, <2>3, <3>1, QueueSame, Frame
  <2>4. ASSUME v \in hwnd, DestroyNativeWindow(v) PROVE WindowOrder(w)'
    BY <1>a, <2>1, <2>2, <2>4, DestroyStep
  <2> QED
    BY <2>3, <2>4
<1>6. CASE OnClose(v)
  <2>1. PICK t \in {"UserClose", "CefClose"} : Receive(t, v)
    BY <1>6 DEF OnClose
  <2>2. t \notin Callbacks
    BY DEF Callbacks
  <2>3. CASE /\ uiQ' = Append(uiQ, Msg("CloseBrowser", v))
             /\ UNCHANGED <<windowVars, managerVars>>
    <3>1. Msg("CloseBrowser", v) \in UiTask(Made)
      BY <2>1, ReceiveType, MessageTypes
    <3>2. SameUi(w) /\ SameMain(w)
      BY <2>1, <2>2, <2>3, <3>1, ReceiveSame, TaskSame
    <3>3. SameState(w)
      BY <2>1, <2>3 DEF SameState, Receive, makeVars, windowVars, managerVars
    <3> QED
      BY <1>a, <3>2, <3>3, Frame
  <2> QED
    BY <1>6, <1>b, <2>1, <2>2, <2>3 DEF OnClose
<1>7. CASE HandleCustomTask(v)
  <2>1. PICK t \in {"CommandQuit", "CommandUse"} : Receive(t, v)
    BY <1>7 DEF HandleCustomTask
  <2>2. t \notin Callbacks
    BY DEF Callbacks
  <2> QED
    BY <1>7, <1>b, <2>1, <2>2 DEF HandleCustomTask
<1> QED
  BY <1>1, <1>2, <1>3, <1>4, <1>5, <1>6, <1>7 DEF MainTask

\* No message and no task names a window that was not made.
LEMMA NothingQueued ==
    ASSUME TypeOK, NEW w \in Window, w \notin Made
    PROVE  \A t : ~Queued(mainQ, Msg(t, w)) /\ ~Queued(uiQ, Msg(t, w))
<1> SUFFICES ASSUME NEW t, Queued(mainQ, Msg(t, w)) \/ Queued(uiQ, Msg(t, w))
             PROVE  FALSE
  OBVIOUS
<1>1. mainQ \in Seq(MainMsg(Made)) /\ uiQ \in Seq(UiTask(Made))
  BY DEF TypeOK
<1>2. Msg(t, w) \in MainMsg(Made) \/ Msg(t, w) \in UiTask(Made)
  BY <1>1, ElementOfSeq DEF Queued
<1> QED
  BY <1>2, WindowAssumption DEF MainMsg, UiTask, Msg

\* Posting a callback about v: what changes for v itself.
LEMMA PostCallback ==
    ASSUME TypeOK, NEW t \in {"OnRootWindowCreated", "OnBrowserCreated", "OnBrowserClosed"},
           NEW v \in Made, PostToMain(<<Msg(t, v)>>)
    PROVE  /\ \A w : w # v => SameMain(w)
           /\ Queued(mainQ', Msg(t, v))
           /\ \A u : u # t => (Queued(mainQ', Msg(u, v)) <=> Queued(mainQ, Msg(u, v)))
           /\ \A u : u # t /\ Once(mainQ, Msg(u, v)) => Once(mainQ', Msg(u, v))
           /\ ~Queued(mainQ, Msg(t, v)) => Once(mainQ', Msg(t, v))
           /\ \A u, x : u # t /\ Before(mainQ, Msg(u, v), x) => Before(mainQ', Msg(u, v), x)
           /\ \A u : u # t /\ ~Queued(mainQ, Msg(u, v))
                        => Before(mainQ', Msg(t, v), Msg(u, v))
<1>1. mainQ \in Seq(MainMsg(Made)) /\ Msg(t, v) \in MainMsg(Made)
  BY MessageTypes DEF TypeOK
<1>2. \A w : w # v => SameMain(w)
  BY <1>1, PostSame
<1>3. \A u : u # t => Msg(u, v) # Msg(t, v)
  BY MsgEqual
<1> QED
  BY <1>1, <1>2, <1>3, PostSelf

LEMMA OrderStep ==
    ASSUME TypeOK, OrderInv, [Next]_vars
    PROVE  OrderInv'
<1> USE WindowAssumption
<1>a. \A w \in Made : WindowOrder(w)
  BY DEF OrderInv
<1>b. /\ kind \in [Window -> {"none", "window", "popup"}] /\ cef \in [Window -> CefState]
      /\ Made \subseteq Window /\ \A w \in Window : w \notin Made => cef[w] = "none"
  BY DEF TypeOK, Made
\* Steps that leave the queues, the windows and the UI thread alone.
<1>c. ASSUME UNCHANGED <<kind, cef, uiStep, windowVars, rootWindows>>,
             \A w : SameMain(w) /\ SameUi(w),
             mainPc' = "start" => mainPc = "start"
      PROVE  OrderInv'
  <2>1. Made' = Made
    BY <1>c DEF Made
  <2>2. \A w : SameState(w)
    BY <1>c DEF SameState, windowVars
  <2>3. ThreadInv'
    BY <1>c, <2>1 DEF OrderInv, ThreadInv, Live
  <2> QED
    BY <1>a, <1>c, <2>1, <2>2, <2>3, Frame DEF OrderInv
<1>1. CASE RunMain
  <2>1. Made = {} /\ Made' = {First} /\ mainPc' = "loop"
    <3>1. Made = {}
      BY <1>1 DEF RunMain, OrderInv, ThreadInv
    <3> QED
      BY <1>1, <1>b, <3>1 DEF RunMain, Made
  <2>2. \A t : ~Queued(mainQ, Msg(t, First)) /\ ~Queued(uiQ, Msg(t, First))
    BY <2>1, NothingQueued
  <2>3. /\ Queued(uiQ', Msg("CreateBrowser", First))
        /\ Once(uiQ', Msg("CreateBrowser", First))
    <3> DEFINE e == Msg("CreateBrowser", First)
               r == uiQ'
               S == UiTask(Made')
    <3>1. r = Append(uiQ, e) /\ e \in S /\ uiQ \in Seq(S) /\ ~Queued(uiQ, e)
      <4>1. UiTask(Made) \subseteq S
        BY <2>1, MessagesGrow
      <4>2. uiQ \in Seq(S)
        BY <4>1, SeqMonotonic DEF TypeOK
      <4>3. e \in S
        BY <2>1, MessageTypes
      <4> QED
        BY <1>1, <2>2, <4>2, <4>3 DEF RunMain
    <3>2. Queued(r, e) /\ Once(r, e)
      <4> HIDE DEF e, r, S
      <4> QED
        BY ONLY <3>1, TaskQueued
    <3> QED
      BY <3>2
  <2>4. /\ kind'[First] = "window" /\ cef'[First] = "none" /\ mainQ' = mainQ
        /\ browserWindow' = {First} /\ delegate' = {First} /\ hwnd' = {First}
        /\ rootWindows' = {First} /\ uiStep' = uiStep
        /\ browser' = browser /\ browserDestroyed' = browserDestroyed
        /\ windowDestroyed' = windowDestroyed
    BY <1>1, <1>b, <2>1 DEF RunMain
  <2>5. First \notin browser \cup browserDestroyed \cup windowDestroyed
    BY <2>1 DEF TypeOK
  <2>6. /\ \A t : Once(mainQ', Msg(t, First))
        /\ \A t, x : Before(mainQ', Msg(t, First), x)
    BY <2>2, <2>4 DEF Once, Before, Queued
  <2>7. CreateInv(First)'
    BY <2>2, <2>3, <2>4, <2>5, <2>6 DEF CreateInv, Native
  <2>8. CallbackInv(First)'
    BY <2>2, <2>4, <2>5, <2>6 DEF CallbackInv, Native
  <2>9. LifeInv(First)'
    <3>1. ~Registering(First)'
      <4>1. uiStep # Msg("CreateRootWindow", First)
        BY <2>1 DEF TypeOK, UiStep, UiIdle, Msg
      <4> QED
        BY <2>2, <2>4, <4>1 DEF Registering
    <3> QED
      BY <2>2, <2>4, <2>5, <2>6, <3>1 DEF LifeInv
  <2>10. ThreadInv'
    BY <2>1, <2>4 DEF ThreadInv, TypeOK, UiStep, UiIdle, Msg
  <2> QED
    BY <2>1, <2>7, <2>8, <2>9, <2>10 DEF OrderInv, WindowOrder
<1>2. ASSUME NEW v \in Window, MainTask(v) PROVE OrderInv'
  <2>1. PICK t : Receive(t, v)
    BY <1>2 DEF MainTask, CreateRootWindow, OnRootWindowCreated, OnBrowserCreated,
                OnBrowserClosing, OnBrowserClosed, OnClose, HandleCustomTask
  <2>2. Made' = Made /\ UNCHANGED <<mainPc, uiStep, cef>>
    BY <2>1 DEF Receive, Made, makeVars
  <2>3. ThreadInv'
    BY <2>2 DEF OrderInv, ThreadInv, Live
  <2> QED
    BY <1>2, <2>2, <2>3, MainOrderStep DEF OrderInv
<1>3. CASE PostQuitMessage \/ RunReturns \/ Shutdown
  <2>1. \A w : SameMain(w)
    <3>1. CASE PostQuitMessage
      <4>1. Receive("Quit", NoWindow)
        BY <3>1 DEF PostQuitMessage
      <4> QED
        BY <4>1, ReceiveSame DEF Callbacks
    <3>2. CASE RunReturns \/ Shutdown
      BY <3>2, QueueSame DEF RunReturns, Shutdown
    <3> QED
      BY <1>3, <3>1, <3>2
  <2>2. \A w : SameUi(w)
    BY <1>3, QueueSame DEF PostQuitMessage, RunReturns, Shutdown
  <2>3. /\ UNCHANGED <<kind, cef, uiStep, windowVars, rootWindows>>
        /\ mainPc' = "start" => mainPc = "start"
    BY <1>3 DEF PostQuitMessage, Receive, RunReturns, Shutdown, makeVars, managerVars
  <2> QED
    BY <1>c, <2>1, <2>2, <2>3
<1>4. ASSUME NEW v \in Window, OnActivate(v) \/ UserClose(v) \/ HandleCustomMsg(v)
      PROVE  OrderInv'
  <2>1. v \in Made
    BY <1>4 DEF OnActivate, UserClose, HandleCustomMsg, TypeOK
  <2>2. \A w : SameMain(w)
    <3>1. CASE mainQ' = mainQ
      BY <3>1, QueueSame
    <3>2. ASSUME NEW t \in {"UserClose", "CommandQuit", "CommandUse"},
                 mainQ' = Append(mainQ, Msg(t, v))
          PROVE  \A w : SameMain(w)
      <4>1. Msg(t, v) \in MainMsg(Made) /\ mainQ \in Seq(MainMsg(Made))
            /\ t \notin Callbacks
        BY <2>1, MessageTypes DEF TypeOK, Callbacks
      <4>2. Append(mainQ, Msg(t, v)) = mainQ \o <<Msg(t, v)>>
        BY <4>1, AppendIsConcat
      <4>3. PostToMain(<<Msg(t, v)>>)
        BY <3>2, <4>2 DEF PostToMain
      <4> QED
        BY <4>1, <4>3, PostSame
    <3> QED
      BY <1>4, <3>1, <3>2 DEF OnActivate, UserClose, HandleCustomMsg
  <2>3. \A w : SameUi(w)
    BY <1>4, QueueSame DEF OnActivate, UserClose, HandleCustomMsg
  <2>4. /\ UNCHANGED <<kind, cef, uiStep, windowVars, rootWindows>>
        /\ mainPc' = "start" => mainPc = "start"
    BY <1>4 DEF OnActivate, UserClose, HandleCustomMsg, External, makeVars, managerVars
  <2> QED
    BY <1>c, <2>2, <2>3, <2>4
<1>5. CASE OnExit
  <2> DEFINE open == rootWindows \cap hwnd
             n == Cardinality(open)
  <2>1. PICK order \in [1..n -> open] :
          mainQ' = mainQ \o [i \in 1..n |-> Msg("UserClose", order[i])]
    BY <1>5 DEF OnExit
  <2> DEFINE asked == [i \in 1..n |-> Msg("UserClose", order[i])]
  <2>2. n \in Nat
    <3>1. IsFiniteSet(open)
      BY <1>b, FS_Subset DEF TypeOK
    <3> QED
      BY <3>1, FS_CardinalityType
  <2>3. asked \in Seq(MainMsg(Made))
        /\ \A t \in Callbacks : \A w : ~Queued(asked, Msg(t, w))
    <3> HIDE DEF n
    <3>1. \A i \in 1..n : Msg("UserClose", order[i]) \in MainMsg(Made)
      BY MessageTypes DEF TypeOK
    <3>2. Len(asked) = n /\ \A i \in 1..n : asked[i] = Msg("UserClose", order[i])
      BY <2>2
    <3>3. \A t \in Callbacks : \A u, w : Msg(t, w) # Msg("UserClose", u)
      BY MsgEqual DEF Callbacks
    <3> HIDE DEF asked
    <3>4. \A t \in Callbacks : \A w : ~Queued(asked, Msg(t, w))
      BY <3>2, <3>3 DEF Queued
    <3> QED
      BY <2>2, <3>1, <3>4 DEF asked
  <2>4. \A w : SameMain(w)
    <3>1. mainQ' = mainQ \o asked /\ mainQ \in Seq(MainMsg(Made))
      BY <2>1 DEF TypeOK
    <3> HIDE DEF asked
    <3>2. /\ \A m : Queued(mainQ', m) <=> Queued(mainQ, m) \/ Queued(asked, m)
          /\ \A m : Once(mainQ, m) /\ ~Queued(asked, m) => Once(mainQ', m)
          /\ \A a, b : Before(mainQ, a, b) /\ Before(asked, a, b)
                       /\ (Queued(mainQ, b) => ~Queued(asked, a)) => Before(mainQ', a, b)
      BY <2>3, <3>1, Posted
    <3>3. \A a, b : ~Queued(asked, a) => Before(asked, a, b)
      BY DEF Before, Queued
    <3> QED
      BY <2>3, <3>2, <3>3 DEF SameMain
  <2>5. \A w : SameUi(w)
    BY <1>5, QueueSame DEF OnExit
  <2>6. /\ UNCHANGED <<kind, cef, uiStep, windowVars, rootWindows>>
        /\ mainPc' = "start" => mainPc = "start"
    BY <1>5 DEF OnExit, External, makeVars, managerVars
  <2> QED
    BY <1>c, <2>4, <2>5, <2>6
<1>6. ASSUME NEW v \in Window, ParentDestroyed(v) PROVE OrderInv'
  <2>1. v \in hwnd /\ DestroyNativeWindow(v) /\ mainQ' = mainQ
        /\ UNCHANGED <<kind, cef, uiStep, mainPc>>
    BY <1>6 DEF ParentDestroyed, makeVars
  <2>2. Made' = Made
    BY <2>1 DEF Made
  <2>3. \A w \in Made : WindowOrder(w)'
    BY <1>a, <2>1, QueueSame, DestroyStep
  <2>4. ThreadInv'
    BY <2>1, <2>2 DEF OrderInv, ThreadInv, Live
  <2> QED
    BY <2>2, <2>3, <2>4 DEF OrderInv
\* Steps of the UI thread that post one callback about v or none.
<1>d. ASSUME NEW v \in Made, UNCHANGED <<kind, windowVars, rootWindows, mainPc>>,
             uiStep = UiIdle, uiStep' = UiIdle,
             \A w \in Window : w # v => cef'[w] = cef[w] /\ SameMain(w) /\ SameUi(w),
             WindowOrder(v)'
      PROVE  OrderInv'
  <2>1. Made' = Made
    BY <1>d DEF Made
  <2>2. \A w \in Made : w # v => SameState(w)
    BY <1>b, <1>d DEF SameState, windowVars
  <2>3. ThreadInv'
    BY <1>d, <2>1 DEF OrderInv, ThreadInv, UiIdle, Msg
  <2> QED
    BY <1>a, <1>b, <1>d, <2>1, <2>2, <2>3, Frame DEF OrderInv
<1>e. ASSUME NEW v \in Made, PostToMain(<<Msg("OnBrowserCreated", v)>>),
             UNCHANGED <<kind, windowVars, rootWindows, uiStep>>, uiStep = UiIdle,
             cef'[v] = "open", cef[v] \in {"none", "popup"},
             cef[v] = "none" => kind[v] = "window" /\ Native(v),
             Once(uiQ', Msg("CreateBrowser", v)),
             ~Queued(uiQ', Msg("CreateBrowser", v))
      PROVE  WindowOrder(v)'
  <2> DEFINE C == Msg("OnBrowserCreated", v)
  <2>1. /\ Queued(mainQ', C) /\ (~Queued(mainQ, C) => Once(mainQ', C))
        /\ \A u : u # "OnBrowserCreated" =>
              /\ Queued(mainQ', Msg(u, v)) <=> Queued(mainQ, Msg(u, v))
              /\ Once(mainQ, Msg(u, v)) => Once(mainQ', Msg(u, v))
              /\ \A x : Before(mainQ, Msg(u, v), x) => Before(mainQ', Msg(u, v), x)
              /\ ~Queued(mainQ, Msg(u, v)) => Before(mainQ', C, Msg(u, v))
    BY <1>e, PostCallback
  <2> HIDE DEF C
  <2>2. /\ v \notin browser /\ v \in delegate
        /\ ~Queued(mainQ, Msg("OnBrowserCreated", v))
        /\ ~Queued(mainQ, Msg("OnBrowserClosing", v))
        /\ ~Queued(mainQ, Msg("OnBrowserClosed", v))
        /\ ~Queued(mainQ, Msg("CreateRootWindow", v))
        /\ kind[v] = "popup" => ~Native(v)
    BY <1>a, <1>e DEF WindowOrder, CallbackInv, CreateInv
  <2>3. CreateInv(v)'
    BY <1>a, <1>e, <2>1, <2>2 DEF WindowOrder, CreateInv, Native, windowVars
  <2>4. kind[v] = "window" => Native(v)
    BY <1>a, <1>e DEF WindowOrder, CreateInv
  <2>5. CallbackInv(v)'
    BY <1>a, <1>e, <2>1, <2>2, <2>4
    DEF WindowOrder, CallbackInv, Native, windowVars, C
  <2>6. LifeInv(v)'
    BY <1>a, <1>e, <2>1
    DEF WindowOrder, LifeInv, Registering, windowVars, UiIdle, Msg
  <2> QED
    BY <2>3, <2>5, <2>6 DEF WindowOrder
<1>f. ASSUME NEW v \in Made, mainQ' = mainQ,
             UNCHANGED <<kind, windowVars, rootWindows, uiStep>>, uiStep = UiIdle,
             cef'[v] = "canceled", cef[v] \in {"none", "popup"},
             cef[v] = "none" => kind[v] = "window" /\ Native(v),
             Once(uiQ', Msg("CreateBrowser", v)),
             ~Queued(uiQ', Msg("CreateBrowser", v))
      PROVE  WindowOrder(v)'
  <2>1. CreateInv(v)'
    BY <1>a, <1>f DEF WindowOrder, CreateInv, Native, windowVars
  <2>2. CallbackInv(v)'
    BY <1>a, <1>f DEF WindowOrder, CallbackInv, Native, windowVars
  <2>3. LifeInv(v)'
    BY <1>a, <1>f DEF WindowOrder, LifeInv, Registering, windowVars, UiIdle, Msg
  <2> QED
    BY <2>1, <2>2, <2>3 DEF WindowOrder
<1>7. ASSUME NEW v \in Window, OnAfterCreated(v) PROVE OrderInv'
  <2>1. TakeUiTask("CreateBrowser", v)
    BY <1>7 DEF OnAfterCreated
  <2>2. v \in Made
    BY <2>1, TakeType
  <2>3. /\ Queued(uiQ, Msg("CreateBrowser", v)) /\ Once(uiQ', Msg("CreateBrowser", v))
        /\ ~Queued(uiQ', Msg("CreateBrowser", v))
    BY <1>a, <2>1, <2>2, TakeSelf DEF WindowOrder, CreateInv
  <2>4. kind[v] = "window" /\ cef[v] = "none" /\ Native(v)
    BY <1>a, <2>2, <2>3 DEF WindowOrder, CreateInv
  <2>5. /\ UNCHANGED <<kind, windowVars, rootWindows, mainPc, uiStep>>
        /\ uiStep = UiIdle
    BY <2>1 DEF TakeUiTask, UiFree, makeVars, managerVars
  <2>6. WindowOrder(v)' /\ \A w \in Window : w # v => cef'[w] = cef[w] /\ SameMain(w)
    <3>1. CASE cef' = [cef EXCEPT ![v] = "open"]
               /\ PostToMain(<<Msg("OnBrowserCreated", v)>>)
      <4>1. cef'[v] = "open" /\ \A w \in Window : w # v => cef'[w] = cef[w]
        BY <1>b, <3>1
      <4> QED
        BY <1>e, <2>2, <2>3, <2>4, <2>5, <3>1, <4>1, PostCallback
    <3>2. CASE cef' = [cef EXCEPT ![v] = "canceled"] /\ mainQ' = mainQ
      <4>1. cef'[v] = "canceled" /\ \A w \in Window : w # v => cef'[w] = cef[w]
        BY <1>b, <3>2
      <4> QED
        BY <1>f, <2>2, <2>3, <2>4, <2>5, <3>2, <4>1, QueueSame
    <3> QED
      BY <1>7, <3>1, <3>2 DEF OnAfterCreated
  <2>7. \A w : w # v => SameUi(w)
    BY <2>1, TakeSame
  <2> QED
    BY <1>d, <2>2, <2>5, <2>6, <2>7
<1>8. ASSUME NEW v \in Window, PopupCreated(v) PROVE OrderInv'
  <2>1. v \in Made /\ cef[v] = "popup"
    BY <1>8, <1>b DEF PopupCreated
  <2>2. /\ Once(uiQ, Msg("CreateBrowser", v)) /\ ~Queued(uiQ, Msg("CreateBrowser", v))
        /\ uiQ' = uiQ
    BY <1>8, <1>a, <2>1 DEF PopupCreated, WindowOrder, CreateInv
  <2>3. /\ UNCHANGED <<kind, windowVars, rootWindows, mainPc, uiStep>>
        /\ uiStep = UiIdle
    BY <1>8 DEF PopupCreated, UiOnly, UiFree, makeVars, managerVars
  <2>4. WindowOrder(v)' /\ \A w \in Window : w # v => cef'[w] = cef[w] /\ SameMain(w)
    <3>1. CASE cef' = [cef EXCEPT ![v] = "open"]
               /\ PostToMain(<<Msg("OnBrowserCreated", v)>>)
      <4>1. cef'[v] = "open" /\ \A w \in Window : w # v => cef'[w] = cef[w]
        BY <1>b, <3>1, <2>1
      <4> QED
        BY <1>e, <2>1, <2>2, <2>3, <3>1, <4>1, PostCallback
    <3>2. CASE cef' = [cef EXCEPT ![v] = "canceled"] /\ mainQ' = mainQ
      <4>1. cef'[v] = "canceled" /\ \A w \in Window : w # v => cef'[w] = cef[w]
        BY <1>b, <3>2, <2>1
      <4> QED
        BY <1>f, <2>1, <2>2, <2>3, <3>2, <4>1, QueueSame
    <3> QED
      BY <1>8, <3>1, <3>2 DEF PopupCreated
  <2>5. \A w : SameUi(w)
    BY <2>2, QueueSame
  <2> QED
    BY <1>d, <2>1, <2>3, <2>4, <2>5
<1>g. ASSUME NEW v \in Made, Live(v), DoClose(v), SameUi(v),
             UNCHANGED <<kind, windowVars, rootWindows, uiStep>>, uiStep = UiIdle
      PROVE  WindowOrder(v)' /\ \A w \in Window : w # v => cef'[w] = cef[w] /\ SameMain(w)
  <2> DEFINE a == Msg("OnBrowserClosing", v)
             b == Msg("CefClose", v)
             s == <<a, b>>
  <2>1. s \in Seq(MainMsg(Made)) /\ mainQ \in Seq(MainMsg(Made)) /\ mainQ' = mainQ \o s
    BY <1>g, MessageTypes DEF TypeOK, DoClose, PostToMain, CloseMessages
  <2>2. \A m : Queued(s, m) <=> m = a \/ m = b
    <3>1. Len(s) = 2 /\ s[1] = a /\ s[2] = b
      OBVIOUS
    <3> HIDE DEF s, a, b
    <3> QED
      BY <3>1 DEF Queued
  <2>3. \A x, y : ~Queued(s, x) \/ ~Queued(s, y) => Before(s, x, y)
    BY DEF Before, Queued
  <2> HIDE DEF s
  <2>4. /\ \A m : Queued(mainQ', m) <=> Queued(mainQ, m) \/ Queued(s, m)
        /\ \A m : Once(mainQ, m) /\ ~Queued(s, m) => Once(mainQ', m)
        /\ \A x, y : Before(mainQ, x, y) /\ Before(s, x, y)
                     /\ (Queued(mainQ, y) => ~Queued(s, x)) => Before(mainQ', x, y)
    BY <2>1, Posted
  <2>5. \A t \in Callbacks : \A w : /\ Msg(t, w) # b
                                    /\ Msg(t, w) = a <=> t = "OnBrowserClosing" /\ w = v
    BY MsgEqual DEF Callbacks
  <2> HIDE DEF a, b
  <2>6. cef'[v] = "closing" /\ \A w \in Window : w # v => cef'[w] = cef[w]
    BY <1>g, <1>b DEF DoClose
  <2>7. \A w : w # v => SameMain(w)
    BY <2>2, <2>3, <2>4, <2>5 DEF SameMain
  <2>8. \A t \in Callbacks : t # "OnBrowserClosing" =>
            /\ Queued(mainQ', Msg(t, v)) <=> Queued(mainQ, Msg(t, v))
            /\ Once(mainQ, Msg(t, v)) => Once(mainQ', Msg(t, v))
            /\ \A u \in Callbacks : Before(mainQ, Msg(t, v), Msg(u, v))
                                      => Before(mainQ', Msg(t, v), Msg(u, v))
    BY <2>2, <2>3, <2>4, <2>5
  <2>9. /\ v \in delegate /\ ~Queued(mainQ, Msg("OnBrowserClosed", v))
        /\ cef[v] \in {"open", "closing"}
        /\ v \in browser \/ Queued(mainQ, Msg("OnBrowserCreated", v))
        /\ Before(mainQ, a, Msg("OnBrowserClosed", v))
    BY <1>a, <1>g DEF WindowOrder, CallbackInv, Live, a
  <2>10. Before(mainQ', a, Msg("OnBrowserClosed", v))
    <3>1. ~Queued(s, Msg("OnBrowserClosed", v))
      BY <2>2, <2>5 DEF Callbacks
    <3> QED
      BY <2>3, <2>4, <2>9, <3>1
  <2>11. CreateInv(v)'
    BY <1>a, <1>g, <2>6, <2>8, <2>9
    DEF WindowOrder, CreateInv, Native, windowVars, Callbacks, SameUi
  <2>12. CallbackInv(v)'
    BY <1>a, <1>g, <2>6, <2>8, <2>9, <2>10
    DEF WindowOrder, CallbackInv, Native, windowVars, Callbacks, a
  <2>13. LifeInv(v)'
    BY <1>a, <1>g, <2>6, <2>8, <2>9
    DEF WindowOrder, LifeInv, Registering, windowVars, Callbacks, UiIdle, Msg
  <2> QED
    BY <2>6, <2>7, <2>11, <2>12, <2>13 DEF WindowOrder
<1>9. ASSUME NEW v \in Window, CloseBrowser(v) PROVE OrderInv'
  <2>1. TakeUiTask("CloseBrowser", v)
    BY <1>9 DEF CloseBrowser
  <2>2. v \in Made /\ \A w : SameUi(w)
    BY <2>1, TakeType, TakeSame
  <2>3. /\ UNCHANGED <<kind, windowVars, rootWindows, mainPc, uiStep>>
        /\ uiStep = UiIdle
    BY <2>1 DEF TakeUiTask, UiFree, makeVars, managerVars
  <2>4. CASE UNCHANGED <<cef, mainQ>>
    BY <1>c, <2>2, <2>3, <2>4, QueueSame
  <2>5. CASE Live(v) /\ DoClose(v)
    BY <1>d, <1>g, <2>2, <2>3, <2>5
  <2> QED
    BY <1>9, <2>4, <2>5 DEF CloseBrowser
<1>10. ASSUME NEW v \in Window, PageCloses(v) PROVE OrderInv'
  <2>1. v \in Made /\ Live(v) /\ DoClose(v) /\ uiQ' = uiQ
    BY <1>10, <1>b DEF PageCloses, Live
  <2>2. /\ UNCHANGED <<kind, windowVars, rootWindows, mainPc, uiStep>>
        /\ uiStep = UiIdle
    BY <1>10 DEF PageCloses, UiOnly, UiFree, makeVars, managerVars
  <2> QED
    BY <1>d, <1>g, <2>1, <2>2, QueueSame
<1>11. ASSUME NEW v \in Window, OnBeforeClose(v) PROVE OrderInv'
  <2>1. v \in Made /\ Live(v) /\ uiQ' = uiQ /\ PostToMain(<<Msg("OnBrowserClosed", v)>>)
    BY <1>11, <1>b DEF OnBeforeClose, Live
  <2>2. /\ UNCHANGED <<kind, windowVars, rootWindows, mainPc, uiStep>>
        /\ uiStep = UiIdle
    BY <1>11 DEF OnBeforeClose, UiOnly, UiFree, makeVars, managerVars
  <2>3. cef'[v] = "closed" /\ \A w \in Window : w # v => cef'[w] = cef[w]
    BY <1>11, <1>b DEF OnBeforeClose
  <2>4. /\ v \in delegate /\ ~Queued(mainQ, Msg("OnBrowserClosed", v))
        /\ ~Queued(mainQ, Msg("CreateRootWindow", v))
        /\ ~Queued(uiQ, Msg("CreateBrowser", v))
        /\ v \in browser \/ Queued(mainQ, Msg("OnBrowserCreated", v))
    BY <1>a, <2>1 DEF WindowOrder, CallbackInv, CreateInv, Live
  <2>5. /\ \A w : w # v => SameMain(w)
        /\ Queued(mainQ', Msg("OnBrowserClosed", v)) /\ Once(mainQ', Msg("OnBrowserClosed", v))
        /\ \A u : u # "OnBrowserClosed" =>
              /\ Queued(mainQ', Msg(u, v)) <=> Queued(mainQ, Msg(u, v))
              /\ Once(mainQ, Msg(u, v)) => Once(mainQ', Msg(u, v))
              /\ \A x : Before(mainQ, Msg(u, v), x) => Before(mainQ', Msg(u, v), x)
    BY <2>1, <2>4, PostCallback
  <2>6. CreateInv(v)'
    BY <1>a, <2>1, <2>2, <2>3, <2>4, <2>5 DEF WindowOrder, CreateInv, Native, windowVars
  <2>7. CallbackInv(v)'
    BY <1>a, <2>1, <2>2, <2>3, <2>4, <2>5 DEF WindowOrder, CallbackInv, Native, windowVars
  <2>8. LifeInv(v)'
    BY <1>a, <2>1, <2>2, <2>3, <2>4, <2>5
    DEF WindowOrder, LifeInv, Registering, windowVars, UiIdle, Msg
  <2> QED
    BY <1>d, <2>1, <2>2, <2>3, <2>5, <2>6, <2>7, <2>8, QueueSame DEF WindowOrder
\* A window that is just made.
<1>h. ASSUME NEW new \in Window, NEW k \in {"window", "popup"}, kind[new] = "none",
             NEW t \in {"CreateRootWindow", "OnRootWindowCreated"},
             kind' = [kind EXCEPT ![new] = k],
             browserWindow' = browserWindow \cup {new}, delegate' = delegate \cup {new},
             PostToMain(<<Msg(t, new)>>),
             k = "window" => t = "CreateRootWindow" /\ cef' = cef
                             /\ uiStep' = Msg("CreateRootWindow", new),
             k = "popup" => /\ t = "OnRootWindowCreated" /\ uiStep' = uiStep
                            /\ cef' = [cef EXCEPT ![new] = "popup"],
             uiStep = UiIdle, UNCHANGED <<hwnd, browser, windowDestroyed, browserDestroyed,
                                          rootWindows, mainPc, uiQ>>,
             mainPc # "start"
      PROVE  OrderInv'
  <2>1. /\ new \notin Made /\ Made' = Made \cup {new} /\ kind'[new] = k
        /\ \A w \in Window : w # new => kind'[w] = kind[w]
    BY <1>b, <1>h DEF Made
  <2>2. /\ \A u : ~Queued(mainQ, Msg(u, new)) /\ ~Queued(uiQ, Msg(u, new))
        /\ cef[new] = "none"
    BY <1>b, <2>1, NothingQueued
  <2>3. /\ Msg(t, new) \in MainMsg(Made') /\ mainQ \in Seq(MainMsg(Made'))
    <3>1. MainMsg(Made) \subseteq MainMsg(Made')
      BY <2>1, MessagesGrow
    <3>2. mainQ \in Seq(MainMsg(Made'))
      BY <3>1, SeqMonotonic DEF TypeOK
    <3>3. Msg(t, new) \in MainMsg(Made')
      BY <2>1, MessageTypes
    <3> QED
      BY <3>2, <3>3
  <2>4. /\ \A w : w # new => SameMain(w)
        /\ \A u : u # t => ~Queued(mainQ', Msg(u, new))
        /\ Queued(mainQ', Msg(t, new)) /\ Once(mainQ', Msg(t, new))
    <3>1. \A w : w # new => SameMain(w)
      BY <1>h, <2>3, PostSame
    <3>2. /\ Queued(mainQ', Msg(t, new))
          /\ \A u : u # t => (Queued(mainQ', Msg(u, new)) <=> Queued(mainQ, Msg(u, new)))
          /\ ~Queued(mainQ, Msg(t, new)) => Once(mainQ', Msg(t, new))
      BY <1>h, <2>3, PostSelf
    <3> QED
      BY <2>2, <3>1, <3>2
  <2>5. \A m : ~Queued(mainQ', m) =>
            Once(mainQ', m) /\ \A x : Before(mainQ', m, x) /\ Before(mainQ', x, m)
    BY DEF Once, Before, Queued
  <2>6. Once(uiQ', Msg("CreateBrowser", new)) /\ ~Queued(uiQ', Msg("CreateBrowser", new))
    BY <1>h, <2>2 DEF Once, Queued
  <2>7. \A w \in Window : w # new => cef'[w] = cef[w]
    <3>1. CASE k = "window"
      BY <1>h, <3>1
    <3>2. CASE k = "popup"
      BY <1>b, <1>h, <3>2
    <3> QED
      BY <3>1, <3>2
  <2>8. ASSUME NEW w \in Made PROVE WindowOrder(w)'
    <3>1. w # new
      BY <2>1, <2>8
    <3>2. SameState(w)
      BY <1>b, <1>h, <2>1, <2>7, <2>8, <3>1, MsgEqual DEF SameState, UiIdle
    <3> QED
      BY <1>a, <1>h, <2>4, <2>8, <3>1, <3>2, QueueSame, Frame
  <2>9. new \notin hwnd \cup windowDestroyed \cup browserDestroyed \cup browser \cup rootWindows
    BY <2>1 DEF TypeOK
  <2>10. /\ cef'[new] = IF k = "popup" THEN "popup" ELSE "none"
    BY <1>b, <1>h, <2>2
  <2>11. CreateInv(new)'
    BY <1>h, <2>1, <2>4, <2>5, <2>6, <2>9, <2>10 DEF CreateInv, Native
  <2>12. CallbackInv(new)'
    BY <1>h, <2>1, <2>4, <2>5, <2>9, <2>10 DEF CallbackInv, Native
  <2>13. Registering(new)'
    BY <1>h, <2>4 DEF Registering
  <2>14. LifeInv(new)'
    BY <1>h, <2>1, <2>4, <2>5, <2>9, <2>10, <2>13 DEF LifeInv, UiIdle, Msg
  <2>15. ThreadInv'
    BY <1>h DEF ThreadInv, UiIdle, Msg
  <2> QED
    BY <2>1, <2>8, <2>11, <2>12, <2>14, <2>15 DEF OrderInv, WindowOrder
<1>12. ASSUME NEW v \in Window, NEW new \in Window, OnOpenURLFromTab(v, new)
       PROVE  OrderInv'
  <2>1. Live(v) /\ v \in Made
    BY <1>12, <1>b DEF OnOpenURLFromTab, Live
  <2>2. mainPc # "start"
    BY <2>1 DEF OrderInv, ThreadInv
  <2> QED
    BY <1>12, <1>h, <2>2 DEF OnOpenURLFromTab, UiFree, managerVars
<1>13. ASSUME NEW v \in Window, NEW new \in Window, OnBeforePopup(v, new)
       PROVE  OrderInv'
  <2>1. Live(v) /\ v \in Made
    BY <1>13, <1>b DEF OnBeforePopup, Live
  <2>2. mainPc # "start"
    BY <2>1 DEF OrderInv, ThreadInv
  <2> QED
    BY <1>13, <1>h, <2>2 DEF OnBeforePopup, UiFree, managerVars
<1>14. CASE OnOpenURLFromTabEnds
  <2>1. PICK v \in Made : uiStep = Msg("CreateRootWindow", v)
    BY <1>14 DEF OnOpenURLFromTabEnds, TypeOK, UiStep, UiIdle, Msg
  <2>2. /\ PostToMain(<<Msg("OnRootWindowCreated", v)>>) /\ uiStep' = UiIdle
        /\ UNCHANGED <<kind, windowVars, rootWindows, mainPc, uiQ, cef>>
    BY <1>14, <2>1 DEF OnOpenURLFromTabEnds, UiOnly, makeVars, managerVars, Msg
  <2>3. Made' = Made
    BY <2>2 DEF Made
  <2>4. cef[v] = "none" /\ ~Queued(mainQ, Msg("OnBrowserClosed", v)) /\ Registering(v)
    BY <1>a, <2>1 DEF WindowOrder, CallbackInv, LifeInv, Registering
  <2>5. /\ \A w : w # v => SameMain(w)
        /\ Queued(mainQ', Msg("OnRootWindowCreated", v))
        /\ \A u : u # "OnRootWindowCreated" =>
              /\ Queued(mainQ', Msg(u, v)) <=> Queued(mainQ, Msg(u, v))
              /\ Once(mainQ, Msg(u, v)) => Once(mainQ', Msg(u, v))
              /\ \A x : Before(mainQ, Msg(u, v), x) => Before(mainQ', Msg(u, v), x)
              /\ ~Queued(mainQ, Msg(u, v))
                    => Before(mainQ', Msg("OnRootWindowCreated", v), Msg(u, v))
    BY <2>1, <2>2, PostCallback
  <2>6. ASSUME NEW w \in Made, w # v PROVE WindowOrder(w)'
    <3>1. SameState(w)
      BY <2>1, <2>2, <2>6, MsgEqual DEF SameState, UiIdle, windowVars
    <3> QED
      BY <1>a, <2>2, <2>5, <2>6, <3>1, QueueSame, Frame
  <2>7. CreateInv(v)'
    BY <1>a, <2>1, <2>2, <2>5 DEF WindowOrder, CreateInv, Native, windowVars
  <2>8. CallbackInv(v)'
    BY <1>a, <2>1, <2>2, <2>5 DEF WindowOrder, CallbackInv, Native, windowVars
  <2>9. Registering(v)'
    BY <2>5 DEF Registering
  <2>10. LifeInv(v)'
    BY <1>a, <2>1, <2>2, <2>4, <2>5, <2>9
    DEF WindowOrder, LifeInv, windowVars, UiIdle, Msg
  <2>11. ThreadInv'
    BY <2>2, <2>3 DEF OrderInv, ThreadInv, UiIdle, Msg
  <2> QED
    BY <2>3, <2>6, <2>7, <2>8, <2>10, <2>11 DEF OrderInv, WindowOrder
<1>15. (\E v \in Window : OnBeforeContextMenu(v)) \/ OnBeforeContextMenuEnds => OrderInv'
  <2> SUFFICES ASSUME (\E v \in Window : OnBeforeContextMenu(v)) \/ OnBeforeContextMenuEnds
               PROVE  OrderInv'
    OBVIOUS
  <2>1. UNCHANGED <<kind, cef, windowVars, rootWindows, mainPc, mainQ, uiQ>>
    BY DEF OnBeforeContextMenu, OnBeforeContextMenuEnds, UiOnly, makeVars, managerVars
  <2>2. /\ uiStep.t # "CreateRootWindow" /\ uiStep'.t # "CreateRootWindow"
        /\ uiStep'.t = "OnBeforeContextMenu" => Live(uiStep'.w)
    BY DEF OnBeforeContextMenu, OnBeforeContextMenuEnds, UiFree, UiIdle, Msg
  <2>3. Made' = Made /\ \A w : SameState(w)
    BY <2>1, <2>2 DEF Made, SameState, windowVars, Msg
  <2>4. ThreadInv'
    BY <2>1, <2>2, <2>3 DEF OrderInv, ThreadInv, Live
  <2> QED
    BY <1>a, <2>1, <2>3, <2>4, QueueSame, Frame DEF OrderInv
<1>16. CASE CleanupOnUIThread
  <2>1. TakeUiTask("CleanupOnUIThread", NoWindow) /\ PostToMain(<<Msg("Quit", NoWindow)>>)
        /\ cef' = cef
    BY <1>16 DEF CleanupOnUIThread
  <2>2. \A w : SameUi(w)
    BY <2>1, TakeSame
  <2>3. \A w : SameMain(w)
    <3>1. Msg("Quit", NoWindow) \in MainMsg(Made) /\ mainQ \in Seq(MainMsg(Made))
          /\ "Quit" \notin Callbacks
      BY MessageTypes DEF TypeOK, Callbacks
    <3> QED
      BY <2>1, <3>1, PostSame
  <2>4. UNCHANGED <<kind, cef, uiStep, windowVars, rootWindows, mainPc>>
    BY <2>1 DEF TakeUiTask, makeVars, managerVars
  <2> QED
    BY <1>c, <2>2, <2>3, <2>4
<1>17. CASE UNCHANGED vars
  BY <1>17, <1>c, QueueSame DEF vars, makeVars, managerVars
<1> QED
  BY <1>1, <1>2, <1>3, <1>4, <1>5, <1>6, <1>7, <1>8, <1>9, <1>10, <1>11, <1>12, <1>13,
     <1>14, <1>15, <1>16, <1>17
  DEF Next, MainStep, Environment, UiStepForced, UiEvent, BrowserFollowsWindow,
      BrowserGoesFirst

LEMMA OrderInit == Init => OrderInv
<1> SUFFICES ASSUME Init PROVE OrderInv
  OBVIOUS
<1>1. Made = {}
  BY DEF Init, Made
<1>2. uiStep.t = "idle"
  BY DEF Init, UiIdle, Msg
<1> QED
  BY <1>1, <1>2 DEF OrderInv, ThreadInv

LEMMA OrderInvariance == Spec => [](TypeOK /\ OrderInv)
<1>1. Init => TypeOK /\ OrderInv
  BY InitType, OrderInit
<1>2. TypeOK /\ OrderInv /\ [Next]_vars => (TypeOK /\ OrderInv)'
  BY TypeStep, OrderStep
<1> QED
  BY <1>1, <1>2, PTL DEF Spec

-----------------------------------------------------------------------------
(* What follows from it.                                                   *)

\* root_windows_ holds a window exactly from OnRootWindowCreated until both
\* its halves are destroyed.
THEOREM Registration == Spec => []RegisteredUntilDestroyed
<1>1. TypeOK /\ OrderInv => RegisteredUntilDestroyed
  BY DEF OrderInv, WindowOrder, LifeInv, RegisteredUntilDestroyed
<1> QED
  BY <1>1, OrderInvariance, PTL

\* ClientHandler::delegate_ never dangles, whatever the two threads do.
THEOREM DelegateNeverDangles == Spec => []DelegateAlive
<1>1. TypeOK /\ OrderInv => DelegateAlive
  <2> SUFFICES ASSUME TypeOK, OrderInv PROVE DelegateAlive
    OBVIOUS
  <2>1. \A w \in delegate : w \in Made /\ WindowOrder(w)
    BY DEF TypeOK, OrderInv
  <2>2. \A w \in delegate : w \in browserWindow /\ ~Deleted(w)
    BY <2>1 DEF WindowOrder, LifeInv, Registering, Deleted, Referenced
  <2>3. ASSUME uiStep.t = "OnBeforeContextMenu" PROVE uiStep.w \in delegate
    <3>1. uiStep.w \in Made /\ Live(uiStep.w)
      BY <2>3 DEF TypeOK, OrderInv, ThreadInv, UiStep, UiIdle, Msg
    <3> QED
      BY <3>1 DEF OrderInv, WindowOrder, CallbackInv, Live
  <2> QED
    BY <2>2, <2>3 DEF DelegateAlive
<1> QED
  BY <1>1, OrderInvariance, PTL

\* The callbacks reach a window in order, whatever else is queued.
THEOREM CallbackOrder == Spec => []CallbacksInOrder
<1>1. TypeOK /\ OrderInv => CallbacksInOrder
  <2> SUFFICES ASSUME TypeOK, OrderInv, mainQ # <<>>,
                      NEW t, NEW w, t = Head(mainQ).t, w = Head(mainQ).w
               PROVE  /\ t = "CreateRootWindow" => w \notin hwnd \cup windowDestroyed
                      /\ t = "OnBrowserCreated" =>
                            /\ w \in delegate /\ w \notin browser
                            /\ kind[w] = "popup" => w \notin hwnd \cup windowDestroyed
                      /\ t = "OnBrowserClosing" => w \in browser
                      /\ t = "OnBrowserClosed" =>
                            w \in delegate /\ w \in browser /\ w \in hwnd \cup windowDestroyed
    BY DEF CallbacksInOrder
  <2>1. Head(mainQ) \in MainMsg(Made) /\ Queued(mainQ, Head(mainQ))
        /\ \A a : Before(mainQ, a, Head(mainQ)) => ~Queued(mainQ, a)
    BY Received DEF TypeOK
  <2>2. Head(mainQ) = Msg(t, w) /\ (t # "Quit" => w \in Made)
    BY <2>1 DEF MainMsg, Msg
  <2>3. t # "Quit" => WindowOrder(w)
    BY <2>2 DEF OrderInv
  <2> QED
    BY <2>1, <2>2, <2>3 DEF WindowOrder, CreateInv, CallbackInv, Native
<1> QED
  BY <1>1, OrderInvariance, PTL

\* The browser of the active window, kept when the lists change.
LEMMA ActiveStep ==
    ASSUME TypeOK, OrderInv, ActiveBrowserOfActiveWindow, [Next]_vars
    PROVE  ActiveBrowserOfActiveWindow'
<1> USE WindowAssumption
<1>a. NoWindow \notin browser /\ NoWindow \notin Made /\ browser \subseteq Made
  BY DEF TypeOK, Made
<1>b. CASE UNCHANGED <<activeWindow, activeBrowser, browser>>
  BY <1>b DEF ActiveBrowserOfActiveWindow
<1>c. ASSUME NEW v \in Made, NotifyDestroyedIfDone(v),
             \/ browser' = browser
             \/ /\ browser' = browser \ {v}
                /\ v \in windowDestroyed' /\ v \in browserDestroyed'
      PROVE  ActiveBrowserOfActiveWindow'
  BY <1>a, <1>c
  DEF NotifyDestroyedIfDone, OnRootWindowDestroyed, ActiveBrowserOfActiveWindow, managerVars
<1>1. CASE RunMain
  <2>1. Made = {}
    BY <1>1 DEF RunMain, OrderInv, ThreadInv
  <2> QED
    BY <1>1, <1>a, <2>1 DEF RunMain, TypeOK, ActiveBrowserOfActiveWindow
<1>2. ASSUME NEW v \in Window, CreateRootWindow(v) PROVE ActiveBrowserOfActiveWindow'
  BY <1>2, <1>b DEF CreateRootWindow, managerVars
<1>3. ASSUME NEW v \in Window, OnRootWindowCreated(v) PROVE ActiveBrowserOfActiveWindow'
  <2>1. browser' = browser
    BY <1>3 DEF OnRootWindowCreated, windowVars
  <2> QED
    BY <1>3, <1>b, <2>1 DEF OnRootWindowCreated, Activated, ActiveBrowserOfActiveWindow
<1>4. ASSUME NEW v \in Window, OnBrowserCreated(v) PROVE ActiveBrowserOfActiveWindow'
  BY <1>4, <1>a DEF OnBrowserCreated, ActiveBrowserOfActiveWindow
<1>5. ASSUME NEW v \in Window, OnBrowserClosing(v) PROVE ActiveBrowserOfActiveWindow'
  BY <1>5, <1>b DEF OnBrowserClosing, managerVars
<1>6. ASSUME NEW v \in Window, OnBrowserClosed(v) PROVE ActiveBrowserOfActiveWindow'
  <2>1. Receive("OnBrowserClosed", v)
    BY <1>6 DEF OnBrowserClosed
  <2>2. v \in Made /\ Queued(mainQ, Msg("OnBrowserClosed", v))
        /\ \A a : Before(mainQ, a, Msg("OnBrowserClosed", v)) => ~Queued(mainQ, a)
    BY <2>1, ReceiveType, ReceiveSelf
  <2>3. v \in hwnd \/ v \in windowDestroyed
    BY <2>2 DEF OrderInv, WindowOrder, CallbackInv, Native
  <2>4. CASE v \in delegate
    <3>1. /\ NotifyDestroyedIfDone(v) /\ browser' = browser \ {v}
          /\ v \in windowDestroyed' /\ v \in browserDestroyed'
      BY <1>6, <2>3, <2>4 DEF OnBrowserClosed
    <3> QED
      BY <1>c, <2>2, <3>1
  <2>5. CASE v \notin delegate
    BY <1>6, <1>b, <2>5 DEF OnBrowserClosed, windowVars, managerVars
  <2> QED
    BY <2>4, <2>5
<1>d. ASSUME NEW v \in hwnd, DestroyNativeWindow(v) PROVE ActiveBrowserOfActiveWindow'
  BY <1>c, <1>d DEF DestroyNativeWindow, TypeOK
<1>e. ASSUME UNCHANGED <<windowVars, managerVars>> PROVE ActiveBrowserOfActiveWindow'
  BY <1>b, <1>e DEF windowVars, managerVars
<1>7. ASSUME NEW v \in Window, OnClose(v) PROVE ActiveBrowserOfActiveWindow'
  BY <1>7, <1>d, <1>e DEF OnClose
<1>8. ASSUME NEW v \in Window, HandleCustomTask(v) PROVE ActiveBrowserOfActiveWindow'
  BY <1>8, <1>d, <1>e DEF HandleCustomTask
<1>9. ASSUME NEW v \in Window, OnActivate(v) PROVE ActiveBrowserOfActiveWindow'
  <2>1. browser' = browser
    BY <1>9 DEF OnActivate, External, windowVars
  <2> QED
    BY <1>9, <2>1 DEF OnActivate, Activated, ActiveBrowserOfActiveWindow
<1>10. ASSUME NEW v \in Window, ParentDestroyed(v) PROVE ActiveBrowserOfActiveWindow'
  BY <1>10, <1>d DEF ParentDestroyed
<1>11. ASSUME NEW v \in Window, UserClose(v) \/ HandleCustomMsg(v)
       PROVE  ActiveBrowserOfActiveWindow'
  BY <1>11, <1>e DEF UserClose, HandleCustomMsg, External
<1>12. CASE PostQuitMessage \/ RunReturns \/ Shutdown \/ OnExit
  BY <1>12, <1>e DEF PostQuitMessage, RunReturns, Shutdown, OnExit, External
<1>13. CASE UiStepForced
  BY <1>13, <1>e
  DEF UiStepForced, OnAfterCreated, CloseBrowser, TakeUiTask, BrowserFollowsWindow,
      OnBeforeClose, PopupCreated, OnOpenURLFromTabEnds, OnBeforeContextMenuEnds,
      CleanupOnUIThread, UiOnly
<1>14. CASE UiEvent
  BY <1>14, <1>b, <1>e
  DEF UiEvent, PageCloses, BrowserGoesFirst, OnBeforeClose, OnBeforeContextMenu,
      OnOpenURLFromTab, OnBeforePopup, UiOnly, managerVars
<1>15. CASE UNCHANGED vars
  BY <1>15, <1>e DEF vars
<1> QED
  BY <1>1, <1>2, <1>3, <1>4, <1>5, <1>6, <1>7, <1>8, <1>9, <1>10, <1>11, <1>12, <1>13,
     <1>14, <1>15
  DEF Next, MainStep, MainTask, Environment

\* GetActiveBrowser() is the browser of the active window, never one that has
\* been closed or that belongs to another window.
THEOREM ActiveBrowserRight == Spec => []ActiveBrowserOfActiveWindow
<1>1. Init => ActiveBrowserOfActiveWindow
  BY DEF Init, ActiveBrowserOfActiveWindow
<1>2. /\ TypeOK /\ OrderInv /\ ActiveBrowserOfActiveWindow /\ [Next]_vars
         => ActiveBrowserOfActiveWindow'
  BY ActiveStep
<1> QED
  BY <1>1, <1>2, OrderInvariance, PTL DEF Spec

-----------------------------------------------------------------------------
(* An agreed close.                                                        *)

\* Each b in the queue has an a before it.
Heralded(q, a, b) ==
    \A j \in 1..Len(q) : q[j] = b => \E i \in 1..Len(q) : i < j /\ q[i] = a

LEMMA HeraldedReceived ==
    ASSUME NEW S, NEW q \in Seq(S), q # <<>>, NEW a, NEW b, Heralded(q, a, b)
    PROVE  /\ Head(q) # b
           /\ Head(q) # a => Heralded(Tail(q), a, b)
<1> DEFINE r == Tail(q)
           h == Head(q)
<1>1. Len(q) \in Nat \ {0}
  BY EmptySeq
<1>2. r \in Seq(S) /\ Len(r) = Len(q) - 1 /\ h = q[1]
      /\ \A i \in 1..Len(r) : r[i] = q[i + 1]
  BY HeadTailProperties, <1>1
<1>3. \A i \in 1..Len(r) : i + 1 \in 1..Len(q) /\ r[i] = q[i + 1]
  BY <1>1, <1>2
<1>4. \A i \in 1..Len(q) : i = 1 \/ (i - 1 \in 1..Len(r) /\ r[i - 1] = q[i])
  BY <1>1, <1>2
<1>5. 1 \in 1..Len(q) /\ q[1] = h /\ Len(r) \in Nat
  BY <1>1, <1>2
<1> HIDE DEF r, h
<1>6. h # b
  BY <1>5 DEF Heralded
<1>7. ASSUME h # a, NEW j \in 1..Len(r), r[j] = b
      PROVE  \E i \in 1..Len(r) : i < j /\ r[i] = a
  <2>1. PICK i \in 1..Len(q) : i < j + 1 /\ q[i] = a
    BY <1>3, <1>7 DEF Heralded
  <2>2. i - 1 \in 1..Len(r) /\ r[i - 1] = a
    BY <1>4, <1>5, <1>7, <2>1
  <2> QED
    BY <1>1, <1>5, <2>1, <2>2
<1> QED
  BY <1>6, <1>7 DEF r, h, Heralded

LEMMA HeraldedPosted ==
    ASSUME NEW S, NEW q \in Seq(S), NEW s \in Seq(S), NEW a, NEW b,
           Heralded(q, a, b), Heralded(s, a, b)
    PROVE  Heralded(q \o s, a, b)
<1> DEFINE r == q \o s
<1>1. Len(q) \in Nat /\ Len(s) \in Nat
  BY LenProperties
<1>2. r \in Seq(S) /\ Len(r) = Len(q) + Len(s)
      /\ \A i \in 1..Len(q) + Len(s) :
            r[i] = IF i <= Len(q) THEN q[i] ELSE s[i - Len(q)]
  BY ConcatProperties
<1>3. \A i \in 1..Len(q) : i \in 1..Len(r) /\ r[i] = q[i]
  BY <1>1, <1>2
<1>4. \A i \in 1..Len(s) : i + Len(q) \in 1..Len(r) /\ r[i + Len(q)] = s[i]
  BY <1>1, <1>2
<1>5. \A i \in 1..Len(r) : \/ i \in 1..Len(q) /\ r[i] = q[i]
                           \/ /\ i - Len(q) \in 1..Len(s)
                              /\ r[i] = s[i - Len(q)]
  BY <1>1, <1>2
<1>6. Len(r) \in Nat
  BY <1>1, <1>2
<1> HIDE DEF r
<1>7. ASSUME NEW j \in 1..Len(r), r[j] = b
      PROVE  \E i \in 1..Len(r) : i < j /\ r[i] = a
  <2>1. CASE j \in 1..Len(q) /\ r[j] = q[j]
    BY <1>3, <1>7, <2>1 DEF Heralded
  <2>2. CASE j - Len(q) \in 1..Len(s) /\ r[j] = s[j - Len(q)]
    <3>1. PICK i \in 1..Len(s) : i < j - Len(q) /\ s[i] = a
      BY <1>7, <2>2 DEF Heralded
    <3>2. i + Len(q) < j
      BY <1>1, <1>6, <3>1
    <3> QED
      BY <1>4, <3>1, <3>2
  <2> QED
    BY <1>5, <2>1, <2>2
<1> QED
  BY <1>7 DEF r, Heralded

\* CEF's WM_CLOSE comes behind the notification that sets is_closing_, or that
\* has set it, or the BrowserWindow is gone.
AgreedInv ==
    \A w \in Made :
        \/ w \in closing
        \/ w \notin browserWindow
        \/ Heralded(mainQ, Msg("OnBrowserClosing", w), Msg("CefClose", w))

\* Messages that are not CEF's WM_CLOSE, and those of DoClose.
LEMMA NoCloseHeralded ==
    ASSUME NEW s, NEW w, \A i \in 1..Len(s) : s[i].t # "CefClose"
    PROVE  Heralded(s, Msg("OnBrowserClosing", w), Msg("CefClose", w))
BY DEF Heralded, Msg

LEMMA CloseHeralded ==
    ASSUME NEW v, NEW w
    PROVE  Heralded(CloseMessages(v), Msg("OnBrowserClosing", w), Msg("CefClose", w))
<1> DEFINE s == CloseMessages(v)
<1>1. /\ Len(s) = 2
      /\ s[1] = Msg("OnBrowserClosing", v) /\ s[2] = Msg("CefClose", v)
  BY DEF CloseMessages
<1> HIDE DEF s
<1>2. ASSUME NEW j \in 1..Len(s), s[j] = Msg("CefClose", w)
      PROVE  j = 2 /\ s[1] = Msg("OnBrowserClosing", w)
  BY <1>1, <1>2, MsgEqual
<1>3. 1 \in 1..Len(s)
  BY <1>1
<1>4. Heralded(s, Msg("OnBrowserClosing", w), Msg("CefClose", w))
  BY <1>2, <1>3 DEF Heralded
<1> QED
  BY <1>4 DEF s

\* CloseAllWindows asks windows, and does nothing else.
LEMMA ExitAsks ==
    ASSUME TypeOK, OnExit
    PROVE  \E s \in Seq(MainMsg(Made)) :
              mainQ' = mainQ \o s /\ \A i \in 1..Len(s) : s[i].t = "UserClose"
<1> DEFINE open == rootWindows \cap hwnd
           n == Cardinality(open)
<1>1. PICK order \in [1..n -> open] :
        mainQ' = mainQ \o [i \in 1..n |-> Msg("UserClose", order[i])]
  BY DEF OnExit
<1> DEFINE asked == [i \in 1..n |-> Msg("UserClose", order[i])]
<1>2. n \in Nat
  <2>1. IsFiniteSet(open)
    <3>1. open \subseteq Window
      BY DEF TypeOK, Made
    <3> QED
      BY <3>1, FS_Subset, WindowAssumption
  <2> QED
    BY <2>1, FS_CardinalityType
<1>3. asked \in Seq(MainMsg(Made)) /\ \A i \in 1..Len(asked) : asked[i].t = "UserClose"
  <2> HIDE DEF n
  <2>1. \A i \in 1..n : Msg("UserClose", order[i]) \in MainMsg(Made)
    BY MessageTypes DEF TypeOK
  <2>2. asked \in Seq(MainMsg(Made)) /\ Len(asked) = n
    BY <1>2, <2>1
  <2> QED
    BY <1>2, <2>2 DEF Msg
<1> QED
  BY <1>1, <1>3

LEMMA AgreedStep ==
    ASSUME TypeOK, OrderInv, AgreedInv, [Next]_vars
    PROVE  AgreedInv'
<1> USE WindowAssumption
<1> DEFINE Closing(w) == Msg("OnBrowserClosing", w)
           Close(w) == Msg("CefClose", w)
<1>a. mainQ \in Seq(MainMsg(Made))
  BY DEF TypeOK
\* A step that posts s, which may be nothing.
<1>b. ASSUME kind' = kind, closing' = closing, browserWindow' \subseteq browserWindow,
             NEW s \in Seq(MainMsg(Made)), mainQ' = mainQ \o s,
             \A w \in Made : Heralded(s, Closing(w), Close(w))
      PROVE  AgreedInv'
  <2>1. Made' = Made
    BY <1>b DEF Made
  <2>2. ASSUME NEW w \in Made, Heralded(mainQ, Closing(w), Close(w))
        PROVE  Heralded(mainQ', Closing(w), Close(w))
    <3> HIDE DEF Closing, Close
    <3> QED
      BY <1>a, <1>b, <2>2, HeraldedPosted
  <2> QED
    BY <1>b, <2>1, <2>2 DEF AgreedInv
<1>c. ASSUME UNCHANGED <<kind, closing, mainQ>>, browserWindow' \subseteq browserWindow
      PROVE  AgreedInv'
  <2>1. Made' = Made
    BY <1>c DEF Made
  <2> QED
    BY <1>c, <2>1 DEF AgreedInv
<1>d. ASSUME NEW t, NEW v, Receive(t, v), closing \subseteq closing',
             browserWindow' \subseteq browserWindow,
             t = "OnBrowserClosing" => v \in closing' \/ v \notin browserWindow
      PROVE  AgreedInv'
  <2>1. Made' = Made /\ mainQ # <<>> /\ Head(mainQ) = Msg(t, v) /\ mainQ' = Tail(mainQ)
    BY <1>d, ReceiveType DEF Receive
  <2>2. ASSUME NEW w \in Made, Heralded(mainQ, Closing(w), Close(w)), Msg(t, v) # Closing(w)
        PROVE  Heralded(mainQ', Closing(w), Close(w))
    <3> HIDE DEF Closing, Close
    <3> QED
      BY <1>a, <2>1, <2>2, HeraldedReceived
  <2> QED
    BY <1>d, <2>1, <2>2, MsgEqual DEF AgreedInv
<1>e. ASSUME NEW v \in hwnd, DestroyNativeWindow(v) PROVE UNCHANGED <<closing, browserWindow>>
  BY <1>e DEF DestroyNativeWindow
\* A new window, of which nothing is queued yet but what does not matter.
<1>f. ASSUME NEW new \in Window, new \notin Made, Made' = Made \cup {new},
             closing' = closing, browserWindow' \subseteq browserWindow \cup {new},
             NEW t \in {"CreateRootWindow", "OnRootWindowCreated"},
             PostToMain(<<Msg(t, new)>>)
      PROVE  AgreedInv'
  <2> DEFINE S == MainMsg(Made')
             s == <<Msg(t, new)>>
  <2>1. mainQ \in Seq(S) /\ s \in Seq(S) /\ mainQ' = mainQ \o s
    <3>1. MainMsg(Made) \subseteq S
      BY <1>f, MessagesGrow
    <3>2. mainQ \in Seq(S)
      BY <1>a, <3>1, SeqMonotonic
    <3>3. Msg(t, new) \in S
      BY <1>f, MessageTypes
    <3> QED
      BY <1>f, <3>2, <3>3 DEF PostToMain
  <2>2. \A w : Heralded(s, Closing(w), Close(w))
    <3>1. \A i \in 1..Len(s) : s[i].t # "CefClose"
      BY DEF Msg
    <3> QED
      BY <3>1, NoCloseHeralded
  <2>3. Heralded(mainQ, Closing(new), Close(new))
    BY <1>f, NothingQueued DEF Heralded, Queued
  <2>4. ASSUME NEW w, Heralded(mainQ, Closing(w), Close(w))
        PROVE  Heralded(mainQ', Closing(w), Close(w))
    <3> HIDE DEF S, s, Closing, Close
    <3> QED
      BY <2>1, <2>2, <2>4, HeraldedPosted
  <2> QED
    BY <1>f, <2>3, <2>4 DEF AgreedInv
\* A step that posts one message, which is not a WM_CLOSE of CEF.
<1>g. ASSUME kind' = kind, closing' = closing, browserWindow' = browserWindow,
             NEW m \in MainMsg(Made), m.t # "CefClose", mainQ' = mainQ \o <<m>>
      PROVE  AgreedInv'
  <2>1. <<m>> \in Seq(MainMsg(Made)) /\ \A i \in 1..Len(<<m>>) : <<m>>[i].t # "CefClose"
    BY <1>g
  <2> QED
    BY <1>b, <1>g, <2>1, NoCloseHeralded
<1>1. CASE RunMain
  <2>1. Made = {} /\ Made' = {First} /\ mainQ' = mainQ
    <3>1. Made = {}
      BY <1>1 DEF RunMain, OrderInv, ThreadInv
    <3> QED
      BY <1>1, <3>1 DEF RunMain, Made, TypeOK
  <2>2. ~Queued(mainQ, Close(First))
    BY <2>1, NothingQueued
  <2> QED
    BY <2>1, <2>2 DEF AgreedInv, Heralded, Queued
<1>2. ASSUME NEW v \in Window, CreateRootWindow(v) PROVE AgreedInv'
  BY <1>2, <1>d DEF CreateRootWindow
<1>3. ASSUME NEW v \in Window, OnRootWindowCreated(v) PROVE AgreedInv'
  BY <1>3, <1>d DEF OnRootWindowCreated, windowVars
<1>4. ASSUME NEW v \in Window, OnBrowserCreated(v) PROVE AgreedInv'
  BY <1>4, <1>d DEF OnBrowserCreated
<1>5. ASSUME NEW v \in Window, OnBrowserClosing(v) PROVE AgreedInv'
  <2>1. v \in Made
    BY <1>5, ReceiveType DEF OnBrowserClosing
  <2>2. v \in delegate <=> v \in browserWindow
    BY <2>1 DEF OrderInv, WindowOrder, LifeInv
  <2>3. Receive("OnBrowserClosing", v) /\ browserWindow' = browserWindow
    BY <1>5 DEF OnBrowserClosing
  <2>4. closing \subseteq closing' /\ (v \in delegate => v \in closing')
    BY <1>5 DEF OnBrowserClosing
  <2> QED
    BY <1>d, <2>2, <2>3, <2>4
<1>6. ASSUME NEW v \in Window, OnBrowserClosed(v) PROVE AgreedInv'
  <2>1. closing' = closing /\ browserWindow' \subseteq browserWindow
    BY <1>6 DEF OnBrowserClosed, windowVars
  <2> QED
    BY <1>6, <1>d, <2>1 DEF OnBrowserClosed
<1>7. ASSUME NEW v \in Window, OnClose(v) PROVE AgreedInv'
  <2>1. UNCHANGED <<closing, browserWindow>>
    BY <1>7, <1>e DEF OnClose, windowVars
  <2>2. PICK t \in {"UserClose", "CefClose"} : Receive(t, v)
    BY <1>7 DEF OnClose
  <2> QED
    BY <1>d, <2>1, <2>2
<1>8. ASSUME NEW v \in Window, HandleCustomTask(v) PROVE AgreedInv'
  <2>1. UNCHANGED <<closing, browserWindow>>
    BY <1>8, <1>e DEF HandleCustomTask, windowVars
  <2>2. PICK t \in {"CommandQuit", "CommandUse"} : Receive(t, v)
    BY <1>8 DEF HandleCustomTask
  <2> QED
    BY <1>d, <2>1, <2>2
<1>9. CASE PostQuitMessage
  BY <1>9, <1>d DEF PostQuitMessage, windowVars
<1>10. CASE RunReturns \/ Shutdown \/ (\E v \in Window : OnActivate(v) \/ ParentDestroyed(v))
  <2>1. UNCHANGED <<kind, closing, browserWindow, mainQ>>
    BY <1>10, <1>e
    DEF RunReturns, Shutdown, OnActivate, ParentDestroyed, External, makeVars, windowVars
  <2> QED
    BY <1>c, <2>1
<1>11. ASSUME NEW v \in Window, UserClose(v) \/ HandleCustomMsg(v) PROVE AgreedInv'
  <2>1. v \in Made
    BY <1>11 DEF UserClose, HandleCustomMsg, TypeOK
  <2>2. PICK t \in {"UserClose", "CommandQuit", "CommandUse"} : mainQ' = Append(mainQ, Msg(t, v))
    BY <1>11 DEF UserClose, HandleCustomMsg
  <2>3. Msg(t, v) \in MainMsg(Made) /\ Msg(t, v).t # "CefClose"
    BY <2>1, MessageTypes DEF Msg
  <2>4. mainQ' = mainQ \o <<Msg(t, v)>>
    BY <1>a, <2>2, <2>3, AppendIsConcat
  <2> QED
    BY <1>11, <1>g, <2>3, <2>4 DEF UserClose, HandleCustomMsg, External, makeVars, windowVars
<1>12. CASE OnExit
  <2>1. PICK asked \in Seq(MainMsg(Made)) :
           mainQ' = mainQ \o asked /\ \A i \in 1..Len(asked) : asked[i].t = "UserClose"
    BY <1>12, ExitAsks
  <2>2. UNCHANGED <<kind, closing, browserWindow>>
    BY <1>12 DEF OnExit, External, makeVars, windowVars
  <2>3. \A w \in Made : Heralded(asked, Closing(w), Close(w))
    BY <2>1, NoCloseHeralded
  <2> HIDE DEF Closing, Close
  <2> QED
    BY <1>b, <2>1, <2>2, <2>3
<1>h. ASSUME NEW v \in Made, DoClose(v), UNCHANGED <<kind, closing, browserWindow>>
      PROVE  AgreedInv'
  <2>1. CloseMessages(v) \in Seq(MainMsg(Made)) /\ mainQ' = mainQ \o CloseMessages(v)
    BY <1>h, MessageTypes DEF DoClose, PostToMain, CloseMessages
  <2> QED
    BY <1>b, <1>h, <2>1, CloseHeralded
<1>i. ASSUME NEW v \in Made, NEW t \in {"OnRootWindowCreated", "OnBrowserCreated", "OnBrowserClosed"},
             PostToMain(<<Msg(t, v)>>), UNCHANGED <<kind, closing, browserWindow>>
      PROVE  AgreedInv'
  <2>1. Msg(t, v) \in MainMsg(Made) /\ Msg(t, v).t # "CefClose"
    BY MessageTypes DEF Msg
  <2> QED
    BY <1>g, <1>i, <2>1 DEF PostToMain
<1>j. \A v \in Window : cef[v] # "none" => v \in Made
  BY DEF TypeOK
<1>13. ASSUME NEW v \in Window, OnAfterCreated(v) PROVE AgreedInv'
  <2>1. v \in Made /\ UNCHANGED <<kind, closing, browserWindow>>
    BY <1>13, TakeType DEF OnAfterCreated, TakeUiTask, windowVars, makeVars
  <2> QED
    BY <1>13, <1>c, <1>i, <2>1 DEF OnAfterCreated
<1>14. ASSUME NEW v \in Window, CloseBrowser(v) PROVE AgreedInv'
  <2>1. v \in Made /\ UNCHANGED <<kind, closing, browserWindow>>
    BY <1>14, TakeType DEF CloseBrowser, TakeUiTask, windowVars, makeVars
  <2> QED
    BY <1>14, <1>c, <1>h, <2>1 DEF CloseBrowser
<1>15. ASSUME NEW v \in Window, PageCloses(v) PROVE AgreedInv'
  <2>1. v \in Made /\ UNCHANGED <<kind, closing, browserWindow>>
    BY <1>15, <1>j DEF PageCloses, UiOnly, windowVars, makeVars
  <2> QED
    BY <1>15, <1>h, <2>1 DEF PageCloses
<1>16. ASSUME NEW v \in Window, OnBeforeClose(v) PROVE AgreedInv'
  <2>1. v \in Made /\ UNCHANGED <<kind, closing, browserWindow>>
    BY <1>16, <1>j DEF OnBeforeClose, Live, UiOnly, windowVars, makeVars
  <2> QED
    BY <1>16, <1>i, <2>1 DEF OnBeforeClose
<1>17. ASSUME NEW v \in Window, PopupCreated(v) PROVE AgreedInv'
  <2>1. v \in Made /\ UNCHANGED <<kind, closing, browserWindow>>
    BY <1>17, <1>j DEF PopupCreated, UiOnly, windowVars, makeVars
  <2> QED
    BY <1>17, <1>c, <1>i, <2>1 DEF PopupCreated
<1>18. ASSUME NEW v \in Window, NEW new \in Window, OnOpenURLFromTab(v, new) PROVE AgreedInv'
  <2>1. new \notin Made /\ Made' = Made \cup {new}
    BY <1>18 DEF OnOpenURLFromTab, Made, TypeOK
  <2> QED
    BY <1>18, <1>f, <2>1 DEF OnOpenURLFromTab
<1>19. ASSUME NEW v \in Window, NEW new \in Window, OnBeforePopup(v, new) PROVE AgreedInv'
  <2>1. new \notin Made /\ Made' = Made \cup {new}
    BY <1>19 DEF OnBeforePopup, Made, TypeOK
  <2> QED
    BY <1>19, <1>f, <2>1 DEF OnBeforePopup
<1>20. CASE OnOpenURLFromTabEnds
  <2>1. uiStep.w \in Made
    BY <1>20 DEF OnOpenURLFromTabEnds, TypeOK, UiStep, UiIdle, Msg
  <2> QED
    BY <1>20, <1>i, <2>1 DEF OnOpenURLFromTabEnds, UiOnly, windowVars, makeVars
<1>21. CASE (\E v \in Window : OnBeforeContextMenu(v)) \/ OnBeforeContextMenuEnds
  <2>1. UNCHANGED <<kind, closing, browserWindow, mainQ>>
    BY <1>21 DEF OnBeforeContextMenu, OnBeforeContextMenuEnds, UiOnly, windowVars, makeVars
  <2> QED
    BY <1>c, <2>1
<1>22. CASE CleanupOnUIThread
  <2>1. UNCHANGED <<kind, closing, browserWindow>> /\ mainQ' = mainQ \o <<Msg("Quit", NoWindow)>>
    BY <1>22 DEF CleanupOnUIThread, TakeUiTask, PostToMain, windowVars, makeVars
  <2>2. Msg("Quit", NoWindow) \in MainMsg(Made) /\ Msg("Quit", NoWindow).t # "CefClose"
    BY MessageTypes DEF Msg
  <2> QED
    BY <1>g, <2>1, <2>2
<1>23. CASE UNCHANGED vars
  BY <1>23, <1>c DEF vars, windowVars, makeVars
<1> QED
  BY <1>1, <1>2, <1>3, <1>4, <1>5, <1>6, <1>7, <1>8, <1>9, <1>10, <1>11, <1>12, <1>13,
     <1>14, <1>15, <1>16, <1>17, <1>18, <1>19, <1>20, <1>21, <1>22, <1>23
  DEF Next, MainStep, MainTask, Environment, UiStepForced, UiEvent, BrowserFollowsWindow,
      BrowserGoesFirst

\* The WM_CLOSE that CEF sends once a browser agreed to be closed never makes
\* the root window ask the browser again.
THEOREM AgreedCloseGoesOn == Spec => []AgreedCloseNotCancelled
<1>1. Init => AgreedInv
  BY DEF Init, AgreedInv, Made
<1>2. TypeOK /\ OrderInv /\ AgreedInv /\ [Next]_vars => AgreedInv'
  BY AgreedStep
<1>3. TypeOK /\ AgreedInv => AgreedCloseNotCancelled
  <2> SUFFICES ASSUME TypeOK, AgreedInv, mainQ # <<>>,
                      NEW w, w = Head(mainQ).w, Head(mainQ).t = "CefClose"
               PROVE  ~CloseMustAsk(w)
    BY DEF AgreedCloseNotCancelled
  <2>1. mainQ \in Seq(MainMsg(Made)) /\ Head(mainQ) = Msg("CefClose", w) /\ w \in Made
    <3>1. mainQ \in Seq(MainMsg(Made))
      BY DEF TypeOK
    <3>2. Head(mainQ) \in MainMsg(Made)
      BY <3>1, Received
    <3> QED
      BY <3>1, <3>2 DEF MainMsg, Msg
  <2>2. ~Heralded(mainQ, Msg("OnBrowserClosing", w), Msg("CefClose", w))
    BY <2>1, HeraldedReceived
  <2> QED
    BY <2>1, <2>2 DEF AgreedInv, CloseMustAsk
<1> QED
  BY <1>1, <1>2, <1>3, OrderInvariance, PTL DEF Spec

-----------------------------------------------------------------------------
(* The end of the program.                                                 *)

Gone(w) == w \in windowDestroyed /\ w \in browserDestroyed
AllGone == \A w \in Made : Gone(w)

\* u will be registered when the i-th message is received, and is not gone.
Opens(u, i) ==
    /\ u \notin browserDestroyed
    /\ \A j \in 1..Len(mainQ) : mainQ[j] = Msg("OnBrowserClosed", u) => i < j
    /\ \/ u \in rootWindows
       \/ \E k \in 1..Len(mainQ) : k < i /\ mainQ[k] = Msg("OnRootWindowCreated", u)

\* A window that is to be registered was made from another one, which is
\* registered until then.
OpenerInv ==
    /\ \A i \in 1..Len(mainQ) :
          mainQ[i].t = "OnRootWindowCreated" => \E u \in Window : Opens(u, i)
    /\ uiStep.t = "CreateRootWindow" => \E u \in Window : Live(u)

\* Windows leave the list at their very end.
Kept == \A u : u \in rootWindows /\ u \notin browserDestroyed' => u \in rootWindows'

LEMMA NotifyKeeps ==
    ASSUME NEW v, NotifyDestroyedIfDone(v)
    PROVE  Kept
BY DEF NotifyDestroyedIfDone, OnRootWindowDestroyed, managerVars, Kept

Registered(i) == mainQ[i].t = "OnRootWindowCreated" => \E u \in Window : Opens(u, i)

LEMMA OpenerReceive ==
    ASSUME TypeOK, \A i \in 1..Len(mainQ) : Registered(i), Kept,
           NEW t, NEW v, Receive(t, v),
           t = "OnRootWindowCreated" => v \in rootWindows',
           browserDestroyed' \subseteq browserDestroyed \cup {v},
           t = "OnBrowserClosed" \/ browserDestroyed' = browserDestroyed
    PROVE  (\A i \in 1..Len(mainQ) : Registered(i))'
<1> DEFINE r == mainQ'
<1>1. mainQ \in Seq(MainMsg(Made)) /\ mainQ # <<>> /\ Head(mainQ) = Msg(t, v)
      /\ r = Tail(mainQ)
  BY DEF TypeOK, Receive
<1>2. Len(mainQ) \in Nat \ {0}
  BY <1>1, EmptySeq
<1>3. /\ Len(r) = Len(mainQ) - 1 /\ mainQ[1] = Msg(t, v)
      /\ \A i \in 1..Len(r) : r[i] = mainQ[i + 1]
  BY <1>1, <1>2, HeadTailProperties
<1>4. \A i \in 1..Len(r) : i + 1 \in 1..Len(mainQ) /\ r[i] = mainQ[i + 1]
  BY <1>2, <1>3
<1>5. \A i \in 1..Len(mainQ) : i = 1 \/ (i - 1 \in 1..Len(r) /\ r[i - 1] = mainQ[i])
  BY <1>2, <1>3
<1>6. 1 \in 1..Len(mainQ) /\ Len(r) \in Nat
  BY <1>2, <1>3
<1> HIDE DEF r
<1>7. ASSUME NEW i \in 1..Len(r), r[i].t = "OnRootWindowCreated"
      PROVE  \E u \in Window :
                /\ u \notin browserDestroyed'
                /\ \A j \in 1..Len(r) : r[j] = Msg("OnBrowserClosed", u) => i < j
                /\ \/ u \in rootWindows'
                   \/ \E k \in 1..Len(r) : k < i /\ r[k] = Msg("OnRootWindowCreated", u)
  <2>1. PICK u \in Window : Opens(u, i + 1)
    BY <1>4, <1>7 DEF Registered
  <2>2. ~(t = "OnBrowserClosed" /\ u = v)
    BY <1>3, <1>6, <1>7, <2>1 DEF Opens
  <2>3. u \notin browserDestroyed'
    BY <2>1, <2>2 DEF Opens
  <2>4. \A j \in 1..Len(r) : r[j] = Msg("OnBrowserClosed", u) => i < j
    BY <1>4, <1>6, <1>7, <2>1 DEF Opens
  <2>5. CASE u \in rootWindows
    BY <2>3, <2>4, <2>5 DEF Kept
  <2>6. ASSUME NEW k \in 1..Len(mainQ), k < i + 1, mainQ[k] = Msg("OnRootWindowCreated", u)
        PROVE  \/ u \in rootWindows'
               \/ \E l \in 1..Len(r) : l < i /\ r[l] = Msg("OnRootWindowCreated", u)
    <3>1. CASE k = 1
      BY <1>3, <2>6, <3>1, MsgEqual
    <3>2. CASE k # 1
      <4>1. k - 1 \in 1..Len(r) /\ r[k - 1] = Msg("OnRootWindowCreated", u)
        BY <1>5, <2>6, <3>2
      <4> QED
        BY <1>2, <1>7, <2>6, <4>1
    <3> QED
      BY <3>1, <3>2
  <2> QED
    BY <2>1, <2>3, <2>4, <2>5, <2>6 DEF Opens
<1> QED
  BY <1>7 DEF Registered, Opens, r

\* Posting s, in which a window is to be registered only if somebody opened
\* it and is alive.
LEMMA OpenerPost ==
    ASSUME \A i \in 1..Len(mainQ) : Registered(i), Kept, browserDestroyed' = browserDestroyed,
           NEW W, mainQ \in Seq(MainMsg(W)), NEW s \in Seq(MainMsg(W)), mainQ' = mainQ \o s,
           \/ \A i \in 1..Len(s) : s[i].t # "OnRootWindowCreated"
           \/ /\ Len(s) = 1 /\ s[1].t # "OnBrowserClosed"
              /\ \E u \in Window :
                    /\ u \notin browserDestroyed /\ ~Queued(mainQ, Msg("OnBrowserClosed", u))
                    /\ u \in rootWindows \/ Queued(mainQ, Msg("OnRootWindowCreated", u))
    PROVE  (\A i \in 1..Len(mainQ) : Registered(i))'
<1> DEFINE r == mainQ'
           q == mainQ
<1>1. Len(q) \in Nat /\ Len(s) \in Nat
  BY LenProperties
<1>2. Len(r) = Len(q) + Len(s)
      /\ \A i \in 1..Len(q) + Len(s) :
            r[i] = IF i <= Len(q) THEN q[i] ELSE s[i - Len(q)]
  BY ConcatProperties
<1>3. \A i \in 1..Len(q) : i \in 1..Len(r) /\ r[i] = q[i]
  BY <1>1, <1>2
<1>4. \A i \in 1..Len(r) : \/ i \in 1..Len(q) /\ r[i] = q[i]
                           \/ /\ i - Len(q) \in 1..Len(s) /\ i > Len(q)
                              /\ r[i] = s[i - Len(q)]
  BY <1>1, <1>2
<1>5. Len(r) \in Nat
  BY <1>1, <1>2
<1> HIDE DEF r, q
<1>6. ASSUME NEW i \in 1..Len(r), r[i].t = "OnRootWindowCreated"
      PROVE  \E u \in Window :
                /\ u \notin browserDestroyed'
                /\ \A j \in 1..Len(r) : r[j] = Msg("OnBrowserClosed", u) => i < j
                /\ \/ u \in rootWindows'
                   \/ \E k \in 1..Len(r) : k < i /\ r[k] = Msg("OnRootWindowCreated", u)
  <2>1. CASE i \in 1..Len(q) /\ r[i] = q[i]
    <3>1. PICK u \in Window : Opens(u, i)
      BY <1>6, <2>1 DEF Registered, q
    <3>2. \A j \in 1..Len(r) : r[j] = Msg("OnBrowserClosed", u) => i < j
      <4> SUFFICES ASSUME NEW j \in 1..Len(r), r[j] = Msg("OnBrowserClosed", u)
                   PROVE  i < j
        OBVIOUS
      <4>1. CASE j \in 1..Len(q) /\ r[j] = q[j]
        BY <3>1, <4>1 DEF Opens, q
      <4>2. CASE j > Len(q)
        BY <1>1, <1>5, <2>1, <4>2
      <4> QED
        BY <1>4, <4>1, <4>2
    <3>3. \/ u \in rootWindows
          \/ \E k \in 1..Len(r) : k < i /\ r[k] = Msg("OnRootWindowCreated", u)
      BY <1>3, <3>1 DEF Opens, q
    <3> QED
      BY <3>1, <3>2, <3>3 DEF Opens, Kept
  <2>2. CASE i - Len(q) \in 1..Len(s) /\ i > Len(q) /\ r[i] = s[i - Len(q)]
    <3>1. /\ Len(s) = 1 /\ i = Len(q) + 1 /\ s[1].t # "OnBrowserClosed"
          /\ \E u \in Window :
                /\ u \notin browserDestroyed /\ ~Queued(mainQ, Msg("OnBrowserClosed", u))
                /\ u \in rootWindows \/ Queued(mainQ, Msg("OnRootWindowCreated", u))
      <4>1. s[i - Len(q)].t = "OnRootWindowCreated"
        BY <1>6, <2>2
      <4>2. ~ \A j \in 1..Len(s) : s[j].t # "OnRootWindowCreated"
        BY <2>2, <4>1
      <4>3. /\ Len(s) = 1 /\ s[1].t # "OnBrowserClosed"
            /\ \E u \in Window :
                  /\ u \notin browserDestroyed /\ ~Queued(mainQ, Msg("OnBrowserClosed", u))
                  /\ u \in rootWindows \/ Queued(mainQ, Msg("OnRootWindowCreated", u))
        BY <4>2
      <4>4. i = Len(q) + 1
        BY <1>1, <1>5, <2>2, <4>3
      <4> QED
        BY <4>3, <4>4
    <3>2. PICK u \in Window :
             /\ u \notin browserDestroyed /\ ~Queued(q, Msg("OnBrowserClosed", u))
             /\ u \in rootWindows \/ Queued(q, Msg("OnRootWindowCreated", u))
      BY <3>1 DEF q
    <3>3. ASSUME NEW j \in 1..Len(r) PROVE r[j] # Msg("OnBrowserClosed", u)
      <4>1. CASE j \in 1..Len(q) /\ r[j] = q[j]
        BY <3>2, <4>1 DEF Queued
      <4>2. CASE j - Len(q) \in 1..Len(s) /\ r[j] = s[j - Len(q)]
        BY <3>1, <4>2 DEF Msg
      <4> QED
        BY <1>4, <4>1, <4>2
    <3>4. \/ u \in rootWindows
          \/ \E k \in 1..Len(r) : k < i /\ r[k] = Msg("OnRootWindowCreated", u)
      <4>1. ASSUME NEW k \in 1..Len(q), q[k] = Msg("OnRootWindowCreated", u)
            PROVE  k \in 1..Len(r) /\ k < i /\ r[k] = Msg("OnRootWindowCreated", u)
        BY <1>1, <1>3, <3>1, <4>1
      <4> QED
        BY <3>2, <4>1 DEF Queued
    <3> QED
      BY <3>2, <3>3, <3>4 DEF Kept
  <2> QED
    BY <1>4, <2>1, <2>2
<1> QED
  BY <1>6 DEF Registered, Opens, r

\* A live window is registered, or will be, and its OnBrowserClosed is yet to
\* be posted.
LEMMA LiveOpens ==
    ASSUME TypeOK, OrderInv, NEW u \in Window, Live(u)
    PROVE  /\ u \notin browserDestroyed /\ ~Queued(mainQ, Msg("OnBrowserClosed", u))
           /\ u \in rootWindows \/ Queued(mainQ, Msg("OnRootWindowCreated", u))
<1>1. u \in Made /\ cef[u] \in {"open", "closing"}
  BY DEF TypeOK, Live
<1> QED
  BY <1>1 DEF OrderInv, WindowOrder, CallbackInv, LifeInv, Registering

LEMMA RegisteredStep ==
    ASSUME TypeOK, OrderInv, OpenerInv, [Next]_vars
    PROVE  (\A i \in 1..Len(mainQ) : Registered(i))'
<1> USE WindowAssumption
<1> DEFINE Inv == \A i \in 1..Len(mainQ) : Registered(i)
<1>a. mainQ \in Seq(MainMsg(Made)) /\ Inv
  BY DEF TypeOK, OpenerInv, Registered
<1>b. ASSUME UNCHANGED <<browserDestroyed, mainQ>>, Kept PROVE Inv'
  BY <1>a, <1>b DEF Registered, Opens, Kept
<1>c. ASSUME UNCHANGED <<browserDestroyed, rootWindows>>,
             NEW m \in MainMsg(Made), m.t # "OnRootWindowCreated", mainQ' = mainQ \o <<m>>
      PROVE  Inv'
  <2>1. <<m>> \in Seq(MainMsg(Made)) /\ \A i \in 1..Len(<<m>>) : <<m>>[i].t # "OnRootWindowCreated"
    BY <1>c
  <2>2. Kept
    BY <1>c DEF Kept
  <2> HIDE DEF Inv
  <2> QED
    BY <1>a, <1>c, <2>1, <2>2, OpenerPost DEF Inv
\* The window new is made by, and will be registered for, the live u.
<1>d. ASSUME UNCHANGED <<browserDestroyed, rootWindows>>, Made \subseteq Made', NEW new \in Made',
             NEW t \in {"CreateRootWindow", "OnRootWindowCreated"},
             PostToMain(<<Msg(t, new)>>), NEW u \in Window, Live(u)
      PROVE  Inv'
  <2> DEFINE W == Made'
             s == <<Msg(t, new)>>
  <2>1. mainQ \in Seq(MainMsg(W)) /\ s \in Seq(MainMsg(W)) /\ mainQ' = mainQ \o s
    <3>1. MainMsg(Made) \subseteq MainMsg(W)
      BY <1>d, MessagesGrow
    <3>2. mainQ \in Seq(MainMsg(W))
      BY <1>a, <3>1, SeqMonotonic
    <3>3. Msg(t, new) \in MainMsg(W)
      BY <1>d, MessageTypes
    <3> QED
      BY <1>d, <3>2, <3>3 DEF PostToMain
  <2>2. Len(s) = 1 /\ s[1].t # "OnBrowserClosed"
    BY DEF Msg
  <2>3. /\ u \notin browserDestroyed /\ ~Queued(mainQ, Msg("OnBrowserClosed", u))
        /\ u \in rootWindows \/ Queued(mainQ, Msg("OnRootWindowCreated", u))
    BY <1>d, LiveOpens
  <2>4. Kept
    BY <1>d DEF Kept
  <2> HIDE DEF s, W
  <2> QED
    BY <1>a, <1>d, <2>1, <2>2, <2>3, <2>4, OpenerPost
<1>e. ASSUME NEW t, NEW v, Receive(t, v), Kept, browserDestroyed' = browserDestroyed,
             t # "OnRootWindowCreated"
      PROVE  Inv'
  BY <1>a, <1>e, OpenerReceive
<1>f. ASSUME NEW v \in hwnd, DestroyNativeWindow(v)
      PROVE  browserDestroyed' = browserDestroyed /\ Kept
  BY <1>f, NotifyKeeps DEF DestroyNativeWindow
<1>g. ASSUME rootWindows' = rootWindows PROVE Kept
  BY <1>g DEF Kept
<1>1. CASE RunMain
  <2>1. Made = {}
    BY <1>1 DEF RunMain, OrderInv, ThreadInv
  <2>2. rootWindows = {}
    BY <2>1 DEF TypeOK
  <2> QED
    BY <1>1, <1>b, <2>2 DEF RunMain, Kept
<1>2. ASSUME NEW v \in Window, CreateRootWindow(v) PROVE Inv'
  BY <1>2, <1>e, <1>g DEF CreateRootWindow, managerVars
<1>3. ASSUME NEW v \in Window, OnRootWindowCreated(v) PROVE Inv'
  <2>1. Kept /\ v \in rootWindows' /\ browserDestroyed' = browserDestroyed
    BY <1>3 DEF OnRootWindowCreated, Kept, windowVars
  <2>2. Receive("OnRootWindowCreated", v)
    BY <1>3 DEF OnRootWindowCreated
  <2> QED
    BY <1>a, <2>1, <2>2, OpenerReceive
<1>4. ASSUME NEW v \in Window, OnBrowserCreated(v) PROVE Inv'
  BY <1>4, <1>e, <1>g DEF OnBrowserCreated
<1>5. ASSUME NEW v \in Window, OnBrowserClosing(v) PROVE Inv'
  BY <1>5, <1>e, <1>g DEF OnBrowserClosing, managerVars
<1>6. ASSUME NEW v \in Window, OnBrowserClosed(v) PROVE Inv'
  <2>1. Receive("OnBrowserClosed", v)
    BY <1>6 DEF OnBrowserClosed
  <2>2. Kept /\ browserDestroyed' \subseteq browserDestroyed \cup {v}
    BY <1>6, <1>g, NotifyKeeps DEF OnBrowserClosed, windowVars, managerVars
  <2> QED
    BY <1>a, <2>1, <2>2, OpenerReceive
<1>7. ASSUME NEW v \in Window, OnClose(v) PROVE Inv'
  <2>1. browserDestroyed' = browserDestroyed /\ Kept
    BY <1>7, <1>f, <1>g DEF OnClose, windowVars, managerVars
  <2>2. PICK t \in {"UserClose", "CefClose"} : Receive(t, v)
    BY <1>7 DEF OnClose
  <2> QED
    BY <1>e, <2>1, <2>2
<1>8. ASSUME NEW v \in Window, HandleCustomTask(v) PROVE Inv'
  <2>1. browserDestroyed' = browserDestroyed /\ Kept
    BY <1>8, <1>f, <1>g DEF HandleCustomTask, windowVars, managerVars
  <2>2. PICK t \in {"CommandQuit", "CommandUse"} : Receive(t, v)
    BY <1>8 DEF HandleCustomTask
  <2> QED
    BY <1>e, <2>1, <2>2
<1>9. CASE PostQuitMessage
  BY <1>9, <1>e, <1>g DEF PostQuitMessage, windowVars, managerVars
<1>10. CASE RunReturns \/ Shutdown \/ (\E v \in Window : OnActivate(v) \/ ParentDestroyed(v))
  <2>1. UNCHANGED <<browserDestroyed, mainQ>> /\ Kept
    BY <1>10, <1>f, <1>g
    DEF RunReturns, Shutdown, OnActivate, ParentDestroyed, External, windowVars, managerVars
  <2> QED
    BY <1>b, <2>1
<1>11. ASSUME NEW v \in Window, UserClose(v) \/ HandleCustomMsg(v) PROVE Inv'
  <2>1. v \in Made
    BY <1>11 DEF UserClose, HandleCustomMsg, TypeOK
  <2>2. PICK t \in {"UserClose", "CommandQuit", "CommandUse"} : mainQ' = Append(mainQ, Msg(t, v))
    BY <1>11 DEF UserClose, HandleCustomMsg
  <2>3. Msg(t, v) \in MainMsg(Made) /\ Msg(t, v).t # "OnRootWindowCreated"
    BY <2>1, MessageTypes DEF Msg
  <2>4. mainQ' = mainQ \o <<Msg(t, v)>>
    BY <1>a, <2>2, <2>3, AppendIsConcat
  <2>5. UNCHANGED <<browserDestroyed, rootWindows>>
    BY <1>11 DEF UserClose, HandleCustomMsg, External, windowVars, managerVars
  <2> QED
    BY <1>c, <2>3, <2>4, <2>5
<1>12. CASE OnExit
  <2>1. PICK asked \in Seq(MainMsg(Made)) :
           mainQ' = mainQ \o asked /\ \A i \in 1..Len(asked) : asked[i].t = "UserClose"
    BY <1>12, ExitAsks
  <2>2. browserDestroyed' = browserDestroyed /\ Kept
    BY <1>12, <1>g DEF OnExit, External, windowVars, managerVars
  <2>3. \A i \in 1..Len(asked) : asked[i].t # "OnRootWindowCreated"
    BY <2>1
  <2> QED
    BY <1>a, <2>1, <2>2, <2>3, OpenerPost
<1>h. ASSUME NEW v \in Made, DoClose(v), UNCHANGED <<browserDestroyed, rootWindows>>
      PROVE  Inv'
  <2>1. CloseMessages(v) \in Seq(MainMsg(Made)) /\ mainQ' = mainQ \o CloseMessages(v)
    BY <1>h, MessageTypes DEF DoClose, PostToMain, CloseMessages
  <2>2. \A i \in 1..Len(CloseMessages(v)) : CloseMessages(v)[i].t # "OnRootWindowCreated"
    BY DEF CloseMessages, Msg
  <2> QED
    BY <1>a, <1>g, <1>h, <2>1, <2>2, OpenerPost
<1>i. ASSUME NEW v \in Made, NEW t \in {"OnBrowserCreated", "OnBrowserClosed"},
             PostToMain(<<Msg(t, v)>>), UNCHANGED <<browserDestroyed, rootWindows>>
      PROVE  Inv'
  <2>1. Msg(t, v) \in MainMsg(Made) /\ Msg(t, v).t # "OnRootWindowCreated"
    BY MessageTypes DEF Msg
  <2> QED
    BY <1>c, <1>i, <2>1 DEF PostToMain
<1>j. \A v \in Window : cef[v] # "none" => v \in Made
  BY DEF TypeOK
<1>13. ASSUME NEW v \in Window, OnAfterCreated(v) PROVE Inv'
  <2>1. v \in Made /\ UNCHANGED <<browserDestroyed, rootWindows>>
    BY <1>13, TakeType DEF OnAfterCreated, TakeUiTask, windowVars, managerVars
  <2> QED
    BY <1>13, <1>b, <1>g, <1>i, <2>1 DEF OnAfterCreated
<1>14. ASSUME NEW v \in Window, CloseBrowser(v) PROVE Inv'
  <2>1. v \in Made /\ UNCHANGED <<browserDestroyed, rootWindows>>
    BY <1>14, TakeType DEF CloseBrowser, TakeUiTask, windowVars, managerVars
  <2> QED
    BY <1>14, <1>b, <1>g, <1>h, <2>1 DEF CloseBrowser
<1>15. ASSUME NEW v \in Window, PageCloses(v) PROVE Inv'
  <2>1. v \in Made /\ UNCHANGED <<browserDestroyed, rootWindows>>
    BY <1>15, <1>j DEF PageCloses, UiOnly, windowVars, managerVars
  <2> QED
    BY <1>15, <1>h, <2>1 DEF PageCloses
<1>16. ASSUME NEW v \in Window, OnBeforeClose(v) PROVE Inv'
  <2>1. v \in Made /\ UNCHANGED <<browserDestroyed, rootWindows>>
    BY <1>16, <1>j DEF OnBeforeClose, Live, UiOnly, windowVars, managerVars
  <2> QED
    BY <1>16, <1>i, <2>1 DEF OnBeforeClose
<1>17. ASSUME NEW v \in Window, PopupCreated(v) PROVE Inv'
  <2>1. v \in Made /\ UNCHANGED <<browserDestroyed, rootWindows>>
    BY <1>17, <1>j DEF PopupCreated, UiOnly, windowVars, managerVars
  <2> QED
    BY <1>17, <1>b, <1>g, <1>i, <2>1 DEF PopupCreated
<1>18. ASSUME NEW v \in Window, NEW new \in Window, OnOpenURLFromTab(v, new) PROVE Inv'
  <2>1. new \in Made' /\ Made \subseteq Made'
    BY <1>18 DEF OnOpenURLFromTab, Made, TypeOK
  <2> QED
    BY <1>18, <1>d, <2>1 DEF OnOpenURLFromTab, managerVars
<1>19. ASSUME NEW v \in Window, NEW new \in Window, OnBeforePopup(v, new) PROVE Inv'
  <2>1. new \in Made' /\ Made \subseteq Made'
    BY <1>19 DEF OnBeforePopup, Made, TypeOK
  <2> QED
    BY <1>19, <1>d, <2>1 DEF OnBeforePopup, managerVars
<1>20. CASE OnOpenURLFromTabEnds
  <2>1. uiStep.w \in Made
    BY <1>20 DEF OnOpenURLFromTabEnds, TypeOK, UiStep, UiIdle, Msg
  <2>2. PICK u \in Window : Live(u)
    BY <1>20 DEF OnOpenURLFromTabEnds, OpenerInv
  <2>3. UNCHANGED <<kind, browserDestroyed, rootWindows>>
    BY <1>20 DEF OnOpenURLFromTabEnds, UiOnly, windowVars, managerVars, makeVars
  <2>4. Made' = Made
    BY <2>3 DEF Made
  <2>5. PostToMain(<<Msg("OnRootWindowCreated", uiStep.w)>>)
    BY <1>20 DEF OnOpenURLFromTabEnds
  <2> QED
    BY <1>d, <2>1, <2>2, <2>3, <2>4, <2>5
<1>21. CASE (\E v \in Window : OnBeforeContextMenu(v)) \/ OnBeforeContextMenuEnds
  <2>1. UNCHANGED <<browserDestroyed, rootWindows, mainQ>>
    BY <1>21 DEF OnBeforeContextMenu, OnBeforeContextMenuEnds, UiOnly, windowVars, managerVars
  <2> QED
    BY <1>b, <1>g, <2>1
<1>22. CASE CleanupOnUIThread
  <2>1. /\ UNCHANGED <<browserDestroyed, rootWindows>>
        /\ mainQ' = mainQ \o <<Msg("Quit", NoWindow)>>
    BY <1>22 DEF CleanupOnUIThread, TakeUiTask, PostToMain, windowVars, managerVars
  <2>2. Msg("Quit", NoWindow) \in MainMsg(Made) /\ Msg("Quit", NoWindow).t # "OnRootWindowCreated"
    BY MessageTypes DEF Msg
  <2> QED
    BY <1>c, <2>1, <2>2
<1>23. CASE UNCHANGED vars
  BY <1>23, <1>b, <1>g DEF vars, windowVars, managerVars
<1> QED
  BY <1>1, <1>2, <1>3, <1>4, <1>5, <1>6, <1>7, <1>8, <1>9, <1>10, <1>11, <1>12, <1>13,
     <1>14, <1>15, <1>16, <1>17, <1>18, <1>19, <1>20, <1>21, <1>22, <1>23
  DEF Next, MainStep, MainTask, Environment, UiStepForced, UiEvent, BrowserFollowsWindow,
      BrowserGoesFirst

\* While the UI thread makes a window it does nothing else.
LEMMA OpenerStep ==
    ASSUME TypeOK, OrderInv, OpenerInv, [Next]_vars
    PROVE  OpenerInv'
<1>1. \/ uiStep'.t # "CreateRootWindow"
      \/ UNCHANGED <<uiStep, cef>>
      \/ \E v \in Window : Live(v) /\ Live(v)'
  <2>1. MainStep \/ Environment \/ UNCHANGED vars => UNCHANGED <<uiStep, cef>>
    BY DEF MainStep, MainTask, RunMain, CreateRootWindow, OnRootWindowCreated, OnBrowserCreated,
           OnBrowserClosing, OnBrowserClosed, OnClose, HandleCustomTask, PostQuitMessage,
           RunReturns, Shutdown, Receive, Environment, OnActivate, UserClose, HandleCustomMsg,
           ParentDestroyed, OnExit, External, vars
  <2>2. ASSUME NEW v \in Window, OnAfterCreated(v) \/ CloseBrowser(v)
        PROVE  uiStep'.t # "CreateRootWindow"
    BY <2>2 DEF OnAfterCreated, CloseBrowser, TakeUiTask, UiFree, UiIdle, Msg
  <2>3. ASSUME NEW v \in Window, PageCloses(v) \/ OnBeforeClose(v) \/ PopupCreated(v)
        PROVE  uiStep'.t # "CreateRootWindow"
    BY <2>3 DEF PageCloses, OnBeforeClose, PopupCreated, UiFree, UiIdle, Msg
  <2>4. ASSUME NEW v \in Window, NEW new \in Window, OnOpenURLFromTab(v, new)
        PROVE  Live(v) /\ Live(v)'
    BY <2>4 DEF OnOpenURLFromTab, Live
  <2>5. ASSUME NEW v \in Window, NEW new \in Window, OnBeforePopup(v, new)
        PROVE  uiStep'.t # "CreateRootWindow"
    BY <2>5 DEF OnBeforePopup, UiFree, UiIdle, Msg
  <2>6. OnOpenURLFromTabEnds \/ OnBeforeContextMenuEnds \/ CleanupOnUIThread
        \/ (\E v \in Window : OnBeforeContextMenu(v))
           => uiStep'.t # "CreateRootWindow"
    BY DEF OnOpenURLFromTabEnds, OnBeforeContextMenuEnds, CleanupOnUIThread, TakeUiTask,
           OnBeforeContextMenu, UiFree, UiIdle, Msg
  <2> QED
    BY <2>1, <2>2, <2>3, <2>4, <2>5, <2>6
    DEF Next, UiStepForced, UiEvent, BrowserFollowsWindow, BrowserGoesFirst
<1>2. uiStep'.t = "CreateRootWindow" => \E u \in Window : Live(u)'
  BY <1>1 DEF OpenerInv, Live
<1> QED
  BY <1>2, RegisteredStep DEF OpenerInv, Registered

-----------------------------------------------------------------------------
(* The last window.                                                        *)

LEMMA Smallest ==
    ASSUME NEW T \in SUBSET Nat, T # {}
    PROVE  \E n \in T : \A m \in T : n <= m
<1> DEFINE R == OpToRel(<, Nat)
<1>1. IsWellFoundedOn(R, Nat)
  BY NatLessThanWellFounded
<1>2. \A x, y \in Nat : x < y => <<x, y>> \in R
  BY DEF OpToRel
<1> HIDE DEF R
<1>3. PICK n \in T : \A m \in T : ~(<<m, n>> \in R)
  BY <1>1, WFMin
<1>4. \A m \in T : ~(m < n)
  BY <1>2, <1>3
<1> QED
  BY <1>4

\* When the list is empty no window is left: the first of those that are to be
\* registered was opened by one that is in the list.
LEMMA LastWindow ==
    TypeOK /\ OrderInv /\ OpenerInv /\ rootWindows = {} => AllGone
<1> SUFFICES ASSUME TypeOK, OrderInv, OpenerInv, rootWindows = {},
                    NEW v \in Made, ~Gone(v)
             PROVE  FALSE
  BY DEF AllGone
<1>a. \A w \in Made : WindowOrder(w)
  BY DEF OrderInv
<1> DEFINE T == {i \in 1..Len(mainQ) : mainQ[i].t = "OnRootWindowCreated"}
<1>1. \A w \in Made : ~Gone(w) => Registering(w)
  BY <1>a DEF WindowOrder, LifeInv, Gone
<1>2. \A w : Queued(mainQ, Msg("OnRootWindowCreated", w)) => T # {}
  BY DEF Queued, Msg
<1>3. T # {}
  <2>1. CASE Queued(mainQ, Msg("OnRootWindowCreated", v))
    BY <1>2, <2>1
  <2>2. CASE uiStep = Msg("CreateRootWindow", v)
    <3>1. PICK u \in Window : Live(u)
      BY <2>2 DEF OpenerInv, Msg
    <3>2. rootWindows = {} => Queued(mainQ, Msg("OnRootWindowCreated", u))
      BY <3>1, LiveOpens
    <3> QED
      BY <1>2, <3>2
  <2> QED
    BY <1>1, <2>1, <2>2 DEF Registering
<1>4. PICK n \in T : \A m \in T : n <= m
  <2>1. Len(mainQ) \in Nat
    BY LenProperties DEF TypeOK
  <2>2. T \in SUBSET Nat
    BY <2>1
  <2> HIDE DEF T
  <2> QED
    BY <1>3, <2>2, Smallest
<1>5. PICK u \in Window : Opens(u, n)
  BY <1>4 DEF OpenerInv
<1>6. PICK k \in 1..Len(mainQ) : k < n /\ mainQ[k] = Msg("OnRootWindowCreated", u)
  BY <1>5 DEF Opens
<1>7. k \in T
  BY <1>6 DEF Msg
<1>8. Len(mainQ) \in Nat
  BY LenProperties DEF TypeOK
<1>9. k \in Nat /\ n \in Nat /\ n <= k
  BY <1>4, <1>6, <1>7, <1>8
<1> QED
  BY <1>6, <1>9

Cleanup == Msg("CleanupOnUIThread", NoWindow)
Quit == Msg("Quit", NoWindow)

\* The program is told to quit once, when every window is gone, and nothing
\* happens after that.
QuitInv ==
    /\ hwnd \cap windowDestroyed = {}
    /\ Quitting => AllGone
    /\ Once(uiQ, Cleanup) /\ Once(mainQ, Quit)
    /\ Queued(uiQ, Cleanup) => ~Queued(mainQ, Quit) /\ ~quitFlag
    /\ Queued(mainQ, Quit) => ~quitFlag
    /\ mainPc \in {"returned", "shutdown"} => quitFlag /\ mainQ = <<>>
    /\ mainPc = "start" => ~Quitting

\* Nothing is left to do for a window that is gone.
LEMMA NothingLeft ==
    ASSUME TypeOK, OrderInv, hwnd \cap windowDestroyed = {}, AllGone, NEW w \in Window
    PROVE  /\ w \notin hwnd /\ w \notin rootWindows
           /\ ~Live(w) /\ cef[w] \notin {"open", "closing", "popup"} /\ ~Registering(w)
           /\ \A t \in Callbacks : ~Queued(mainQ, Msg(t, w))
           /\ ~Queued(uiQ, Msg("CreateBrowser", w))
<1>1. CASE w \notin Made
  <2>1. \A t : ~Queued(mainQ, Msg(t, w)) /\ ~Queued(uiQ, Msg(t, w))
    BY <1>1, NothingQueued
  <2>2. cef[w] = "none" /\ w \notin hwnd /\ w \notin rootWindows
    BY <1>1 DEF TypeOK
  <2>3. uiStep # Msg("CreateRootWindow", w)
    <3>1. Msg("CreateRootWindow", w) \notin UiStep(Made)
      BY <1>1, MessageTypes
    <3> QED
      BY <3>1 DEF TypeOK
  <2> QED
    BY <2>1, <2>2, <2>3 DEF Live, Registering
<1>2. CASE w \in Made
  <2>1. WindowOrder(w) /\ w \in windowDestroyed /\ w \in browserDestroyed
    BY <1>2 DEF OrderInv, AllGone, Gone
  <2>2. cef[w] = "closed" /\ ~Registering(w) /\ w \notin rootWindows /\ w \notin delegate
    BY <2>1 DEF WindowOrder, LifeInv
  <2>3. /\ ~Queued(mainQ, Msg("CreateRootWindow", w)) /\ ~Queued(uiQ, Msg("CreateBrowser", w))
    BY <2>1, <2>2 DEF WindowOrder, CreateInv
  <2>4. /\ ~Queued(mainQ, Msg("OnBrowserCreated", w)) /\ ~Queued(mainQ, Msg("OnBrowserClosed", w))
        /\ ~Queued(mainQ, Msg("OnBrowserClosing", w))
    BY <2>1, <2>2 DEF WindowOrder, CallbackInv
  <2> QED
    BY <2>1, <2>2, <2>3, <2>4 DEF Live, Registering, Callbacks
<1> QED
  BY <1>1, <1>2

\* A native window is made once.
LEMMA NativeStep ==
    ASSUME TypeOK, OrderInv, hwnd \cap windowDestroyed = {}, [Next]_vars
    PROVE  (hwnd \cap windowDestroyed = {})'
<1> USE WindowAssumption
<1>a. ASSUME UNCHANGED <<hwnd, windowDestroyed>> PROVE (hwnd \cap windowDestroyed = {})'
  BY <1>a
<1>b. ASSUME NEW v, DestroyNativeWindow(v) PROVE (hwnd \cap windowDestroyed = {})'
  BY <1>b DEF DestroyNativeWindow
<1>c. ASSUME NEW v, v \notin windowDestroyed, hwnd' = hwnd \cup {v}, windowDestroyed' = windowDestroyed
      PROVE  (hwnd \cap windowDestroyed = {})'
  BY <1>c
<1>1. CASE RunMain
  <2>1. Made = {}
    BY <1>1 DEF RunMain, OrderInv, ThreadInv
  <2>2. windowDestroyed = {}
    BY <2>1 DEF TypeOK
  <2> QED
    BY <1>1, <2>2 DEF RunMain
<1>2. ASSUME NEW v \in Window, CreateRootWindow(v) PROVE (hwnd \cap windowDestroyed = {})'
  <2>1. Queued(mainQ, Msg("CreateRootWindow", v)) /\ v \in Made
    BY <1>2, ReceiveSelf, ReceiveType DEF CreateRootWindow
  <2>2. v \notin windowDestroyed
    BY <2>1 DEF OrderInv, WindowOrder, CreateInv, Native
  <2> QED
    BY <1>2, <1>c, <2>2 DEF CreateRootWindow
<1>3. ASSUME NEW v \in Window, OnBrowserCreated(v) PROVE (hwnd \cap windowDestroyed = {})'
  <2>1. Queued(mainQ, Msg("OnBrowserCreated", v)) /\ v \in Made
    BY <1>3, ReceiveSelf, ReceiveType DEF OnBrowserCreated
  <2>2. kind[v] = "popup" => v \notin windowDestroyed
    BY <2>1 DEF OrderInv, WindowOrder, CreateInv, Native
  <2> QED
    BY <1>3, <1>a, <1>c, <2>2 DEF OnBrowserCreated
<1>4. ASSUME NEW v \in Window, OnBrowserClosed(v) PROVE (hwnd \cap windowDestroyed = {})'
  BY <1>4 DEF OnBrowserClosed, windowVars
<1>5. ASSUME NEW v \in Window,
             OnRootWindowCreated(v) \/ OnBrowserClosing(v) \/ OnClose(v) \/ HandleCustomTask(v)
      PROVE  (hwnd \cap windowDestroyed = {})'
  BY <1>5, <1>a, <1>b
  DEF OnRootWindowCreated, OnBrowserClosing, OnClose, HandleCustomTask, windowVars
<1>6. CASE PostQuitMessage \/ RunReturns \/ Shutdown \/ Environment
  BY <1>6, <1>a, <1>b
  DEF PostQuitMessage, RunReturns, Shutdown, Environment, OnActivate, UserClose,
      HandleCustomMsg, ParentDestroyed, OnExit, External, windowVars
<1>7. CASE UiStepForced
  BY <1>7, <1>a
  DEF UiStepForced, OnAfterCreated, CloseBrowser, TakeUiTask, BrowserFollowsWindow,
      OnBeforeClose, PopupCreated, OnOpenURLFromTabEnds, OnBeforeContextMenuEnds,
      CleanupOnUIThread, UiOnly, windowVars
<1>8. CASE UiEvent
  BY <1>8, <1>a
  DEF UiEvent, PageCloses, BrowserGoesFirst, OnBeforeClose, OnBeforeContextMenu,
      OnOpenURLFromTab, OnBeforePopup, UiOnly, windowVars
<1>9. CASE UNCHANGED vars
  BY <1>9, <1>a DEF vars, windowVars
<1> QED
  BY <1>1, <1>2, <1>3, <1>4, <1>5, <1>6, <1>7, <1>8, <1>9 DEF Next, MainStep, MainTask

\* Once it is told to quit, the program only works off its queues.
LEMMA AfterQuit ==
    ASSUME TypeOK, OrderInv, QuitInv, Quitting, (hwnd \cap windowDestroyed = {})', [Next]_vars
    PROVE  QuitInv'
<1> USE WindowAssumption
<1>a. AllGone /\ hwnd \cap windowDestroyed = {} /\ mainPc # "start"
  BY DEF QuitInv
<1>b. \A w \in Window :
        /\ w \notin hwnd /\ w \notin rootWindows
        /\ ~Live(w) /\ cef[w] \notin {"open", "closing", "popup"} /\ ~Registering(w)
        /\ \A t \in Callbacks : ~Queued(mainQ, Msg(t, w))
        /\ ~Queued(uiQ, Msg("CreateBrowser", w))
  BY <1>a, NothingLeft
<1>c. ASSUME UNCHANGED <<kind, windowVars>>,
             Queued(uiQ', Cleanup) => Queued(uiQ, Cleanup), Once(uiQ', Cleanup),
             Queued(mainQ', Quit) => Queued(mainQ, Quit), Once(mainQ', Quit),
             quitFlag' = quitFlag, mainPc' = mainPc, mainQ = <<>> => mainQ' = <<>>
      PROVE  QuitInv'
  <2>1. AllGone'
    BY <1>a, <1>c DEF AllGone, Made, Gone, windowVars
  <2> QED
    BY <1>a, <1>c, <2>1 DEF QuitInv
<1>d. ASSUME UNCHANGED <<kind, windowVars, uiQ, mainQ, quitFlag, mainPc>> PROVE QuitInv'
  BY <1>c, <1>d DEF QuitInv
\* A message whose window is gone.
<1>e. ASSUME NEW t, NEW v, Receive(t, v), UNCHANGED <<windowVars, uiQ, quitFlag>>
      PROVE  QuitInv'
  <2>1. /\ \A m : Queued(mainQ', m) => Queued(mainQ, m)
        /\ \A m : Once(mainQ, m) => Once(mainQ', m)
    BY <1>e, ReceiveSelf
  <2>2. mainQ # <<>> /\ mainPc' = mainPc /\ kind' = kind
    BY <1>e DEF Receive, makeVars
  <2> QED
    BY <1>c, <1>e, <2>1, <2>2 DEF QuitInv
<1>1. ~RunMain
  BY <1>a DEF RunMain
<1>2. ASSUME NEW v \in Window
      PROVE  ~(CreateRootWindow(v) \/ OnRootWindowCreated(v) \/ OnBrowserCreated(v)
               \/ OnBrowserClosing(v) \/ OnBrowserClosed(v))
  <2>1. \A t \in Callbacks : ~Receive(t, v)
    BY <1>b, ReceiveSelf
  <2> QED
    BY <2>1 DEF CreateRootWindow, OnRootWindowCreated, OnBrowserCreated, OnBrowserClosing,
                OnBrowserClosed, Callbacks
<1>3. ASSUME NEW v \in Window, OnClose(v) PROVE QuitInv'
  <2>1. PICK t \in {"UserClose", "CefClose"} : Receive(t, v)
    BY <1>3 DEF OnClose
  <2>2. UNCHANGED <<windowVars, uiQ, quitFlag>>
    BY <1>b, <1>3 DEF OnClose
  <2> QED
    BY <1>e, <2>1, <2>2
<1>4. ASSUME NEW v \in Window, HandleCustomTask(v) PROVE QuitInv'
  <2>1. PICK t \in {"CommandQuit", "CommandUse"} : Receive(t, v)
    BY <1>4 DEF HandleCustomTask
  <2>2. UNCHANGED <<windowVars, uiQ, quitFlag>>
    BY <1>b, <1>4 DEF HandleCustomTask
  <2> QED
    BY <1>e, <2>1, <2>2
<1>5. CASE PostQuitMessage
  <2>1. Receive("Quit", NoWindow)
    BY <1>5 DEF PostQuitMessage
  <2>2. Queued(mainQ, Quit) /\ ~Queued(mainQ', Quit) /\ Once(mainQ', Quit)
    BY <2>1, ReceiveSelf DEF QuitInv, Quit
  <2>3. /\ ~Queued(uiQ', Cleanup) /\ Once(uiQ', Cleanup) /\ mainPc = "loop"
        /\ UNCHANGED <<kind, windowVars, mainPc>> /\ quitFlag'
    BY <1>5, <2>2 DEF PostQuitMessage, Receive, makeVars, QuitInv
  <2>4. AllGone'
    BY <1>a, <2>3 DEF AllGone, Made, Gone, windowVars
  <2> QED
    BY <2>2, <2>3, <2>4 DEF QuitInv
<1>6. CASE RunReturns \/ Shutdown
  <2>1. /\ UNCHANGED <<kind, windowVars, uiQ, mainQ, quitFlag>> /\ quitFlag /\ mainQ = <<>>
        /\ mainPc' \in {"returned", "shutdown"}
    BY <1>6 DEF RunReturns, Shutdown, makeVars, QuitInv
  <2>2. AllGone'
    BY <1>a, <2>1 DEF AllGone, Made, Gone, windowVars
  <2> QED
    BY <2>1, <2>2 DEF QuitInv
<1>7. ~Environment
  <2>1. hwnd = {}
    BY <1>b DEF TypeOK, Made
  <2> QED
    BY <2>1 DEF Environment, OnActivate, UserClose, HandleCustomMsg, ParentDestroyed, OnExit
<1>8. ASSUME NEW v \in Window, OnAfterCreated(v) PROVE FALSE
  BY <1>8, <1>b, TakeSelf DEF OnAfterCreated
<1>9. ASSUME NEW v \in Window, CloseBrowser(v) PROVE QuitInv'
  <2>1. TakeUiTask("CloseBrowser", v) /\ mainQ' = mainQ
    BY <1>b, <1>9 DEF CloseBrowser
  <2>2. \A m : Once(uiQ, m) => Once(uiQ', m)
    BY <2>1, TakeSelf
  <2>3. Queued(uiQ', Cleanup) => Queued(uiQ, Cleanup)
    <3>1. uiQ \in Seq(UiTask(Made)) /\ uiQ # <<>> /\ uiQ' = Tail(uiQ)
      BY <2>1 DEF TypeOK, TakeUiTask
    <3> QED
      BY <3>1, Received
  <2>4. UNCHANGED <<kind, windowVars, quitFlag, mainPc>>
    BY <2>1 DEF TakeUiTask, makeVars
  <2> QED
    BY <1>c, <2>1, <2>2, <2>3, <2>4 DEF QuitInv
<1>10. ASSUME NEW v \in Window
       PROVE  ~(PageCloses(v) \/ OnBeforeClose(v) \/ PopupCreated(v) \/ OnBeforeContextMenu(v))
  BY <1>b DEF PageCloses, OnBeforeClose, PopupCreated, OnBeforeContextMenu
<1>11. ASSUME NEW v \in Window, NEW new \in Window
       PROVE  ~(OnOpenURLFromTab(v, new) \/ OnBeforePopup(v, new))
  BY <1>b DEF OnOpenURLFromTab, OnBeforePopup
<1>12. ~OnOpenURLFromTabEnds
  <2>1. ASSUME OnOpenURLFromTabEnds
        PROVE  \E v \in Window : uiStep = Msg("CreateRootWindow", v)
    BY <2>1 DEF OnOpenURLFromTabEnds, TypeOK, UiStep, UiIdle, Msg, Made
  <2> QED
    BY <1>b, <2>1 DEF Registering
<1>13. CASE OnBeforeContextMenuEnds
  BY <1>13, <1>d DEF OnBeforeContextMenuEnds, UiOnly, makeVars
<1>14. CASE CleanupOnUIThread
  <2>1. TakeUiTask("CleanupOnUIThread", NoWindow) /\ mainQ' = mainQ \o <<Quit>>
    BY <1>14 DEF CleanupOnUIThread, PostToMain, Quit
  <2>2. Queued(uiQ, Cleanup) /\ ~Queued(uiQ', Cleanup) /\ Once(uiQ', Cleanup)
    BY <2>1, TakeSelf DEF QuitInv, Cleanup
  <2>3. ~Queued(mainQ, Quit) /\ ~quitFlag /\ mainPc \notin {"returned", "shutdown"}
    BY <2>2 DEF QuitInv
  <2>4. Once(mainQ', Quit)
    <3>1. mainQ \in Seq(MainMsg(Made)) /\ Quit \in MainMsg(Made)
      BY MessageTypes DEF TypeOK, Quit
    <3> QED
      BY <2>1, <2>3, <3>1, PostedOne
  <2>5. UNCHANGED <<kind, windowVars, quitFlag, mainPc>>
    BY <2>1 DEF TakeUiTask, makeVars
  <2>6. AllGone'
    BY <1>a, <2>5 DEF AllGone, Made, Gone, windowVars
  <2> QED
    BY <1>a, <2>2, <2>3, <2>4, <2>5, <2>6 DEF QuitInv
<1>15. CASE UNCHANGED vars
  BY <1>15, <1>d DEF vars, makeVars
<1> QED
  BY <1>1, <1>2, <1>3, <1>4, <1>5, <1>6, <1>7, <1>8, <1>9, <1>10, <1>11, <1>12, <1>13,
     <1>14, <1>15
  DEF Next, MainStep, MainTask, UiStepForced, UiEvent, BrowserFollowsWindow, BrowserGoesFirst

\* A task given to the UI thread.
LEMMA TaskGiven ==
    ASSUME NEW W, uiQ \in Seq(UiTask(W)), NEW e \in UiTask(W), uiQ' = Append(uiQ, e)
    PROVE  /\ \A m : Queued(uiQ', m) <=> Queued(uiQ, m) \/ m = e
           /\ ~Queued(uiQ, e) => Once(uiQ', e)
<1> DEFINE r == uiQ'
<1>1. r = Append(uiQ, e)
  OBVIOUS
<1> HIDE DEF r
<1>2. /\ \A m : Queued(r, m) <=> Queued(uiQ, m) \/ m = e
      /\ ~Queued(uiQ, e) => Once(r, e)
  BY <1>1, TaskQueued
<1> QED
  BY <1>2 DEF r

\* Until then only the last window posts the clean-up, and it does so once.
LEMMA BeforeQuit ==
    ASSUME TypeOK, OrderInv, QuitInv, ~Quitting, (hwnd \cap windowDestroyed = {})',
           (rootWindows = {} => AllGone)', [Next]_vars
    PROVE  QuitInv'
<1> USE WindowAssumption
<1> DEFINE CalmMain == ~Queued(mainQ', Quit)
           CalmUi == ~Queued(uiQ', Cleanup)
           CalmLoop == ~quitFlag' /\ mainPc' \in {"start", "loop"}
<1>a. /\ ~quitFlag /\ ~Queued(mainQ, Quit) /\ ~Queued(uiQ, Cleanup)
      /\ mainPc \in {"start", "loop"}
      /\ mainQ \in Seq(MainMsg(Made)) /\ uiQ \in Seq(UiTask(Made))
  BY DEF Quitting, Quit, Cleanup, TypeOK
<1>b. ASSUME CalmMain, CalmUi, CalmLoop PROVE QuitInv'
  <2>1. ~Quitting'
    BY <1>b DEF Quitting, Quit, Cleanup
  <2>2. Once(uiQ', Cleanup) /\ Once(mainQ', Quit)
    BY <1>b DEF Once, Queued
  <2> QED
    BY <1>b, <2>1, <2>2 DEF QuitInv
<1>c. ASSUME NEW v, NotifyDestroyedIfDone(v), CalmMain, CalmLoop, mainPc' = "loop"
      PROVE  QuitInv'
  <2>1. CASE uiQ' = uiQ
    BY <1>a, <1>b, <1>c, <2>1
  <2>2. CASE rootWindows' = {} /\ uiQ' = Append(uiQ, Cleanup)
    <3>1. Cleanup \in UiTask(Made)
      BY MessageTypes DEF Cleanup
    <3>2. Once(uiQ', Cleanup)
      BY <1>a, <2>2, <3>1, TaskGiven
    <3>3. Once(mainQ', Quit)
      BY <1>c DEF Once, Queued
    <3> QED
      BY <1>c, <2>2, <3>2, <3>3 DEF QuitInv
  <2> QED
    BY <1>c, <2>1, <2>2
    DEF NotifyDestroyedIfDone, OnRootWindowDestroyed, managerVars, Cleanup
<1>d. ASSUME NEW t, NEW v, Receive(t, v)
      PROVE  CalmMain /\ mainPc' = "loop"
  BY <1>a, <1>d, ReceiveSelf DEF Receive
<1>e. ASSUME NEW W, mainQ \in Seq(MainMsg(W)), NEW s \in Seq(MainMsg(W)), mainQ' = mainQ \o s,
             \A i \in 1..Len(s) : s[i].t # "Quit"
      PROVE  CalmMain
  <2>1. ~Queued(s, Quit)
    BY <1>e DEF Queued, Quit, Msg
  <2> QED
    BY <1>a, <1>e, <2>1, Posted
<1>f. ASSUME NEW v \in Made, NEW t \in {"CreateBrowser", "CloseBrowser"},
             uiQ' = Append(uiQ, Msg(t, v))
      PROVE  CalmUi
  <2>1. Msg(t, v) \in UiTask(Made) /\ Msg(t, v) # Cleanup
    BY <1>f, MessageTypes DEF Msg, Cleanup
  <2> QED
    BY <1>a, <1>f, <2>1, TaskGiven
<1>g. ASSUME NEW t, NEW v, TakeUiTask(t, v)
      PROVE  CalmUi /\ CalmLoop /\ UNCHANGED kind
  <2>1. uiQ # <<>> /\ uiQ' = Tail(uiQ)
    BY <1>g DEF TakeUiTask
  <2> QED
    BY <1>a, <1>g, <2>1, Received DEF TakeUiTask, makeVars
\* Posting one message to the main thread.
<1>h. ASSUME Made \subseteq Made', NEW v \in Made',
             NEW t \in {"CreateRootWindow", "OnRootWindowCreated", "OnBrowserCreated",
                        "OnBrowserClosed", "UserClose", "CommandQuit", "CommandUse"},
             \/ PostToMain(<<Msg(t, v)>>) \/ mainQ' = Append(mainQ, Msg(t, v))
      PROVE  CalmMain
  <2>1. MainMsg(Made) \subseteq MainMsg(Made')
    BY <1>h, MessagesGrow
  <2>2. mainQ \in Seq(MainMsg(Made')) /\ Msg(t, v) \in MainMsg(Made')
    BY <1>a, <1>h, <2>1, SeqMonotonic, MessageTypes
  <2>3. Msg(t, v) # Quit
    BY <1>h DEF Msg, Quit
  <2>4. mainQ' = mainQ \o <<Msg(t, v)>>
    BY <1>h, <2>2, AppendIsConcat DEF PostToMain
  <2>5. \A m : Queued(mainQ \o <<Msg(t, v)>>, m) <=> Queued(mainQ, m) \/ m = Msg(t, v)
    BY <2>2, PostedOne
  <2> QED
    BY <1>a, <2>3, <2>4, <2>5
<1>i. ASSUME NEW v \in Made, DoClose(v) PROVE CalmMain
  <2>1. CloseMessages(v) \in Seq(MainMsg(Made)) /\ mainQ' = mainQ \o CloseMessages(v)
    BY <1>i, MessageTypes DEF DoClose, PostToMain, CloseMessages
  <2>2. \A i \in 1..Len(CloseMessages(v)) : CloseMessages(v)[i].t # "Quit"
    BY DEF CloseMessages, Msg
  <2> QED
    BY <1>a, <1>e, <2>1, <2>2
<1>j. ASSUME UiOnly \/ UNCHANGED <<mainPc, quitFlag>> PROVE CalmLoop
  BY <1>a, <1>j DEF UiOnly
<1>k. ASSUME UNCHANGED mainQ PROVE CalmMain
  BY <1>a, <1>k
<1>l. ASSUME UNCHANGED uiQ PROVE CalmUi
  BY <1>a, <1>l
<1>m. ASSUME UNCHANGED kind PROVE Made' = Made
  BY <1>m DEF Made
<1>n. \A v \in Window : v \in hwnd \/ cef[v] # "none" => v \in Made
  BY DEF TypeOK
<1> HIDE DEF CalmMain, CalmUi, CalmLoop

<1>1. CASE RunMain
  <2>1. CalmMain /\ CalmLoop
    BY <1>1, <1>a, <1>k DEF RunMain, CalmLoop
  <2>2. CalmUi
    <3>1. UiTask(Made) \subseteq UiTask({First} \cup Made)
      BY MessagesGrow
    <3>2. uiQ \in Seq(UiTask({First} \cup Made))
      BY <1>a, <3>1, SeqMonotonic
    <3>3. Msg("CreateBrowser", First) \in UiTask({First} \cup Made)
          /\ Msg("CreateBrowser", First) # Cleanup
      BY MessageTypes DEF Msg, Cleanup
    <3>4. uiQ' = Append(uiQ, Msg("CreateBrowser", First))
      BY <1>1 DEF RunMain
    <3> QED
      BY <1>a, <3>2, <3>3, <3>4, TaskGiven DEF CalmUi
  <2> QED
    BY <1>b, <2>1, <2>2
\* Callbacks and commands whose window stays.
<1>2. ASSUME NEW v \in Window, CreateRootWindow(v) PROVE QuitInv'
  <2>1. Receive("CreateRootWindow", v) /\ v \in Made
    BY <1>2, ReceiveType DEF CreateRootWindow
  <2>2. CalmUi
    BY <1>2, <1>f, <2>1 DEF CreateRootWindow
  <2> QED
    BY <1>2, <1>b, <1>d, <1>j, <2>1, <2>2 DEF CreateRootWindow, Receive
<1>3. ASSUME NEW v \in Window, OnRootWindowCreated(v) \/ OnBrowserCreated(v) \/ OnBrowserClosing(v)
      PROVE  QuitInv'
  <2>1. PICK t : Receive(t, v)
    BY <1>3 DEF OnRootWindowCreated, OnBrowserCreated, OnBrowserClosing
  <2>2. UNCHANGED <<uiQ, quitFlag, mainPc>>
    BY <1>3, <2>1 DEF OnRootWindowCreated, OnBrowserCreated, OnBrowserClosing, Receive
  <2> QED
    BY <1>b, <1>d, <1>j, <1>l, <2>1, <2>2
\* The steps that may end a window.
<1>4. ASSUME NEW v \in Window, OnBrowserClosed(v) PROVE QuitInv'
  <2>1. Receive("OnBrowserClosed", v) /\ UNCHANGED <<quitFlag, mainPc>>
    BY <1>4 DEF OnBrowserClosed, Receive
  <2>2. NotifyDestroyedIfDone(v) \/ UNCHANGED uiQ
    BY <1>4 DEF OnBrowserClosed
  <2> QED
    BY <1>b, <1>c, <1>d, <1>j, <1>l, <2>1, <2>2
<1>5. ASSUME NEW v \in Window, OnClose(v) PROVE QuitInv'
  <2>1. PICK t \in {"UserClose", "CefClose"} : Receive(t, v)
    BY <1>5 DEF OnClose
  <2>2. UNCHANGED <<quitFlag, mainPc>>
    BY <1>5, <2>1 DEF OnClose, Receive
  <2>3. \/ UNCHANGED uiQ
        \/ v \in hwnd /\ uiQ' = Append(uiQ, Msg("CloseBrowser", v))
        \/ NotifyDestroyedIfDone(v)
    BY <1>5 DEF OnClose, DestroyNativeWindow
  <2> QED
    BY <1>b, <1>c, <1>d, <1>f, <1>j, <1>l, <1>n, <2>1, <2>2, <2>3
<1>6. ASSUME NEW v \in Window, HandleCustomTask(v) PROVE QuitInv'
  <2>1. PICK t : Receive(t, v)
    BY <1>6 DEF HandleCustomTask
  <2>2. UNCHANGED <<quitFlag, mainPc>>
    BY <1>6, <2>1 DEF HandleCustomTask, Receive
  <2>3. UNCHANGED uiQ \/ NotifyDestroyedIfDone(v)
    BY <1>6 DEF HandleCustomTask, DestroyNativeWindow
  <2> QED
    BY <1>b, <1>c, <1>d, <1>j, <1>l, <2>1, <2>2, <2>3
<1>7. ~(PostQuitMessage \/ RunReturns \/ Shutdown \/ CleanupOnUIThread)
  <2>1. ~Receive("Quit", NoWindow)
    BY <1>a, ReceiveSelf DEF Quit
  <2>2. ~TakeUiTask("CleanupOnUIThread", NoWindow)
    BY <1>a, TakeSelf DEF Cleanup
  <2> QED
    BY <1>a, <2>1, <2>2 DEF PostQuitMessage, RunReturns, Shutdown, CleanupOnUIThread
\* What reaches the main thread from outside.
<1>8. ASSUME NEW v \in Window, ParentDestroyed(v) PROVE QuitInv'
  <2>1. NotifyDestroyedIfDone(v) /\ UNCHANGED <<quitFlag, mainPc, mainQ>> /\ mainPc = "loop"
    BY <1>8 DEF ParentDestroyed, DestroyNativeWindow
  <2> QED
    BY <1>c, <1>j, <1>k, <2>1
<1>9. ASSUME NEW v \in Window, OnActivate(v) PROVE QuitInv'
  <2>1. UNCHANGED <<quitFlag, mainPc, mainQ, uiQ>>
    BY <1>9 DEF OnActivate, External
  <2> QED
    BY <1>b, <1>j, <1>k, <1>l, <2>1
<1>10. ASSUME NEW v \in Window, UserClose(v) \/ HandleCustomMsg(v) PROVE QuitInv'
  <2>1. UNCHANGED <<kind, quitFlag, mainPc, uiQ>> /\ v \in Made
    BY <1>10, <1>n DEF UserClose, HandleCustomMsg, External, makeVars
  <2>2. Made' = Made
    BY <1>m, <2>1
  <2>3. PICK t \in {"UserClose", "CommandQuit", "CommandUse"} : mainQ' = Append(mainQ, Msg(t, v))
    BY <1>10 DEF UserClose, HandleCustomMsg
  <2>4. CalmMain
    BY <1>h, <2>1, <2>2, <2>3
  <2> QED
    BY <1>b, <1>j, <1>l, <2>1, <2>4
<1>11. CASE OnExit
  <2>1. PICK asked \in Seq(MainMsg(Made)) :
           mainQ' = mainQ \o asked /\ \A i \in 1..Len(asked) : asked[i].t = "UserClose"
    BY <1>11, ExitAsks
  <2>2. \A i \in 1..Len(asked) : asked[i].t # "Quit"
    BY <2>1
  <2>3. CalmMain
    BY <1>a, <1>e, <2>1, <2>2
  <2>4. UNCHANGED <<quitFlag, mainPc, uiQ>>
    BY <1>11 DEF OnExit, External
  <2> QED
    BY <1>b, <1>j, <1>l, <2>3, <2>4
\* The UI thread.
<1>12. ASSUME NEW v \in Window, OnAfterCreated(v) \/ CloseBrowser(v) PROVE QuitInv'
  <2>1. PICK t \in {"CreateBrowser", "CloseBrowser"} : TakeUiTask(t, v)
    BY <1>12 DEF OnAfterCreated, CloseBrowser
  <2>2. v \in Made /\ Made' = Made /\ CalmUi /\ CalmLoop
    BY <1>g, <1>m, <2>1, TakeType
  <2>3. UNCHANGED mainQ \/ PostToMain(<<Msg("OnBrowserCreated", v)>>) \/ DoClose(v)
    BY <1>12 DEF OnAfterCreated, CloseBrowser
  <2>4. CalmMain
    BY <1>h, <1>i, <1>k, <2>2, <2>3
  <2> QED
    BY <1>b, <2>2, <2>4
<1>13. ASSUME NEW v \in Window,
              PageCloses(v) \/ OnBeforeClose(v) \/ PopupCreated(v) \/ OnBeforeContextMenu(v)
       PROVE  QuitInv'
  <2>1. v \in Made /\ UiOnly /\ UNCHANGED <<kind, uiQ>>
    BY <1>13, <1>n
    DEF PageCloses, OnBeforeClose, PopupCreated, OnBeforeContextMenu, Live, makeVars
  <2>2. \/ UNCHANGED mainQ \/ DoClose(v)
        \/ \E t \in {"OnBrowserCreated", "OnBrowserClosed"} : PostToMain(<<Msg(t, v)>>)
    BY <1>13 DEF PageCloses, OnBeforeClose, PopupCreated, OnBeforeContextMenu
  <2>3. Made' = Made
    BY <1>m, <2>1
  <2>4. CalmMain
    BY <1>h, <1>i, <1>k, <2>1, <2>2, <2>3
  <2> QED
    BY <1>b, <1>j, <1>l, <2>1, <2>4
<1>14. ASSUME NEW v \in Window, NEW new \in Window, OnOpenURLFromTab(v, new) \/ OnBeforePopup(v, new)
       PROVE  QuitInv'
  <2>1. new \in Made' /\ Made \subseteq Made' /\ UNCHANGED <<quitFlag, mainPc, uiQ>>
    BY <1>14 DEF OnOpenURLFromTab, OnBeforePopup, Made, TypeOK
  <2>2. PICK t \in {"CreateRootWindow", "OnRootWindowCreated"} : PostToMain(<<Msg(t, new)>>)
    BY <1>14 DEF OnOpenURLFromTab, OnBeforePopup
  <2>3. CalmMain
    BY <1>h, <2>1, <2>2
  <2> QED
    BY <1>b, <1>j, <1>l, <2>1, <2>3
<1>15. CASE OnOpenURLFromTabEnds
  <2>1. uiStep.w \in Made /\ UNCHANGED <<kind, uiQ>> /\ UiOnly
    BY <1>15 DEF OnOpenURLFromTabEnds, TypeOK, UiStep, UiIdle, Msg, makeVars
  <2>2. Made' = Made
    BY <1>m, <2>1
  <2>3. CalmMain
    BY <1>15, <1>h, <2>1, <2>2 DEF OnOpenURLFromTabEnds
  <2> QED
    BY <1>b, <1>j, <1>l, <2>1, <2>3
<1>16. CASE OnBeforeContextMenuEnds \/ UNCHANGED vars
  <2>1. UNCHANGED <<quitFlag, mainPc, mainQ, uiQ>>
    BY <1>16 DEF OnBeforeContextMenuEnds, UiOnly, vars
  <2> QED
    BY <1>b, <1>j, <1>k, <1>l, <2>1
<1> QED
  BY <1>1, <1>2, <1>3, <1>4, <1>5, <1>6, <1>7, <1>8, <1>9, <1>10, <1>11, <1>12, <1>13,
     <1>14, <1>15, <1>16
  DEF Next, MainStep, MainTask, Environment, UiStepForced, UiEvent, BrowserFollowsWindow,
      BrowserGoesFirst

LEMMA QuitInvariance == Spec => [](TypeOK /\ OrderInv /\ OpenerInv /\ QuitInv)
<1>1. Init => TypeOK /\ OrderInv /\ OpenerInv /\ QuitInv
  <2> SUFFICES ASSUME Init PROVE OpenerInv /\ QuitInv
    BY InitType, OrderInit
  <2>1. mainQ = <<>> /\ uiQ = <<>> /\ Len(mainQ) = 0 /\ Len(uiQ) = 0
    BY DEF Init
  <2>2. \A m : ~Queued(mainQ, m) /\ ~Queued(uiQ, m) /\ Once(mainQ, m) /\ Once(uiQ, m)
    BY <2>1 DEF Queued, Once
  <2>3. OpenerInv
    BY <2>1 DEF Init, OpenerInv, UiIdle, Msg
  <2>4. ~Quitting
    BY <2>2 DEF Init, Quitting
  <2> QED
    BY <2>2, <2>3, <2>4 DEF Init, QuitInv
<1>2. /\ TypeOK /\ OrderInv /\ OpenerInv /\ QuitInv /\ [Next]_vars
      /\ (TypeOK /\ OrderInv /\ OpenerInv /\ rootWindows = {} => AllGone)'
      => (TypeOK /\ OrderInv /\ OpenerInv /\ QuitInv)'
  <2> SUFFICES ASSUME TypeOK, OrderInv, OpenerInv, QuitInv, [Next]_vars,
                      (TypeOK /\ OrderInv /\ OpenerInv /\ rootWindows = {} => AllGone)'
               PROVE  (TypeOK /\ OrderInv /\ OpenerInv /\ QuitInv)'
    OBVIOUS
  <2>1. TypeOK' /\ OrderInv' /\ OpenerInv'
    BY TypeStep, OrderStep, OpenerStep
  <2>2. (rootWindows = {} => AllGone)'
    BY <2>1
  <2>3. (hwnd \cap windowDestroyed = {})'
    BY NativeStep DEF QuitInv
  <2>4. QuitInv'
    BY <2>2, <2>3, AfterQuit, BeforeQuit
  <2> QED
    BY <2>1, <2>4
<1> QED
  BY <1>1, <1>2, LastWindow, PTL DEF Spec

\* The main loop is told to quit only when no window is left or on its way,
\* and nothing is posted to the main thread once Run() has returned.
THEOREM QuitsAfterLastWindow == Spec => []QuitAfterLastWindow
<1>1. TypeOK /\ OrderInv /\ OpenerInv /\ QuitInv => QuitAfterLastWindow
  <2> SUFFICES ASSUME TypeOK, OrderInv, QuitInv PROVE QuitAfterLastWindow
    OBVIOUS
  <2>1. ASSUME Quitting
        PROVE  /\ rootWindows = {}
               /\ \A w \in Made : ~Registering(w) /\ ~Live(w) /\ cef[w] # "popup"
    <3>1. \A w \in Window :
             w \notin rootWindows /\ ~Registering(w) /\ ~Live(w) /\ cef[w] # "popup"
      BY <2>1, NothingLeft DEF QuitInv
    <3> QED
      BY <3>1 DEF TypeOK, Made
  <2> QED
    BY <2>1 DEF QuitAfterLastWindow, QuitInv
<1> QED
  BY <1>1, QuitInvariance, PTL

-----------------------------------------------------------------------------
(* The temporary window.                                                   *)

NeedsParent(w) == kind[w] = "popup" /\ cef[w] \in {"popup", "open", "closing"}

\* A native window that was made stays made, or destroyed.
LEMMA NativeGrows ==
    ASSUME TypeOK, OrderInv, [Next]_vars
    PROVE  hwnd \cup windowDestroyed \subseteq hwnd' \cup windowDestroyed'
<1> DEFINE Grows == hwnd \cup windowDestroyed \subseteq hwnd' \cup windowDestroyed'
<1>a. ASSUME UNCHANGED windowVars PROVE Grows
  BY <1>a DEF windowVars
<1>b. ASSUME NEW v, DestroyNativeWindow(v) PROVE Grows
  BY <1>b DEF DestroyNativeWindow
<1>1. CASE RunMain
  <2>1. Made = {}
    BY <1>1 DEF RunMain, OrderInv, ThreadInv
  <2> QED
    BY <2>1 DEF TypeOK
<1>2. ASSUME NEW v \in Window, MainTask(v) PROVE Grows
  BY <1>2, <1>a, <1>b
  DEF MainTask, CreateRootWindow, OnRootWindowCreated, OnBrowserCreated, OnBrowserClosing,
      OnBrowserClosed, OnClose, HandleCustomTask, windowVars
<1>3. CASE PostQuitMessage \/ RunReturns \/ Shutdown \/ Environment
  BY <1>3, <1>a, <1>b
  DEF PostQuitMessage, RunReturns, Shutdown, Environment, OnActivate, UserClose,
      HandleCustomMsg, ParentDestroyed, OnExit, External
<1>4. CASE UiStepForced \/ UiEvent
  BY <1>4, <1>a
  DEF UiStepForced, OnAfterCreated, CloseBrowser, TakeUiTask, BrowserFollowsWindow,
      OnBeforeClose, PopupCreated, OnOpenURLFromTabEnds, OnBeforeContextMenuEnds,
      CleanupOnUIThread, UiEvent, PageCloses, BrowserGoesFirst, OnBeforeContextMenu,
      OnOpenURLFromTab, OnBeforePopup, UiOnly, windowVars
<1>5. CASE UNCHANGED vars
  BY <1>5, <1>a DEF vars
<1> QED
  BY <1>1, <1>2, <1>3, <1>4, <1>5 DEF Next, MainStep

\* A popup comes to need a parent only in OnBeforePopup, which makes one, and
\* the parent goes only with the last window.
LEMMA TempStep ==
    ASSUME TypeOK, OrderInv, QuitInv, [Next]_vars
    PROVE  /\ \A w \in Window : NeedsParent(w)' => NeedsParent(w) \/ tempWindow'
           /\ tempWindow => tempWindow' \/ \A w \in Window : ~NeedsParent(w)'
<1> USE WindowAssumption
<1> DEFINE Result == /\ \A w \in Window : NeedsParent(w)' => NeedsParent(w) \/ tempWindow'
                     /\ tempWindow => tempWindow' \/ \A w \in Window : ~NeedsParent(w)'
<1>a. ASSUME UNCHANGED <<kind, cef, tempWindow>> PROVE Result
  BY <1>a DEF NeedsParent
\* A browser that lives on, or ends.
<1>b. ASSUME NEW v \in Window, UNCHANGED <<kind, tempWindow>>, NEW c,
             cef' = [cef EXCEPT ![v] = c],
             NeedsParent(v) \/ kind[v] # "popup" \/ c \notin {"popup", "open", "closing"}
      PROVE  Result
  BY <1>b DEF NeedsParent, TypeOK
<1>c. ASSUME NEW v \in Window, DoClose(v), Live(v), UNCHANGED <<kind, tempWindow>>
      PROVE  Result
  BY <1>c, <1>b DEF DoClose, NeedsParent, Live
<1>1. CASE RunMain
  <2>1. \A w \in Window : cef'[w] = "none" /\ UNCHANGED tempWindow
    BY <1>1 DEF RunMain, OrderInv, ThreadInv, Made, TypeOK
  <2> QED
    BY <2>1 DEF NeedsParent
<1>2. CASE (\E v \in Window : MainTask(v)) \/ PostQuitMessage
  <2>1. PICK t, v : Receive(t, v)
    BY <1>2
    DEF MainTask, CreateRootWindow, OnRootWindowCreated, OnBrowserCreated, OnBrowserClosing,
        OnBrowserClosed, OnClose, HandleCustomTask, PostQuitMessage
  <2> QED
    BY <2>1, <1>a DEF Receive, makeVars
<1>3. CASE RunReturns \/ Shutdown \/ Environment \/ UNCHANGED vars
  BY <1>3, <1>a
  DEF RunReturns, Shutdown, Environment, OnActivate, UserClose, HandleCustomMsg,
      ParentDestroyed, OnExit, External, makeVars, vars
<1>4. ASSUME NEW v \in Window, OnAfterCreated(v) PROVE Result
  <2>1. Queued(uiQ, Msg("CreateBrowser", v)) /\ v \in Made
    BY <1>4, TakeSelf, TakeType DEF OnAfterCreated
  <2>2. kind[v] # "popup"
    BY <2>1 DEF OrderInv, WindowOrder, CreateInv
  <2> QED
    BY <1>4, <1>b, <2>2 DEF OnAfterCreated, TakeUiTask, makeVars
<1>5. ASSUME NEW v \in Window, CloseBrowser(v) PROVE Result
  BY <1>5, <1>a, <1>c DEF CloseBrowser, TakeUiTask, makeVars
<1>6. ASSUME NEW v \in Window, PageCloses(v) PROVE Result
  BY <1>6, <1>c DEF PageCloses, Live, makeVars
<1>7. ASSUME NEW v \in Window, OnBeforeClose(v) PROVE Result
  BY <1>7, <1>b DEF OnBeforeClose, makeVars
<1>8. ASSUME NEW v \in Window, PopupCreated(v) PROVE Result
  BY <1>8, <1>b DEF PopupCreated, makeVars, NeedsParent
<1>9. ASSUME NEW v \in Window, NEW new \in Window, OnOpenURLFromTab(v, new) PROVE Result
  BY <1>9 DEF OnOpenURLFromTab, NeedsParent, TypeOK
<1>10. ASSUME NEW v \in Window, NEW new \in Window, OnBeforePopup(v, new) PROVE Result
  BY <1>10 DEF OnBeforePopup
<1>11. CASE (\E v \in Window : OnBeforeContextMenu(v)) \/ OnOpenURLFromTabEnds
            \/ OnBeforeContextMenuEnds
  BY <1>11, <1>a
  DEF OnBeforeContextMenu, OnOpenURLFromTabEnds, OnBeforeContextMenuEnds, makeVars
<1>12. CASE CleanupOnUIThread
  <2>1. Quitting
    BY <1>12, TakeSelf DEF CleanupOnUIThread, Quitting
  <2>2. \A w \in Window : ~NeedsParent(w)
    BY <2>1, NothingLeft DEF QuitInv, NeedsParent
  <2> QED
    BY <1>12, <2>2 DEF CleanupOnUIThread, TakeUiTask, makeVars, NeedsParent
<1> QED
  BY <1>1, <1>2, <1>3, <1>4, <1>5, <1>6, <1>7, <1>8, <1>9, <1>10, <1>11, <1>12
  DEF Next, MainStep, UiStepForced, UiEvent, BrowserFollowsWindow, BrowserGoesFirst

\* The temporary window is there as long as the browser of a popup has no root
\* window of its own to be in.
THEOREM TempWindowStays == Spec => []TempWindowOutlivesPopups
<1> DEFINE Inv == \A w \in Window : NeedsParent(w) => tempWindow \/ Native(w)
<1>1. Init => Inv
  BY DEF Init, NeedsParent
<1>2. TypeOK /\ OrderInv /\ QuitInv /\ Inv /\ [Next]_vars => Inv'
  BY NativeGrows, TempStep DEF Native
<1>3. Inv => TempWindowOutlivesPopups
  BY DEF TempWindowOutlivesPopups, NeedsParent, Native, Made
<1> HIDE DEF Inv
<1> QED
  BY <1>1, <1>2, <1>3, QuitInvariance, PTL DEF Spec


-----------------------------------------------------------------------------
(* What the host can tell: the two threads implement a ClientProgram.      *)

\* A browser that is closed has no native window any more.
LEMMA ClosedStep ==
    ASSUME TypeOK, OrderInv, browserDestroyed \subseteq windowDestroyed, [Next]_vars
    PROVE  (browserDestroyed \subseteq windowDestroyed)'
<1> DEFINE Result == (browserDestroyed \subseteq windowDestroyed)'
<1>a. ASSUME UNCHANGED <<browserDestroyed, windowDestroyed>> PROVE Result
  BY <1>a
<1>b. ASSUME NEW v, DestroyNativeWindow(v) PROVE Result
  BY <1>b DEF DestroyNativeWindow
<1>1. CASE RunMain \/ PostQuitMessage \/ RunReturns \/ Shutdown \/ Environment
  BY <1>1, <1>a, <1>b
  DEF RunMain, PostQuitMessage, RunReturns, Shutdown, Environment, OnActivate, UserClose,
      HandleCustomMsg, ParentDestroyed, OnExit, External, windowVars
<1>2. ASSUME NEW v \in Window, OnBrowserClosed(v) PROVE Result
  <2>1. Queued(mainQ, Msg("OnBrowserClosed", v)) /\ v \in Made
    BY <1>2, ReceiveSelf, ReceiveType DEF OnBrowserClosed
  <2>2. \A a : Before(mainQ, a, Msg("OnBrowserClosed", v)) => ~Queued(mainQ, a)
    BY <1>2, ReceiveSelf DEF OnBrowserClosed
  <2>3. Native(v)
    BY <2>1, <2>2 DEF OrderInv, WindowOrder, CallbackInv
  <2> QED
    BY <1>2, <2>3 DEF OnBrowserClosed, Native, windowVars
<1>3. ASSUME NEW v \in Window, MainTask(v), ~OnBrowserClosed(v) PROVE Result
  BY <1>3, <1>a, <1>b
  DEF MainTask, CreateRootWindow, OnRootWindowCreated, OnBrowserCreated, OnBrowserClosing,
      OnClose, HandleCustomTask, windowVars
<1>4. CASE UiStepForced \/ UiEvent
  BY <1>4, <1>a
  DEF UiStepForced, OnAfterCreated, CloseBrowser, TakeUiTask, BrowserFollowsWindow,
      OnBeforeClose, PopupCreated, OnOpenURLFromTabEnds, OnBeforeContextMenuEnds,
      CleanupOnUIThread, UiEvent, PageCloses, BrowserGoesFirst, OnBeforeContextMenu,
      OnOpenURLFromTab, OnBeforePopup, UiOnly, windowVars
<1>5. CASE UNCHANGED vars
  BY <1>5, <1>a DEF vars, windowVars
<1> QED
  BY <1>1, <1>2, <1>3, <1>4, <1>5 DEF Next, MainStep

LEMMA ClosedInvariance ==
    Spec => [](TypeOK /\ OrderInv /\ OpenerInv /\ QuitInv
               /\ browserDestroyed \subseteq windowDestroyed)
<1>1. Init => browserDestroyed \subseteq windowDestroyed
  BY DEF Init
<1>2. TypeOK /\ OrderInv /\ browserDestroyed \subseteq windowDestroyed /\ [Next]_vars
      => (browserDestroyed \subseteq windowDestroyed)'
  BY ClosedStep
<1> QED
  BY <1>1, <1>2, QuitInvariance, PTL DEF Spec

\* The windows as the host has them.
ClientWindows == [w \in Window |-> ClientWindow(w)]

\* What the invariants leave of the cases of ClientWindow.
LEMMA ClientWindowIs ==
    ASSUME TypeOK, hwnd \cap windowDestroyed = {}, browserDestroyed \subseteq windowDestroyed,
           NEW w \in Window
    PROVE  /\ ClientWindow(w) = "none" <=> w \notin Made
           /\ ClientWindow(w) = "shown" <=> w \in hwnd
           /\ ClientWindow(w) = "gone" <=> w \in browserDestroyed
           /\ ClientWindow(w) = "hidden" <=> w \in windowDestroyed /\ w \notin browserDestroyed
           /\ ClientWindow(w) = "coming" <=> w \in Made /\ ~Native(w)
BY DEF ClientWindow, Native, TypeOK

LEMMA ClientWindowSame ==
    ASSUME NEW w \in Window,
           w \in Made <=> w \in Made', w \in hwnd <=> w \in hwnd',
           w \in windowDestroyed <=> w \in windowDestroyed',
           w \in browserDestroyed <=> w \in browserDestroyed'
    PROVE  ClientWindow(w)' = ClientWindow(w)
BY DEF ClientWindow

\* A step that changes one window.
LEMMA OneWindowChanges ==
    ASSUME NEW v \in Window, NEW state, ClientWindow(v)' = state,
           \A w \in Window : w # v => ClientWindow(w)' = ClientWindow(w)
    PROVE  ClientWindows' = [ClientWindows EXCEPT ![v] = state]
BY DEF ClientWindows


HostStep == [Client!Next]_(Client!vars)

\* A step the host cannot tell.
LEMMA HostSeesNothing ==
    ASSUME UNCHANGED <<kind, hwnd, windowDestroyed, browserDestroyed, browser>>,
           ClientLife' = ClientLife
    PROVE  HostStep
<1>1. \A w \in Window : ClientWindow(w)' = ClientWindow(w)
  BY ClientWindowSame DEF Made
<1>2. ClientWindows' = ClientWindows
  BY <1>1 DEF ClientWindows
<1> QED
  BY <1>2 DEF HostStep, Client!vars, ClientWindows

\* A browser that lives keeps the program running and its window.
LEMMA LiveIsLeft ==
    ASSUME TypeOK, OrderInv, QuitInv, browserDestroyed \subseteq windowDestroyed,
           NEW v \in Window, Live(v)
    PROVE  mainPc = "loop" /\ v \in Client!Left
<1>1. v \in Made
  BY DEF Live, TypeOK
<1>2. mainPc # "start" /\ v \notin browserDestroyed
  BY <1>1 DEF OrderInv, ThreadInv, WindowOrder, LifeInv, Live
<1>3. ~Quitting
  BY NothingLeft DEF QuitInv
<1>4. mainPc = "loop"
  BY <1>2, <1>3 DEF TypeOK, Quitting
<1>5. ClientWindow(v) \notin {"none", "gone"}
  BY <1>1, <1>2, ClientWindowIs DEF QuitInv
<1> QED
  BY <1>4, <1>5 DEF Client!Left

LEMMA HostSeesAsk ==
    ASSUME TypeOK, TypeOK', OrderInv, QuitInv, browserDestroyed \subseteq windowDestroyed,
           NEW v \in Window, NEW new \in Window,
           OnOpenURLFromTab(v, new) \/ OnBeforePopup(v, new)
    PROVE  HostStep
<1>1. /\ Live(v) /\ kind[new] = "none" /\ UNCHANGED mainPc
      /\ UNCHANGED <<hwnd, windowDestroyed, browserDestroyed, browser>>
      /\ \E k \in {"window", "popup"} : kind' = [kind EXCEPT ![new] = k]
  BY DEF OnOpenURLFromTab, OnBeforePopup
<1>2. mainPc = "loop" /\ v \in Client!Left
  BY <1>1, LiveIsLeft
<1>3. ClientLife = "running" /\ ClientLife' = "running"
  BY <1>1, <1>2 DEF ClientLife
<1>4. new \notin Made /\ new \in Made' /\ \A w \in Window : w # new => (w \in Made <=> w \in Made')
  BY <1>1 DEF Made, TypeOK
<1>5. ClientWindow(new) = "none"
  BY <1>4, ClientWindowIs DEF QuitInv
<1>6. ClientWindow(new)' = "coming"
  BY <1>1, <1>4 DEF ClientWindow, TypeOK
<1>7. \A w \in Window : w # new => ClientWindow(w)' = ClientWindow(w)
  BY <1>1, <1>4, ClientWindowSame
<1>8. ClientWindows' = [ClientWindows EXCEPT ![new] = "coming"]
  BY <1>6, <1>7, OneWindowChanges
<1>9. Client!Ask(new)
  BY <1>1, <1>2, <1>3, <1>5, <1>8 DEF Client!Ask, ClientWindows
<1> QED
  BY <1>9 DEF HostStep, Client!Next

\* The native window is destroyed before the browser is closed.
LEMMA HostSeesHide ==
    ASSUME TypeOK, QuitInv, browserDestroyed \subseteq windowDestroyed, NEW v \in Window,
           v \in hwnd, DestroyNativeWindow(v), mainPc = "loop", UNCHANGED <<kind, mainPc>>
    PROVE  HostStep
<1>1. /\ hwnd' = hwnd \ {v} /\ windowDestroyed' = windowDestroyed \cup {v}
      /\ browserDestroyed' = browserDestroyed /\ browser' = browser
  BY DEF DestroyNativeWindow
<1>2. /\ v \in Made /\ v \notin windowDestroyed /\ v \notin browserDestroyed
      /\ Made' = Made
  BY DEF TypeOK, QuitInv, Made
<1>3. ClientLife = "running" /\ ClientLife' = "running"
  BY DEF ClientLife
<1>4. ClientWindow(v) = "shown" /\ ClientWindow(v)' = "hidden"
  BY <1>1, <1>2 DEF ClientWindow
<1>5. \A w \in Window : w # v => ClientWindow(w)' = ClientWindow(w)
  BY <1>1, <1>2, ClientWindowSame
<1>6. ClientWindows' = [ClientWindows EXCEPT ![v] = "hidden"]
  BY <1>4, <1>5, OneWindowChanges
<1>7. Client!Hide(v)
  BY <1>1, <1>3, <1>4, <1>6 DEF Client!Hide, ClientWindows
<1> QED
  BY <1>7 DEF HostStep, Client!Next

\* A root window is made once.
LEMMA HostSeesCreate ==
    ASSUME TypeOK, OrderInv, NEW v \in Window, CreateRootWindow(v)
    PROVE  HostStep
<1>1. Queued(mainQ, Msg("CreateRootWindow", v)) /\ v \in Made /\ mainPc = "loop"
      /\ UNCHANGED <<kind, mainPc>>
  BY ReceiveSelf, ReceiveType DEF CreateRootWindow, Receive, makeVars
<1>2. /\ hwnd' = hwnd \cup {v}
      /\ UNCHANGED <<windowDestroyed, browserDestroyed, browser>> /\ Made' = Made
  BY <1>1 DEF CreateRootWindow, Made
<1>3. ~Native(v)
  BY <1>1 DEF OrderInv, WindowOrder, CreateInv
<1>4. ClientLife = "running" /\ ClientLife' = "running"
  BY <1>1 DEF ClientLife
<1>5. ClientWindow(v) = "coming" /\ ClientWindow(v)' = "shown"
  BY <1>1, <1>2, <1>3 DEF ClientWindow, Native
<1>6. \A w \in Window : w # v => ClientWindow(w)' = ClientWindow(w)
  BY <1>2, ClientWindowSame
<1>7. ClientWindows' = [ClientWindows EXCEPT ![v] = "shown"]
  BY <1>5, <1>6, OneWindowChanges
<1>8. Client!Show(v)
  BY <1>2, <1>4, <1>5, <1>7 DEF Client!Show, ClientWindows
<1> QED
  BY <1>8 DEF HostStep, Client!Next

\* A popup is shown with its browser; any other window is there before, or
\* was.
LEMMA HostSeesBrowser ==
    ASSUME TypeOK, OrderInv, QuitInv, browserDestroyed \subseteq windowDestroyed,
           NEW v \in Window, OnBrowserCreated(v)
    PROVE  HostStep
<1>1. Queued(mainQ, Msg("OnBrowserCreated", v)) /\ v \in Made /\ mainPc = "loop"
      /\ UNCHANGED <<kind, mainPc>>
  BY ReceiveSelf, ReceiveType DEF OnBrowserCreated, Receive, makeVars
<1>2. /\ v \in delegate /\ v \notin browserDestroyed
      /\ kind[v] = "popup" => ~Native(v)
      /\ kind[v] = "window" => Native(v)
  BY <1>1 DEF OrderInv, WindowOrder, CreateInv, CallbackInv, LifeInv
<1>3. /\ browser' = browser \cup {v}
      /\ hwnd' = IF kind[v] = "popup" THEN hwnd \cup {v} ELSE hwnd
      /\ UNCHANGED <<windowDestroyed, browserDestroyed>> /\ Made' = Made
  BY <1>1, <1>2 DEF OnBrowserCreated, Made
<1>4. ClientLife = "running" /\ ClientLife' = "running"
  BY <1>1 DEF ClientLife
<1>5. CASE kind[v] = "popup"
  <2>1. ClientWindow(v) = "coming" /\ ClientWindow(v)' = "shown"
    BY <1>1, <1>2, <1>3, <1>5 DEF ClientWindow, Native
  <2>2. \A w \in Window : w # v => ClientWindow(w)' = ClientWindow(w)
    BY <1>3, ClientWindowSame
  <2>3. ClientWindows' = [ClientWindows EXCEPT ![v] = "shown"]
    BY <2>1, <2>2, OneWindowChanges
  <2>4. Client!Show(v)
    BY <1>3, <1>4, <2>1, <2>3 DEF Client!Show, ClientWindows
  <2> QED
    BY <2>4 DEF HostStep, Client!Next
<1>6. CASE kind[v] = "window"
  <2>1. ClientWindow(v) \in {"shown", "hidden"}
    BY <1>2, <1>6, ClientWindowIs DEF Native, QuitInv
  <2>2. \A w \in Window : ClientWindow(w)' = ClientWindow(w)
    BY <1>3, <1>6, ClientWindowSame
  <2>3. ClientWindows' = ClientWindows
    BY <2>2 DEF ClientWindows
  <2>4. Client!OnBrowserCreated(v)
    BY <1>3, <1>4, <2>1, <2>3 DEF Client!OnBrowserCreated, ClientWindows
  <2> QED
    BY <2>4 DEF HostStep, Client!Next
<1> QED
  BY <1>1, <1>5, <1>6 DEF Made, TypeOK

\* The browser closes last.
LEMMA HostSeesClose ==
    ASSUME TypeOK, OrderInv, QuitInv, browserDestroyed \subseteq windowDestroyed,
           NEW v \in Window, OnBrowserClosed(v)
    PROVE  HostStep
<1>1. Queued(mainQ, Msg("OnBrowserClosed", v)) /\ v \in Made /\ mainPc = "loop"
      /\ UNCHANGED <<kind, mainPc>>
  BY ReceiveSelf, ReceiveType DEF OnBrowserClosed, Receive, makeVars
<1>2. \A a : Before(mainQ, a, Msg("OnBrowserClosed", v)) => ~Queued(mainQ, a)
  BY ReceiveSelf DEF OnBrowserClosed
<1>3. v \in delegate /\ v \in browser /\ Native(v) /\ v \notin browserDestroyed
  BY <1>1, <1>2 DEF OrderInv, WindowOrder, CallbackInv, LifeInv
<1>4. /\ browser' = browser \ {v} /\ hwnd' = hwnd \ {v}
      /\ windowDestroyed' = windowDestroyed \cup {v}
      /\ browserDestroyed' = browserDestroyed \cup {v} /\ Made' = Made
  BY <1>1, <1>3 DEF OnBrowserClosed, Native, Made
<1>5. ClientLife = "running" /\ ClientLife' = "running"
  BY <1>1 DEF ClientLife
<1>6. ClientWindow(v) \in {"shown", "hidden"}
  BY <1>3, ClientWindowIs DEF Native, QuitInv
<1>7. ClientWindow(v)' = "gone"
  BY <1>1, <1>4 DEF ClientWindow
<1>8. \A w \in Window : w # v => ClientWindow(w)' = ClientWindow(w)
  BY <1>4, ClientWindowSame
<1>9. ClientWindows' = [ClientWindows EXCEPT ![v] = "gone"]
  BY <1>7, <1>8, OneWindowChanges
<1>10. Client!OnBrowserClosed(v)
  BY <1>3, <1>4, <1>5, <1>6, <1>9 DEF Client!OnBrowserClosed, ClientWindows
<1> QED
  BY <1>10 DEF HostStep, Client!Next


\* Run() returns when nothing is left.
LEMMA HostSeesEnd ==
    ASSUME TypeOK, QuitInv, browserDestroyed \subseteq windowDestroyed, RunReturns
    PROVE  HostStep
<1>1. mainPc = "loop" /\ mainPc' = "returned" /\ Quitting
  BY DEF RunReturns, Quitting
<1>2. ClientLife = "running" /\ ClientLife' = "dead"
  BY <1>1 DEF ClientLife
<1>3. UNCHANGED <<kind, hwnd, windowDestroyed, browserDestroyed, browser>>
  BY DEF RunReturns, makeVars, windowVars
<1>4. \A w \in Window : ClientWindow(w)' = ClientWindow(w)
  BY <1>3, ClientWindowSame DEF Made
<1>5. ClientWindows' = ClientWindows
  BY <1>4 DEF ClientWindows
<1>6. \A w \in Window : ClientWindow(w) \in {"none", "gone"}
  BY <1>1, ClientWindowIs DEF QuitInv, AllGone, Gone
<1>7. Client!Left = {}
  BY <1>6 DEF Client!Left
<1>8. Client!RunReturns
  BY <1>2, <1>3, <1>5, <1>7 DEF Client!RunReturns, ClientWindows
<1> QED
  BY <1>8 DEF HostStep, Client!Next

LEMMA HostSeesStart ==
    ASSUME TypeOK, OrderInv, RunMain
    PROVE  HostStep
<1> USE WindowAssumption
<1>1. Made = {} /\ hwnd = {} /\ browser = {} /\ windowDestroyed = {} /\ browserDestroyed = {}
  <2>1. Made = {}
    BY DEF RunMain, OrderInv, ThreadInv
  <2> QED
    BY <2>1 DEF TypeOK
<1>2. /\ Made' = {First} /\ hwnd' = {First}
      /\ UNCHANGED <<windowDestroyed, browserDestroyed, browser>>
  BY <1>1 DEF RunMain, Made, TypeOK
<1>3. ClientLife = "starting" /\ ClientLife' = "running"
  BY DEF ClientLife, RunMain
<1>4. ClientWindow(First)' = "shown"
  BY <1>1, <1>2 DEF ClientWindow
<1>5. \A w \in Window : w # First => ClientWindow(w)' = ClientWindow(w)
  BY <1>1, <1>2, ClientWindowSame
<1>6. ClientWindows' = [ClientWindows EXCEPT ![First] = "shown"]
  BY <1>4, <1>5, OneWindowChanges
<1>7. Client!RunMain
  BY <1>2, <1>3, <1>6 DEF Client!RunMain, ClientWindows
<1> QED
  BY <1>7 DEF HostStep, Client!Next

\* Every step of the two threads is a step of the program, or none.
LEMMA HostSeesStep ==
    ASSUME TypeOK, TypeOK', OrderInv, QuitInv, browserDestroyed \subseteq windowDestroyed,
           [Next]_vars
    PROVE  HostStep
<1>a. ASSUME UNCHANGED <<makeVars, windowVars, mainPc>> PROVE HostStep
  BY <1>a, HostSeesNothing DEF makeVars, windowVars, ClientLife
<1>1. CASE RunMain \/ RunReturns
  BY <1>1, HostSeesStart, HostSeesEnd
<1>2. CASE Shutdown \/ PostQuitMessage
  BY <1>2, HostSeesNothing
  DEF Shutdown, PostQuitMessage, Receive, makeVars, windowVars, ClientLife
<1>3. ASSUME NEW v \in Window,
             CreateRootWindow(v) \/ OnBrowserCreated(v) \/ OnBrowserClosed(v)
      PROVE  HostStep
  BY <1>3, HostSeesCreate, HostSeesBrowser, HostSeesClose
<1>4. ASSUME NEW v \in Window, OnRootWindowCreated(v) \/ OnBrowserClosing(v) PROVE HostStep
  BY <1>4, HostSeesNothing
  DEF OnRootWindowCreated, OnBrowserClosing, Receive, makeVars, windowVars, ClientLife
<1>5. ASSUME NEW v \in Window, OnClose(v) \/ HandleCustomTask(v) \/ ParentDestroyed(v)
      PROVE  HostStep
  <2>1. UNCHANGED <<makeVars, mainPc>> /\ mainPc = "loop"
    BY <1>5 DEF OnClose, HandleCustomTask, ParentDestroyed, Receive
  <2>2. (v \in hwnd /\ DestroyNativeWindow(v)) \/ UNCHANGED windowVars
    BY <1>5 DEF OnClose, HandleCustomTask, ParentDestroyed
  <2> QED
    BY <2>1, <2>2, <1>a, HostSeesHide DEF makeVars
<1>6. ASSUME NEW v \in Window, OnActivate(v) \/ UserClose(v) \/ HandleCustomMsg(v)
      PROVE  HostStep
  BY <1>6, <1>a DEF OnActivate, UserClose, HandleCustomMsg, External
<1>7. CASE OnExit
  BY <1>7, <1>a DEF OnExit, External
<1>8. CASE UiStepForced
  BY <1>8, <1>a
  DEF UiStepForced, OnAfterCreated, CloseBrowser, TakeUiTask, BrowserFollowsWindow,
      OnBeforeClose, PopupCreated, OnOpenURLFromTabEnds, OnBeforeContextMenuEnds,
      CleanupOnUIThread, UiOnly
<1>9. ASSUME NEW v \in Window, PageCloses(v) \/ BrowserGoesFirst(v) \/ OnBeforeContextMenu(v)
      PROVE  HostStep
  BY <1>9, <1>a DEF PageCloses, BrowserGoesFirst, OnBeforeClose, OnBeforeContextMenu, UiOnly
<1>10. ASSUME NEW v \in Window, NEW new \in Window,
              OnOpenURLFromTab(v, new) \/ OnBeforePopup(v, new)
       PROVE  HostStep
  BY <1>10, HostSeesAsk
<1>11. CASE UNCHANGED vars
  BY <1>11, <1>a DEF vars
<1> QED
  BY <1>1, <1>2, <1>3, <1>4, <1>5, <1>6, <1>7, <1>8, <1>9, <1>10, <1>11
  DEF Next, MainStep, MainTask, Environment, UiEvent

\* For its host the two threads are one program, for any set of windows: it
\* shows what was asked for, closes what it hid, makes nothing when nothing
\* is left, and Run() returns only then.
THEOREM WindowsImplementClient == Spec => ImplementsClientProgram
<1>1. Init => Client!Init
  <2> SUFFICES ASSUME Init PROVE Client!Init
    OBVIOUS
  <2>1. Made = {} /\ mainPc = "start" /\ browser = {} /\ hwnd = {} /\ windowDestroyed = {}
    BY DEF Init, Made
  <2>2. \A w \in Window : ClientWindow(w) = "none"
    BY <2>1 DEF ClientWindow
  <2>3. ClientLife = "starting"
    BY <2>1 DEF ClientLife
  <2> QED
    BY <2>1, <2>2, <2>3 DEF Client!Init
<1>2. /\ TypeOK /\ OrderInv /\ QuitInv /\ browserDestroyed \subseteq windowDestroyed
      /\ TypeOK' /\ [Next]_vars
      => [Client!Next]_(Client!vars)
  BY HostSeesStep DEF HostStep
<1> QED
  BY <1>1, <1>2, ClosedInvariance, PTL DEF Spec, ImplementsClientProgram, Client!Spec
=============================================================================
