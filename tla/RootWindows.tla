---------------------------- MODULE RootWindows -----------------------------
(***************************************************************************)
(* The life of cefclient's browser windows: RootWindowManager,             *)
(* RootWindowWin, BrowserWindow(StdWin) and ClientHandler(Std), which      *)
(* split their work between two threads.                                   *)
(*                                                                         *)
(* The main thread owns the native root windows and runs, in order, what   *)
(* is in its Win32 queue mainQ: closures posted by the UI thread (see      *)
(* TaskQueue) and posted window messages.  CEF calls the ClientHandler on  *)
(* its UI thread, which runs uiQ in order and, between those tasks, what   *)
(* pages and the user cause.  A ClientHandler::Notify* call made on the UI *)
(* thread posts itself to the main thread.                                 *)
(*                                                                         *)
(* One Window stands for the RootWindowWin and the BrowserWindow, Client-  *)
(* Handler and CefBrowser made for it: each popup and each DevTools window *)
(* gets its own handler, so they are one to one.  A message that names a   *)
(* native window is dropped once that window has been destroyed.           *)
(*                                                                         *)
(* CEF itself is outside the repository; it is modelled from the contract  *)
(* in include/cef_life_span_handler.h and from how the handlers use it.    *)
(***************************************************************************)
EXTENDS Naturals, Sequences, FiniteSets

CONSTANTS
    Window,         \* root windows that can be made
    NoWindow,
    First,          \* the window RunMain makes
    CreateMayFail,  \* CEF may make no browser if the parent window is gone
    MaxCloses,      \* bound: WM_CLOSE messages from the user
    MaxCommands     \* bound: WM_COPYDATA messages from the host

ASSUME WindowAssumption ==
    First \in Window /\ NoWindow \notin Window /\ IsFiniteSet(Window)
ASSUME CreateAssumption == CreateMayFail \in BOOLEAN
ASSUME BoundAssumption == MaxCloses \in Nat /\ MaxCommands \in Nat

VARIABLES
    kind,             \* "none" until made, then "window" or "popup"
    opener,           \* the window whose page opened a popup
    hwnd,             \* windows whose hwnd_ is not NULL
    browserWindow,    \* windows whose browser_window_ is not NULL
    browser,          \* windows whose BrowserWindow::browser_ is not NULL
    closing,          \* windows whose BrowserWindow::is_closing_ is set
    delegate,         \* windows whose ClientHandler::delegate_ is not NULL
    windowDestroyed,  \* windows with window_destroyed_ set
    browserDestroyed, \* windows with browser_destroyed_ set
    rootWindows,      \* root_windows_
    activeWindow,     \* active_root_window_
    activeBrowser,    \* active_browser_
    tempWindow,       \* temp_window_ is not NULL
    mainPc,           \* "start", "loop", "returned" from Run(), "shutdown"
    quitFlag,         \* PostQuitMessage was called
    mainQ,            \* posted messages of the main thread, oldest first
    uiQ,              \* tasks of the CEF UI thread, oldest first
    uiStep,           \* a UI thread handler that is not atomic: what is left
    cef,              \* CEF's browser
    closes, commands  \* use of the two bounds

windowVars == <<hwnd, browserWindow, browser, closing, delegate,
                windowDestroyed, browserDestroyed>>
managerVars == <<rootWindows, activeWindow, activeBrowser>>
makeVars == <<kind, opener>>
boundVars == <<closes, commands>>
vars == <<makeVars, windowVars, managerVars, tempWindow, mainPc, quitFlag,
          mainQ, uiQ, uiStep, cef, boundVars>>

Msg(t, w) == [t |-> t, w |-> w]
Queued(q, m) == \E i \in 1..Len(q) : q[i] = m

MainMsg(W) ==
    [t : {"CreateRootWindow", "OnRootWindowCreated",
          "OnBrowserCreated", "OnBrowserClosing", "OnBrowserClosed",
          "UserClose", "CefClose", "CommandQuit", "CommandUse"},
     w : W]
    \cup {Msg("Quit", NoWindow)}

UiTask(W) == [t : {"CreateBrowser", "CloseBrowser"}, w : W]
             \cup {Msg("CleanupOnUIThread", NoWindow)}

UiIdle == Msg("idle", NoWindow)
UiStep(W) == [t : {"CreateRootWindow", "OnBeforeContextMenu"}, w : W]
             \cup {UiIdle}

\* CEF's browser: not asked for, popup allowed, live, DoClose called and
\* WM_CLOSE sent, OnBeforeClose called, or never made.
CefState == {"none", "popup", "open", "closing", "closed", "canceled"}

Init ==
    /\ kind = [w \in Window |-> "none"]
    /\ opener = [w \in Window |-> NoWindow]
    /\ hwnd = {} /\ browserWindow = {} /\ browser = {} /\ closing = {}
    /\ delegate = {} /\ windowDestroyed = {} /\ browserDestroyed = {}
    /\ rootWindows = {} /\ activeWindow = NoWindow /\ activeBrowser = NoWindow
    /\ tempWindow = FALSE
    /\ mainPc = "start"
    /\ quitFlag = FALSE
    /\ mainQ = <<>> /\ uiQ = <<>>
    /\ uiStep = UiIdle
    /\ cef = [w \in Window |-> "none"]
    /\ closes = 0 /\ commands = 0

Made == {w \in Window : kind[w] # "none"}

-----------------------------------------------------------------------------
(* RootWindowManager, on the main thread.                                  *)

\* OnRootWindowActivated: GetBrowser() may still be NULL.
Activated(w) ==
    /\ activeWindow' = w
    /\ activeBrowser' = IF activeWindow = w THEN activeBrowser
                        ELSE IF w \in browser THEN w ELSE NoWindow

\* Mutants of OnRootWindowDestroyed: Quit goes to the UI thread, ...
OnRootWindowDestroyedWrongThread(w) ==
    /\ rootWindows' = rootWindows \ {w}
    /\ UNCHANGED <<activeWindow, activeBrowser>>
    /\ uiQ' = Append(uiQ, Msg("Quit", NoWindow))

\* ... every window ends the program, ...
OnRootWindowDestroyedAlwaysQuits(w) ==
    /\ rootWindows' = rootWindows \ {w}
    /\ IF activeWindow = w
       THEN activeWindow' = NoWindow /\ activeBrowser' = NoWindow
       ELSE UNCHANGED <<activeWindow, activeBrowser>>
    /\ uiQ' = Append(uiQ, Msg("CleanupOnUIThread", NoWindow))

\* ... only the active window does, ...
OnRootWindowDestroyedActiveQuits(w) ==
    /\ rootWindows' = rootWindows \ {w}
    /\ IF activeWindow = w
       THEN /\ activeWindow' = NoWindow /\ activeBrowser' = NoWindow
            /\ uiQ' = IF rootWindows' = {}
                      THEN Append(uiQ, Msg("CleanupOnUIThread", NoWindow))
                      ELSE uiQ
       ELSE UNCHANGED <<activeWindow, activeBrowser, uiQ>>

\* ... active_browser_ is not reset.
OnRootWindowDestroyedKeepsBrowser(w) ==
    /\ rootWindows' = rootWindows \ {w}
    /\ activeWindow' = IF activeWindow = w THEN NoWindow ELSE activeWindow
    /\ UNCHANGED activeBrowser
    /\ uiQ' = IF rootWindows' = {}
              THEN Append(uiQ, Msg("CleanupOnUIThread", NoWindow))
              ELSE uiQ

\* OnRootWindowDestroyed: the last window posts the clean-up.
OnRootWindowDestroyed(w) ==
    /\ rootWindows' = rootWindows \ {w}
    /\ IF activeWindow = w
       THEN activeWindow' = NoWindow /\ activeBrowser' = NoWindow
       ELSE UNCHANGED <<activeWindow, activeBrowser>>
    /\ uiQ' = IF rootWindows' = {}
              THEN Append(uiQ, Msg("CleanupOnUIThread", NoWindow))
              ELSE uiQ

\* Mutant: one destroyed half is enough.
NotifyDestroyedIfDoneMutant(w) ==
    IF w \in windowDestroyed' \/ w \in browserDestroyed'
    THEN OnRootWindowDestroyed(w)
    ELSE UNCHANGED <<managerVars, uiQ>>

\* NotifyDestroyedIfDone, once both flags have their new values.
NotifyDestroyedIfDone(w) ==
    IF w \in windowDestroyed' /\ w \in browserDestroyed'
    THEN OnRootWindowDestroyed(w)
    ELSE UNCHANGED <<managerVars, uiQ>>

\* DestroyWindow(hwnd_): WM_NCDESTROY clears hwnd_ and calls OnDestroyed.
DestroyNativeWindow(w) ==
    /\ hwnd' = hwnd \ {w}
    /\ windowDestroyed' = windowDestroyed \cup {w}
    /\ UNCHANGED <<browserWindow, browser, closing, delegate, browserDestroyed>>
    /\ NotifyDestroyedIfDone(w)

-----------------------------------------------------------------------------
(* The main thread.                                                        *)

\* RunMain: CreateRootWindow on the main thread (Init, CreateRootWindow and
\* OnRootWindowCreated run at once), then Run().
RunMain ==
    /\ mainPc = "start"
    /\ mainPc' = "loop"
    /\ kind' = [kind EXCEPT ![First] = "window"]
    /\ browserWindow' = {First} /\ delegate' = {First} /\ hwnd' = {First}
    /\ uiQ' = Append(uiQ, Msg("CreateBrowser", First))
    /\ rootWindows' = {First}
    /\ activeWindow' = First
    /\ UNCHANGED <<opener, browser, closing, windowDestroyed, browserDestroyed,
                   activeBrowser, tempWindow, quitFlag, mainQ, uiStep, cef,
                   boundVars>>

\* GetMessage returns the oldest posted message.
Receive(t, w) ==
    /\ mainPc = "loop" /\ mainQ # <<>>
    /\ Head(mainQ) = Msg(t, w)
    /\ mainQ' = Tail(mainQ)
    /\ UNCHANGED <<makeVars, tempWindow, mainPc, uiStep, cef, boundVars>>

\* Posted by Init on the UI thread; OnCreate asks CEF for the browser.
CreateRootWindow(w) ==
    /\ Receive("CreateRootWindow", w)
    /\ hwnd' = hwnd \cup {w}
    /\ uiQ' = Append(uiQ, Msg("CreateBrowser", w))
    /\ UNCHANGED <<browserWindow, browser, closing, delegate, windowDestroyed,
                   browserDestroyed, managerVars, quitFlag>>

OnRootWindowCreated(w) ==
    /\ Receive("OnRootWindowCreated", w)
    /\ rootWindows' = rootWindows \cup {w}
    /\ IF rootWindows' = {w} THEN Activated(w)
       ELSE UNCHANGED <<activeWindow, activeBrowser>>
    /\ UNCHANGED <<windowVars, quitFlag, uiQ>>

\* Mutant: a popup gets no root window.
OnBrowserCreatedMutant(w) ==
    /\ Receive("OnBrowserCreated", w)
    /\ browser' = IF w \in delegate THEN browser \cup {w} ELSE browser
    /\ activeBrowser' = IF w \in delegate /\ activeWindow = w THEN w ELSE activeBrowser
    /\ UNCHANGED <<hwnd, browserWindow, closing, delegate, windowDestroyed,
                   browserDestroyed, rootWindows, activeWindow, quitFlag, uiQ>>

\* NotifyBrowserCreated.  The root window of a popup is made only here.
OnBrowserCreated(w) ==
    /\ Receive("OnBrowserCreated", w)
    /\ IF w \in delegate
       THEN /\ browser' = browser \cup {w}
            /\ hwnd' = IF kind[w] = "popup" THEN hwnd \cup {w} ELSE hwnd
            /\ activeBrowser' = IF activeWindow = w THEN w ELSE activeBrowser
       ELSE UNCHANGED <<browser, hwnd, activeBrowser>>
    /\ UNCHANGED <<browserWindow, closing, delegate, windowDestroyed,
                   browserDestroyed, rootWindows, activeWindow, quitFlag, uiQ>>

\* NotifyBrowserClosing.
OnBrowserClosing(w) ==
    /\ Receive("OnBrowserClosing", w)
    /\ closing' = IF w \in delegate THEN closing \cup {w} ELSE closing
    /\ UNCHANGED <<hwnd, browserWindow, browser, delegate, windowDestroyed,
                   browserDestroyed, managerVars, quitFlag, uiQ>>

\* Mutant: without DetachDelegate.
OnBrowserClosedMutant(w) ==
    /\ Receive("OnBrowserClosed", w)
    /\ browser' = browser \ {w}
    /\ browserWindow' = browserWindow \ {w}
    /\ hwnd' = hwnd \ {w}
    /\ windowDestroyed' = windowDestroyed \cup {w}
    /\ browserDestroyed' = browserDestroyed \cup {w}
    /\ UNCHANGED <<closing, delegate, quitFlag>>
    /\ NotifyDestroyedIfDone(w)

\* NotifyBrowserClosed: the BrowserWindow lets go of the browser and of its
\* handler and is deleted; Close(true) if the root window is still there.
OnBrowserClosed(w) ==
    /\ Receive("OnBrowserClosed", w)
    /\ IF w \in delegate
       THEN /\ browser' = browser \ {w}
            /\ delegate' = delegate \ {w}
            /\ browserWindow' = browserWindow \ {w}
            /\ hwnd' = hwnd \ {w}
            /\ windowDestroyed' = IF w \in hwnd THEN windowDestroyed \cup {w}
                                  ELSE windowDestroyed
            /\ browserDestroyed' = browserDestroyed \cup {w}
            /\ UNCHANGED closing
            /\ NotifyDestroyedIfDone(w)
       ELSE UNCHANGED <<windowVars, managerVars, uiQ>>
    /\ UNCHANGED quitFlag

\* OnClose cancels the close and asks the browser, unless it has none or has
\* already agreed.
CloseMustAsk(w) == w \in browserWindow /\ w \notin closing /\ w \in browser

\* WM_CLOSE.
OnClose(w) ==
    /\ \E t \in {"UserClose", "CefClose"} : Receive(t, w)
    /\ \/ /\ w \notin hwnd
          /\ UNCHANGED <<windowVars, managerVars, uiQ>>
       \/ /\ w \in hwnd /\ CloseMustAsk(w)
          /\ uiQ' = Append(uiQ, Msg("CloseBrowser", w))
          /\ UNCHANGED <<windowVars, managerVars>>
       \/ /\ w \in hwnd /\ ~CloseMustAsk(w)
          /\ DestroyNativeWindow(w)
    /\ UNCHANGED quitFlag

\* The queued closures and the window list hold references; nothing else
\* keeps a RootWindow (HandleCustomTask is bound to a raw pointer).
Referenced(w) ==
    \/ w \in rootWindows
    \/ activeWindow = w
    \/ uiStep = Msg("CreateRootWindow", w)
    \/ Queued(mainQ, Msg("CreateRootWindow", w))
    \/ Queued(mainQ, Msg("OnRootWindowCreated", w))

Deleted(w) == w \in Made /\ ~Referenced(w)

\* Mutant: "Quit" is Close(false), which posts WM_CLOSE.
HandleCustomTaskMutant(w) ==
    /\ mainPc = "loop" /\ mainQ # <<>>
    /\ Head(mainQ) \in {Msg("CommandQuit", w), Msg("CommandUse", w)}
    /\ mainQ' = IF Head(mainQ).t = "CommandQuit" /\ w \in hwnd
                THEN Append(Tail(mainQ), Msg("UserClose", w)) ELSE Tail(mainQ)
    /\ UNCHANGED <<makeVars, windowVars, managerVars, tempWindow, mainPc, quitFlag,
                   uiQ, uiStep, cef, boundVars>>

\* HandleCustomTask: "Quit" is Close(true); every other command only uses
\* the browser or moves the window.  On a deleted window it is undefined.
HandleCustomTask(w) ==
    /\ \/ /\ Receive("CommandQuit", w)
          /\ IF ~Deleted(w) /\ w \in browser /\ w \in hwnd
             THEN DestroyNativeWindow(w)
             ELSE UNCHANGED <<windowVars, managerVars, uiQ>>
       \/ /\ Receive("CommandUse", w)
          /\ UNCHANGED <<windowVars, managerVars, uiQ>>
    /\ UNCHANGED quitFlag

\* The closure of MainMessageLoopMultithreadedWin::Quit.
PostQuitMessage ==
    /\ Receive("Quit", NoWindow)
    /\ quitFlag' = TRUE
    /\ UNCHANGED <<windowVars, managerVars, uiQ>>

\* GetMessage returns 0 and Run() returns.
RunReturns ==
    /\ mainPc = "loop" /\ quitFlag /\ mainQ = <<>>
    /\ mainPc' = "returned"
    /\ UNCHANGED <<makeVars, windowVars, managerVars, tempWindow, quitFlag,
                   mainQ, uiQ, uiStep, cef, boundVars>>

\* MainContextImpl::Shutdown: the manager is deleted, CefShutdown ends the
\* UI thread.
Shutdown ==
    /\ mainPc = "returned" /\ uiStep = UiIdle
    /\ mainPc' = "shutdown"
    /\ UNCHANGED <<makeVars, windowVars, managerVars, tempWindow, quitFlag,
                   mainQ, uiQ, uiStep, cef, boundVars>>

MainTask(w) ==
    \/ CreateRootWindow(w) \/ OnRootWindowCreated(w)
    \/ OnBrowserCreated(w) \/ OnBrowserClosing(w) \/ OnBrowserClosed(w)
    \/ OnClose(w) \/ HandleCustomTask(w)

MainStep ==
    \/ RunMain
    \/ \E w \in Window : MainTask(w)
    \/ PostQuitMessage \/ RunReturns \/ Shutdown

-----------------------------------------------------------------------------
(* What reaches the main thread from outside, while it is in GetMessage.   *)

External == UNCHANGED <<makeVars, windowVars, tempWindow, mainPc, quitFlag,
                        uiStep, cef>>

\* WM_ACTIVATE.
OnActivate(w) ==
    /\ mainPc = "loop" /\ w \in hwnd
    /\ Activated(w)
    /\ External /\ UNCHANGED <<rootWindows, mainQ, uiQ, boundVars>>

\* The user closes a window, or a host that owns the parent window asks to.
UserClose(w) ==
    /\ mainPc = "loop" /\ w \in hwnd
    /\ closes < MaxCloses /\ closes' = closes + 1
    /\ mainQ' = Append(mainQ, Msg("UserClose", w))
    /\ External /\ UNCHANGED <<managerVars, uiQ, commands>>

\* The Exit menu command: OnExit, CloseAllWindows(false).
OnExit ==
    LET open == rootWindows \cap hwnd
        n == Cardinality(open)
    IN /\ mainPc = "loop" /\ open # {}
       /\ closes < MaxCloses /\ closes' = closes + 1
       /\ \E order \in [1..n -> open] :
            /\ \A w \in open : \E i \in 1..n : order[i] = w
            /\ mainQ' = mainQ \o [i \in 1..n |-> Msg("UserClose", order[i])]
       /\ External /\ UNCHANGED <<managerVars, uiQ, commands>>

\* The host destroys the parent window: WM_NCDESTROY without WM_CLOSE.
ParentDestroyed(w) ==
    /\ mainPc = "loop" /\ w \in hwnd
    /\ DestroyNativeWindow(w)
    /\ UNCHANGED <<makeVars, tempWindow, mainPc, quitFlag, mainQ, uiStep, cef,
                   boundVars>>

\* WM_COPYDATA: HandleCustomMsg posts HandleCustomTask.
HandleCustomMsg(w) ==
    /\ mainPc = "loop" /\ w \in hwnd
    /\ commands < MaxCommands /\ commands' = commands + 1
    /\ \E t \in {"CommandQuit", "CommandUse"} : mainQ' = Append(mainQ, Msg(t, w))
    /\ External /\ UNCHANGED <<managerVars, uiQ, closes>>

Environment ==
    \/ \E w \in Window : \/ OnActivate(w) \/ UserClose(w)
                         \/ HandleCustomMsg(w) \/ ParentDestroyed(w)
    \/ OnExit

-----------------------------------------------------------------------------
(* The CEF UI thread.                                                      *)

UiRuns == mainPc # "shutdown"
UiFree == UiRuns /\ uiStep = UiIdle
Live(w) == cef[w] \in {"open", "closing"}

UiOnly == UNCHANGED <<windowVars, managerVars, mainPc, quitFlag, boundVars>>

\* What the UI thread posts to the main thread, in order.
PostToMain(messages) == mainQ' = mainQ \o messages

\* The UI thread takes its oldest task.
TakeUiTask(t, w) ==
    /\ UiFree /\ uiQ # <<>>
    /\ Head(uiQ) = Msg(t, w)
    /\ uiQ' = Tail(uiQ)
    /\ UNCHANGED <<windowVars, managerVars, makeVars, mainPc, quitFlag, uiStep,
                   boundVars>>

\* CefBrowserHost::CreateBrowser: OnAfterCreated.
OnAfterCreated(w) ==
    /\ TakeUiTask("CreateBrowser", w)
    /\ \/ /\ w \in hwnd \/ ~CreateMayFail
          /\ cef' = [cef EXCEPT ![w] = "open"]
          /\ PostToMain(<<Msg("OnBrowserCreated", w)>>)
       \/ /\ w \notin hwnd /\ CreateMayFail
          /\ cef' = [cef EXCEPT ![w] = "canceled"]
          /\ UNCHANGED mainQ
    /\ UNCHANGED tempWindow

\* Mutant: NotifyBrowserClosing comes too late.
CloseMessagesMutant(w) == <<Msg("CefClose", w), Msg("OnBrowserClosing", w)>>

\* DoClose returns false: NotifyBrowserClosing is posted, then CEF sends the
\* close notification to the root window.
CloseMessages(w) == <<Msg("OnBrowserClosing", w), Msg("CefClose", w)>>
DoClose(w) ==
    /\ cef' = [cef EXCEPT ![w] = "closing"]
    /\ PostToMain(CloseMessages(w))

\* CloseBrowser(false): the page's onbeforeunload handler may refuse.
CloseBrowser(w) ==
    /\ TakeUiTask("CloseBrowser", w)
    /\ \/ Live(w) /\ DoClose(w)
       \/ cef[w] # "closing" /\ UNCHANGED <<cef, mainQ>>
    /\ UNCHANGED tempWindow

\* window.close() in the page.
PageCloses(w) ==
    /\ UiFree /\ cef[w] = "open"
    /\ DoClose(w)
    /\ UiOnly /\ UNCHANGED <<makeVars, tempWindow, uiQ, uiStep>>

\* OnBeforeClose, immediately before CEF destroys the browser.
OnBeforeClose(w) ==
    /\ UiFree /\ Live(w)
    /\ cef' = [cef EXCEPT ![w] = "closed"]
    /\ PostToMain(<<Msg("OnBrowserClosed", w)>>)
    /\ UiOnly /\ UNCHANGED <<makeVars, tempWindow, uiQ, uiStep>>

\* The browser's native window went with the root window.
BrowserFollowsWindow(w) == w \in windowDestroyed /\ OnBeforeClose(w)

\* The browser is destroyed first (OnBrowserWindowDestroyed says when).
BrowserGoesFirst(w) == w \notin windowDestroyed /\ OnBeforeClose(w)

\* OnOpenURLFromTab makes a window on the UI thread: Init posts
\* CreateRootWindow ...
OnOpenURLFromTab(w, new) ==
    /\ UiFree /\ Live(w) /\ kind[new] = "none"
    /\ kind' = [kind EXCEPT ![new] = "window"]
    /\ browserWindow' = browserWindow \cup {new}
    /\ delegate' = delegate \cup {new}
    /\ PostToMain(<<Msg("CreateRootWindow", new)>>)
    /\ uiStep' = Msg("CreateRootWindow", new)
    /\ UNCHANGED <<opener, hwnd, browser, closing, windowDestroyed,
                   browserDestroyed, managerVars, tempWindow, mainPc, quitFlag,
                   uiQ, cef, boundVars>>

\* ... then the manager posts OnRootWindowCreated.
OnOpenURLFromTabEnds ==
    /\ UiRuns /\ uiStep.t = "CreateRootWindow"
    /\ PostToMain(<<Msg("OnRootWindowCreated", uiStep.w)>>)
    /\ uiStep' = UiIdle
    /\ UiOnly /\ UNCHANGED <<makeVars, tempWindow, uiQ, cef>>

\* Mutant: without making the temporary window.
OnBeforePopupMutant(w, new) ==
    /\ UiFree /\ Live(w) /\ kind[new] = "none"
    /\ kind' = [kind EXCEPT ![new] = "popup"]
    /\ opener' = [opener EXCEPT ![new] = w]
    /\ browserWindow' = browserWindow \cup {new}
    /\ delegate' = delegate \cup {new}
    /\ cef' = [cef EXCEPT ![new] = "popup"]
    /\ PostToMain(<<Msg("OnRootWindowCreated", new)>>)
    /\ UNCHANGED <<hwnd, browser, closing, windowDestroyed, browserDestroyed,
                   managerVars, tempWindow, mainPc, quitFlag, uiQ, uiStep, boundVars>>

\* OnBeforePopup allows the popup, parented to the temporary window.
OnBeforePopup(w, new) ==
    /\ UiFree /\ Live(w) /\ kind[new] = "none"
    /\ tempWindow' = TRUE
    /\ kind' = [kind EXCEPT ![new] = "popup"]
    /\ opener' = [opener EXCEPT ![new] = w]
    /\ browserWindow' = browserWindow \cup {new}
    /\ delegate' = delegate \cup {new}
    /\ cef' = [cef EXCEPT ![new] = "popup"]
    /\ PostToMain(<<Msg("OnRootWindowCreated", new)>>)
    /\ UNCHANGED <<hwnd, browser, closing, windowDestroyed, browserDestroyed,
                   managerVars, mainPc, quitFlag, uiQ, uiStep, boundVars>>

\* CEF makes the popup's browser, or drops it if the opener is gone.
PopupCreated(w) ==
    /\ UiFree /\ cef[w] = "popup"
    /\ \/ /\ Live(opener[w])
          /\ cef' = [cef EXCEPT ![w] = "open"]
          /\ PostToMain(<<Msg("OnBrowserCreated", w)>>)
       \/ /\ ~Live(opener[w])
          /\ cef' = [cef EXCEPT ![w] = "canceled"]
          /\ UNCHANGED mainQ
    /\ UiOnly /\ UNCHANGED <<makeVars, tempWindow, uiQ, uiStep>>

\* OnBeforeContextMenu tests delegate_ on the UI thread and then calls it.
OnBeforeContextMenu(w) ==
    /\ UiFree /\ Live(w)
    /\ w \in delegate
    /\ uiStep' = Msg("OnBeforeContextMenu", w)
    /\ UiOnly /\ UNCHANGED <<makeVars, tempWindow, mainQ, uiQ, cef>>

OnBeforeContextMenuEnds ==
    /\ UiRuns /\ uiStep.t = "OnBeforeContextMenu"
    /\ uiStep' = UiIdle
    /\ UiOnly /\ UNCHANGED <<makeVars, tempWindow, mainQ, uiQ, cef>>

\* CleanupOnUIThread: MainMessageLoop::Quit posts its closure.
CleanupOnUIThread ==
    /\ TakeUiTask("CleanupOnUIThread", NoWindow)
    /\ tempWindow' = FALSE
    /\ PostToMain(<<Msg("Quit", NoWindow)>>)
    /\ UNCHANGED cef

\* What the UI thread does without a page or a user causing it.
UiStepForced ==
    \/ \E w \in Window : \/ OnAfterCreated(w) \/ CloseBrowser(w)
                         \/ BrowserFollowsWindow(w) \/ PopupCreated(w)
    \/ OnOpenURLFromTabEnds \/ OnBeforeContextMenuEnds \/ CleanupOnUIThread

UiEvent ==
    \E w \in Window :
        \/ PageCloses(w) \/ BrowserGoesFirst(w) \/ OnBeforeContextMenu(w)
        \/ \E new \in Window : OnOpenURLFromTab(w, new) \/ OnBeforePopup(w, new)

-----------------------------------------------------------------------------
Next == MainStep \/ Environment \/ UiStepForced \/ UiEvent

\* Both threads run their queues; a page or the user need do nothing.  The
\* UI thread reaches a queued task in spite of what pages make it do.
Fairness ==
    /\ WF_vars(MainStep)
    /\ WF_vars(OnOpenURLFromTabEnds \/ OnBeforeContextMenuEnds)
    /\ SF_vars(CleanupOnUIThread \/ \E w \in Window : OnAfterCreated(w) \/ CloseBrowser(w))
    /\ \A w \in Window : SF_vars(BrowserFollowsWindow(w)) /\ SF_vars(PopupCreated(w))

Spec == Init /\ [][Next]_vars /\ Fairness

-----------------------------------------------------------------------------
(* Properties.                                                             *)

\* Type invariant: also, nothing names a window that was never made.
TypeOK ==
    /\ kind \in [Window -> {"none", "window", "popup"}]
    /\ opener \in [Window -> Made \cup {NoWindow}]
    /\ hwnd \cup browserWindow \cup browser \cup closing \cup delegate \cup
       windowDestroyed \cup browserDestroyed \cup rootWindows \subseteq Made
    /\ activeWindow \in Made \cup {NoWindow}
    /\ activeBrowser \in Made \cup {NoWindow}
    /\ tempWindow \in BOOLEAN
    /\ mainPc \in {"start", "loop", "returned", "shutdown"}
    /\ quitFlag \in BOOLEAN
    /\ mainQ \in Seq(MainMsg(Made))
    /\ uiQ \in Seq(UiTask(Made))
    /\ uiStep \in UiStep(Made)
    /\ cef \in [Window -> CefState]
    /\ \A w \in Window : cef[w] # "none" => w \in Made
    /\ closes \in 0..MaxCloses
    /\ commands \in 0..MaxCommands

\* ClientHandler::delegate_ never outlives the BrowserWindow it points to nor
\* the RootWindow that owns it, not even between the UI thread's test of it
\* and its call.
DelegateAlive ==
    /\ \A w \in delegate : w \in browserWindow /\ ~Deleted(w)
    /\ uiStep.t = "OnBeforeContextMenu" => uiStep.w \in delegate

\* A window is in root_windows_ from OnRootWindowCreated until both halves
\* are destroyed, so OnRootWindowDestroyed finds it, once (its DCHECK).
Registering(w) ==
    \/ uiStep = Msg("CreateRootWindow", w)
    \/ Queued(mainQ, Msg("OnRootWindowCreated", w))
RegisteredUntilDestroyed ==
    \A w \in Made :
        (w \in rootWindows \/ Registering(w))
            <=> ~(w \in windowDestroyed /\ w \in browserDestroyed)

\* The loop is told to quit only when no window is left or on its way, and
\* OnBeforeClose has been called for every browser; nothing is posted to
\* the main thread once Run() has returned (~MainMessageLoopMultithreadedWin).
Quitting ==
    \/ mainPc \in {"returned", "shutdown"} \/ quitFlag
    \/ Queued(mainQ, Msg("Quit", NoWindow))
    \/ Queued(uiQ, Msg("CleanupOnUIThread", NoWindow))
QuitAfterLastWindow ==
    /\ Quitting => /\ rootWindows = {}
                   /\ \A w \in Made : ~Registering(w) /\ ~Live(w) /\ cef[w] # "popup"
    /\ mainPc \in {"returned", "shutdown"} => mainQ = <<>>

\* GetActiveBrowser() is the browser of the active window, and NULL only
\* while that window has none.
ActiveBrowserOfActiveWindow ==
    activeBrowser = IF activeWindow \in browser THEN activeWindow ELSE NoWindow

\* OnBrowserCreated, OnBrowserClosing and OnBrowserClosed reach a Browser-
\* Window in this order (its DCHECKs, and the browser_ it dereferences), a
\* root window is created once, and no Close(true) misses its hwnd_.
CallbacksInOrder ==
    mainQ # <<>> =>
        LET t == Head(mainQ).t
            w == Head(mainQ).w
        IN /\ t = "CreateRootWindow" => w \notin hwnd \cup windowDestroyed
           /\ t = "OnBrowserCreated" =>
                 /\ w \in delegate /\ w \notin browser
                 /\ kind[w] = "popup" => w \notin hwnd \cup windowDestroyed
           /\ t = "OnBrowserClosing" => w \in browser
           /\ t = "OnBrowserClosed" =>
                 w \in delegate /\ w \in browser /\ w \in hwnd \cup windowDestroyed

\* The WM_CLOSE that CEF sends after DoClose is never answered with another
\* CloseBrowser(false): is_closing_ is set before it arrives.
AgreedCloseNotCancelled ==
    mainQ # <<>> /\ Head(mainQ).t = "CefClose" /\ Head(mainQ).w \in hwnd
        => ~CloseMustAsk(Head(mainQ).w)

\* A popup's browser is never parented to a destroyed temporary window.
TempWindowOutlivesPopups ==
    \A w \in Made :
        kind[w] = "popup" /\ cef[w] \in {"popup", "open", "closing"}
            => tempWindow \/ w \in hwnd \cup windowDestroyed

Canceled == \E w \in Window : cef[w] = "canceled"

\* "quit the main message loop after all windows have closed"
\* (root_window_manager.h): the loop does not run on without a native window.
QuitsWithoutWindows == []<>(mainPc # "loop" \/ hwnd # {})

\* The same, as long as CEF makes every browser it was asked for.
QuitsUnlessCanceled == []<>(mainPc # "loop" \/ hwnd # {} \/ Canceled)

QuitCommanded(w) == Queued(mainQ, Msg("CommandQuit", w))

\* A host's Quit that finds the browser ends the window for good.
CommandQuitEnds ==
    \A w \in Window : QuitCommanded(w) /\ w \in browser ~> w \notin rootWindows

\* cef_raw_scoped_refptr_mismatch_checker.h: a closure must not be bound to
\* a ref-counted object by raw pointer, the object may be deleted before it
\* runs; HandleCustomTask would then run on a deleted RootWindowWin.
CommandFindsItsWindow ==
    mainQ # <<>> /\ Head(mainQ).t \in {"CommandQuit", "CommandUse"}
        => ~Deleted(Head(mainQ).w)

-----------------------------------------------------------------------------
(* What the host can tell of it.                                           *)

\* RootWindows as a ClientProgram: a window is there with its hwnd_, and
\* gone when both halves are destroyed.
ClientLife ==
    CASE mainPc = "start" -> "starting"
      [] mainPc = "loop" -> "running"
      [] OTHER -> "dead"
ClientWindow(w) ==
    CASE w \notin Made -> "none"
      [] w \in hwnd -> "shown"
      [] w \in windowDestroyed \cap browserDestroyed -> "gone"
      [] w \in windowDestroyed \ browserDestroyed -> "hidden"
      [] OTHER -> "coming"

Client == INSTANCE ClientProgram
          WITH life <- ClientLife, browsers <- browser,
               window <- [w \in Window |-> ClientWindow(w)]

\* For its host the two threads are one program: a window comes after it was
\* asked for, its browser closes last, nothing is made while nothing is
\* left, and only then does Run() return.
ImplementsClientProgram == Client!Spec

\* A hidden window's browser closes, and Run() returns after the last window.
ClientProgresses == Client!Progress
=============================================================================
