--------------------------- MODULE ClientProgram ----------------------------
(***************************************************************************)
(* A browser client as its host sees it: whether the program runs, which   *)
(* root windows it has, and which of them have a browser.                  *)
(*                                                                         *)
(* A window is asked for, shown, hidden when its native window is          *)
(* destroyed, and gone when its browser is closed as well; a window that   *)
(* was asked for may never come, and one that was hidden before it had a   *)
(* browser never goes.  The program runs as long as any window is left,    *)
(* and no longer.                                                          *)
(*                                                                         *)
(* RootWindows implements this; NplCefPlugin relies on it.                 *)
(***************************************************************************)
CONSTANTS
    Window,
    First  \* the window RunMain makes

VARIABLES
    life,     \* "off", "starting", "running", or "dead": it has returned or was killed
    window,   \* of each: "none", "coming", "shown", "hidden" or "gone"
    browsers  \* windows with a browser

vars == <<life, window, browsers>>

Init ==
    /\ life \in {"off", "starting"}
    /\ window = [w \in Window |-> "none"]
    /\ browsers = {}

Left == {w \in Window : window[w] \notin {"none", "gone"}}

\* The host starts the program, and the program makes its first window.
Launch ==
    /\ life = "off" /\ life' = "starting"
    /\ UNCHANGED <<window, browsers>>

RunMain ==
    /\ life = "starting" /\ life' = "running"
    /\ window' = [window EXCEPT ![First] = "shown"]
    /\ UNCHANGED browsers

\* A page asks for a window, ...
Ask(w) ==
    /\ life = "running" /\ window[w] = "none" /\ Left # {}
    /\ window' = [window EXCEPT ![w] = "coming"]
    /\ UNCHANGED <<life, browsers>>

\* ... which comes before its browser or with it.
Show(w) ==
    /\ life = "running" /\ window[w] = "coming"
    /\ window' = [window EXCEPT ![w] = "shown"]
    /\ browsers' \in {browsers, browsers \cup {w}}
    /\ UNCHANGED life

OnBrowserCreated(w) ==
    /\ life = "running" /\ window[w] \in {"shown", "hidden"}
    /\ browsers' = browsers \cup {w}
    /\ UNCHANGED <<life, window>>

\* The native window is destroyed, ...
Hide(w) ==
    /\ life = "running" /\ window[w] = "shown"
    /\ window' = [window EXCEPT ![w] = "hidden"]
    /\ UNCHANGED <<life, browsers>>

\* ... the browser is closed.
OnBrowserClosed(w) ==
    /\ life = "running" /\ window[w] \in {"shown", "hidden"} /\ w \in browsers
    /\ window' = [window EXCEPT ![w] = "gone"]
    /\ browsers' = browsers \ {w}
    /\ UNCHANGED life

RunReturns ==
    /\ life = "running" /\ Left = {}
    /\ life' = "dead"
    /\ UNCHANGED <<window, browsers>>

Killed ==
    /\ life \in {"starting", "running"}
    /\ life' = "dead"
    /\ window' = [w \in Window |-> "gone"]
    /\ browsers' = {}

Next ==
    \/ Launch \/ RunMain \/ RunReturns \/ Killed
    \/ \E w \in Window : \/ Ask(w) \/ Show(w) \/ OnBrowserCreated(w)
                         \/ Hide(w) \/ OnBrowserClosed(w)

Spec == Init /\ [][Next]_vars

\* A hidden window with a browser goes, and with the last window the
\* program ends.
Progress ==
    /\ \A w \in Window : window[w] = "hidden" /\ w \in browsers ~> window[w] = "gone"
    /\ life = "running" /\ Left = {} ~> life = "dead"
=============================================================================
