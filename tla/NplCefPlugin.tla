---------------------------- MODULE NplCefPlugin ----------------------------
(***************************************************************************)
(* The plugin in the host process (NplCefBrowserImporter): LibActivate     *)
(* starts browser clients and sends them commands.                         *)
(*                                                                         *)
(* An NPL script calls LibActivate, one call at a time.  The plugin knows  *)
(* of a client only that it was started under an id (global_wnd_map); it   *)
(* finds its window by class name, which is the id, and a client gives the *)
(* same class to every root window it makes.  FindWindowEx returns any of  *)
(* several.  SendMessage returns once the command is in the client's queue *)
(* (HandleCustomMsg).                                                      *)
(*                                                                         *)
(* The clients are processes that run on their own: a window, and then its *)
(* browser, come some time after Start, if at all, and go when the user    *)
(* likes.  Each is a ClientProgram, which RootWindows implements.          *)
(***************************************************************************)
EXTENDS Naturals, Sequences

CONSTANTS
    Id,
    Client,      \* client processes, each started at most once
    Window,      \* bound: root windows a client can make, each once
    First,       \* the window RunMain makes
    MaxCommands  \* bound: commands in a client's queue

ASSUME WindowAssumption == First \in Window
ASSUME BoundAssumption == MaxCommands \in Nat

VARIABLES
    global_wnd_map,  \* the ids in the map
    call,            \* the call of LibActivate in progress
    life,            \* what has become of each client
    idOf,            \* window_name each client was started with
    window,          \* what has become of each client's root windows
    browsers,        \* those whose GetBrowser() is not NULL
    inbox,           \* HandleCustomTask closures queued in each client
    dismissed        \* clients launched before the last Quit of their id

clientVars == <<idOf, life, window, browsers, inbox>>
vars == <<global_wnd_map, call, clientVars, dismissed>>

Cmd == {"Quit", "Show"}
Task == [cmd : Cmd, w : Window]

\* As in ClientProgram: "starting" has no window yet; "dead" has returned
\* from RunMain or was killed.
Life == {"off", "starting", "running", "dead"}
WindowState == {"none", "coming", "shown", "hidden", "gone"}

NoCall == [at |-> "idle"]
Call == [at : {"refused"}, id : Id]
        \cup [at : {"find"}, id : Id, cmd : Cmd]
        \cup [at : {"send"}, id : Id, cmd : Cmd, to : Client, w : Window]
        \cup {NoCall}

Init ==
    /\ global_wnd_map = {}
    /\ call = NoCall
    /\ life = [c \in Client |-> "off"]
    /\ idOf \in [Client -> Id]
    /\ window = [c \in Client |-> [w \in Window |-> "none"]]
    /\ browsers = [c \in Client |-> {}]
    /\ inbox = [c \in Client |-> <<>>]
    /\ dismissed = {}

Launched(id) == {c \in Client : life[c] # "off" /\ idOf[c] = id}

-----------------------------------------------------------------------------
(* LibActivate.                                                            *)

\* Mutant: without the look into the map.
StartMutant(id) ==
    /\ call = NoCall
    /\ \E c \in Client :
          /\ life[c] = "off" /\ idOf[c] = id
          /\ life' = [life EXCEPT ![c] = "starting"]
    /\ global_wnd_map' = global_wnd_map \cup {id}
    /\ UNCHANGED <<call, idOf, window, browsers, inbox, dismissed>>

\* cmd = "Start".  What ShellExecute returns is not looked at.
Start(id) ==
    /\ call = NoCall
    /\ \/ /\ id \notin global_wnd_map
          /\ global_wnd_map' = global_wnd_map \cup {id}
          /\ \/ \E c \in Client :
                   /\ life[c] = "off" /\ idOf[c] = id
                   /\ life' = [life EXCEPT ![c] = "starting"]
             \/ UNCHANGED life
          /\ UNCHANGED call
       \/ /\ id \in global_wnd_map
          /\ call' = [at |-> "refused", id |-> id]
          /\ UNCHANGED <<global_wnd_map, life>>
    /\ UNCHANGED <<idOf, window, browsers, inbox, dismissed>>

StartReturns ==
    /\ call.at = "refused"
    /\ call' = NoCall
    /\ UNCHANGED <<global_wnd_map, clientVars, dismissed>>

\* Any other cmd; Quit forgets the id before it has found the window.
Command(id, cmd) ==
    /\ call = NoCall
    /\ call' = [at |-> "find", id |-> id, cmd |-> cmd]
    /\ IF cmd = "Quit"
       THEN /\ global_wnd_map' = global_wnd_map \ {id}
            /\ dismissed' = dismissed \cup Launched(id)
       ELSE UNCHANGED <<global_wnd_map, dismissed>>
    /\ UNCHANGED clientVars

Found(id) == {f \in Client \X Window : idOf[f[1]] = id /\ window[f[1]][f[2]] = "shown"}

FindWindowEx ==
    /\ call.at = "find"
    /\ \/ /\ Found(call.id) = {}
          /\ call' = NoCall
       \/ \E f \in Found(call.id) :
             call' = [at |-> "send", id |-> call.id, cmd |-> call.cmd,
                      to |-> f[1], w |-> f[2]]
    /\ UNCHANGED <<global_wnd_map, clientVars, dismissed>>

\* SendMessage, then NPL_Activate of the callback file, whether or not the
\* window was still there.
SendMessage ==
    /\ call.at = "send"
    /\ \/ /\ window[call.to][call.w] = "shown"
          /\ Len(inbox[call.to]) < MaxCommands
          /\ inbox' = [inbox EXCEPT ![call.to] =
                          Append(@, [cmd |-> call.cmd, w |-> call.w])]
       \/ window[call.to][call.w] # "shown" /\ UNCHANGED inbox
    /\ call' = NoCall
    /\ UNCHANGED <<global_wnd_map, idOf, life, window, browsers, dismissed>>

-----------------------------------------------------------------------------
(* The clients.                                                            *)

PluginUnchanged == UNCHANGED <<global_wnd_map, call, idOf, dismissed>>
Becomes(c, w, state) == window' = [window EXCEPT ![c][w] = state]
Left(c) == {w \in Window : window[c][w] \notin {"none", "gone"}}

\* RunMain makes the first root window.
RunMain(c) ==
    /\ life[c] = "starting"
    /\ life' = [life EXCEPT ![c] = "running"]
    /\ Becomes(c, First, "shown")
    /\ UNCHANGED <<browsers, inbox>> /\ PluginUnchanged

\* A page asks for a popup or for another window.
AskWindow(c, w) ==
    /\ life[c] = "running" /\ window[c][w] = "none" /\ Left(c) # {}
    /\ Becomes(c, w, "coming")
    /\ UNCHANGED <<life, browsers, inbox>> /\ PluginUnchanged

\* It comes: a popup's window with its browser, any other before it.
CreateRootWindow(c, w) ==
    /\ life[c] = "running" /\ window[c][w] = "coming"
    /\ Becomes(c, w, "shown")
    /\ \/ browsers' = [browsers EXCEPT ![c] = @ \cup {w}]
       \/ UNCHANGED browsers
    /\ UNCHANGED <<life, inbox>> /\ PluginUnchanged

\* The BrowserWindow gets its browser, even if the root window is gone.
OnBrowserCreated(c, w) ==
    /\ life[c] = "running" /\ window[c][w] \in {"shown", "hidden"}
    /\ browsers' = [browsers EXCEPT ![c] = @ \cup {w}]
    /\ UNCHANGED <<life, window, inbox>> /\ PluginUnchanged

\* The user, the page or the host's window destroys the native window.
DestroyWindow(c, w) ==
    /\ life[c] = "running" /\ window[c][w] = "shown"
    /\ Becomes(c, w, "hidden")
    /\ UNCHANGED <<life, browsers, inbox>> /\ PluginUnchanged

\* The browser is closed, and with it what is left of the window.
OnBrowserClosed(c, w) ==
    /\ life[c] = "running" /\ w \in browsers[c]
    /\ Becomes(c, w, "gone")
    /\ browsers' = [browsers EXCEPT ![c] = @ \ {w}]
    /\ UNCHANGED <<life, inbox>> /\ PluginUnchanged

\* Mutant: "Quit" waits for the user to agree.
HandleCustomTaskMutant(c) ==
    /\ life[c] = "running" /\ inbox[c] # <<>>
    /\ inbox' = [inbox EXCEPT ![c] = Tail(@)]
    /\ UNCHANGED <<life, window, browsers>> /\ PluginUnchanged

\* HandleCustomTask returns at once if there is no browser.
HandleCustomTask(c) ==
    /\ life[c] = "running" /\ inbox[c] # <<>>
    /\ inbox' = [inbox EXCEPT ![c] = Tail(@)]
    /\ LET m == Head(inbox[c])
       IN IF m.cmd = "Quit" /\ m.w \in browsers[c] /\ window[c][m.w] = "shown"
          THEN Becomes(c, m.w, "hidden")
          ELSE UNCHANGED window
    /\ UNCHANGED <<life, browsers>> /\ PluginUnchanged

Dies(c) ==
    /\ life' = [life EXCEPT ![c] = "dead"]
    /\ inbox' = [inbox EXCEPT ![c] = <<>>]
    /\ PluginUnchanged

\* Run() returns after the last window.
RunReturns(c) ==
    /\ life[c] = "running" /\ Left(c) = {}
    /\ Dies(c) /\ UNCHANGED <<window, browsers>>

Killed(c) ==
    /\ life[c] \in {"starting", "running"}
    /\ window' = [window EXCEPT ![c] = [w \in Window |-> "gone"]]
    /\ browsers' = [browsers EXCEPT ![c] = {}]
    /\ Dies(c)

-----------------------------------------------------------------------------
LibActivate == StartReturns \/ FindWindowEx \/ SendMessage

Next ==
    \/ LibActivate
    \/ \E id \in Id : Start(id) \/ \E cmd \in Cmd : Command(id, cmd)
    \/ \E c \in Client :
          \/ RunMain(c) \/ HandleCustomTask(c) \/ RunReturns(c) \/ Killed(c)
          \/ \E w \in Window : \/ AskWindow(c, w) \/ CreateRootWindow(c, w)
                               \/ OnBrowserCreated(c, w) \/ DestroyWindow(c, w)
                               \/ OnBrowserClosed(c, w)

\* A call goes on; a client's main thread runs its queue and makes the
\* progress ClientProgram promises.
Fairness ==
    /\ WF_vars(LibActivate)
    /\ \A c \in Client :
          /\ WF_vars(HandleCustomTask(c)) /\ WF_vars(RunReturns(c))
          /\ \A w \in Window :
                WF_vars(window[c][w] = "hidden" /\ OnBrowserClosed(c, w))

Spec == Init /\ [][Next]_vars /\ Fairness

\* Each client is a ClientProgram of its own.
Program(c) == INSTANCE ClientProgram
              WITH life <- life[c], window <- window[c], browsers <- browsers[c]

-----------------------------------------------------------------------------
(* Properties.                                                             *)

\* Type invariant: also, only a window that was shown has a browser, and
\* only a running client has windows to be found and a queue.
TypeOK ==
    /\ global_wnd_map \subseteq Id
    /\ call \in Call
    /\ life \in [Client -> Life]
    /\ idOf \in [Client -> Id]
    /\ dismissed \subseteq Client
    /\ window \in [Client -> [Window -> WindowState]]
    /\ browsers \in [Client -> SUBSET Window]
    /\ inbox \in [Client -> Seq(Task)]
    /\ \A c \in Client :
          /\ \A w \in browsers[c] : window[c][w] \in {"shown", "hidden"}
          /\ Len(inbox[c]) <= MaxCommands
          /\ life[c] # "running" => Left(c) = {} /\ inbox[c] = <<>>

\* A second client of an id is only ever started once the host has told the
\* first to quit; a client the host has not told so is in the map, so a Quit
\* can still be sent to it.
OneClientPerId ==
    \A id \in Id : \A c, d \in Launched(id) \ dismissed :
        c = d /\ id \in global_wnd_map

QuitQueued(c) ==
    \E i \in 1..Len(inbox[c]) : inbox[c][i] = [cmd |-> "Quit", w |-> First]

\* A Quit that reaches the first window with its browser ends the client,
\* unless the client has another window, or one that was asked for.
QuitEndsClient ==
    \A c \in Client :
        QuitQueued(c) /\ First \in browsers[c] ~> life[c] = "dead" \/ Left(c) \ {First} # {}
=============================================================================
