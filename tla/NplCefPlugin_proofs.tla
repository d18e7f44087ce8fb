------------------------ MODULE NplCefPlugin_proofs -------------------------
(***************************************************************************)
(* Theorems about NplCefPlugin: its type invariant; OneClientPerId, which  *)
(* is inductive as it stands (an id that is not in the map has only        *)
(* clients that were told to quit, so Start makes the only other one); and *)
(* that each of its clients is a ClientProgram.                            *)
(***************************************************************************)
EXTENDS NplCefPlugin, TLAPS

\* A Windows message queue is a sequence; what taking and posting do to it.
LEMMA QueueOK ==
    ASSUME NEW q \in Seq(Task)
    PROVE  /\ \A m \in Task : Append(q, m) \in Seq(Task) /\ Len(Append(q, m)) = Len(q) + 1
           /\ q # <<>> => Tail(q) \in Seq(Task) /\ Len(Tail(q)) = Len(q) - 1 /\ Head(q) \in Task
           /\ Len(q) \in Nat
  OBVIOUS

\* What a step of one client has to leave right.
LEMMA ClientStep ==
    ASSUME TypeOK, NEW c \in Client, PluginUnchanged,
           life' \in [Client -> Life], window' \in [Client -> [Window -> WindowState]],
           browsers' \in [Client -> SUBSET Window], inbox' \in [Client -> Seq(Task)],
           \A d \in Client : d # c =>
               /\ life'[d] = life[d] /\ window'[d] = window[d]
               /\ browsers'[d] = browsers[d] /\ inbox'[d] = inbox[d],
           \A w \in browsers'[c] : window'[c][w] \in {"shown", "hidden"},
           Len(inbox'[c]) <= MaxCommands,
           life'[c] # "running" =>
               (\A w \in Window : window'[c][w] \in {"none", "gone"}) /\ inbox'[c] = <<>>
    PROVE  TypeOK'
<1>1. ASSUME NEW d \in Client
      PROVE  /\ \A w \in browsers'[d] : window'[d][w] \in {"shown", "hidden"}
             /\ Len(inbox'[d]) <= MaxCommands
             /\ life'[d] # "running" => Left(d)' = {} /\ inbox'[d] = <<>>
  <2>1. CASE d = c
    BY <2>1 DEF Left
  <2>2. CASE d # c
    BY <2>2 DEF TypeOK, Left
  <2> QED
    BY <2>1, <2>2
<1> QED
  BY <1>1 DEF TypeOK, PluginUnchanged

\* A step of one root window of a running client.
LEMMA WindowStep ==
    ASSUME TypeOK, NEW c \in Client, NEW w \in Window, PluginUnchanged,
           life[c] = "running", life' = life, inbox' = inbox,
           window' \in [Client -> [Window -> WindowState]],
           \A d \in Client : d # c => window'[d] = window[d],
           \A v \in Window : v # w => window'[c][v] = window[c][v],
           browsers' \in [Client -> SUBSET Window],
           \A d \in Client : d # c => browsers'[d] = browsers[d],
           browsers'[c] \subseteq browsers[c] \cup {w},
           w \in browsers'[c] => window'[c][w] \in {"shown", "hidden"}
    PROVE  TypeOK'
<1>1. /\ life \in [Client -> Life] /\ inbox \in [Client -> Seq(Task)]
      /\ \A v \in browsers[c] : window[c][v] \in {"shown", "hidden"}
      /\ browsers[c] \subseteq Window
      /\ Len(inbox[c]) <= MaxCommands
  BY DEF TypeOK
<1>2. /\ life' \in [Client -> Life] /\ inbox' \in [Client -> Seq(Task)]
      /\ Len(inbox'[c]) <= MaxCommands
  BY <1>1
<1>3. \A d \in Client : d # c =>
          /\ life'[d] = life[d] /\ window'[d] = window[d]
          /\ browsers'[d] = browsers[d] /\ inbox'[d] = inbox[d]
  OBVIOUS
<1>4. \A v \in browsers'[c] : window'[c][v] \in {"shown", "hidden"}
  <2> SUFFICES ASSUME NEW v \in browsers'[c]
               PROVE  window'[c][v] \in {"shown", "hidden"}
    OBVIOUS
  <2>1. CASE v = w
    BY <2>1
  <2>2. CASE v # w
    <3>1. v \in browsers[c]
      BY <2>2
    <3> QED
      BY <1>1, <2>2, <3>1
  <2> QED
    BY <2>1, <2>2
<1>5. life'[c] # "running" =>
          (\A v \in Window : window'[c][v] \in {"none", "gone"}) /\ inbox'[c] = <<>>
  OBVIOUS
<1> QED
  BY <1>2, <1>3, <1>4, <1>5, ClientStep, Zenon

LEMMA BecomesIs ==
    ASSUME NEW c \in Client, NEW w \in Window, NEW state \in WindowState,
           window \in [Client -> [Window -> WindowState]], Becomes(c, w, state)
    PROVE  /\ window' \in [Client -> [Window -> WindowState]]
           /\ \A d \in Client : d # c => window'[d] = window[d]
           /\ window'[c][w] = state
           /\ \A v \in Window : v # w => window'[c][v] = window[c][v]
  BY DEF Becomes

ClientAction(c) ==
    \/ RunMain(c) \/ HandleCustomTask(c) \/ RunReturns(c) \/ Killed(c)
    \/ \E w \in Window : \/ AskWindow(c, w) \/ CreateRootWindow(c, w)
                         \/ OnBrowserCreated(c, w) \/ DestroyWindow(c, w)
                         \/ OnBrowserClosed(c, w)

LEMMA ClientActionStep ==
    ASSUME TypeOK, NEW c \in Client, ClientAction(c)
    PROVE  TypeOK'
<1>1. /\ life \in [Client -> Life] /\ window \in [Client -> [Window -> WindowState]]
      /\ browsers \in [Client -> SUBSET Window] /\ inbox \in [Client -> Seq(Task)]
      /\ \A w \in browsers[c] : window[c][w] \in {"shown", "hidden"}
      /\ Len(inbox[c]) <= MaxCommands
      /\ life[c] # "running" =>
            (\A w \in Window : window[c][w] \in {"none", "gone"}) /\ inbox[c] = <<>>
  BY DEF TypeOK, Left
<1>2. "dead" \in Life /\ "running" \in Life
  BY DEF Life
<1>3. {"none", "coming", "shown", "hidden", "gone"} = WindowState
  BY DEF WindowState
<1>4. CASE RunMain(c)
  <2>1. /\ life' \in [Client -> Life] /\ life'[c] = "running"
        /\ \A d \in Client : d # c => life'[d] = life[d]
        /\ browsers' = browsers /\ inbox' = inbox /\ PluginUnchanged
    BY <1>1, <1>2, <1>4 DEF RunMain
  <2>2. /\ window' \in [Client -> [Window -> WindowState]]
        /\ \A d \in Client : d # c => window'[d] = window[d]
        /\ window'[c][First] = "shown"
        /\ \A v \in Window : v # First => window'[c][v] = window[c][v]
    BY <1>1, <1>3, <1>4, WindowAssumption, BecomesIs DEF RunMain
  <2>3. /\ browsers' \in [Client -> SUBSET Window] /\ inbox' \in [Client -> Seq(Task)]
        /\ Len(inbox'[c]) <= MaxCommands
    BY <1>1, <2>1
  <2>4. browsers'[c] = {}
    <3>1. \A w \in Window : window[c][w] \in {"none", "gone"}
      BY <1>1, <1>4 DEF RunMain
    <3>2. browsers'[c] = browsers[c] /\ browsers[c] \subseteq Window
      BY <1>1, <2>1
    <3> QED
      BY <1>1, <3>1, <3>2
  <2>5. \A w \in browsers'[c] : window'[c][w] \in {"shown", "hidden"}
    BY <2>4
  <2>6. \A d \in Client : d # c =>
          /\ life'[d] = life[d] /\ window'[d] = window[d]
          /\ browsers'[d] = browsers[d] /\ inbox'[d] = inbox[d]
    BY <2>1, <2>2
  <2>7. life'[c] # "running" =>
          (\A w \in Window : window'[c][w] \in {"none", "gone"}) /\ inbox'[c] = <<>>
    BY <2>1
  <2> QED
    BY <2>1, <2>2, <2>3, <2>5, <2>6, <2>7, ClientStep, Zenon
<1>5. ASSUME NEW w \in Window, AskWindow(c, w)
      PROVE  TypeOK'
  <2>1. life[c] = "running" /\ life' = life /\ inbox' = inbox /\ PluginUnchanged
    BY <1>5 DEF AskWindow
  <2>2. /\ window' \in [Client -> [Window -> WindowState]]
        /\ \A d \in Client : d # c => window'[d] = window[d]
        /\ window'[c][w] = "coming"
        /\ \A v \in Window : v # w => window'[c][v] = window[c][v]
    BY <1>1, <1>3, <1>5, BecomesIs DEF AskWindow
  <2>3. browsers' = browsers /\ w \notin browsers[c]
    BY <1>1, <1>5 DEF AskWindow
  <2>4. /\ browsers' \in [Client -> SUBSET Window]
        /\ \A d \in Client : d # c => browsers'[d] = browsers[d]
        /\ browsers'[c] \subseteq browsers[c] \cup {w}
        /\ w \in browsers'[c] => window'[c][w] \in {"shown", "hidden"}
    BY <1>1, <2>2, <2>3
  <2> QED
    BY <2>1, <2>2, <2>4, WindowStep, Zenon
<1>6. ASSUME NEW w \in Window, CreateRootWindow(c, w)
      PROVE  TypeOK'
  <2>1. life[c] = "running" /\ life' = life /\ inbox' = inbox /\ PluginUnchanged
    BY <1>6 DEF CreateRootWindow
  <2>2. /\ window' \in [Client -> [Window -> WindowState]]
        /\ \A d \in Client : d # c => window'[d] = window[d]
        /\ window'[c][w] = "shown"
        /\ \A v \in Window : v # w => window'[c][v] = window[c][v]
    BY <1>1, <1>3, <1>6, BecomesIs DEF CreateRootWindow
  <2>3. /\ browsers' \in [Client -> SUBSET Window]
        /\ \A d \in Client : d # c => browsers'[d] = browsers[d]
        /\ browsers'[c] \in {browsers[c], browsers[c] \cup {w}}
    BY <1>1, <1>6 DEF CreateRootWindow
  <2>4. /\ browsers' \in [Client -> SUBSET Window]
        /\ \A d \in Client : d # c => browsers'[d] = browsers[d]
        /\ browsers'[c] \subseteq browsers[c] \cup {w}
        /\ w \in browsers'[c] => window'[c][w] \in {"shown", "hidden"}
    BY <1>1, <2>2, <2>3
  <2> QED
    BY <2>1, <2>2, <2>4, WindowStep, Zenon
<1>7. ASSUME NEW w \in Window, OnBrowserCreated(c, w)
      PROVE  TypeOK'
  <2>1. life[c] = "running" /\ life' = life /\ inbox' = inbox /\ PluginUnchanged
    BY <1>7 DEF OnBrowserCreated
  <2>2. window' = window /\ window[c][w] \in {"shown", "hidden"}
    BY <1>7 DEF OnBrowserCreated
  <2>3. /\ browsers' \in [Client -> SUBSET Window]
        /\ \A d \in Client : d # c => browsers'[d] = browsers[d]
        /\ browsers'[c] = browsers[c] \cup {w}
    BY <1>1, <1>7 DEF OnBrowserCreated
  <2>4. window' \in [Client -> [Window -> WindowState]]
    BY <1>1, <2>2
  <2>5. /\ \A d \in Client : d # c => window'[d] = window[d]
        /\ \A v \in Window : v # w => window'[c][v] = window[c][v]
        /\ browsers'[c] \subseteq browsers[c] \cup {w}
        /\ w \in browsers'[c] => window'[c][w] \in {"shown", "hidden"}
    BY <2>2, <2>3
  <2> QED
    BY <2>1, <2>3, <2>4, <2>5, WindowStep, Zenon
<1>8. ASSUME NEW w \in Window, DestroyWindow(c, w)
      PROVE  TypeOK'
  <2>1. life[c] = "running" /\ life' = life /\ inbox' = inbox /\ PluginUnchanged
    BY <1>8 DEF DestroyWindow
  <2>2. /\ window' \in [Client -> [Window -> WindowState]]
        /\ \A d \in Client : d # c => window'[d] = window[d]
        /\ window'[c][w] = "hidden"
        /\ \A v \in Window : v # w => window'[c][v] = window[c][v]
    BY <1>1, <1>3, <1>8, BecomesIs DEF DestroyWindow
  <2>3. browsers' = browsers
    BY <1>8 DEF DestroyWindow
  <2>4. /\ browsers' \in [Client -> SUBSET Window]
        /\ \A d \in Client : d # c => browsers'[d] = browsers[d]
        /\ browsers'[c] \subseteq browsers[c] \cup {w}
        /\ w \in browsers'[c] => window'[c][w] \in {"shown", "hidden"}
    BY <1>1, <2>2, <2>3
  <2> QED
    BY <2>1, <2>2, <2>4, WindowStep, Zenon
<1>9. ASSUME NEW w \in Window, OnBrowserClosed(c, w)
      PROVE  TypeOK'
  <2>1. life[c] = "running" /\ life' = life /\ inbox' = inbox /\ PluginUnchanged
    BY <1>9 DEF OnBrowserClosed
  <2>2. /\ window' \in [Client -> [Window -> WindowState]]
        /\ \A d \in Client : d # c => window'[d] = window[d]
        /\ window'[c][w] = "gone"
        /\ \A v \in Window : v # w => window'[c][v] = window[c][v]
    BY <1>1, <1>3, <1>9, BecomesIs DEF OnBrowserClosed
  <2>3. /\ browsers' \in [Client -> SUBSET Window]
        /\ \A d \in Client : d # c => browsers'[d] = browsers[d]
        /\ browsers'[c] = browsers[c] \ {w}
    BY <1>1, <1>9 DEF OnBrowserClosed
  <2>4. /\ browsers' \in [Client -> SUBSET Window]
        /\ \A d \in Client : d # c => browsers'[d] = browsers[d]
        /\ browsers'[c] \subseteq browsers[c] \cup {w}
        /\ w \in browsers'[c] => window'[c][w] \in {"shown", "hidden"}
    BY <1>1, <2>2, <2>3
  <2> QED
    BY <2>1, <2>2, <2>4, WindowStep, Zenon
<1>10. CASE HandleCustomTask(c)
  <2>1. /\ inbox' \in [Client -> Seq(Task)]
        /\ Len(inbox'[c]) <= MaxCommands
        /\ \A d \in Client : d # c => inbox'[d] = inbox[d]
    BY <1>1, <1>10, BoundAssumption, QueueOK DEF HandleCustomTask
  <2>2. \/ \E w \in Window : window[c][w] = "shown" /\ Becomes(c, w, "hidden")
        \/ UNCHANGED window
    BY <1>1, <1>10, QueueOK DEF HandleCustomTask, Task
  <2>3. life[c] = "running" /\ UNCHANGED <<life, browsers>> /\ PluginUnchanged
    BY <1>10 DEF HandleCustomTask
  <2>4. /\ window' \in [Client -> [Window -> WindowState]]
        /\ \A d \in Client : d # c => window'[d] = window[d]
        /\ \A w \in Window : window'[c][w] = window[c][w] \/ window'[c][w] = "hidden"
    BY <1>1, <1>3, <2>2, BecomesIs
  <2>5. \A d \in Client : life'[d] = life[d] /\ browsers'[d] = browsers[d]
    BY <2>3
  <2>6. life' \in [Client -> Life] /\ browsers' \in [Client -> SUBSET Window]
    BY <1>1, <2>3
  <2>7. \A w \in browsers'[c] : window'[c][w] \in {"shown", "hidden"}
    <3> SUFFICES ASSUME NEW w \in browsers'[c]
                 PROVE  window'[c][w] \in {"shown", "hidden"}
      OBVIOUS
    <3>1. w \in browsers[c] /\ w \in Window
      BY <1>1, <2>5
    <3> QED
      BY <1>1, <2>4, <3>1
  <2>8. \A d \in Client : d # c =>
          /\ life'[d] = life[d] /\ window'[d] = window[d]
          /\ browsers'[d] = browsers[d] /\ inbox'[d] = inbox[d]
    BY <2>1, <2>4, <2>5
  <2>9. life'[c] # "running" =>
          (\A w \in Window : window'[c][w] \in {"none", "gone"}) /\ inbox'[c] = <<>>
    BY <2>3, <2>5
  <2> QED
    BY <2>1, <2>3, <2>4, <2>6, <2>7, <2>8, <2>9, ClientStep, Zenon
<1>11. CASE RunReturns(c) \/ Killed(c)
  <2>1. /\ life' \in [Client -> Life] /\ inbox' \in [Client -> Seq(Task)]
        /\ \A d \in Client : d # c => life'[d] = life[d] /\ inbox'[d] = inbox[d]
        /\ inbox'[c] = <<>> /\ Len(inbox'[c]) <= MaxCommands
        /\ PluginUnchanged
    <3>1. /\ life' = [life EXCEPT ![c] = "dead"] /\ inbox' = [inbox EXCEPT ![c] = <<>>]
          /\ PluginUnchanged
      BY <1>11 DEF RunReturns, Killed, Dies
    <3>2. <<>> \in Seq(Task) /\ Len(<<>>) <= MaxCommands
      BY BoundAssumption
    <3> QED
      BY <1>1, <1>2, <3>1, <3>2
  <2>2. CASE RunReturns(c)
    <3>1. /\ window' = window /\ browsers' = browsers
          /\ \A w \in Window : window[c][w] \in {"none", "gone"}
      BY <2>2 DEF RunReturns, Left
    <3> QED
      BY <1>1, <2>1, <3>1, ClientStep
  <2>3. CASE Killed(c)
    <3>1. [w \in Window |-> "gone"] \in [Window -> WindowState]
      BY <1>3
    <3>2. /\ window' \in [Client -> [Window -> WindowState]]
          /\ browsers' \in [Client -> SUBSET Window]
          /\ \A d \in Client : d # c => window'[d] = window[d] /\ browsers'[d] = browsers[d]
          /\ browsers'[c] = {} /\ \A w \in Window : window'[c][w] = "gone"
      BY <1>1, <2>3, <3>1 DEF Killed
    <3>3. /\ \A w \in browsers'[c] : window'[c][w] \in {"shown", "hidden"}
          /\ \A w \in Window : window'[c][w] \in {"none", "gone"}
      BY <3>2
    <3>4. \A d \in Client : d # c =>
             /\ life'[d] = life[d] /\ window'[d] = window[d]
             /\ browsers'[d] = browsers[d] /\ inbox'[d] = inbox[d]
      BY <2>1, <3>2
    <3> QED
      BY <2>1, <3>2, <3>3, <3>4, ClientStep, Zenon
  <2> QED
    BY <1>11, <2>2, <2>3
<1> QED
  BY <1>4, <1>5, <1>6, <1>7, <1>8, <1>9, <1>10, <1>11 DEF ClientAction

LEMMA TypeStep ==
    ASSUME TypeOK, [Next]_vars
    PROVE  TypeOK'
<1> USE BoundAssumption, WindowAssumption DEF TypeOK, Life, Left
<1>1. CASE UNCHANGED vars
  BY <1>1 DEF vars, clientVars
<1>2. CASE StartReturns
  BY <1>2 DEF StartReturns, Call, NoCall, clientVars
<1>3. CASE FindWindowEx
  BY <1>3 DEF FindWindowEx, Found, Call, NoCall, clientVars
<1>4. CASE SendMessage
  <2>1. PICK t \in [at : {"send"}, id : Id, cmd : Cmd, to : Client, w : Window] : call = t
    BY <1>4 DEF SendMessage, Call, NoCall
  <2>2. CASE UNCHANGED inbox
    BY <1>4, <2>2 DEF SendMessage, Call, NoCall
  <2>3. CASE /\ window[t.to][t.w] = "shown"
             /\ Len(inbox[t.to]) < MaxCommands
             /\ inbox' = [inbox EXCEPT ![t.to] = Append(@, [cmd |-> t.cmd, w |-> t.w])]
    <3>1. [cmd |-> t.cmd, w |-> t.w] \in Task
      BY DEF Task
    <3>2. /\ inbox' \in [Client -> Seq(Task)]
          /\ Len(inbox'[t.to]) <= MaxCommands
          /\ \A c \in Client : c # t.to => inbox'[c] = inbox[c]
      BY <2>3, <3>1, QueueOK
    <3>3. life[t.to] = "running"
      BY <2>3 DEF Left
    <3> QED
      BY <1>4, <3>2, <3>3 DEF SendMessage, Call, NoCall
  <2> QED
    BY <1>4, <2>1, <2>2, <2>3 DEF SendMessage
<1>5. ASSUME NEW id \in Id, Start(id)
      PROVE  TypeOK'
  BY <1>5 DEF Start, Call, NoCall
<1>6. ASSUME NEW id \in Id, NEW cmd \in Cmd, Command(id, cmd)
      PROVE  TypeOK'
  BY <1>6 DEF Command, Call, Launched, clientVars
<1>7. ASSUME NEW c \in Client, ClientAction(c)
      PROVE  TypeOK'
  BY <1>7, ClientActionStep
<1> QED
  BY <1>1, <1>2, <1>3, <1>4, <1>5, <1>6, <1>7 DEF Next, LibActivate, ClientAction

\* Type correctness of the plugin and of what it knows of its clients.
THEOREM TypeCorrect == Spec => []TypeOK
<1>1. Init => TypeOK
  BY BoundAssumption DEF Init, TypeOK, Call, Life, WindowState, Left
<1> QED
  BY <1>1, TypeStep, PTL DEF Spec

\* Only Start makes a client, and only for an id that is not in the map.
LEMMA OneClientStep ==
    ASSUME TypeOK, OneClientPerId, [Next]_vars
    PROVE  OneClientPerId'
<1> USE DEF TypeOK, Launched
<1>1. ASSUME NEW id \in Id, Start(id)
      PROVE  OneClientPerId'
  BY <1>1 DEF OneClientPerId, Start
<1>2. ASSUME NEW id \in Id, NEW cmd \in Cmd, Command(id, cmd)
      PROVE  OneClientPerId'
  BY <1>2 DEF OneClientPerId, Command, clientVars
<1>3. ASSUME UNCHANGED <<global_wnd_map, idOf, dismissed>>,
             \A c \in Client : life[c] = "off" <=> life'[c] = "off"
      PROVE  OneClientPerId'
  BY <1>3 DEF OneClientPerId
<1>4. ASSUME NEW c \in Client, RunMain(c) \/ RunReturns(c) \/ Killed(c)
      PROVE  OneClientPerId'
  BY <1>3, <1>4 DEF RunMain, RunReturns, Killed, Dies, PluginUnchanged
<1>5. ASSUME UNCHANGED <<life, global_wnd_map, idOf, dismissed>>
      PROVE  OneClientPerId'
  BY <1>3, <1>5
<1>6. CASE \/ LibActivate \/ UNCHANGED vars
           \/ \E c \in Client : HandleCustomTask(c)
  BY <1>5, <1>6 DEF LibActivate, StartReturns, FindWindowEx, SendMessage, HandleCustomTask,
                    PluginUnchanged, clientVars, vars
<1>7. ASSUME NEW c \in Client, NEW w \in Window,
             \/ AskWindow(c, w) \/ CreateRootWindow(c, w) \/ OnBrowserCreated(c, w)
             \/ DestroyWindow(c, w) \/ OnBrowserClosed(c, w)
      PROVE  OneClientPerId'
  BY <1>5, <1>7 DEF AskWindow, CreateRootWindow, OnBrowserCreated, DestroyWindow,
                    OnBrowserClosed, PluginUnchanged
<1> QED
  BY <1>1, <1>2, <1>4, <1>6, <1>7 DEF Next

\* For any number of ids and clients: a second client of an id is started
\* only after a Quit for the first.
THEOREM OneClient == Spec => []OneClientPerId
<1>1. Init => OneClientPerId
  BY DEF Init, OneClientPerId, Launched
<1> QED
  BY <1>1, OneClientStep, TypeCorrect, PTL DEF Spec


\* What a step does to one client: one of its own, or none.
LEMMA ClientStepIs ==
    ASSUME TypeOK, NEW c \in Client, ClientAction(c)
    PROVE  [Program(c)!Next]_(Program(c)!vars)
<1>1. /\ life \in [Client -> Life] /\ window \in [Client -> [Window -> WindowState]]
      /\ browsers \in [Client -> SUBSET Window] /\ inbox \in [Client -> Seq(Task)]
      /\ \A w \in browsers[c] : window[c][w] \in {"shown", "hidden"}
  BY DEF TypeOK
<1>2. Left(c) = Program(c)!Left
  BY DEF Left, Program!Left
<1>3. CASE RunMain(c)
  <2>1. Program(c)!RunMain
    BY <1>1, <1>3, WindowAssumption DEF RunMain, Becomes, Program!RunMain
  <2> QED
    BY <2>1 DEF Program!Next
<1>4. ASSUME NEW w \in Window, AskWindow(c, w)
      PROVE  Program(c)!Ask(w)
  BY <1>1, <1>2, <1>4 DEF AskWindow, Becomes, Program!Ask
<1>5. ASSUME NEW w \in Window, CreateRootWindow(c, w)
      PROVE  Program(c)!Show(w)
  BY <1>1, <1>5 DEF CreateRootWindow, Becomes, Program!Show
<1>6. ASSUME NEW w \in Window, OnBrowserCreated(c, w)
      PROVE  Program(c)!OnBrowserCreated(w)
  BY <1>1, <1>6 DEF OnBrowserCreated, Program!OnBrowserCreated
<1>7. ASSUME NEW w \in Window, DestroyWindow(c, w)
      PROVE  Program(c)!Hide(w)
  BY <1>1, <1>7 DEF DestroyWindow, Becomes, Program!Hide
<1>8. ASSUME NEW w \in Window, OnBrowserClosed(c, w)
      PROVE  Program(c)!OnBrowserClosed(w)
  BY <1>1, <1>8 DEF OnBrowserClosed, Becomes, Program!OnBrowserClosed
<1>9. CASE HandleCustomTask(c)
  <2>1. life[c] = "running" /\ UNCHANGED <<life, browsers>>
    BY <1>9 DEF HandleCustomTask
  <2>2. CASE UNCHANGED window
    BY <2>1, <2>2 DEF Program!vars
  <2>3. ASSUME NEW w \in Window, window[c][w] = "shown", Becomes(c, w, "hidden")
        PROVE  Program(c)!Hide(w)
    BY <1>1, <2>1, <2>3 DEF Becomes, Program!Hide
  <2>4. \/ \E w \in Window : window[c][w] = "shown" /\ Becomes(c, w, "hidden")
        \/ UNCHANGED window
    BY <1>1, <1>9, QueueOK DEF HandleCustomTask, Task
  <2> QED
    BY <2>2, <2>3, <2>4 DEF Program!Next
<1>10. CASE RunReturns(c)
  <2>1. Program(c)!RunReturns
    BY <1>1, <1>2, <1>10 DEF RunReturns, Dies, Program!RunReturns
  <2> QED
    BY <2>1 DEF Program!Next
<1>11. CASE Killed(c)
  <2>1. Program(c)!Killed
    BY <1>1, <1>11 DEF Killed, Dies, Program!Killed
  <2> QED
    BY <2>1 DEF Program!Next
<1> QED
  BY <1>3, <1>4, <1>5, <1>6, <1>7, <1>8, <1>9, <1>10, <1>11 DEF ClientAction, Program!Next

LEMMA OtherClientsUnchanged ==
    ASSUME TypeOK, NEW c \in Client, NEW d \in Client, ClientAction(d), d # c
    PROVE  UNCHANGED Program(c)!vars
<1>1. /\ life \in [Client -> Life] /\ window \in [Client -> [Window -> WindowState]]
      /\ browsers \in [Client -> SUBSET Window]
  BY DEF TypeOK
<1>2. \/ UNCHANGED window \/ \E f : window' = [window EXCEPT ![d] = f]
  <2>1. ASSUME NEW w, NEW state, Becomes(d, w, state)
        PROVE  \E f : window' = [window EXCEPT ![d] = f]
    BY <2>1 DEF Becomes
  <2> QED
    BY <2>1 DEF ClientAction, RunMain, AskWindow, CreateRootWindow, OnBrowserCreated,
                DestroyWindow, OnBrowserClosed, HandleCustomTask, RunReturns, Killed
<1>3. \/ UNCHANGED life \/ \E f : life' = [life EXCEPT ![d] = f]
  BY DEF ClientAction, RunMain, AskWindow, CreateRootWindow, OnBrowserCreated,
         DestroyWindow, OnBrowserClosed, HandleCustomTask, RunReturns, Killed, Dies
<1>4. \/ UNCHANGED browsers \/ \E f : browsers' = [browsers EXCEPT ![d] = f]
  BY DEF ClientAction, RunMain, AskWindow, CreateRootWindow, OnBrowserCreated,
         DestroyWindow, OnBrowserClosed, HandleCustomTask, RunReturns, Killed
<1> QED
  BY <1>1, <1>2, <1>3, <1>4 DEF Program!vars

LEMMA ProgramStep ==
    ASSUME TypeOK, NEW c \in Client, [Next]_vars
    PROVE  [Program(c)!Next]_(Program(c)!vars)
<1>1. ASSUME NEW d \in Client, ClientAction(d)
      PROVE  [Program(c)!Next]_(Program(c)!vars)
  BY <1>1, ClientStepIs, OtherClientsUnchanged
<1>2. ASSUME NEW id \in Id, Start(id)
      PROVE  [Program(c)!Next]_(Program(c)!vars)
  <2>1. UNCHANGED <<window, browsers>>
    BY <1>2 DEF Start
  <2>2. CASE UNCHANGED life
    BY <2>1, <2>2 DEF Program!vars
  <2>3. ASSUME NEW d \in Client, life[d] = "off", life' = [life EXCEPT ![d] = "starting"]
        PROVE  [Program(c)!Next]_(Program(c)!vars)
    <3>1. CASE d = c
      <4>1. Program(c)!Launch
        BY <2>1, <2>3, <3>1 DEF TypeOK, Program!Launch
      <4> QED
        BY <4>1 DEF Program!Next
    <3>2. CASE d # c
      BY <2>1, <2>3, <3>2 DEF TypeOK, Program!vars
    <3> QED
      BY <3>1, <3>2
  <2> QED
    BY <1>2, <2>2, <2>3 DEF Start
<1>3. CASE \/ LibActivate \/ UNCHANGED vars
           \/ \E id \in Id, cmd \in Cmd : Command(id, cmd)
  BY <1>3 DEF LibActivate, StartReturns, FindWindowEx, SendMessage, Command,
              clientVars, vars, Program!vars
<1> QED
  BY <1>1, <1>2, <1>3 DEF Next, ClientAction

\* What the plugin relies on of each client is what a ClientProgram does:
\* RootWindows, which implements one, may take its place.
THEOREM ClientsArePrograms ==
    ASSUME NEW c \in Client
    PROVE  Spec => Program(c)!Spec
<1>1. Init => Program(c)!Init
  BY DEF Init, Program!Init
<1>2. Spec => []TypeOK
  BY TypeCorrect
<1>3. TypeOK /\ [Next]_vars => [Program(c)!Next]_(Program(c)!vars)
  BY ProgramStep
<1> QED
  BY <1>1, <1>2, <1>3, PTL DEF Spec, Program!Spec
=============================================================================
