-------------------------- MODULE CefClientConfig ---------------------------
(***************************************************************************)
(* The file in which the clients of one host say that their browser exists *)
(* (CefClientConfig), as CheckCefWindow and the end of RunMain use it.     *)
(*                                                                         *)
(* The file holds a JSON object of objects of flags: pid of the host, key  *)
(* of the client (its window name and parent window), TRUE.  The clients   *)
(* are processes: nothing orders what they do to the file, and writing it  *)
(* first truncates it.  A file that cannot be parsed reads as an empty     *)
(* root, because ReadRoot catches the parser's exception; the parser is    *)
(* not strict, so of two overlapping stores the later one is read.         *)
(*                                                                         *)
(* A client works off the steps of one call on its main thread before it   *)
(* does anything else.  The host starts clients and asks each of them for  *)
(* its flag again and again (CheckCefWindow).                              *)
(***************************************************************************)
EXTENDS Naturals, Sequences

CONSTANTS
    Process,     \* client processes, each started at most once
    Key,
    MayCrash     \* a client may be killed

ASSUME CrashAssumption == MayCrash \in BOOLEAN

VARIABLES
    keyOf,       \* the key each process is started with
    fileState,   \* "missing", "truncated" or "stored"
    fileKeys,    \* the keys with a flag in the file, under the host's pid
    life,        \* what has become of each process
    todo,        \* steps left of the call a process is in
    mRoot,       \* mRoot of each process: the keys it last read or changed
    disturbed    \* history: clients overlapped, or one was killed

fileVars == <<fileState, fileKeys>>
vars == <<keyOf, fileVars, life, todo, mRoot, disturbed>>

Step == {"read", "test", "set", "erase", "truncate", "store"}

\* "running" has no browser yet; "aborted" and "crashed" never returned from
\* RunMain.
Life == {"off", "running", "browser", "exiting", "exited", "aborted", "crashed"}
Alive(p) == life[p] \in {"running", "browser", "exiting"}

Init ==
    /\ keyOf \in [Process -> Key]
    /\ fileState = "missing" /\ fileKeys = {}
    /\ life = [p \in Process |-> "off"]
    /\ todo = [p \in Process |-> <<>>]
    /\ mRoot = [p \in Process |-> {}]
    /\ disturbed = FALSE

Idle(p) == todo[p] = <<>>
Becomes(p, l) == life' = [life EXCEPT ![p] = l]
Calls(p, steps) == todo' = [todo EXCEPT ![p] = steps]

-----------------------------------------------------------------------------
(* The host and the life of a client.                                      *)

\* The plugin's Start: ShellExecute.
Launch(p) ==
    /\ life[p] = "off"
    /\ Becomes(p, "running")
    /\ disturbed' = (disturbed \/ \E q \in Process : Alive(q))
    /\ UNCHANGED <<keyOf, fileVars, todo, mRoot>>

BrowserCreated(p) ==
    /\ life[p] = "running" /\ Idle(p)
    /\ Becomes(p, "browser")
    /\ UNCHANGED <<keyOf, fileVars, todo, mRoot, disturbed>>

\* The host's CheckCefWindow: ReadJsonValue, then WriteJsonValue unless the
\* flag was there.
CheckCefWindow(p) ==
    /\ life[p] = "browser" /\ Idle(p)
    /\ Calls(p, <<"read", "test">>)
    /\ UNCHANGED <<keyOf, fileVars, life, mRoot, disturbed>>

\* RunMain after Run(): EraseJsonValue, which reads the root twice.
Exit(p) ==
    /\ life[p] \in {"running", "browser"} /\ Idle(p)
    /\ Becomes(p, "exiting")
    /\ Calls(p, <<"read", "read", "erase", "truncate", "store">>)
    /\ UNCHANGED <<keyOf, fileVars, mRoot, disturbed>>

\* RunMain returns.
Exited(p) ==
    /\ life[p] = "exiting" /\ Idle(p)
    /\ Becomes(p, "exited")
    /\ UNCHANGED <<keyOf, fileVars, todo, mRoot, disturbed>>

Crash(p) ==
    /\ MayCrash /\ Alive(p)
    /\ Becomes(p, "crashed")
    /\ Calls(p, <<>>)
    /\ disturbed' = TRUE
    /\ UNCHANGED <<keyOf, fileVars, mRoot>>

-----------------------------------------------------------------------------
(* The steps of a call.                                                    *)

Rest(p) == Tail(todo[p])

\* ReadRoot: a file that is missing is created, with an empty root.
ReadRoot(p) ==
    /\ ~Idle(p) /\ Head(todo[p]) = "read"
    /\ mRoot' = [mRoot EXCEPT ![p] = IF fileState = "stored" THEN fileKeys ELSE {}]
    /\ Calls(p, IF fileState = "missing" THEN <<"truncate", "store">> \o Rest(p)
                ELSE Rest(p))
    /\ UNCHANGED <<keyOf, fileVars, life, disturbed>>

\* Mutant: the stream is opened without truncating.
OpenTruncatedMutant(p) ==
    /\ ~Idle(p) /\ Head(todo[p]) = "truncate"
    /\ fileState' = "truncated"
    /\ Calls(p, Rest(p))
    /\ UNCHANGED <<keyOf, fileKeys, life, mRoot, disturbed>>

\* WriteRoot, first half: opening the stream truncates the file.
OpenTruncated(p) ==
    /\ ~Idle(p) /\ Head(todo[p]) = "truncate"
    /\ fileState' = "truncated" /\ fileKeys' = {}
    /\ Calls(p, Rest(p))
    /\ UNCHANGED <<keyOf, life, mRoot, disturbed>>

\* WriteRoot, second half.
Store(p) ==
    /\ ~Idle(p) /\ Head(todo[p]) = "store"
    /\ fileState' = "stored" /\ fileKeys' = mRoot[p]
    /\ Calls(p, Rest(p))
    /\ UNCHANGED <<keyOf, life, mRoot, disturbed>>

\* Mutant: the flag is written at every CheckCefWindow.
HasBrowserMutant(p) ==
    /\ ~Idle(p) /\ Head(todo[p]) = "test"
    /\ Calls(p, <<"read", "set", "truncate", "store">>)
    /\ UNCHANGED <<keyOf, fileVars, life, mRoot, disturbed>>

\* HandleCustomTask writes the flag only if it is not there.
HasBrowser(p) ==
    /\ ~Idle(p) /\ Head(todo[p]) = "test"
    /\ Calls(p, IF keyOf[p] \in mRoot[p] THEN Rest(p)
                ELSE <<"read", "set", "truncate", "store">>)
    /\ UNCHANGED <<keyOf, fileVars, life, mRoot, disturbed>>

\* Mutant: the root is written as it was read.
SetConfigValueMutant(p) ==
    /\ ~Idle(p) /\ Head(todo[p]) = "set"
    /\ Calls(p, Rest(p))
    /\ UNCHANGED <<keyOf, fileVars, life, mRoot, disturbed>>

SetConfigValue(p) ==
    /\ ~Idle(p) /\ Head(todo[p]) = "set"
    /\ mRoot' = [mRoot EXCEPT ![p] = @ \cup {keyOf[p]}]
    /\ Calls(p, Rest(p))
    /\ UNCHANGED <<keyOf, fileVars, life, disturbed>>

\* Mutant: the key is left in.
EraseKeyMutant(p) ==
    /\ ~Idle(p) /\ Head(todo[p]) = "erase"
    /\ Calls(p, Rest(p))
    /\ UNCHANGED <<keyOf, fileVars, life, mRoot, disturbed>>

\* config.erase(key) of EraseJsonValue: without any flag of this host the
\* config is null, erase throws, and nothing catches it.
EraseKey(p) ==
    /\ ~Idle(p) /\ Head(todo[p]) = "erase"
    /\ IF mRoot[p] = {}
       THEN Becomes(p, "aborted") /\ Calls(p, <<>>) /\ UNCHANGED mRoot
       ELSE /\ mRoot' = [mRoot EXCEPT ![p] = @ \ {keyOf[p]}]
            /\ Calls(p, Rest(p))
            /\ UNCHANGED life
    /\ UNCHANGED <<keyOf, fileVars, disturbed>>

CallStep(p) ==
    \/ ReadRoot(p) \/ OpenTruncated(p) \/ Store(p)
    \/ HasBrowser(p) \/ SetConfigValue(p) \/ EraseKey(p)

-----------------------------------------------------------------------------
Next ==
    \E p \in Process :
        \/ Launch(p) \/ BrowserCreated(p) \/ CheckCefWindow(p)
        \/ Exit(p) \/ Exited(p) \/ Crash(p) \/ CallStep(p)

\* A process goes on with its call, and the host goes on asking.
Fairness ==
    \A p \in Process : /\ WF_vars(CallStep(p))
                       /\ WF_vars(CheckCefWindow(p))

Spec == Init /\ [][Next]_vars /\ Fairness

-----------------------------------------------------------------------------
(* Properties.                                                             *)

\* Type invariant: also, only a complete file has flags in it, and only a
\* process that runs is in a call.
TypeOK ==
    /\ keyOf \in [Process -> Key] /\ disturbed \in BOOLEAN
    /\ fileState \in {"missing", "truncated", "stored"}
    /\ fileKeys \subseteq Key
    /\ fileState # "stored" => fileKeys = {}
    /\ life \in [Process -> Life]
    /\ \A p \in Process : ~Alive(p) => Idle(p)
    /\ todo \in [Process -> Seq(Step)]
    /\ mRoot \in [Process -> SUBSET Key]

\* A flag in the file belongs to a client that has a browser or is just
\* erasing it: as long as clients do not overlap and none is killed, no flag
\* outlives its client.
FlagMeansBrowser ==
    ~disturbed => \A k \in fileKeys :
        \E p \in Process : keyOf[p] = k /\ life[p] \in {"browser", "exiting"}

\* Once the host can see the flag of a client, it goes on seeing it as long
\* as the browser is there and no other client runs: a further CheckCefWindow
\* does not rewrite the file.
FlagKept ==
    [][\A p \in Process :
          ~disturbed /\ keyOf[p] \in fileKeys /\ life[p] = "browser" => keyOf[p] \in fileKeys']_vars

\* A host that goes on asking sees the flag of a client that goes on running,
\* whatever other clients do to the file, and if one dies while writing it.
FlagSeen ==
    \A p \in Process :
        <>[](life[p] = "browser") => []<>(keyOf[p] \in fileKeys)

\* "clear config": the key of a client that has returned from RunMain is not
\* in the file, unless another client has it.
ExitedFlagCleared ==
    \A p \in Process :
        life[p] = "exited" /\ (\A q \in Process : keyOf[q] = keyOf[p] => ~Alive(q))
            => keyOf[p] \notin fileKeys
=============================================================================
