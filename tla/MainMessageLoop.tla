-------------------------- MODULE MainMessageLoop ---------------------------
(***************************************************************************)
(* MainMessageLoopMultithreadedWin: the task queue through which every     *)
(* other thread of cefclient (the CEF UI thread first of all) hands work   *)
(* to the main thread.  A task posted before Run() has made the message    *)
(* window waits in queued_tasks_; afterwards it is a posted Win32 message. *)
(* Run() moves the first kind into the second while it holds lock_.        *)
(*                                                                         *)
(* The Win32 queue is a sequence: GetMessage takes posted messages in      *)
(* order, and reports WM_QUIT (set by PostQuitMessage) only when none is   *)
(* left; DestroyWindow discards what is still queued for that window.      *)
(***************************************************************************)
EXTENDS Naturals, Sequences

CONSTANTS
    Main,       \* the main thread
    Thread,     \* every other thread that posts tasks
    NoThread,   \* lock_ is free
    MaxPosts    \* bound: PostTask calls of one thread

ASSUME ThreadAssumption == /\ Main \notin Thread
                           /\ NoThread \notin Thread \cup {Main}
ASSUME MaxPostsAssumption == MaxPosts \in Nat

Threads == Thread \cup {Main}

\* A task is known by its poster and the poster's count; Quit() posts one
\* whose closure is ::PostQuitMessage.
Task == [by : Threads, n : 1..MaxPosts, quit : BOOLEAN]

NoTask == [by |-> Main, n |-> 0, quit |-> FALSE]

VARIABLES
    lock,           \* owner of lock_
    mainPc,         \* where Run() is
    messageWindow,  \* message_hwnd_ is not NULL
    quitFlag,       \* PostQuitMessage was called and WM_QUIT not yet read
    queuedTasks,    \* queued_tasks_
    winQueue,       \* posted task messages of the main thread
    postPc,         \* postPc[t]: where t is in PostTask
    posting,        \* posting[t]: the task of the PostTask call t is in
    posts,          \* posts[t]: PostTask calls t has made
    accepted,       \* history: tasks in the order PostTaskInternal saw them
    executed        \* history: tasks in the order the main thread ran them

vars == <<lock, mainPc, messageWindow, quitFlag, queuedTasks, winQueue,
          postPc, posting, posts, accepted, executed>>

runVars == <<mainPc, messageWindow, quitFlag>>
postVars == <<postPc, posting, posts>>

Init ==
    /\ lock = NoThread
    /\ mainPc = "created"
    /\ messageWindow = FALSE
    /\ quitFlag = FALSE
    /\ queuedTasks = <<>>
    /\ winQueue = <<>>
    /\ postPc = [t \in Threads |-> "idle"]
    /\ posting = [t \in Threads |-> NoTask]
    /\ posts = [t \in Threads |-> 0]
    /\ accepted = <<>>
    /\ executed = <<>>

-----------------------------------------------------------------------------
(* PostTask, on any thread.                                                *)

\* The main thread makes a call only while its own code runs: before Run(),
\* inside a task, or after Run() has returned.
MayCall(t) == t = Main => mainPc \in {"created", "execute", "returned"}

LockFree == lock = NoThread

\* AutoLock of PostTask; Quit() is a PostTask of the quit closure.
PostTaskLock(t, quit) ==
    /\ postPc[t] = "idle" /\ MayCall(t)
    /\ posts[t] < MaxPosts
    /\ LockFree
    /\ lock' = t
    /\ posts' = [posts EXCEPT ![t] = @ + 1]
    /\ posting' = [posting EXCEPT
                     ![t] = [by |-> t, n |-> posts[t] + 1, quit |-> quit]]
    /\ postPc' = [postPc EXCEPT ![t] = "locked"]
    /\ UNCHANGED <<runVars, queuedTasks, winQueue, accepted, executed>>

\* PostTaskInternal tests message_hwnd_ ...
PostTaskTest(t) ==
    /\ postPc[t] = "locked"
    /\ postPc' = [postPc EXCEPT ![t] = IF messageWindow THEN "send" ELSE "queue"]
    /\ UNCHANGED <<lock, runVars, posting, posts, queuedTasks, winQueue,
                   accepted, executed>>

\* ... then pushes the task, or posts it to the window it saw.
PostTaskStore(t) ==
    /\ \/ /\ postPc[t] = "queue"
          /\ queuedTasks' = Append(queuedTasks, posting[t])
          /\ UNCHANGED winQueue
       \/ /\ postPc[t] = "send"
          /\ winQueue' = Append(winQueue, posting[t])
          /\ UNCHANGED queuedTasks
    /\ accepted' = Append(accepted, posting[t])
    /\ postPc' = [postPc EXCEPT ![t] = "idle"]
    /\ lock' = NoThread
    /\ UNCHANGED <<runVars, posting, posts, executed>>

PostTask(t) ==
    \/ \E quit \in BOOLEAN : PostTaskLock(t, quit)
    \/ PostTaskTest(t)
    \/ PostTaskStore(t)

-----------------------------------------------------------------------------
(* Run, on the main thread.                                                *)

\* Mutant: Run() makes the window without taking lock_ for the hand-over.
RunCreateWindowMutant ==
    /\ mainPc = "created" /\ postPc[Main] = "idle"
    /\ messageWindow' = TRUE
    /\ mainPc' = "drain"
    /\ UNCHANGED <<lock, quitFlag, queuedTasks, winQueue, postVars, accepted, executed>>

\* Under lock_: create the message window.
RunCreateWindow ==
    /\ mainPc = "created" /\ postPc[Main] = "idle"
    /\ LockFree
    /\ lock' = Main
    /\ messageWindow' = TRUE
    /\ mainPc' = "drain"
    /\ UNCHANGED <<quitFlag, queuedTasks, winQueue, postVars, accepted, executed>>

\* Mutant: the popped task is not posted.
RunDrainLosesTask ==
    /\ mainPc = "drain" /\ queuedTasks # <<>>
    /\ queuedTasks' = Tail(queuedTasks)
    /\ UNCHANGED <<lock, runVars, winQueue, postVars, accepted, executed>>

\* Mutant: queued_tasks_ is a stack.
RunDrainNewestFirst ==
    /\ mainPc = "drain" /\ queuedTasks # <<>>
    /\ LET n == Len(queuedTasks) IN
         /\ winQueue' = Append(winQueue, queuedTasks[n])
         /\ queuedTasks' = SubSeq(queuedTasks, 1, n - 1)
    /\ UNCHANGED <<lock, runVars, postVars, accepted, executed>>

\* Still under lock_: one iteration of the loop over queued_tasks_.
RunDrain ==
    /\ mainPc = "drain" /\ queuedTasks # <<>>
    /\ winQueue' = Append(winQueue, Head(queuedTasks))
    /\ queuedTasks' = Tail(queuedTasks)
    /\ UNCHANGED <<lock, runVars, postVars, accepted, executed>>

\* Mutant: `if` for `while`, only one task is moved.
RunUnlockMutant ==
    /\ mainPc = "drain" /\ (queuedTasks = <<>> \/ winQueue # <<>>)
    /\ lock' = NoThread
    /\ mainPc' = "loop"
    /\ UNCHANGED <<messageWindow, quitFlag, queuedTasks, winQueue, postVars,
                   accepted, executed>>

RunUnlock ==
    /\ mainPc = "drain" /\ queuedTasks = <<>>
    /\ lock' = NoThread
    /\ mainPc' = "loop"
    /\ UNCHANGED <<messageWindow, quitFlag, queuedTasks, winQueue, postVars,
                   accepted, executed>>

\* GetMessage returns a task message; MessageWndProc calls Execute.
ExecuteTask ==
    /\ mainPc = "loop" /\ winQueue # <<>>
    /\ executed' = Append(executed, Head(winQueue))
    /\ winQueue' = Tail(winQueue)
    /\ quitFlag' = (quitFlag \/ Head(winQueue).quit)
    /\ mainPc' = "execute"
    /\ UNCHANGED <<lock, messageWindow, queuedTasks, postVars, accepted>>

\* Execute returns (any PostTask it made has returned).
FinishTask ==
    /\ mainPc = "execute" /\ postPc[Main] = "idle"
    /\ mainPc' = "loop"
    /\ UNCHANGED <<lock, messageWindow, quitFlag, queuedTasks, winQueue,
                   postVars, accepted, executed>>

\* GetMessage returns 0.
GetQuitMessage ==
    /\ mainPc = "loop" /\ quitFlag /\ winQueue = <<>>
    /\ quitFlag' = FALSE
    /\ mainPc' = "exiting"
    /\ UNCHANGED <<lock, messageWindow, queuedTasks, winQueue, postVars,
                   accepted, executed>>

\* Under lock_, nothing of which another thread sees before it is released:
\* DestroyWindow (the messages posted since are dropped); Run() returns.
RunDestroyWindow ==
    /\ mainPc = "exiting"
    /\ LockFree
    /\ messageWindow' = FALSE
    /\ winQueue' = <<>>
    /\ mainPc' = "returned"
    /\ UNCHANGED <<lock, quitFlag, queuedTasks, postVars, accepted, executed>>

Run == \/ RunCreateWindow \/ RunDrain \/ RunUnlock
       \/ ExecuteTask \/ FinishTask
       \/ GetQuitMessage \/ RunDestroyWindow

Next == Run \/ \E t \in Threads : PostTask(t)

\* The main thread is always scheduled; a thread inside PostTask leaves it.
\* Whether a thread calls PostTask at all is up to the program.
Fairness ==
    /\ WF_vars(Run)
    /\ \A t \in Threads : WF_vars(PostTaskTest(t) \/ PostTaskStore(t))

Spec == Init /\ [][Next]_vars /\ Fairness

-----------------------------------------------------------------------------
(* Properties.                                                             *)

\* Types, and lock_ held by exactly the thread that is inside the locked
\* part of PostTask or of Run().
TypeOK ==
    /\ lock \in Threads \cup {NoThread}
    /\ mainPc \in {"created", "drain", "loop", "execute", "exiting", "returned"}
    /\ messageWindow \in BOOLEAN
    /\ quitFlag \in BOOLEAN
    /\ queuedTasks \in Seq(Task)
    /\ winQueue \in Seq(Task)
    /\ postPc \in [Threads -> {"idle", "locked", "queue", "send"}]
    /\ posting \in [Threads -> Task \cup {NoTask}]
    /\ posts \in [Threads -> 0..MaxPosts]
    /\ accepted \in Seq(Task)
    /\ executed \in Seq(Task)
    /\ \A t \in Threads : postPc[t] # "idle" => lock = t /\ posting[t] \in Task
    /\ mainPc = "drain" => lock = Main

\* What has run, then what is posted, then what is queued.
TasksInOrder ==
    mainPc # "returned" => executed \o winQueue \o queuedTasks = accepted

NoTaskStranded == mainPc \in {"loop", "execute", "exiting"} => queuedTasks = <<>>

\* Until the message window is destroyed no accepted task is lost, run twice
\* or overtaken by a later one, across the hand-over from queued_tasks_ to
\* the message window; and none is left in queued_tasks_ while the loop that
\* should run it dispatches messages (it would wait until the process exits).
NoTaskLost == TasksInOrder /\ NoTaskStranded

\* When Run() returns, every task accepted before a Quit() task has run:
\* Quit() lets the work posted ahead of it finish.
QuitRunsEarlierTasks ==
    mainPc = "returned" =>
        \E i \in 1..Len(executed) :
            /\ executed[i].quit
            /\ \A j \in 1..i : executed[j] = accepted[j]

TQ == INSTANCE TaskQueue WITH pending <- winQueue \o queuedTasks,
                              done <- executed,
                              open <- mainPc # "returned"

\* The loop implements the abstract task queue.
ImplementsTaskQueue == TQ!Spec

QuitPosted == \E i \in 1..Len(accepted) : accepted[i].quit

\* Quit() from any thread, even before Run(), makes Run() return.
QuitEndsRun == QuitPosted ~> mainPc = "returned"
=============================================================================
