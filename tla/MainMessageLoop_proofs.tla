----------------------- MODULE MainMessageLoop_proofs -----------------------
(***************************************************************************)
(* Proofs about MainMessageLoop for any set of threads and any number of   *)
(* PostTask calls.                                                         *)
(***************************************************************************)
EXTENDS MainMessageLoop, SequenceTheorems, TLAPS

-----------------------------------------------------------------------------
(* Two facts about the concatenated queues.                                *)

\* Appending at the end of the second queue appends to the whole (a PostTask).
LEMMA AppendToConcat ==
    ASSUME NEW S, NEW s \in Seq(S), NEW t \in Seq(S), NEW e \in S
    PROVE  s \o Append(t, e) = Append(s \o t, e)
<1>1. <<e>> \in Seq(S)
  OBVIOUS
<1>2. s \o t \in Seq(S)
  BY ConcatProperties
<1>3. Append(t, e) = t \o <<e>> /\ Append(s \o t, e) = (s \o t) \o <<e>>
  BY <1>2, AppendIsConcat
<1>4. (s \o t) \o <<e>> = s \o (t \o <<e>>)
  BY <1>1, ConcatAssociative
<1> QED
  BY <1>3, <1>4

\* Moving the head of the second queue to the end of the first changes
\* nothing in the whole (Run() draining, or running a task).
LEMMA MoveHead ==
    ASSUME NEW S, NEW s \in Seq(S), NEW t \in Seq(S), t # <<>>
    PROVE  Append(s, Head(t)) \o Tail(t) = s \o t
<1> DEFINE h == Head(t)
           r == Tail(t)
<1>1. h \in S /\ r \in Seq(S) /\ <<h>> \in Seq(S)
  BY HeadTailProperties
<1>2. t = <<h>> \o r
  <2>1. Len(t) \in Nat \ {0}
    BY EmptySeq
  <2>2. 1 \in 1..Len(t) /\ Len(t) \in 1..Len(t) /\ h = t[1]
    BY <2>1
  <2>3. SubSeq(t, 1, Len(t)) = <<t[1]>> \o SubSeq(t, 1 + 1, Len(t))
    BY <2>2, SubSeqRecursiveFirst
  <2>4. SubSeq(t, 1, Len(t)) = t
    BY SubSeqFull
  <2>5. SubSeq(t, 1 + 1, Len(t)) = r
    BY TailIsSubSeq
  <2> QED
    BY <2>2, <2>3, <2>4, <2>5
<1>3. Append(s, h) = s \o <<h>>
  BY <1>1, AppendIsConcat
<1>4. (s \o <<h>>) \o r = s \o (<<h>> \o r)
  BY <1>1, ConcatAssociative
<1> QED
  BY <1>2, <1>3, <1>4

-----------------------------------------------------------------------------
(* The inductive invariant.                                                *)

\* Where the message window exists, and what a thread inside PostTask saw.
WindowInv ==
    /\ messageWindow <=> mainPc \in {"drain", "loop", "execute", "exiting"}
    /\ ~messageWindow => winQueue = <<>>
    /\ \A t \in Threads : postPc[t] = "send" => messageWindow
    /\ \A t \in Threads : postPc[t] = "queue" => ~messageWindow
    /\ postPc[Main] # "idle" => mainPc \in {"created", "execute", "returned"}

Inv == TypeOK /\ WindowInv /\ NoTaskStranded /\ TasksInOrder

LEMMA InitInv == Init => Inv
<1> SUFFICES ASSUME Init PROVE Inv
  OBVIOUS
<1>1. TypeOK
  <2>1. 0 \in 0..MaxPosts
    BY MaxPostsAssumption
  <2>2. <<>> \in Seq(Task)
    BY EmptySeq
  <2> QED
    BY <2>1, <2>2 DEF Init, TypeOK, Threads
<1>2. WindowInv /\ NoTaskStranded
  BY DEF Init, WindowInv, NoTaskStranded, Threads
<1>3. <<>> \o <<>> = <<>>
  BY EmptySeq, ConcatEmptySeq
<1>4. TasksInOrder
  <2>1. executed = <<>> /\ winQueue = <<>> /\ queuedTasks = <<>> /\ accepted = <<>>
    BY DEF Init
  <2>2. executed \o winQueue \o queuedTasks = accepted
    BY <1>3, <2>1, Zenon
  <2> QED
    BY <2>2 DEF TasksInOrder
<1> QED
  BY <1>1, <1>2, <1>4 DEF Inv

\* TypeOK is kept by every step; that the main thread is not also inside a
\* PostTask while it drains is needed from WindowInv.
LEMMA TypeStep == TypeOK /\ WindowInv /\ [Next]_vars => TypeOK'
<1> SUFFICES ASSUME TypeOK, WindowInv, [Next]_vars PROVE TypeOK'
  OBVIOUS
<1> USE ThreadAssumption, MaxPostsAssumption DEF Threads
<1>1. ASSUME NEW t \in Threads, NEW quit \in BOOLEAN, PostTaskLock(t, quit)
      PROVE  TypeOK'
  <2>1. posts[t] \in 0..MaxPosts /\ posts[t] + 1 \in 1..MaxPosts
    BY <1>1 DEF TypeOK, PostTaskLock
  <2>2. [by |-> t, n |-> posts[t] + 1, quit |-> quit] \in Task
    BY <2>1 DEF Task
  <2>3. posting' \in [Threads -> Task \cup {NoTask}] /\ posting'[t] \in Task
    BY <1>1, <2>2 DEF TypeOK, PostTaskLock
  <2>4. \A u \in Threads : postPc[u] = "idle"
    BY <1>1 DEF TypeOK, PostTaskLock, LockFree
  <2> QED
    BY <1>1, <2>1, <2>3, <2>4
    DEF TypeOK, PostTaskLock, LockFree, runVars
<1>2. ASSUME NEW t \in Threads, PostTaskTest(t)
      PROVE  TypeOK'
  BY <1>2 DEF TypeOK, PostTaskTest, runVars
<1>3. ASSUME NEW t \in Threads, PostTaskStore(t)
      PROVE  TypeOK'
  <2>1. posting[t] \in Task
    BY <1>3 DEF TypeOK, PostTaskStore
  <2>2. /\ Append(queuedTasks, posting[t]) \in Seq(Task)
        /\ Append(winQueue, posting[t]) \in Seq(Task)
        /\ Append(accepted, posting[t]) \in Seq(Task)
    BY <2>1, AppendProperties DEF TypeOK
  <2>3. \A u \in Threads \ {t} : postPc[u] = "idle"
    BY <1>3 DEF TypeOK, PostTaskStore
  <2>4. mainPc # "drain" /\ lock = t
    BY <1>3 DEF TypeOK, WindowInv, PostTaskStore
  <2> QED
    BY <1>3, <2>1, <2>2, <2>3, <2>4 DEF TypeOK, PostTaskStore, runVars
<1>4. CASE RunCreateWindow
  BY <1>4 DEF TypeOK, RunCreateWindow, LockFree, postVars
<1>5. CASE RunDrain
  <2>1. Head(queuedTasks) \in Task /\ Tail(queuedTasks) \in Seq(Task)
    BY <1>5, HeadTailProperties DEF TypeOK, RunDrain
  <2>2. Append(winQueue, Head(queuedTasks)) \in Seq(Task)
    BY <2>1, AppendProperties DEF TypeOK
  <2> QED
    BY <1>5, <2>1, <2>2 DEF TypeOK, RunDrain, runVars, postVars
<1>6. CASE RunUnlock
  <2>1. \A t \in Threads : postPc[t] = "idle"
    BY <1>6 DEF TypeOK, WindowInv, RunUnlock
  <2> QED
    BY <1>6, <2>1 DEF TypeOK, RunUnlock, postVars
<1>7. CASE ExecuteTask
  <2>1. Head(winQueue) \in Task /\ Tail(winQueue) \in Seq(Task)
    BY <1>7, HeadTailProperties DEF TypeOK, ExecuteTask
  <2>2. Append(executed, Head(winQueue)) \in Seq(Task)
    BY <2>1, AppendProperties DEF TypeOK
  <2>3. Head(winQueue).quit \in BOOLEAN
    BY <2>1 DEF Task
  <2> QED
    BY <1>7, <2>1, <2>2, <2>3 DEF TypeOK, ExecuteTask, postVars
<1>8. CASE FinishTask
  BY <1>8 DEF TypeOK, FinishTask, postVars
<1>9. CASE GetQuitMessage
  BY <1>9 DEF TypeOK, GetQuitMessage, postVars
<1>10. CASE RunDestroyWindow
  BY <1>10, EmptySeq DEF TypeOK, RunDestroyWindow, LockFree, postVars
<1>11. CASE UNCHANGED vars
  BY <1>11 DEF TypeOK, vars
<1> QED
  BY <1>1, <1>2, <1>3, <1>4, <1>5, <1>6, <1>7, <1>8, <1>9, <1>10, <1>11
  DEF Next, Run, PostTask

\* So are the facts about the window and queued_tasks_.
LEMMA WindowStep ==
    TypeOK /\ WindowInv /\ NoTaskStranded /\ [Next]_vars
        => WindowInv' /\ NoTaskStranded'
<1> SUFFICES ASSUME TypeOK, WindowInv, NoTaskStranded, [Next]_vars
             PROVE  WindowInv' /\ NoTaskStranded'
  OBVIOUS
<1> USE ThreadAssumption DEF Threads
<1>1. ASSUME NEW t \in Threads, NEW quit \in BOOLEAN, PostTaskLock(t, quit)
      PROVE  WindowInv' /\ NoTaskStranded'
  BY <1>1 DEF TypeOK, WindowInv, NoTaskStranded, PostTaskLock, MayCall, runVars
<1>2. ASSUME NEW t \in Threads, PostTaskTest(t)
      PROVE  WindowInv' /\ NoTaskStranded'
  BY <1>2 DEF TypeOK, WindowInv, NoTaskStranded, PostTaskTest, runVars
<1>3. ASSUME NEW t \in Threads, PostTaskStore(t)
      PROVE  WindowInv' /\ NoTaskStranded'
  BY <1>3 DEF TypeOK, WindowInv, NoTaskStranded, PostTaskStore, runVars
<1>4. CASE RunCreateWindow
  <2>1. \A t \in Threads : postPc[t] = "idle"
    BY <1>4 DEF TypeOK, RunCreateWindow, LockFree
  <2> QED
    BY <1>4, <2>1 DEF TypeOK, WindowInv, NoTaskStranded, RunCreateWindow, postVars
<1>5. CASE RunDrain
  BY <1>5 DEF TypeOK, WindowInv, NoTaskStranded, RunDrain, runVars, postVars
<1>6. CASE RunUnlock
  BY <1>6 DEF TypeOK, WindowInv, NoTaskStranded, RunUnlock, postVars
<1>7. CASE ExecuteTask
  BY <1>7 DEF TypeOK, WindowInv, NoTaskStranded, ExecuteTask, postVars
<1>8. CASE FinishTask
  BY <1>8 DEF TypeOK, WindowInv, NoTaskStranded, FinishTask, postVars
<1>9. CASE GetQuitMessage
  BY <1>9 DEF TypeOK, WindowInv, NoTaskStranded, GetQuitMessage, postVars
<1>10. CASE RunDestroyWindow
  <2>1. \A t \in Threads : postPc[t] = "idle"
    BY <1>10 DEF TypeOK, RunDestroyWindow, LockFree
  <2> QED
    BY <1>10, <2>1 DEF TypeOK, WindowInv, NoTaskStranded, RunDestroyWindow, postVars
<1>11. CASE UNCHANGED vars
  BY <1>11 DEF WindowInv, NoTaskStranded, vars
<1> QED
  BY <1>1, <1>2, <1>3, <1>4, <1>5, <1>6, <1>7, <1>8, <1>9, <1>10, <1>11
  DEF Next, Run, PostTask

\* The conservation of tasks: a post appends to the whole, a drain or an
\* execution only moves a head.
LEMMA ConservationStep == Inv /\ [Next]_vars => TasksInOrder'
<1> SUFFICES ASSUME Inv, [Next]_vars PROVE TasksInOrder'
  OBVIOUS
<1> USE ThreadAssumption DEF Threads
<1>0. /\ queuedTasks \in Seq(Task) /\ winQueue \in Seq(Task)
      /\ executed \in Seq(Task) /\ accepted \in Seq(Task)
      /\ executed \o winQueue \in Seq(Task)
      /\ winQueue \o queuedTasks \in Seq(Task)
  BY ConcatProperties DEF Inv, TypeOK
<1>1. ASSUME NEW t \in Threads, NEW quit \in BOOLEAN, PostTaskLock(t, quit)
      PROVE  TasksInOrder'
  BY <1>1 DEF Inv, TasksInOrder, PostTaskLock, runVars
<1>2. ASSUME NEW t \in Threads, PostTaskTest(t)
      PROVE  TasksInOrder'
  BY <1>2 DEF Inv, TasksInOrder, PostTaskTest, runVars
<1>3. ASSUME NEW t \in Threads, PostTaskStore(t)
      PROVE  TasksInOrder'
  <2>1. posting[t] \in Task
    BY <1>3 DEF Inv, TypeOK, PostTaskStore
  <2>2. CASE postPc[t] = "queue"
    <3>1. (executed \o winQueue) \o Append(queuedTasks, posting[t])
            = Append((executed \o winQueue) \o queuedTasks, posting[t])
      BY <1>0, <2>1, AppendToConcat
    <3> QED
      BY <1>3, <2>2, <3>1 DEF Inv, TasksInOrder, PostTaskStore, runVars
  <2>3. CASE postPc[t] = "send"
    <3>1. mainPc # "returned"
      BY <2>3 DEF Inv, WindowInv
    <3>2. queuedTasks = <<>>
      BY <1>3, <2>3 DEF Inv, TypeOK, WindowInv, NoTaskStranded, PostTaskStore
    <3>3. executed \o Append(winQueue, posting[t])
            = Append(executed \o winQueue, posting[t])
      BY <1>0, <2>1, AppendToConcat
    <3>4. executed \o winQueue = accepted
      BY <1>0, <3>1, <3>2, ConcatEmptySeq DEF Inv, TasksInOrder
    <3>5. Append(executed \o winQueue, posting[t]) \in Seq(Task)
      BY <1>0, <2>1, AppendProperties
    <3> QED
      BY <1>3, <2>3, <3>2, <3>3, <3>4, <3>5, ConcatEmptySeq
      DEF TasksInOrder, PostTaskStore, runVars
  <2> QED
    BY <1>3, <2>2, <2>3 DEF PostTaskStore
<1>4. CASE RunCreateWindow
  BY <1>4 DEF Inv, TasksInOrder, RunCreateWindow
<1>5. CASE RunDrain
  <2>1. Head(queuedTasks) \in Task /\ Tail(queuedTasks) \in Seq(Task)
    BY <1>0, <1>5, HeadTailProperties DEF RunDrain
  <2>2. executed \o Append(winQueue, Head(queuedTasks))
          = Append(executed \o winQueue, Head(queuedTasks))
    BY <1>0, <2>1, AppendToConcat
  <2>3. Append(executed \o winQueue, Head(queuedTasks)) \o Tail(queuedTasks)
          = (executed \o winQueue) \o queuedTasks
    BY <1>0, <1>5, MoveHead DEF RunDrain
  <2> QED
    BY <1>5, <2>2, <2>3 DEF Inv, TasksInOrder, RunDrain, runVars
<1>6. CASE RunUnlock
  BY <1>6 DEF Inv, TasksInOrder, RunUnlock
<1>7. CASE ExecuteTask
  <2>1. Append(executed, Head(winQueue)) \o Tail(winQueue) = executed \o winQueue
    BY <1>0, <1>7, MoveHead DEF ExecuteTask
  <2> QED
    BY <1>7, <2>1 DEF Inv, TasksInOrder, ExecuteTask
<1>8. CASE FinishTask
  BY <1>8 DEF Inv, TasksInOrder, FinishTask
<1>9. CASE GetQuitMessage
  BY <1>9 DEF Inv, TasksInOrder, GetQuitMessage
<1>10. CASE RunDestroyWindow
  BY <1>10 DEF TasksInOrder, RunDestroyWindow
<1>11. CASE UNCHANGED vars
  BY <1>11 DEF Inv, TasksInOrder, vars
<1> QED
  BY <1>1, <1>2, <1>3, <1>4, <1>5, <1>6, <1>7, <1>8, <1>9, <1>10, <1>11
  DEF Next, Run, PostTask

LEMMA InvStep == Inv /\ [Next]_vars => Inv'
  BY TypeStep, WindowStep, ConservationStep DEF Inv

LEMMA Invariance == Spec => []Inv
  BY InitInv, InvStep, PTL DEF Spec

\* lock_ is held by the one thread inside its critical section, in every
\* reachable state of any instance.
THEOREM TypeCorrect == Spec => []TypeOK
<1>1. Inv => TypeOK
  BY DEF Inv
<1> QED
  BY <1>1, Invariance, PTL

\* No accepted task is lost, duplicated or overtaken before Run() destroys
\* its message window, nor left behind once Run() dispatches messages.
THEOREM TasksConserved == Spec => []NoTaskLost
<1>1. Inv => NoTaskLost
  BY DEF Inv, NoTaskLost
<1> QED
  BY <1>1, Invariance, PTL

-----------------------------------------------------------------------------
(* Quit() and the work posted before it.                                   *)

\* Tasks run in the order in which they were accepted, also those that are
\* accepted after Run() has returned and so never run.
PrefixInv ==
    \A j \in 1..Len(executed) : j <= Len(accepted) /\ executed[j] = accepted[j]

\* WM_QUIT comes from a task that was run, and ends Run().
QuitInv ==
    quitFlag \/ mainPc \in {"exiting", "returned"} =>
        \E i \in 1..Len(executed) : executed[i].quit

LEMMA PrefixOfConcat ==
    ASSUME NEW S, NEW s \in Seq(S), NEW t \in Seq(S), NEW u \in Seq(S)
    PROVE  \A j \in 1..Len(s) : j <= Len(s \o t \o u) /\ s[j] = (s \o t \o u)[j]
<1>1. s \o t \in Seq(S) /\ Len(s \o t) = Len(s) + Len(t)
  BY ConcatProperties
<1>2. \A j \in 1..Len(s) : j \in 1..Len(s \o t) /\ (s \o t)[j] = s[j]
  <2>1. Len(s) \in Nat /\ Len(t) \in Nat
    BY LenProperties
  <2> QED BY <1>1, <2>1, ConcatProperties
<1>3. Len(s \o t \o u) = Len(s \o t) + Len(u) /\ Len(s \o t) \in Nat /\ Len(u) \in Nat
  BY <1>1, ConcatProperties, LenProperties
<1>4. \A j \in 1..Len(s \o t) : (s \o t \o u)[j] = (s \o t)[j]
  BY <1>1, <1>3, ConcatProperties
<1> QED BY <1>1, <1>2, <1>3, <1>4

LEMMA PrefixStep == Inv /\ Inv' /\ PrefixInv /\ [Next]_vars => PrefixInv'
<1> SUFFICES ASSUME Inv, Inv', PrefixInv, [Next]_vars PROVE PrefixInv'
  OBVIOUS
<1>1. CASE mainPc' # "returned"
  <2>1. accepted' = executed' \o winQueue' \o queuedTasks'
    BY <1>1 DEF Inv, TasksInOrder
  <2>2. executed' \in Seq(Task) /\ winQueue' \in Seq(Task) /\ queuedTasks' \in Seq(Task)
    BY DEF Inv, TypeOK
  <2>3. \A j \in 1..Len(executed') : /\ j <= Len(executed' \o winQueue' \o queuedTasks')
                                     /\ executed'[j] = (executed' \o winQueue' \o queuedTasks')[j]
    BY <2>2, PrefixOfConcat
  <2> QED BY <2>1, <2>3, Zenon DEF PrefixInv
<1>2. CASE mainPc' = "returned"
  <2>1. executed' = executed
    BY <1>2 DEF Next, Run, PostTask, PostTaskLock, PostTaskTest, PostTaskStore,
                RunCreateWindow, RunDrain, RunUnlock, ExecuteTask, FinishTask,
                GetQuitMessage, RunDestroyWindow, vars
  <2>2. \/ accepted' = accepted
        \/ \E t \in Threads : PostTaskStore(t) /\ accepted' = Append(accepted, posting[t])
    BY DEF Next, Run, PostTask, PostTaskLock, PostTaskTest, PostTaskStore,
           RunCreateWindow, RunDrain, RunUnlock, ExecuteTask, FinishTask,
           GetQuitMessage, RunDestroyWindow, vars
  <2>3. CASE accepted' = accepted
    BY <2>1, <2>3 DEF PrefixInv
  <2>4. ASSUME NEW t \in Threads, PostTaskStore(t), accepted' = Append(accepted, posting[t])
        PROVE  PrefixInv'
    <3>1. posting[t] \in Task /\ accepted \in Seq(Task)
      BY <2>4 DEF Inv, TypeOK, PostTaskStore
    <3>2. /\ Len(accepted) \in Nat /\ Len(accepted') = Len(accepted) + 1
          /\ \A j \in 1..Len(accepted) : accepted'[j] = accepted[j]
      BY <2>4, <3>1, AppendProperties
    <3>3. Len(executed) \in Nat
      BY DEF Inv, TypeOK
    <3> QED BY <2>1, <3>2, <3>3 DEF PrefixInv
  <2> QED BY <2>2, <2>3, <2>4
<1> QED BY <1>1, <1>2

LEMMA QuitStep == Inv /\ QuitInv /\ [Next]_vars => QuitInv'
<1> SUFFICES ASSUME Inv, QuitInv, [Next]_vars PROVE QuitInv'
  OBVIOUS
<1>1. CASE ExecuteTask
  <2> DEFINE h == Head(winQueue)
  <2>1. /\ executed' = Append(executed, h) /\ quitFlag' = (quitFlag \/ h.quit)
        /\ mainPc = "loop" /\ mainPc' = "execute" /\ winQueue # <<>>
    BY <1>1 DEF ExecuteTask
  <2>2. executed \in Seq(Task) /\ h \in Task
    BY <2>1, HeadTailProperties DEF Inv, TypeOK
  <2>3. /\ Len(executed) \in Nat /\ Len(executed') = Len(executed) + 1
        /\ \A j \in 1..Len(executed) : executed'[j] = executed[j]
        /\ executed'[Len(executed) + 1] = h
    BY <2>1, <2>2, AppendProperties
  <2>4. quitFlag \in BOOLEAN /\ h.quit \in BOOLEAN
    BY <2>2 DEF Inv, TypeOK, Task
  <2>5. CASE h.quit
    <3>1. Len(executed) + 1 \in 1..Len(executed')
      BY <2>3
    <3> QED BY <2>3, <2>5, <3>1 DEF QuitInv
  <2>6. CASE quitFlag
    <3>1. PICK i \in 1..Len(executed) : executed[i].quit
      BY <2>6 DEF QuitInv
    <3>2. i \in 1..Len(executed') /\ executed'[i].quit
      BY <2>3, <3>1
    <3> QED BY <3>2 DEF QuitInv
  <2> QED BY <2>1, <2>4, <2>5, <2>6 DEF QuitInv
<1>2. CASE ~ExecuteTask
  <2>1. executed' = executed
    BY <1>2 DEF Next, Run, PostTask, PostTaskLock, PostTaskTest, PostTaskStore,
                RunCreateWindow, RunDrain, RunUnlock, FinishTask,
                GetQuitMessage, RunDestroyWindow, vars
  <2>2. quitFlag' \/ mainPc' \in {"exiting", "returned"} =>
            quitFlag \/ mainPc \in {"exiting", "returned"}
    BY <1>2 DEF Next, Run, PostTask, PostTaskLock, PostTaskTest, PostTaskStore,
                RunCreateWindow, RunDrain, RunUnlock, FinishTask,
                GetQuitMessage, RunDestroyWindow, runVars, vars
  <2> QED BY <2>1, <2>2 DEF QuitInv
<1> QED BY <1>1, <1>2

\* However many threads post, Run() returns only when a task of Quit() has
\* run, and with it every task that was accepted before.
THEOREM QuitLetsEarlierTasksRun == Spec => []QuitRunsEarlierTasks
<1>1. Init => PrefixInv /\ QuitInv
  BY DEF Init, PrefixInv, QuitInv
<1>2. Inv /\ PrefixInv /\ QuitInv => QuitRunsEarlierTasks
  <2> SUFFICES ASSUME Inv, PrefixInv, QuitInv, mainPc = "returned"
               PROVE  \E i \in 1..Len(executed) :
                          /\ executed[i].quit
                          /\ \A j \in 1..i : executed[j] = accepted[j]
    BY DEF QuitRunsEarlierTasks
  <2>1. PICK i \in 1..Len(executed) : executed[i].quit
    BY DEF QuitInv
  <2>2. Len(executed) \in Nat
    BY DEF Inv, TypeOK
  <2>3. \A j \in 1..i : j \in 1..Len(executed)
    BY <2>2
  <2> QED BY <2>1, <2>3 DEF PrefixInv
<1> QED
  BY <1>1, <1>2, PrefixStep, QuitStep, Invariance, PTL DEF Spec

-----------------------------------------------------------------------------
(* The refinement of TaskQueue.                                            *)

LEMMA PendingTypes ==
    ASSUME Inv
    PROVE  /\ winQueue \in Seq(Task) /\ queuedTasks \in Seq(Task)
           /\ winQueue \o queuedTasks \in Seq(Task)
BY ConcatProperties DEF Inv, TypeOK

\* Every step is one of the abstract queue, or leaves it as it is.
LEMMA RefinementStep == Inv /\ [Next]_vars => [TQ!Next]_(TQ!vars)
<1> SUFFICES ASSUME Inv, [Next]_vars PROVE [TQ!Next]_(TQ!vars)
  OBVIOUS
<1> USE ThreadAssumption DEF Threads
<1>1. ASSUME NEW t \in Threads, PostTaskStore(t)
      PROVE  TQ!Post
  <2>1. posting[t] \in Task /\ UNCHANGED <<executed, mainPc>>
    BY <1>1 DEF Inv, TypeOK, PostTaskStore, runVars
  <2>2. CASE postPc[t] = "queue"
    <3>1. winQueue \o Append(queuedTasks, posting[t]) = Append(winQueue \o queuedTasks, posting[t])
      BY <2>1, PendingTypes, AppendToConcat
    <3>2. winQueue' \o queuedTasks' = Append(winQueue \o queuedTasks, posting[t])
      BY <1>1, <2>2, <3>1 DEF PostTaskStore
    <3> QED BY <2>1, <3>2 DEF TQ!Post
  <2>3. CASE postPc[t] = "send"
    <3>1. queuedTasks = <<>>
      BY <1>1, <2>3 DEF Inv, TypeOK, WindowInv, NoTaskStranded, PostTaskStore
    <3>2. Append(winQueue, posting[t]) \in Seq(Task)
      BY <2>1, PendingTypes, AppendProperties
    <3>3. /\ Append(winQueue, posting[t]) \o <<>> = Append(winQueue, posting[t])
          /\ winQueue \o <<>> = winQueue
      BY <3>2, PendingTypes, ConcatEmptySeq
    <3>4. winQueue' \o queuedTasks' = Append(winQueue \o queuedTasks, posting[t])
      BY <1>1, <2>3, <3>1, <3>3 DEF PostTaskStore
    <3> QED BY <2>1, <3>4 DEF TQ!Post
  <2> QED BY <1>1, <2>2, <2>3 DEF PostTaskStore
<1>2. CASE RunDrain
  <2>1. Append(winQueue, Head(queuedTasks)) \o Tail(queuedTasks) = winQueue \o queuedTasks
    BY <1>2, PendingTypes, MoveHead DEF RunDrain
  <2>2. /\ winQueue' \o queuedTasks' = winQueue \o queuedTasks
        /\ UNCHANGED <<executed, mainPc>>
    BY <1>2, <2>1 DEF RunDrain, runVars
  <2> QED BY <2>2 DEF TQ!vars
<1>3. CASE ExecuteTask
  <2>1. queuedTasks = <<>> /\ queuedTasks' = <<>>
    BY <1>3 DEF Inv, NoTaskStranded, ExecuteTask
  <2>2. Tail(winQueue) \in Seq(Task) /\ winQueue # <<>>
    BY <1>3, PendingTypes, HeadTailProperties DEF ExecuteTask
  <2>3. winQueue \o queuedTasks = winQueue /\ winQueue' \o queuedTasks' = Tail(winQueue)
    BY <1>3, <2>1, <2>2, PendingTypes, ConcatEmptySeq DEF ExecuteTask
  <2>4. /\ executed' = Append(executed, Head(winQueue))
        /\ mainPc # "returned" /\ mainPc' # "returned"
    BY <1>3 DEF ExecuteTask
  <2> QED BY <2>2, <2>3, <2>4 DEF TQ!Next, TQ!RunNext
<1>4. CASE RunDestroyWindow
  <2>1. queuedTasks = <<>> /\ queuedTasks' = <<>> /\ winQueue' = <<>>
    BY <1>4 DEF Inv, NoTaskStranded, RunDestroyWindow
  <2>2. winQueue' \o queuedTasks' = <<>>
    BY <2>1, EmptySeq, ConcatEmptySeq
  <2>3. mainPc # "returned" /\ mainPc' = "returned" /\ executed' = executed
    BY <1>4 DEF RunDestroyWindow
  <2> QED BY <2>2, <2>3 DEF TQ!Next, TQ!Close
<1>5. ASSUME /\ ~RunDrain /\ ~ExecuteTask /\ ~RunDestroyWindow
             /\ \A t \in Threads : ~PostTaskStore(t)
      PROVE  UNCHANGED TQ!vars
  <2>1. /\ UNCHANGED <<winQueue, queuedTasks, executed>>
        /\ (mainPc' = "returned") = (mainPc = "returned")
    BY <1>5 DEF Next, Run, PostTask, PostTaskLock, PostTaskTest, RunCreateWindow,
                RunUnlock, FinishTask, GetQuitMessage, runVars, vars
  <2> QED BY <2>1 DEF TQ!vars
<1> QED BY <1>1, <1>2, <1>3, <1>4, <1>5 DEF TQ!Next

\* PostTask and Run(), with their lock, their two queues and the hand-over
\* between them, are a queue that takes tasks at one end and runs them at the
\* other until it is closed.
THEOREM LoopIsTaskQueue == Spec => ImplementsTaskQueue
<1>1. Init => TQ!Init
  <2>1. <<>> \o <<>> = <<>>
    BY EmptySeq, ConcatEmptySeq
  <2> QED BY <2>1 DEF Init, TQ!Init
<1> QED
  BY <1>1, RefinementStep, Invariance, PTL DEF Spec, ImplementsTaskQueue, TQ!Spec
=============================================================================
