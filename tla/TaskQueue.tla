----------------------------- MODULE TaskQueue ------------------------------
(***************************************************************************)
(* What MainMessageLoop promises its callers (main_message_loop.h): a task *)
(* posted from any thread is run on the main thread, at most once and in   *)
(* the order of the posts, until Run() returns; a task that is still       *)
(* pending then, or is posted later, is never run.                         *)
(***************************************************************************)
EXTENDS Sequences

CONSTANT Task

VARIABLES
    pending,    \* tasks accepted by PostTask and not yet run, oldest first
    done,       \* tasks run, oldest first
    open        \* FALSE once Run() has returned

vars == <<pending, done, open>>

Init == pending = <<>> /\ done = <<>> /\ open = TRUE

Post == /\ \E k \in Task : pending' = Append(pending, k)
        /\ UNCHANGED <<done, open>>

RunNext == /\ open /\ pending # <<>>
           /\ done' = Append(done, Head(pending))
           /\ pending' = Tail(pending)
           /\ UNCHANGED open

Close == /\ open
         /\ open' = FALSE
         /\ pending' = <<>>
         /\ UNCHANGED done

Next == Post \/ RunNext \/ Close

Spec == Init /\ [][Next]_vars
=============================================================================
