------------------------------ MODULE JobQueue ------------------------------
(* What the server needs of the thread pool: jobs start in the order they  *)
(* were added, each once, and a job does not wait while a thread is free.  *)
EXTENDS SequencesExt

CONSTANTS Threads, Jobs, NoJob

VARIABLES
    queue,      \* jobs added and not started
    running     \* the job each thread runs, or NoJob

vars == <<queue, running>>

Outstanding == ToSet(queue) \cup {running[t] : t \in Threads}

Init == queue = <<>> /\ running = [t \in Threads |-> NoJob]

Add(j) ==
    /\ j \notin Outstanding
    /\ queue' = Append(queue, j)
    /\ UNCHANGED running

Start(t) ==
    /\ queue # <<>> /\ running[t] = NoJob
    /\ running' = [running EXCEPT ![t] = Head(queue)]
    /\ queue' = Tail(queue)

End(t) ==
    /\ running[t] # NoJob
    /\ running' = [running EXCEPT ![t] = NoJob]
    /\ UNCHANGED queue

Next ==
    \/ \E j \in Jobs : Add(j)
    \/ \E t \in Threads : Start(t) \/ End(t)

Safety == Init /\ [][Next]_vars
Spec == Safety /\ WF_vars(\E t \in Threads : Start(t))
=============================================================================
