----------------------------- MODULE ThreadPool -----------------------------
(* The thread pool of thpool.c: a queue of jobs, a binary semaphore that   *)
(* idle threads wait on, and thpool_wait.  A step is what is done under    *)
(* one lock, or the part of it that another thread can tell apart.         *)
EXTENDS Integers, SequencesExt, FiniteSets

CONSTANTS
    Threads,    \* num_threads of them (12 in the server)
    Jobs,       \* what there is to do, each added again once it is done
    NoJob

ASSUME ThreadPoolAssumption ==
    IsFiniteSet(Threads) /\ Threads # {} /\ NoJob \notin Jobs

VARIABLES
    queue,      \* jobqueue: front to rear
    v,          \* has_jobs->v
    pc,         \* where each thread is in thread_do
    job,        \* the job it runs, or NoJob
    working,    \* num_threads_working
    main        \* the thread that adds work: free, or asleep in thpool_wait

poolvars == <<queue, v, pc, job, working, main>>

At(k) == {t \in Threads : pc[t] = k}
Busy == {t \in Threads : pc[t] \in {"counted", "running", "ended"}}

PoolTypeOK ==
    /\ queue \in Seq(Jobs)
    /\ v \in {0, 1}
    /\ pc \in [Threads -> {"bsem", "asleep", "claimed", "counted", "running", "ended"}]
    /\ job \in [Threads -> Jobs \cup {NoJob}]
    /\ \A t \in Threads : job[t] # NoJob <=> pc[t] = "running"
    /\ working \in 0 .. Cardinality(Threads)
    /\ main \in {"free", "asleep", "woken"}

PoolInit ==
    /\ queue = <<>> /\ v = 0
    /\ pc = [t \in Threads |-> "bsem"]
    /\ job = [t \in Threads |-> NoJob]
    /\ working = 0 /\ main = "free"

-----------------------------------------------------------------------------
(* bsem_post: the semaphore is 1, and one sleeping thread wakes to see it. *)
(* Mutant: nobody is woken.                                                *)
bsem_post_Unsignalled(at) == v' = 1 /\ pc' = at
bsem_post(at) ==
    LET asleep == {t \in Threads : at[t] = "asleep"}
    IN /\ v' = 1
       /\ \/ asleep = {} /\ pc' = at
          \/ \E t \in asleep : pc' = [at EXCEPT ![t] = "bsem"]

Outstanding == ToSet(queue) \cup {job[t] : t \in Threads}

jobqueue_push(j) == queue' = Append(queue, j) /\ bsem_post(pc)

(* The caller adds no job that is queued or running: server_run holds the  *)
(* mutex of the slot the job is for.                                       *)
thpool_add_work(j) ==
    /\ main = "free" /\ j \notin Outstanding
    /\ jobqueue_push(j)
    /\ UNCHANGED <<job, working, main>>

(* bsem_wait: whoever finds 1 makes it 0 and goes on; the others sleep,    *)
(* until a post or for no reason at all.                                   *)
bsem_wait(t) ==
    /\ pc[t] = "bsem"
    /\ pc' = [pc EXCEPT ![t] = IF v = 1 THEN "claimed" ELSE "asleep"]
    /\ v' = 0
    /\ UNCHANGED <<queue, job, working, main>>

Spurious(t) ==
    /\ pc[t] = "asleep"
    /\ pc' = [pc EXCEPT ![t] = "bsem"]
    /\ UNCHANGED <<queue, v, job, working, main>>

(* Mutant: the thread does not count itself in.                            *)
Count_Not(t) ==
    /\ pc[t] = "claimed"
    /\ pc' = [pc EXCEPT ![t] = "counted"]
    /\ UNCHANGED <<queue, v, job, working, main>>

Count(t) ==
    /\ pc[t] = "claimed"
    /\ pc' = [pc EXCEPT ![t] = "counted"]
    /\ working' = working + 1
    /\ UNCHANGED <<queue, v, job, main>>

(* jobqueue_pull posts again while jobs remain: v does not count them.     *)
(* Mutant: it does not.                                                    *)
Pulled(t) == [pc EXCEPT ![t] = IF queue = <<>> THEN "ended" ELSE "running"]

jobqueue_pull_NoPost(t) ==
    /\ pc[t] = "counted"
    /\ IF queue = <<>> THEN UNCHANGED <<queue, job>>
       ELSE queue' = Tail(queue) /\ job' = [job EXCEPT ![t] = Head(queue)]
    /\ pc' = Pulled(t)
    /\ UNCHANGED <<v, working, main>>

jobqueue_pull(t) ==
    /\ pc[t] = "counted"
    /\ IF queue = <<>> THEN UNCHANGED <<queue, job>>
       ELSE queue' = Tail(queue) /\ job' = [job EXCEPT ![t] = Head(queue)]
    /\ IF Len(queue) > 1 THEN bsem_post(Pulled(t)) ELSE pc' = Pulled(t) /\ UNCHANGED v
    /\ UNCHANGED <<working, main>>

Return(t) ==
    /\ pc[t] = "running"
    /\ pc' = [pc EXCEPT ![t] = "ended"]
    /\ job' = [job EXCEPT ![t] = NoJob]
    /\ UNCHANGED <<queue, v, working, main>>

(* The last thread to become idle signals thpool_wait.                     *)
(* Mutant: it does not.                                                    *)
Uncount_NoSignal(t) ==
    /\ pc[t] = "ended"
    /\ pc' = [pc EXCEPT ![t] = "bsem"]
    /\ working' = working - 1
    /\ UNCHANGED <<queue, v, job, main>>

Uncount(t) ==
    /\ pc[t] = "ended"
    /\ pc' = [pc EXCEPT ![t] = "bsem"]
    /\ working' = working - 1
    /\ main' = IF working' = 0 /\ main = "asleep" THEN "woken" ELSE main
    /\ UNCHANGED <<queue, v, job>>

(* thpool_wait, called or woken: it returns or goes (back) to sleep.       *)
thpool_wait ==
    /\ main \in {"free", "woken"}
    /\ main' = IF queue # <<>> \/ working # 0 THEN "asleep" ELSE "free"
    /\ UNCHANGED <<queue, v, pc, job, working>>

Step(t) ==
    \/ bsem_wait(t) \/ Count(t) \/ jobqueue_pull(t) \/ Uncount(t)

PoolNext ==
    \/ \E j \in Jobs : thpool_add_work(j)
    \/ \E t \in Threads : Step(t) \/ Spurious(t) \/ Return(t)
    \/ thpool_wait

(* The threads of the pool are scheduled, and so is a woken thpool_wait;   *)
(* nothing is said of how long a job takes, or of work being added.        *)
Fairness ==
    /\ \A t \in Threads : WF_poolvars(Step(t))
    /\ WF_poolvars(main = "woken" /\ thpool_wait)

PoolSpec == PoolInit /\ [][PoolNext]_poolvars /\ Fairness

-----------------------------------------------------------------------------
(* Properties.                                                             *)

(* While a job is queued a thread is on its way to it or the semaphore     *)
(* still says so, and while it does somebody is awake to see it: no order  *)
(* of posts, wake-ups and pulls strands a job with every idle thread       *)
(* asleep.                                                                 *)
NoJobStranded ==
    /\ queue # <<>> => v = 1 \/ \E t \in Threads : pc[t] \in {"claimed", "counted"}
    /\ v = 1 /\ At("asleep") # {} => At("bsem") # {}

(* What thpool_wait looks at means what its comment says: when the queue   *)
(* is empty and no thread is counted, none is running a job.               *)
IdleMeansDone == queue = <<>> /\ working = 0 => \A t \in Threads : job[t] = NoJob

(* The pool is a fair first-in first-out queue of jobs.                    *)
Queue == INSTANCE JobQueue WITH running <- job
Promise == Queue!Spec

(* If jobs end, thpool_wait returns.                                       *)
JobsEnd == \A t \in Threads : WF_poolvars(Return(t))
WaitReturns == JobsEnd => (main = "asleep" ~> main = "free")
=============================================================================
