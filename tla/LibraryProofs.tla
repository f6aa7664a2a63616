--------------------------- MODULE LibraryProofs ----------------------------
(* Proofs about the two libraries of src/lib.  ThreadPool, for every       *)
(* number of threads and any jobs: no job is stranded, an idle pool has    *)
(* nothing left to do, and the pool implements the queue of JobQueue.tla.  *)
(* Connection, for any sizes of buffers and messages: what is received is  *)
(* what was sent.                                                          *)
EXTENDS ThreadPool, Connection, FiniteSetTheorems, TLAPS

-----------------------------------------------------------------------------
(* The thread pool.                                                        *)
(* The inductive invariant.  The counter counts the threads that are busy, *)
(* which is what makes its reading mean something.                         *)
Counted == working = Cardinality(Busy)
PInv == PoolTypeOK /\ Counted /\ NoJobStranded

(* The threads that are busy are finitely many, one more when a thread     *)
(* counts itself in, one less when it counts itself out.                   *)
LEMMA BusyFinite ==
    /\ IsFiniteSet(Busy) /\ Cardinality(Busy) \in 0 .. Cardinality(Threads)
    /\ Cardinality(Threads) \in Nat
  <1>1. Busy \in SUBSET Threads
    BY DEF Busy
  <1>2. IsFiniteSet(Threads)
    BY ThreadPoolAssumption
  <1>3. IsFiniteSet(Busy) /\ Cardinality(Busy) <= Cardinality(Threads)
    BY <1>1, <1>2, FS_Subset
  <1>4. Cardinality(Busy) \in Nat /\ Cardinality(Threads) \in Nat
    BY <1>2, <1>3, FS_CardinalityType
  <1> QED  BY <1>3, <1>4

(* A post changes only where one sleeping thread is, and after it the      *)
(* semaphore is 1 and somebody is awake to see it.                         *)
LEMMA PostWakes ==
    ASSUME NEW at \in [Threads -> {"bsem", "asleep", "claimed", "counted", "running", "ended"}],
           bsem_post(at)
    PROVE  /\ v' = 1
           /\ pc' \in [Threads -> {"bsem", "asleep", "claimed", "counted", "running", "ended"}]
           /\ \A t \in Threads : pc'[t] = at[t] \/ (at[t] = "asleep" /\ pc'[t] = "bsem")
           /\ (\E t \in Threads : pc'[t] = "asleep") => \E t \in Threads : pc'[t] = "bsem"
  <1>1. CASE pc' = at /\ {t \in Threads : at[t] = "asleep"} = {}
    BY <1>1 DEF bsem_post
  <1>2. CASE \E t \in {u \in Threads : at[u] = "asleep"} : pc' = [at EXCEPT ![t] = "bsem"]
    BY <1>2 DEF bsem_post
  <1> QED  BY <1>1, <1>2 DEF bsem_post

(* What does not change who is busy does not change how many are.          *)
LEMMA BusySame ==
    ASSUME Counted, working' = working,
           \A t \in Threads : (pc'[t] \in {"counted", "running", "ended"})
                                <=> (pc[t] \in {"counted", "running", "ended"})
    PROVE  Counted'
  <1>1. Busy' = Busy
    BY DEF Busy
  <1> QED  BY <1>1 DEF Counted

-----------------------------------------------------------------------------
(* Each action preserves the invariant.                                    *)
LEMMA AddPreserves ==
    ASSUME PInv, NEW j \in Jobs, thpool_add_work(j)
    PROVE  PInv'
  <1>1. queue' = Append(queue, j) /\ bsem_post(pc) /\ UNCHANGED <<job, working, main>>
    BY DEF thpool_add_work, jobqueue_push
  <1>2. pc \in [Threads -> {"bsem", "asleep", "claimed", "counted", "running", "ended"}]
    BY DEF PInv, PoolTypeOK
  <1>3. /\ v' = 1
        /\ pc' \in [Threads -> {"bsem", "asleep", "claimed", "counted", "running", "ended"}]
        /\ \A t \in Threads : pc'[t] = pc[t] \/ (pc[t] = "asleep" /\ pc'[t] = "bsem")
        /\ (\E t \in Threads : pc'[t] = "asleep") => \E t \in Threads : pc'[t] = "bsem"
    BY <1>1, <1>2, PostWakes
  <1>4. PoolTypeOK'
    BY <1>1, <1>3 DEF PInv, PoolTypeOK
  <1>5. Counted'
    BY <1>1, <1>3, BusySame DEF PInv
  <1>6. NoJobStranded'
    BY <1>3 DEF NoJobStranded, At
  <1> QED  BY <1>4, <1>5, <1>6 DEF PInv

LEMMA WaitPreserves ==
    ASSUME PInv, NEW t \in Threads, bsem_wait(t)
    PROVE  PInv'
  <1>1. PoolTypeOK'
    BY DEF PInv, PoolTypeOK, bsem_wait
  <1>2. Counted'
    BY BusySame DEF PInv, PoolTypeOK, bsem_wait
  <1>3. v' = 0
    BY DEF bsem_wait
  <1>4. queue' # <<>> => \E u \in Threads : pc'[u] \in {"claimed", "counted"}
    BY DEF PInv, PoolTypeOK, NoJobStranded, bsem_wait
  <1> QED  BY <1>1, <1>2, <1>3, <1>4 DEF PInv, NoJobStranded

LEMMA SpuriousPreserves ==
    ASSUME PInv, NEW t \in Threads, Spurious(t)
    PROVE  PInv'
  <1>1. PoolTypeOK'
    BY DEF PInv, PoolTypeOK, Spurious
  <1>2. Counted'
    BY BusySame DEF PInv, PoolTypeOK, Spurious
  <1>3. NoJobStranded'
    BY DEF PInv, PoolTypeOK, NoJobStranded, At, Spurious
  <1> QED  BY <1>1, <1>2, <1>3 DEF PInv

LEMMA CountPreserves ==
    ASSUME PInv, NEW t \in Threads, Count(t)
    PROVE  PInv'
  <1>1. Busy' = Busy \cup {t} /\ t \notin Busy
    BY DEF PInv, PoolTypeOK, Count, Busy
  <1>2. IsFiniteSet(Busy) /\ Cardinality(Busy) \in Nat
    BY BusyFinite
  <1>3. Cardinality(Busy') = Cardinality(Busy) + 1
    BY <1>1, <1>2, FS_AddElement
  <1>4. Counted'
    BY <1>3 DEF PInv, Counted, Count
  <1>5. Cardinality(Busy') <= Cardinality(Threads)
    <2>1. Busy' \in SUBSET Threads
      BY <1>1 DEF Busy
    <2> QED  BY <2>1, FS_Subset, ThreadPoolAssumption
  <1>6. working' \in 0 .. Cardinality(Threads)
    BY <1>2, <1>3, <1>4, <1>5, BusyFinite DEF Counted
  <1>7. PoolTypeOK'
    BY <1>6 DEF PInv, PoolTypeOK, Count
  <1>8. NoJobStranded'
    BY DEF PInv, PoolTypeOK, NoJobStranded, At, Count
  <1> QED  BY <1>4, <1>7, <1>8 DEF PInv

LEMMA PullPreserves ==
    ASSUME PInv, NEW t \in Threads, jobqueue_pull(t)
    PROVE  PInv'
  <1> DEFINE Places == {"bsem", "asleep", "claimed", "counted", "running", "ended"}
  <1>1. /\ queue \in Seq(Jobs) /\ pc \in [Threads -> Places] /\ pc[t] = "counted"
        /\ Pulled(t) \in [Threads -> Places] /\ Pulled(t)[t] \in {"running", "ended"}
        /\ \A u \in Threads \ {t} : Pulled(t)[u] = pc[u]
        /\ Pulled(t)[t] = "running" <=> queue # <<>>
    BY DEF PInv, PoolTypeOK, jobqueue_pull, Pulled
  <1>2. /\ pc' \in [Threads -> Places]
        /\ \A u \in Threads : \/ pc'[u] = Pulled(t)[u]
                              \/ pc[u] = "asleep" /\ pc'[u] = "bsem" /\ u # t
        /\ v' = 1 \/ (v' = v /\ pc' = Pulled(t))
        /\ Len(queue) > 1 => v' = 1
        /\ v' = 1 /\ (\E u \in Threads : pc'[u] = "asleep")
             => \E u \in Threads : pc'[u] = "bsem"
    <2>1. CASE Len(queue) > 1
      <3>1. bsem_post(Pulled(t))
        BY <2>1 DEF jobqueue_pull
      <3> QED  BY <1>1, <3>1, PostWakes
    <2>2. CASE ~(Len(queue) > 1)
      <3>1. pc' = Pulled(t) /\ v' = v
        BY <2>2 DEF jobqueue_pull
      <3>2. v = 1 /\ (\E u \in Threads : pc[u] = "asleep") => \E u \in Threads : pc[u] = "bsem"
        BY DEF PInv, NoJobStranded, At
      <3> QED  BY <1>1, <2>2, <3>1, <3>2
    <2> QED  BY <2>1, <2>2
  <1>3. /\ queue' \in Seq(Jobs)
        /\ job' \in [Threads -> Jobs \cup {NoJob}]
        /\ \A u \in Threads \ {t} : job'[u] = job[u]
        /\ job'[t] # NoJob <=> queue # <<>>
        /\ queue' # <<>> => Len(queue) > 1
        /\ UNCHANGED <<working, main>>
    <2>1. CASE queue = <<>>
      BY <1>1, <2>1 DEF jobqueue_pull, PInv, PoolTypeOK
    <2>2. CASE queue # <<>>
      <3>1. Head(queue) \in Jobs /\ Tail(queue) \in Seq(Jobs)
        BY <1>1, <2>2
      <3>2. Tail(queue) # <<>> => Len(queue) > 1
        BY <1>1, <2>2
      <3>3. queue' = Tail(queue) /\ job' = [job EXCEPT ![t] = Head(queue)]
        BY <2>2 DEF jobqueue_pull
      <3> QED  BY <2>2, <3>1, <3>2, <3>3, ThreadPoolAssumption DEF jobqueue_pull, PInv, PoolTypeOK
    <2> QED  BY <2>1, <2>2
  <1>4. PoolTypeOK'
    <2>1. \A u \in Threads : job'[u] # NoJob <=> pc'[u] = "running"
      BY <1>1, <1>2, <1>3 DEF PInv, PoolTypeOK
    <2>2. v' \in {0, 1}
      BY <1>2 DEF PInv, PoolTypeOK
    <2> QED  BY <1>2, <1>3, <2>1, <2>2 DEF PInv, PoolTypeOK
  <1>5. Counted'
    <2>1. \A u \in Threads : pc'[u] \in {"counted", "running", "ended"}
                               <=> pc[u] \in {"counted", "running", "ended"}
      BY <1>1, <1>2
    <2> QED  BY <1>3, <2>1, BusySame DEF PInv
  <1>6. NoJobStranded'
    BY <1>2, <1>3 DEF NoJobStranded, At
  <1> QED  BY <1>4, <1>5, <1>6 DEF PInv

LEMMA ReturnPreserves ==
    ASSUME PInv, NEW t \in Threads, Return(t)
    PROVE  PInv'
  <1>1. PoolTypeOK'
    BY DEF PInv, PoolTypeOK, Return
  <1>2. Counted'
    BY BusySame DEF PInv, PoolTypeOK, Return
  <1>3. NoJobStranded'
    BY DEF PInv, PoolTypeOK, NoJobStranded, At, Return
  <1> QED  BY <1>1, <1>2, <1>3 DEF PInv

LEMMA UncountPreserves ==
    ASSUME PInv, NEW t \in Threads, Uncount(t)
    PROVE  PInv'
  <1>1. Busy' = Busy \ {t} /\ t \in Busy
    BY DEF PInv, PoolTypeOK, Uncount, Busy
  <1>2. IsFiniteSet(Busy) /\ Cardinality(Busy) \in 0 .. Cardinality(Threads)
        /\ Cardinality(Threads) \in Nat
    BY BusyFinite
  <1>3. IsFiniteSet(Busy') /\ Cardinality(Busy') = Cardinality(Busy) - 1
    BY <1>1, <1>2, FS_RemoveElement
  <1>4. Cardinality(Busy') \in Nat
    BY <1>3, FS_CardinalityType
  <1>5. Counted' /\ working' \in 0 .. Cardinality(Threads)
    BY <1>2, <1>3, <1>4 DEF PInv, Counted, Uncount
  <1>6. PoolTypeOK'
    BY <1>5 DEF PInv, PoolTypeOK, Uncount
  <1>7. NoJobStranded'
    BY DEF PInv, PoolTypeOK, NoJobStranded, At, Uncount
  <1> QED  BY <1>5, <1>6, <1>7 DEF PInv

LEMMA QuietPreserves ==
    ASSUME PInv, thpool_wait \/ UNCHANGED poolvars
    PROVE  PInv'
  <1>1. UNCHANGED <<queue, v, pc, job, working>> /\ main' \in {"free", "asleep", "woken"}
    BY DEF PInv, PoolTypeOK, thpool_wait, poolvars
  <1>2. PoolTypeOK' /\ NoJobStranded'
    BY <1>1 DEF PInv, PoolTypeOK, NoJobStranded, At
  <1>3. Counted'
    BY <1>1, BusySame DEF PInv
  <1> QED  BY <1>2, <1>3 DEF PInv

-----------------------------------------------------------------------------
(* In every state of the pool the counter is right and no job is stranded, *)
(* whatever the order of posts, wake-ups and pulls.                        *)
THEOREM PoolInvariance == PoolSpec => []PInv
  <1>1. PoolInit => PInv
    <2> SUFFICES ASSUME PoolInit PROVE PInv
      OBVIOUS
    <2>1. PoolTypeOK
      BY BusyFinite DEF PoolInit, PoolTypeOK
    <2>2. Busy = {}
      BY DEF PoolInit, Busy
    <2>3. Counted
      BY <2>2, FS_EmptySet DEF PoolInit, Counted
    <2>4. NoJobStranded
      BY DEF PoolInit, NoJobStranded
    <2> QED  BY <2>1, <2>3, <2>4 DEF PInv
  <1>2. PInv /\ [PoolNext]_poolvars => PInv'
    BY AddPreserves, WaitPreserves, SpuriousPreserves, CountPreserves, PullPreserves,
       ReturnPreserves, UncountPreserves, QuietPreserves DEF PoolNext, Step
  <1> QED  BY <1>1, <1>2, PTL DEF PoolSpec

(* Type correctness of the pool.                                           *)
THEOREM PoolTypeCorrect == PoolSpec => []PoolTypeOK
  <1>1. PInv => PoolTypeOK
    BY DEF PInv
  <1> QED  BY <1>1, PoolInvariance, PTL

(* No job is left in the queue with the semaphore at 0 and nobody on the   *)
(* way, nor with the semaphore at 1 and every idle thread asleep.          *)
THEOREM NoJobIsStranded == PoolSpec => []NoJobStranded
  <1>1. PInv => NoJobStranded
    BY DEF PInv
  <1> QED  BY <1>1, PoolInvariance, PTL

(* An empty queue and a counter of 0, what thpool_wait waits for, mean     *)
(* that no job is running.                                                 *)
THEOREM IdlePoolIsDone == PoolSpec => []IdleMeansDone
  <1>1. PInv => IdleMeansDone
    <2> SUFFICES ASSUME PInv, working = 0, NEW t \in Threads PROVE job[t] = NoJob
      BY DEF IdleMeansDone
    <2>1. Busy = {}
      BY BusyFinite, FS_EmptySet DEF PInv, Counted
    <2>2. pc[t] # "running"
      BY <2>1 DEF Busy
    <2> QED  BY <2>2 DEF PInv, PoolTypeOK
  <1> QED  BY <1>1, PoolInvariance, PTL

-----------------------------------------------------------------------------
(* Each step of the pool is a step of the queue or changes nothing of it.  *)
LEMMA StepIsQueueStep ==
    ASSUME PInv, [PoolNext]_poolvars
    PROVE  [Queue!Next]_Queue!vars
  <1>1. ASSUME NEW j \in Jobs, thpool_add_work(j) PROVE Queue!Add(j)
    BY <1>1 DEF thpool_add_work, jobqueue_push, Outstanding, Queue!Add, Queue!Outstanding,
                ToSet, Queue!ToSet
  <1>2. ASSUME NEW t \in Threads, jobqueue_pull(t)
        PROVE  Queue!Start(t) \/ UNCHANGED Queue!vars
    <2>1. job[t] = NoJob
      BY <1>2 DEF PInv, PoolTypeOK, jobqueue_pull
    <2> QED  BY <1>2, <2>1 DEF jobqueue_pull, Queue!Start, Queue!vars
  <1>3. ASSUME NEW t \in Threads, Return(t) PROVE Queue!End(t)
    <2>1. job[t] # NoJob
      BY <1>3 DEF PInv, PoolTypeOK, Return
    <2> QED  BY <1>3, <2>1 DEF Return, Queue!End
  <1>4. ASSUME NEW t \in Threads, bsem_wait(t) \/ Spurious(t) \/ Count(t) \/ Uncount(t)
        PROVE  UNCHANGED Queue!vars
    BY <1>4 DEF bsem_wait, Spurious, Count, Uncount, Queue!vars
  <1>5. ASSUME thpool_wait \/ UNCHANGED poolvars PROVE UNCHANGED Queue!vars
    BY <1>5 DEF thpool_wait, poolvars, Queue!vars
  <1> QED  BY <1>1, <1>2, <1>3, <1>4, <1>5 DEF PoolNext, Step, Queue!Next

(* The pool starts jobs in the order they were added, each once, and never *)
(* one that was not added: it implements the safety of JobQueue.           *)
THEOREM PoolImplementsQueue == PoolSpec => Queue!Safety
  <1>1. PoolInit => Queue!Init
    BY DEF PoolInit, Queue!Init
  <1>2. PInv /\ [PoolNext]_poolvars => [Queue!Next]_Queue!vars
    BY StepIsQueueStep
  <1> QED  BY <1>1, <1>2, PoolInvariance, PTL DEF PoolSpec, Queue!Safety

-----------------------------------------------------------------------------
(* The connection.                                                         *)
(* The part of a frame from behind byte a to byte b.                       *)
Size(m) == Header + m.len
Part(m, a, b) == [k \in 1 .. b - a |-> [of |-> m, at |-> a + k]]

LEMMA PartProperties ==
    ASSUME NEW M, NEW m \in M, NEW a \in Nat, NEW b \in Nat, a <= b
    PROVE  /\ Part(m, a, b) \in Seq(Bytes(M)) /\ Len(Part(m, a, b)) = b - a
           /\ \A k \in 1 .. b - a : Part(m, a, b)[k] = [of |-> m, at |-> a + k]
           /\ a = b <=> Part(m, a, b) = <<>>
<1>1. Part(m, a, b) \in Seq(Bytes(M))
  <2>1. \A k \in 1 .. b - a : [of |-> m, at |-> a + k] \in Bytes(M)  BY DEF Bytes
  <2>2. b - a \in Nat  OBVIOUS
  <2> QED  BY <2>1, <2>2 DEF Part
<1>2. Len(Part(m, a, b)) = b - a  BY DEF Part
<1> QED  BY <1>1, <1>2 DEF Part

(* What a piece of n bytes takes of a sequence, and what it leaves.         *)
Taken(s, n) == SubSeq(s, 1, n)
Left(s, n) == SubSeq(s, n + 1, Len(s))

LEMMA PartSplit ==
    ASSUME NEW m, NEW a \in Nat, NEW b \in Nat, a <= b, NEW n \in 0 .. b - a
    PROVE  /\ Taken(Part(m, a, b), n) = Part(m, a, a + n)
           /\ Left(Part(m, a, b), n) = Part(m, a + n, b)
<1> DEFINE T == {[of |-> m, at |-> k] : k \in Nat}
<1>1. Part(m, a, b) \in Seq(T) /\ Len(Part(m, a, b)) = b - a
  <2>1. b - a \in Nat  OBVIOUS
  <2> QED  BY <2>1 DEF Part
<1>2. SubSeq(Part(m, a, b), 1, n) = Part(m, a, a + n)
  BY <1>1 DEF Part
<1>3. SubSeq(Part(m, a, b), n + 1, b - a) = Part(m, a + n, b)
  BY <1>1 DEF Part
<1> QED  BY <1>1, <1>2, <1>3 DEF Taken, Left

LEMMA PartJoin ==
    ASSUME NEW m, NEW a \in Nat, NEW b \in Nat, NEW c \in Nat, a <= b, b <= c
    PROVE  Part(m, a, b) \o Part(m, b, c) = Part(m, a, c)
<1> DEFINE T == {[of |-> m, at |-> k] : k \in Nat}
<1>1. Part(m, a, b) \in Seq(T) /\ Len(Part(m, a, b)) = b - a
  <2>1. b - a \in Nat  OBVIOUS
  <2> QED  BY <2>1 DEF Part
<1>2. Part(m, b, c) \in Seq(T) /\ Len(Part(m, b, c)) = c - b
  <2>1. c - b \in Nat  OBVIOUS
  <2> QED  BY <2>1 DEF Part
<1> QED  BY <1>1, <1>2 DEF Part

LEMMA FrameIsPart ==
    ASSUME NEW m, m.len \in Nat
    PROVE  Frame(m) = Part(m, 0, Size(m)) /\ Size(m) \in Nat /\ Size(m) > 0
<1>1. Size(m) \in Nat /\ Size(m) > 0  BY TcpBufferAssumption DEF Size
<1>2. \A k \in 1 .. Size(m) : 0 + k = k  BY <1>1
<1> QED  BY <1>1, <1>2 DEF Frame, Part, Size

-----------------------------------------------------------------------------
(* A buffer whose indices adjust_buffer has seen: at most half of it is    *)
(* read and not reused.                                                    *)
Tidy(b, M) ==
    /\ b \in [r : Nat, data : Seq(Bytes(M))]
    /\ b.r <= Half /\ b.r + Len(b.data) <= TCP_BUF_SIZE

LEMMA HalfOfSize == Half \in Nat /\ Half < TCP_BUF_SIZE
  BY TcpBufferAssumption DEF Half

LEMMA Adjusted ==
    ASSUME NEW M, NEW r \in Nat, NEW d \in Seq(Bytes(M)), r + Len(d) <= TCP_BUF_SIZE
    PROVE  /\ Tidy(adjust_buffer([r |-> r, data |-> d]), M)
           /\ adjust_buffer([r |-> r, data |-> d]).data = d
<1> DEFINE w == [r |-> r, data |-> d]
<1>1. [w EXCEPT !.r = 0] = [r |-> 0, data |-> d]  OBVIOUS
<1>2. Len(d) \in Nat  OBVIOUS
<1>3. CASE r > Half
  <2>1. adjust_buffer(w) = [r |-> 0, data |-> d]  BY <1>1, <1>3 DEF adjust_buffer
  <2>2. 0 + Len(d) <= TCP_BUF_SIZE  BY <1>2, TcpBufferAssumption
  <2> QED  BY <2>1, <2>2, HalfOfSize DEF Tidy
<1>4. CASE ~(r > Half)
  <2>1. adjust_buffer(w) = w  BY <1>4 DEF adjust_buffer
  <2>2. r <= Half  BY <1>4, HalfOfSize
  <2> QED  BY <2>1, <2>2 DEF Tidy
<1> QED  BY <1>3, <1>4

LEMMA WriteKeepsTidy ==
    ASSUME NEW M, NEW b, Tidy(b, M), NEW s \in Seq(Bytes(M)), Len(s) <= writeable(b)
    PROVE  /\ Tidy(recycle_write(b, s), M)
           /\ recycle_write(b, s).data = b.data \o s
<1> DEFINE d == b.data \o s
<1>1. b \in [r : Nat, data : Seq(Bytes(M))] /\ b = [r |-> b.r, data |-> b.data]
  BY DEF Tidy
<1>2. d \in Seq(Bytes(M)) /\ Len(d) = Len(b.data) + Len(s)
  BY <1>1
<1>3. Len(s) \in Nat /\ Len(b.data) \in Nat /\ b.r \in Nat  BY <1>1
<1>4. [b EXCEPT !.data = @ \o s] = [r |-> b.r, data |-> d]
  <2> HIDE DEF d
  <2>1. \A t : [b EXCEPT !.data = t] = [r |-> b.r, data |-> t]  BY <1>1
  <2> QED  BY <2>1 DEF d
<1>5. recycle_write(b, s) = adjust_buffer([r |-> b.r, data |-> d])
  BY <1>3, <1>4, TcpBufferAssumption DEF recycle_write, writeable
<1>6. b.r + Len(d) <= TCP_BUF_SIZE
  BY <1>2, <1>3, TcpBufferAssumption DEF writeable
<1> HIDE DEF d
<1>7. Tidy(recycle_write(b, s), M) /\ recycle_write(b, s).data = d
  BY <1>2, <1>3, <1>5, <1>6, Adjusted
<1> QED  BY <1>7 DEF d

LEMMA ReadKeepsTidy ==
    ASSUME NEW M, NEW b, Tidy(b, M), NEW n \in 0 .. Len(b.data)
    PROVE  /\ Tidy(recycle_read(b, n), M)
           /\ recycle_read(b, n).data = Left(b.data, n)
<1> DEFINE d == SubSeq(b.data, n + 1, Len(b.data))
<1>1. b \in [r : Nat, data : Seq(Bytes(M))] /\ b.r + Len(b.data) <= TCP_BUF_SIZE
  BY DEF Tidy
<1>2. d \in Seq(Bytes(M)) /\ Len(d) = Len(b.data) - n
  BY <1>1
<1>3. Len(b.data) \in Nat /\ b.r \in Nat  BY <1>1
<1>4. recycle_read(b, n) = adjust_buffer([r |-> b.r + n, data |-> d])
  BY <1>1, <1>3, TcpBufferAssumption DEF recycle_read
<1>5. b.r + n + Len(d) <= TCP_BUF_SIZE /\ b.r + n \in Nat
  BY <1>1, <1>2, <1>3, TcpBufferAssumption
<1> HIDE DEF d
<1>6. Tidy(recycle_read(b, n), M) /\ recycle_read(b, n).data = d
  BY <1>2, <1>4, <1>5, Adjusted
<1> QED  BY <1>6 DEF d, Left

-----------------------------------------------------------------------------
(* While nothing has been lost, at most one message is under way, in three *)
(* pieces: in the reader's buffer, in the network, in the writer's buffer. *)
Spread(x, net, y, m) ==
    \E a \in 0 .. Size(m) : \E b \in a .. Size(m) :
        x = Part(m, 0, a) /\ net = Part(m, a, b) /\ y = Part(m, b, Size(m))

QuietUp == sr.data = <<>> /\ up = <<>> /\ cw.data = <<>>
QuietDown == cr.data = <<>> /\ down = <<>> /\ sw.data = <<>>

Idle == /\ QuietUp /\ QuietDown
        /\ client.cmd # NoMsg => got \in Reply /\ got.re = client.cmd
Asking == /\ Spread(sr.data, up, cw.data, client.cmd) /\ QuietDown
Answering == /\ QuietUp
             /\ \E m \in Reply : m.re = client.cmd /\ Spread(cr.data, down, sw.data, m)

Turn ==
    /\ client.pc = "idle" => Idle
    /\ client.pc \in {"send", "recv"} => client.cmd \in Command /\ (Asking \/ Answering)
    /\ client.pc = "send" => cr.data = <<>>
    /\ client.pc = "recv" => cw.data = <<>>
    /\ client.pc = "recv" /\ ~client.count => ~Complete(cr)
    /\ server.pc = "recv" /\ ~server.count => up # <<>>

Sound ==
    /\ client \in [pc : {"idle", "send", "recv"}, cmd : Command \cup {NoMsg}, count : BOOLEAN]
    /\ server \in [pc : {"select", "recv", "handle", "send"}, count : BOOLEAN]
    /\ Tidy(cw, Command) /\ Tidy(sr, Command) /\ up \in Seq(Bytes(Command))
    /\ Tidy(sw, Reply) /\ Tidy(cr, Reply) /\ down \in Seq(Bytes(Reply))
    /\ got \in Reply \cup {NoMsg, Garbled}
    /\ Turn

(* The inductive invariant: all is well until a message is lost, and that  *)
(* one did not fit.                                                        *)
CInv == HalfFits /\ (lost = NoMsg => Sound)

LEMMA LenTypes ==
    /\ \A m \in Command : m.len \in Nat /\ m # NoMsg
    /\ \A m \in Reply : m.len \in Nat /\ m # NoMsg /\ m # Garbled
<1>1. \A m \in Command : m.len \in Nat
  BY ConnectionAssumption DEF Command
<1>2. \A m \in Reply : m.len \in Nat
  BY ConnectionAssumption DEF Reply
<1> QED  BY <1>1, <1>2, MessageAssumption

LEMMA InitSound == Init => CInv
<1> SUFFICES ASSUME Init PROVE CInv  OBVIOUS
<1>1. Tidy(init_buffer, Command) /\ Tidy(init_buffer, Reply)
  BY HalfOfSize, TcpBufferAssumption DEF Tidy, init_buffer
<1>2. Turn
  BY DEF Init, Turn, Idle, QuietUp, QuietDown, init_buffer
<1>3. HalfFits  BY DEF HalfFits, Init
<1>4. Sound  BY <1>1, <1>2 DEF Sound, Init
<1> QED  BY <1>3, <1>4 DEF CInv

(* A message appended to an empty buffer stands there whole, or was too    *)
(* long for half a buffer.                                                 *)
LEMMA Appended ==
    ASSUME NEW M, NEW b, Tidy(b, M), b.data = <<>>, NEW m \in M, m.len \in Nat
    PROVE  IF Room(b, m) THEN /\ Tidy(buffer_append(b, m), M)
                              /\ buffer_append(b, m).data = Part(m, 0, Size(m))
           ELSE ~Fits(m) /\ buffer_append(b, m) = b
<1>1. CASE Room(b, m)
  <2>1. Frame(m) = Part(m, 0, Size(m)) /\ Size(m) \in Nat  BY FrameIsPart
  <2>2. Frame(m) \in Seq(Bytes(M)) /\ Len(Frame(m)) = Size(m)
    BY <2>1, PartProperties
  <2>3. Len(Frame(m)) <= writeable(b)
    BY <1>1, <2>2, TcpBufferAssumption DEF Room, Size
  <2>4. buffer_append(b, m) = recycle_write(b, Frame(m))  BY <1>1 DEF buffer_append
  <2>5. <<>> \o Frame(m) = Frame(m)  BY <2>2
  <2> QED  BY <1>1, <2>1, <2>2, <2>3, <2>4, <2>5, WriteKeepsTidy
<1>2. CASE ~Room(b, m)
  <2>1. b.r \in Nat /\ b.r <= Half /\ Len(b.data) = 0  BY DEF Tidy
  <2>2. TCP_BUF_SIZE - b.r < m.len + Header
    BY <1>2, <2>1, TcpBufferAssumption DEF Room, writeable
  <2>3. ~Fits(m)  BY <2>1, <2>2, HalfOfSize, TcpBufferAssumption DEF Fits
  <2> QED  BY <1>2, <2>3 DEF buffer_append
<1> QED  BY <1>1, <1>2

(* Bytes that leave a buffer for the network, or the network for a buffer, *)
(* leave the message spread over the three.                                *)
LEMMA SpreadOut ==
    ASSUME NEW M, NEW m \in M, m.len \in Nat, NEW x, NEW net, NEW y \in Seq(Bytes(M)),
           Spread(x, net, y, m), NEW n \in 1 .. Len(y)
    PROVE  Spread(x, net \o Taken(y, n), Left(y, n), m)
<1>0. Size(m) \in Nat  BY FrameIsPart
<1>1. PICK a \in 0 .. Size(m) : \E b \in a .. Size(m) :
        x = Part(m, 0, a) /\ net = Part(m, a, b) /\ y = Part(m, b, Size(m))
  BY DEF Spread
<1>2. PICK b \in a .. Size(m) :
        x = Part(m, 0, a) /\ net = Part(m, a, b) /\ y = Part(m, b, Size(m))
  BY <1>1
<1>3. a \in Nat /\ b \in Nat /\ a <= b /\ b <= Size(m)  BY <1>0, <1>2
<1>4. Len(y) = Size(m) - b  BY <1>0, <1>2, <1>3, PartProperties, ZenonT(60)
<1>5. n \in 0 .. Size(m) - b /\ b + n \in a .. Size(m) /\ b + n \in Nat /\ b <= b + n
  BY <1>0, <1>3, <1>4
<1>6. Taken(y, n) = Part(m, b, b + n) /\ Left(y, n) = Part(m, b + n, Size(m))
  BY <1>0, <1>2, <1>3, <1>5, PartSplit
<1>7. net \o Taken(y, n) = Part(m, a, b + n)
  <2>1. Part(m, a, b) \o Part(m, b, b + n) = Part(m, a, b + n)
    BY ONLY <1>3, <1>5, PartJoin
  <2> QED  BY ONLY <2>1, <1>2, <1>6
<1> QED  BY <1>2, <1>5, <1>6, <1>7 DEF Spread

LEMMA SpreadIn ==
    ASSUME NEW M, NEW m \in M, m.len \in Nat, NEW x, NEW net \in Seq(Bytes(M)), NEW y,
           Spread(x, net, y, m), NEW n \in 1 .. Len(net)
    PROVE  Spread(x \o Taken(net, n), Left(net, n), y, m)
<1>0. Size(m) \in Nat  BY FrameIsPart
<1>1. PICK a \in 0 .. Size(m) : \E b \in a .. Size(m) :
        x = Part(m, 0, a) /\ net = Part(m, a, b) /\ y = Part(m, b, Size(m))
  BY DEF Spread
<1>2. PICK b \in a .. Size(m) :
        x = Part(m, 0, a) /\ net = Part(m, a, b) /\ y = Part(m, b, Size(m))
  BY <1>1
<1>3. a \in Nat /\ b \in Nat /\ a <= b /\ b <= Size(m)  BY <1>0, <1>2
<1>4. Len(net) = b - a  BY <1>2, <1>3, PartProperties, ZenonT(60)
<1>5. n \in 0 .. b - a /\ a + n \in 0 .. Size(m) /\ a + n \in Nat /\ b \in a + n .. Size(m)
  BY <1>0, <1>3, <1>4
<1>6. Taken(net, n) = Part(m, a, a + n) /\ Left(net, n) = Part(m, a + n, b)
  BY <1>2, <1>3, <1>5, PartSplit
<1>7. x \o Taken(net, n) = Part(m, 0, a + n)
  <2>1. 0 \in Nat /\ 0 <= a /\ a <= a + n  BY <1>3, <1>5
  <2>2. Part(m, 0, a) \o Part(m, a, a + n) = Part(m, 0, a + n)
    BY ONLY <1>3, <1>5, <2>1, PartJoin
  <2> QED  BY ONLY <2>2, <1>2, <1>6
<1> QED  BY <1>2, <1>5, <1>6, <1>7 DEF Spread

LEMMA SpreadStart ==
    ASSUME NEW M, NEW m \in M, m.len \in Nat
    PROVE  Spread(<<>>, <<>>, Part(m, 0, Size(m)), m)
<1>1. Size(m) \in Nat  BY FrameIsPart
<1>2. 0 \in 0 .. Size(m)  BY <1>1
<1>3. <<>> = Part(m, 0, 0)  BY PartProperties
<1> QED  BY <1>2, <1>3 DEF Spread

LEMMA SpreadBounds ==
    ASSUME NEW M, NEW m \in M, m.len \in Nat, NEW x, NEW net, NEW y, Spread(x, net, y, m)
    PROVE  /\ Len(x) \in Nat /\ Len(x) <= Size(m)
           /\ x # <<>> => x[1].of = m
           /\ net # <<>> => Len(x) < Size(m)
           /\ Len(x) = Size(m) => x = Frame(m) /\ net = <<>> /\ y = <<>>
<1>0. Size(m) \in Nat /\ Frame(m) = Part(m, 0, Size(m))  BY FrameIsPart
<1>1. PICK a \in 0 .. Size(m) : \E b \in a .. Size(m) :
        x = Part(m, 0, a) /\ net = Part(m, a, b) /\ y = Part(m, b, Size(m))
  BY DEF Spread
<1>2. PICK b \in a .. Size(m) :
        x = Part(m, 0, a) /\ net = Part(m, a, b) /\ y = Part(m, b, Size(m))
  BY <1>1
<1>3. a \in Nat /\ b \in Nat /\ a <= b /\ b <= Size(m)  BY <1>0, <1>2
<1>4. Len(x) = a
  <2>1. Len(Part(m, 0, a)) = a - 0  BY <1>3, PartProperties
  <2> QED  BY <2>1, <1>2, <1>3
<1>5. x # <<>> => x[1].of = m
  <2>1. a = 0 => x = <<>>  BY <1>2, PartProperties
  <2>2. a > 0 => x[1] = [of |-> m, at |-> 0 + 1]  BY <1>2, <1>3 DEF Part
  <2> QED  BY <2>1, <2>2, <1>3
<1>6. a = b => net = <<>>  BY <1>2, <1>3, PartProperties
<1>7. b = Size(m) => y = <<>>  BY <1>0, <1>2, <1>3, PartProperties
<1> QED  BY <1>0, <1>2, <1>3, <1>4, <1>5, <1>6, <1>7

(* A reader that finds a complete message finds the one under way, and     *)
(* nothing is left of it anywhere once it has been taken.                  *)
LEMMA WholeMessage ==
    ASSUME NEW M, NEW m \in M, m.len \in Nat, NEW b, Tidy(b, M), NEW net, NEW y,
           Spread(b.data, net, y, m), Complete(b)
    PROVE  /\ net = <<>> /\ y = <<>> /\ FirstMessage(b) = m
           /\ Tidy(TakeFirst(b), M) /\ TakeFirst(b).data = <<>>
<1>1. b.data # <<>> /\ Len(b.data) \in Nat
  <2>1. Len(b.data) \in Nat  BY SpreadBounds
  <2>2. Len(b.data) >= Header  BY DEF Complete, readable
  <2> QED  BY <2>1, <2>2, TcpBufferAssumption
<1>2. FirstLen(b) = m.len  BY <1>1, SpreadBounds DEF FirstLen
<1>3. Len(b.data) = Size(m)
  <2>1. Len(b.data) <= Size(m)  BY SpreadBounds
  <2>2. Len(b.data) >= m.len + Header  BY <1>2 DEF Complete, readable
  <2> QED  BY <1>1, <2>1, <2>2, TcpBufferAssumption DEF Size
<1>4. b.data = Frame(m) /\ net = <<>> /\ y = <<>>  BY <1>3, SpreadBounds
<1>5. FirstMessage(b) = m
  <2>1. b.data[1].of = m  BY <1>1, SpreadBounds
  <2> QED  BY <1>2, <1>4, <2>1 DEF FirstMessage, Body
<1>6. TakeFirst(b) = recycle_read(b, Len(b.data))
  BY <1>2, <1>3, TcpBufferAssumption DEF TakeFirst, Size
<1>7. Left(b.data, Len(b.data)) = <<>>
  <2>1. Size(m) \in Nat /\ Frame(m) = Part(m, 0, Size(m))  BY FrameIsPart
  <2>2. Left(Part(m, 0, Size(m)), Size(m)) = Part(m, 0 + Size(m), Size(m))
    BY <2>1, PartSplit
  <2>3. Part(m, Size(m), Size(m)) = <<>>  BY <2>1, PartProperties
  <2> QED  BY <1>3, <1>4, <2>1, <2>2, <2>3
<1>8. Len(b.data) \in 0 .. Len(b.data)  BY <1>1
<1> QED  BY <1>4, <1>5, <1>6, <1>7, <1>8, ReadKeepsTidy

(* A full buffer with less than the whole message under way in it.         *)
LEMMA FullButIncomplete ==
    ASSUME NEW M, NEW m \in M, m.len \in Nat, NEW b, Tidy(b, M), writeable(b) = 0,
           NEW net, NEW y, Spread(b.data, net, y, m), Len(b.data) < Size(m)
    PROVE  b.data[1].of = m /\ ~Fits(m)
<1>1. b.r \in Nat /\ b.r <= Half /\ Len(b.data) \in Nat  BY SpreadBounds DEF Tidy
<1>2. b.r + Len(b.data) = TCP_BUF_SIZE  BY <1>1, TcpBufferAssumption DEF writeable
<1>3. b.data # <<>>  BY <1>1, <1>2, HalfOfSize, TcpBufferAssumption
<1>4. ~Fits(m)
  BY <1>1, <1>2, HalfOfSize, TcpBufferAssumption DEF Fits, Size
<1> QED  BY <1>3, <1>4, SpreadBounds

LEMMA FullNotEmpty ==
    ASSUME NEW M, NEW b, Tidy(b, M), writeable(b) = 0
    PROVE  b.data # <<>>
<1>1. b.r \in Nat /\ b.r <= Half /\ Len(b.data) \in Nat  BY DEF Tidy
<1> QED  BY <1>1, HalfOfSize, TcpBufferAssumption DEF writeable

LEMMA EmptyIncomplete == \A b : b.data = <<>> => ~Complete(b)
<1>1. Len(<<>>) = 0  OBVIOUS
<1> QED  BY <1>1, TcpBufferAssumption DEF Complete, readable

-----------------------------------------------------------------------------
(* One lemma per action.                                                   *)
LEMMA StaysWell == ASSUME lost = NoMsg, lost' = lost, Sound' PROVE CInv'
  BY DEF CInv, HalfFits

LEMMA DoesNotFit ==
    ASSUME lost = NoMsg, NEW m \in Command \cup Reply, ~Fits(m), Lose(m) PROVE CInv'
<1>1. lost' = m /\ m # NoMsg  BY LenTypes DEF Lose
<1> QED  BY <1>1 DEF CInv, HalfFits, Fits

LEMMA SendSound ==
    ASSUME lost = NoMsg, Sound, NEW len \in Commands, Send(len) PROVE CInv'
<1> DEFINE m == [bit |-> IF client.cmd = NoMsg THEN 0 ELSE 1 - client.cmd.bit, len |-> len]
<1>1. m \in Command
  <2>1. client.cmd # NoMsg => client.cmd.bit \in {0, 1}  BY DEF Sound, Command
  <2>2. (IF client.cmd = NoMsg THEN 0 ELSE 1 - client.cmd.bit) \in {0, 1}  BY <2>1
  <2> HIDE DEF Sound
  <2> QED  BY <2>2 DEF Command
<1>2. m.len \in Nat  BY <1>1, LenTypes
<1>3. client.pc = "idle" /\ Idle  BY DEF Send, Sound, Turn
<1>4. /\ client' = [client EXCEPT !.pc = "send", !.cmd = m]
      /\ cw' = buffer_append(cw, m)
      /\ IF Room(cw, m) THEN UNCHANGED lost ELSE Lose(m)
      /\ cr' = cr /\ got' = got /\ up' = up /\ down' = down
      /\ server' = server /\ sr' = sr /\ sw' = sw
  BY DEF Send, there
<1> HIDE DEF m
<1>5. CASE Room(cw, m)
  <2>1. Tidy(cw', Command) /\ cw'.data = Part(m, 0, Size(m))
    BY <1>1, <1>2, <1>3, <1>4, <1>5, Appended DEF Sound, Idle, QuietUp
  <2>2. Spread(sr'.data, up', cw'.data, m)
    BY <1>1, <1>2, <1>3, <1>4, <2>1, SpreadStart DEF Idle, QuietUp
  <2>3. /\ client'.pc = "send" /\ client'.cmd = m
        /\ client' \in [pc : {"idle", "send", "recv"}, cmd : Command \cup {NoMsg}, count : BOOLEAN]
    BY <1>1, <1>4 DEF Sound
  <2>4. QuietDown' /\ Asking'
    BY <1>3, <1>4, <2>2, <2>3 DEF Idle, QuietDown, Asking
  <2>5. Turn'
    BY <1>1, <1>3, <1>4, <2>3, <2>4 DEF Turn, Sound, QuietDown
  <2>6. Sound'  BY <1>4, <2>1, <2>3, <2>5 DEF Sound
  <2> QED  BY <1>4, <1>5, <2>6, StaysWell
<1>6. CASE ~Room(cw, m)
  <2>1. ~Fits(m)
    BY <1>1, <1>2, <1>3, <1>6, Appended DEF Sound, Idle, QuietUp
  <2> QED  BY <1>1, <1>4, <1>6, <2>1, DoesNotFit
<1> QED  BY <1>5, <1>6

LEMMA ClientSendSound == ASSUME lost = NoMsg, Sound, ClientSend PROVE CInv'
<1>0. /\ client.pc = "send" /\ client.cmd \in Command /\ (Asking \/ Answering)
      /\ cr.data = <<>> /\ client.cmd.len \in Nat
  BY LenTypes DEF ClientSend, Sound, Turn
<1>1. /\ cr' = cr /\ got' = got /\ down' = down /\ server' = server /\ sr' = sr
      /\ sw' = sw /\ lost' = lost
  BY DEF ClientSend, there
<1>2. CASE readable(cw) = 0
  <2>1. client' = [client EXCEPT !.pc = "recv", !.count = FALSE] /\ cw' = cw /\ up' = up
    BY <1>2 DEF ClientSend
  <2>2. cw.data = <<>>  BY <1>2 DEF readable, Sound, Tidy
  <2>3. client'.pc = "recv" /\ client'.cmd = client.cmd /\ client'.count = FALSE
        /\ client' \in [pc : {"idle", "send", "recv"}, cmd : Command \cup {NoMsg}, count : BOOLEAN]
    BY <2>1 DEF Sound
  <2>4. Asking' \/ Answering'
    BY <1>0, <1>1, <2>1, <2>3 DEF Asking, Answering, QuietUp, QuietDown
  <2>5. ~Complete(cr)  BY <1>0, EmptyIncomplete
  <2>6. Turn'
    BY <1>0, <1>1, <2>1, <2>2, <2>3, <2>4, <2>5 DEF Turn, Sound
  <2>7. Sound'  BY <1>1, <2>1, <2>3, <2>6 DEF Sound
  <2> QED  BY <1>1, <2>7, StaysWell
<1>3. CASE readable(cw) # 0
  <2>1. PICK n \in Pieces(cw.data, up) :
          up' = up \o Taken(cw.data, n) /\ cw' = recycle_read(cw, n) /\ client' = client
    BY <1>3 DEF ClientSend, Taken
  <2>2. cw.data \in Seq(Bytes(Command)) /\ n \in 1 .. Len(cw.data) /\ up \in Seq(Bytes(Command))
    BY DEF Sound, Tidy, Pieces
  <2>3. cw.data # <<>>  BY <2>2
  <2>4. Asking  BY <1>0, <2>3 DEF Answering, QuietUp
  <2>5. Tidy(cw', Command) /\ cw'.data = Left(cw.data, n)
    BY <2>1, <2>2, ReadKeepsTidy DEF Sound
  <2>6. Spread(sr.data, up', cw'.data, client.cmd)
    BY <1>0, <2>1, <2>2, <2>4, <2>5, SpreadOut DEF Asking
  <2>7. up' \in Seq(Bytes(Command)) /\ (up # <<>> => up' # <<>>)
    <3>1. Taken(cw.data, n) \in Seq(Bytes(Command))  BY <2>2 DEF Taken
    <3> QED  BY <2>1, <2>2, <3>1
  <2>8. Asking'  BY <1>1, <2>1, <2>4, <2>6 DEF Asking, QuietDown
  <2>9. Turn'
    BY <1>0, <1>1, <2>1, <2>7, <2>8 DEF Turn, Sound
  <2>10. Sound'  BY <1>1, <2>1, <2>5, <2>7, <2>9 DEF Sound
  <2> QED  BY <1>1, <2>10, StaysWell
<1> QED  BY <1>2, <1>3

(* client_recv with b in its buffer and net still under way.               *)
LEMMA ReturnedSound ==
    ASSUME lost = NoMsg, Sound, client.pc = "recv", QuietUp,
           NEW b, Tidy(b, Reply), NEW m \in Reply, m.re = client.cmd,
           down' \in Seq(Bytes(Reply)), Spread(b.data, down', sw.data, m),
           Returned(b), UNCHANGED <<cw, there, up, lost>>
    PROVE  CInv'
<1>0. client.cmd \in Command /\ m.len \in Nat  BY LenTypes DEF Sound, Turn
<1>1. /\ cw' = cw /\ server' = server /\ sr' = sr /\ sw' = sw /\ up' = up /\ lost' = lost
  BY DEF there
<1>2. QuietUp'  BY <1>1 DEF QuietUp
<1>3. CASE Complete(b)
  <2>1. /\ got' = FirstMessage(b) /\ cr' = TakeFirst(b)
        /\ client' = [client EXCEPT !.pc = "idle", !.count = FALSE]
    BY <1>3 DEF Returned
  <2>2. /\ down' = <<>> /\ sw.data = <<>> /\ FirstMessage(b) = m
        /\ Tidy(TakeFirst(b), Reply) /\ TakeFirst(b).data = <<>>
    BY <1>0, <1>3, WholeMessage
  <2>3. client'.pc = "idle" /\ client'.cmd = client.cmd
        /\ client' \in [pc : {"idle", "send", "recv"}, cmd : Command \cup {NoMsg}, count : BOOLEAN]
    BY <2>1 DEF Sound
  <2>4. Idle'  BY <1>1, <1>2, <2>1, <2>2, <2>3 DEF Idle, QuietDown
  <2>5. Turn'  BY <1>1, <2>3, <2>4 DEF Turn, Sound
  <2>6. Sound'  BY <1>1, <2>1, <2>2, <2>3, <2>5 DEF Sound
  <2> QED  BY <1>1, <2>6, StaysWell
<1>4. CASE ~Complete(b)
  <2>1. cr' = b /\ client' = [client EXCEPT !.count = FALSE] /\ got' = got
    BY <1>4 DEF Returned
  <2>2. client'.pc = "recv" /\ client'.cmd = client.cmd
        /\ client' \in [pc : {"idle", "send", "recv"}, cmd : Command \cup {NoMsg}, count : BOOLEAN]
    BY <2>1 DEF Sound
  <2>3. Answering'  BY <1>1, <1>2, <2>1, <2>2 DEF Answering
  <2>4. Turn'  BY <1>0, <1>1, <1>4, <2>1, <2>2, <2>3 DEF Turn, Sound
  <2>5. Sound'  BY <1>1, <2>1, <2>2, <2>4 DEF Sound
  <2> QED  BY <1>1, <2>5, StaysWell
<1> QED  BY <1>3, <1>4

LEMMA ClientRecvSound == ASSUME lost = NoMsg, Sound, ClientRecv PROVE CInv'
<1>0. /\ client.pc = "recv" /\ client.cmd \in Command /\ (Asking \/ Answering)
      /\ cw.data = <<>>
  BY DEF ClientRecv, Sound, Turn
<1>1. UNCHANGED <<cw, there, up, lost>>  BY DEF ClientRecv
<1>2. PICK n \in Arriving(down, cr) :
        LET b == recycle_write(cr, Taken(down, n))
        IN /\ down' = Left(down, n)
           /\ IF n = writeable(cr)
              THEN cr' = b /\ client' = [client EXCEPT !.count = TRUE] /\ UNCHANGED got
              ELSE Returned(b)
  BY DEF ClientRecv, Taken, Left
<1> DEFINE b == recycle_write(cr, Taken(down, n))
<1>3. down \in Seq(Bytes(Reply)) /\ n \in 1 .. Len(down) /\ n <= writeable(cr)
  BY DEF Sound, Arriving
<1>4. Taken(down, n) \in Seq(Bytes(Reply)) /\ Len(Taken(down, n)) = n
      /\ Left(down, n) \in Seq(Bytes(Reply))
  BY <1>3 DEF Taken, Left
<1>5. Tidy(b, Reply) /\ b.data = cr.data \o Taken(down, n)
  BY <1>3, <1>4, WriteKeepsTidy DEF Sound
<1>6. down # <<>>  BY <1>3
<1>7. QuietUp /\ \E m \in Reply : m.re = client.cmd /\ Spread(cr.data, down, sw.data, m)
  BY <1>0, <1>6 DEF Asking, QuietDown, Answering
<1>8. PICK m \in Reply : m.re = client.cmd /\ Spread(cr.data, down, sw.data, m)
  BY <1>7
<1>9. m.len \in Nat  BY LenTypes
<1> HIDE DEF b
<1>10. Spread(b.data, Left(down, n), sw.data, m)
  BY <1>3, <1>5, <1>8, <1>9, SpreadIn
<1>11. CASE n = writeable(cr)
  <2>1. /\ cr' = b /\ client' = [client EXCEPT !.count = TRUE] /\ got' = got
        /\ down' = Left(down, n)
    BY <1>2, <1>11 DEF b
  <2>2. client'.pc = "recv" /\ client'.cmd = client.cmd /\ client'.count = TRUE
        /\ client' \in [pc : {"idle", "send", "recv"}, cmd : Command \cup {NoMsg}, count : BOOLEAN]
    BY <1>0, <2>1 DEF Sound
  <2>3. cw' = cw /\ server' = server /\ sr' = sr /\ sw' = sw /\ up' = up /\ lost' = lost
    BY <1>1 DEF there
  <2>4. Answering'  BY <1>7, <1>8, <1>10, <2>1, <2>2, <2>3 DEF Answering, QuietUp
  <2>5. Turn'  BY <1>0, <2>1, <2>2, <2>3, <2>4 DEF Turn, Sound
  <2>6. Sound'  BY <1>4, <1>5, <2>1, <2>2, <2>3, <2>5 DEF Sound
  <2> QED  BY <2>3, <2>6, StaysWell
<1>12. CASE n # writeable(cr)
  <2>1. Returned(b) /\ down' = Left(down, n)  BY <1>2, <1>12 DEF b
  <2> QED  BY <1>0, <1>1, <1>4, <1>5, <1>7, <1>8, <1>10, <2>1, ReturnedSound
<1> QED  BY <1>11, <1>12

LEMMA ClientFullSound == ASSUME lost = NoMsg, Sound, ClientFull PROVE CInv'
<1>0. /\ client.pc = "recv" /\ client.cmd \in Command /\ (Asking \/ Answering)
      /\ writeable(cr) = 0 /\ Tidy(cr, Reply)
  BY DEF ClientFull, Sound, Turn
<1>1. cr.data # <<>>  BY <1>0, FullNotEmpty
<1>2. QuietUp /\ \E m \in Reply : m.re = client.cmd /\ Spread(cr.data, down, sw.data, m)
  BY <1>0, <1>1 DEF Asking, QuietDown, Answering
<1>3. PICK m \in Reply : m.re = client.cmd /\ Spread(cr.data, down, sw.data, m)
  BY <1>2
<1>4. m.len \in Nat  BY LenTypes
<1>5. UNCHANGED <<cw, there, up, down>>  BY DEF ClientFull
<1>6. CASE client.count
  <2>1. Returned(cr) /\ UNCHANGED lost  BY <1>6 DEF ClientFull
  <2>2. down' = down /\ down \in Seq(Bytes(Reply))  BY <1>5 DEF Sound
  <2>3. UNCHANGED <<cw, there, up, lost>>  BY <1>5, <2>1
  <2> QED  BY <1>0, <1>2, <1>3, <2>1, <2>2, <2>3, ReturnedSound
<1>7. CASE ~client.count
  <2>1. Lose(cr.data[1].of)  BY <1>7 DEF ClientFull
  <2>2. ~Complete(cr)  BY <1>0, <1>7 DEF Sound, Turn
  <2>3. cr.data[1].of = m /\ Len(cr.data) \in Nat /\ Len(cr.data) <= Size(m)
    BY <1>1, <1>3, <1>4, SpreadBounds
  <2>4. Len(cr.data) < Size(m)
    BY <1>4, <2>2, <2>3, TcpBufferAssumption DEF Complete, readable, FirstLen, Size
  <2>5. ~Fits(m)  BY <1>0, <1>3, <1>4, <2>4, FullButIncomplete
  <2> QED  BY <2>1, <2>3, <2>5, DoesNotFit
<1> QED  BY <1>6, <1>7

LEMMA SelectSound == ASSUME lost = NoMsg, Sound, Select PROVE CInv'
<1>1. /\ client' = client /\ cw' = cw /\ cr' = cr /\ got' = got /\ sr' = sr /\ sw' = sw
      /\ up' = up /\ down' = down /\ lost' = lost
      /\ up # <<>> /\ server' = [pc |-> "recv", count |-> FALSE]
  BY DEF Select, here
<1>2. Turn'
  BY <1>1 DEF Sound, Turn, Idle, Asking, Answering, QuietUp, QuietDown
<1>3. Sound'  BY <1>1, <1>2 DEF Sound
<1> QED  BY <1>1, <1>3, StaysWell

LEMMA ServerRecvSound == ASSUME lost = NoMsg, Sound, ServerRecv PROVE CInv'
<1>1. /\ client' = client /\ cw' = cw /\ cr' = cr /\ got' = got /\ sw' = sw
      /\ down' = down /\ lost' = lost
  BY DEF ServerRecv, here
<1>2. PICK n \in Arriving(up, sr) :
        /\ sr' = recycle_write(sr, Taken(up, n)) /\ up' = Left(up, n)
        /\ server' = [pc |-> IF n = writeable(sr) THEN "recv" ELSE "handle", count |-> TRUE]
  BY DEF ServerRecv, Taken, Left
<1>3. up \in Seq(Bytes(Command)) /\ n \in 1 .. Len(up) /\ n <= writeable(sr)
  BY DEF Sound, Arriving
<1>4. Taken(up, n) \in Seq(Bytes(Command)) /\ Len(Taken(up, n)) = n
      /\ Left(up, n) \in Seq(Bytes(Command))
  BY <1>3 DEF Taken, Left
<1>5. Tidy(sr', Command) /\ sr'.data = sr.data \o Taken(up, n)
  BY <1>2, <1>3, <1>4, WriteKeepsTidy DEF Sound
<1>6. up # <<>>  BY <1>3
<1>7. client.pc \in {"send", "recv"} /\ client.cmd \in Command /\ Asking
  BY <1>6 DEF Sound, Turn, Idle, Answering, QuietUp
<1>8. client.cmd.len \in Nat  BY <1>7, LenTypes
<1>9. Spread(sr'.data, up', cw.data, client.cmd)
  BY <1>2, <1>3, <1>5, <1>7, <1>8, SpreadIn DEF Asking
<1>10. Asking'  BY <1>1, <1>7, <1>9 DEF Asking, QuietDown
<1>11. server' \in [pc : {"select", "recv", "handle", "send"}, count : BOOLEAN]
       /\ server'.count = TRUE
  BY <1>2
<1>12. Turn'  BY <1>1, <1>7, <1>10, <1>11 DEF Sound, Turn
<1>13. Sound'  BY <1>1, <1>2, <1>4, <1>5, <1>11, <1>12 DEF Sound
<1> QED  BY <1>1, <1>13, StaysWell

LEMMA ServerFullSound == ASSUME lost = NoMsg, Sound, ServerFull PROVE CInv'
<1>1. /\ client' = client /\ cw' = cw /\ cr' = cr /\ got' = got /\ sr' = sr /\ sw' = sw
      /\ up' = up /\ down' = down
  BY DEF ServerFull, here
<1>2. /\ server.pc = "recv" /\ writeable(sr) = 0 /\ Tidy(sr, Command)
      /\ server' = [server EXCEPT !.pc = IF server.count THEN "handle" ELSE "send"]
  BY DEF ServerFull, Sound
<1>3. CASE server.count
  <2>1. lost' = lost  BY <1>3 DEF ServerFull
  <2>2. server' \in [pc : {"select", "recv", "handle", "send"}, count : BOOLEAN]
        /\ server'.pc # "recv"
    BY <1>2 DEF Sound
  <2>3. Turn'
    BY <1>1, <2>2 DEF Sound, Turn, Idle, Asking, Answering, QuietUp, QuietDown
  <2>4. Sound'  BY <1>1, <2>2, <2>3 DEF Sound
  <2> QED  BY <2>1, <2>4, StaysWell
<1>4. CASE ~server.count
  <2>1. Lose(sr.data[1].of)  BY <1>4 DEF ServerFull
  <2>2. up # <<>>  BY <1>2, <1>4 DEF Sound, Turn
  <2>3. client.cmd \in Command /\ Asking
    BY <2>2 DEF Sound, Turn, Idle, Answering, QuietUp
  <2>4. client.cmd.len \in Nat /\ Spread(sr.data, up, cw.data, client.cmd)
    BY <2>3, LenTypes DEF Asking
  <2>5. Len(sr.data) < Size(client.cmd)  BY <2>2, <2>3, <2>4, SpreadBounds
  <2>6. sr.data[1].of = client.cmd /\ ~Fits(client.cmd)
    BY <1>2, <2>3, <2>4, <2>5, FullButIncomplete
  <2> QED  BY <2>1, <2>3, <2>6, DoesNotFit
<1> QED  BY <1>3, <1>4

LEMMA HandleSound == ASSUME lost = NoMsg, Sound, Handle PROVE CInv'
<1>1. /\ client' = client /\ cw' = cw /\ cr' = cr /\ got' = got
      /\ up' = up /\ down' = down
  BY DEF Handle, here
<1>2. CASE Complete(sr)
  <2>1. PICK len \in Replies :
          LET m == [re |-> FirstMessage(sr), len |-> len]
          IN /\ sw' = buffer_append(sw, m)
             /\ IF Room(sw, m) THEN UNCHANGED lost ELSE Lose(m)
    BY <1>2 DEF Handle
  <2>2. sr' = TakeFirst(sr) /\ server' = server /\ server.pc = "handle"
    BY <1>2 DEF Handle
  <2>3. sr.data # <<>>  BY <1>2, EmptyIncomplete
  <2>4. client.pc \in {"send", "recv"} /\ client.cmd \in Command /\ Asking
    BY <2>3 DEF Sound, Turn, Idle, Answering, QuietUp
  <2>5. client.cmd.len \in Nat  BY <2>4, LenTypes
  <2>6. /\ up = <<>> /\ cw.data = <<>> /\ FirstMessage(sr) = client.cmd
        /\ Tidy(sr', Command) /\ sr'.data = <<>>
    <3>1. Tidy(sr, Command) /\ Spread(sr.data, up, cw.data, client.cmd)
      BY <2>4 DEF Asking, Sound
    <3>2. /\ up = <<>> /\ cw.data = <<>> /\ FirstMessage(sr) = client.cmd
          /\ Tidy(TakeFirst(sr), Command) /\ TakeFirst(sr).data = <<>>
      BY ONLY <1>2, <2>4, <2>5, <3>1, WholeMessage
    <3> QED  BY <2>2, <3>2
  <2>7. QuietUp' /\ QuietDown  BY <1>1, <2>4, <2>6 DEF QuietUp, Asking
  <2> DEFINE m == [re |-> client.cmd, len |-> len]
  <2>8. m \in Reply /\ m.re = client.cmd  BY <2>4 DEF Reply
  <2>9. /\ sw' = buffer_append(sw, m)
        /\ IF Room(sw, m) THEN UNCHANGED lost ELSE Lose(m)
    BY <2>1, <2>6
  <2> HIDE DEF m
  <2>10. m.len \in Nat  BY <2>8, LenTypes
  <2>11. CASE Room(sw, m)
    <3>1. Tidy(sw', Reply) /\ sw'.data = Part(m, 0, Size(m)) /\ lost' = lost
      BY <2>7, <2>8, <2>9, <2>10, <2>11, Appended DEF Sound, QuietDown
    <3>2. Spread(cr'.data, down', sw'.data, m)
      BY <1>1, <2>7, <2>8, <2>10, <3>1, SpreadStart DEF QuietDown
    <3>3. Answering'  BY <1>1, <2>7, <2>8, <3>2 DEF Answering
    <3>4. Turn'
      BY <1>1, <2>2, <2>4, <2>7, <3>3 DEF Sound, Turn, QuietDown
    <3>5. Sound'  BY <1>1, <2>2, <2>6, <3>1, <3>4 DEF Sound
    <3> QED  BY <3>1, <3>5, StaysWell
  <2>12. CASE ~Room(sw, m)
    <3>1. ~Fits(m)
      BY <2>7, <2>8, <2>10, <2>12, Appended DEF Sound, QuietDown
    <3> QED  BY <2>8, <2>9, <2>12, <3>1, DoesNotFit
  <2> QED  BY <2>11, <2>12
<1>3. CASE ~Complete(sr)
  <2>1. /\ server' = [server EXCEPT !.pc = "send"]
        /\ sr' = sr /\ sw' = sw /\ lost' = lost
    BY <1>3 DEF Handle
  <2>2. server' \in [pc : {"select", "recv", "handle", "send"}, count : BOOLEAN]
        /\ server'.pc = "send"
    BY <2>1 DEF Sound
  <2>3. Turn'
    BY <1>1, <2>1, <2>2 DEF Sound, Turn, Idle, Asking, Answering, QuietUp, QuietDown
  <2>4. Sound'  BY <1>1, <2>1, <2>2, <2>3 DEF Sound
  <2> QED  BY <2>1, <2>4, StaysWell
<1> QED  BY <1>2, <1>3

LEMMA ServerSendSound == ASSUME lost = NoMsg, Sound, ServerSend PROVE CInv'
<1>1. /\ client' = client /\ cw' = cw /\ cr' = cr /\ got' = got
      /\ up' = up /\ sr' = sr /\ lost' = lost
  BY DEF ServerSend, here
<1>2. CASE readable(sw) = 0 \/ Len(down) = NetSize
  <2>1. server' = [pc |-> "select", count |-> FALSE] /\ sw' = sw /\ down' = down
    BY <1>2 DEF ServerSend
  <2>2. Turn'
    BY <1>1, <2>1 DEF Sound, Turn, Idle, Asking, Answering, QuietUp, QuietDown
  <2>3. Sound'  BY <1>1, <2>1, <2>2 DEF Sound
  <2> QED  BY <1>1, <2>3, StaysWell
<1>3. CASE ~(readable(sw) = 0 \/ Len(down) = NetSize)
  <2>1. PICK n \in Pieces(sw.data, down) :
          down' = down \o Taken(sw.data, n) /\ sw' = recycle_read(sw, n)
    BY <1>3 DEF ServerSend, Taken
  <2>2. server' = server /\ server.pc = "send"  BY <1>3 DEF ServerSend
  <2>3. sw.data \in Seq(Bytes(Reply)) /\ n \in 1 .. Len(sw.data) /\ down \in Seq(Bytes(Reply))
    BY DEF Sound, Tidy, Pieces
  <2>4. sw.data # <<>>  BY <2>3
  <2>5. client.pc \in {"send", "recv"} /\ client.cmd \in Command /\ Answering
    BY <2>4 DEF Sound, Turn, Idle, Asking, QuietDown
  <2>6. PICK m \in Reply : m.re = client.cmd /\ Spread(cr.data, down, sw.data, m)
    BY <2>5 DEF Answering
  <2>7. m.len \in Nat  BY LenTypes
  <2>8. Tidy(sw', Reply) /\ sw'.data = Left(sw.data, n)
    BY <2>1, <2>3, ReadKeepsTidy DEF Sound
  <2>9. Spread(cr.data, down', sw'.data, m)
    BY <2>1, <2>3, <2>6, <2>7, <2>8, SpreadOut
  <2>10. down' \in Seq(Bytes(Reply))
    <3>1. Taken(sw.data, n) \in Seq(Bytes(Reply))  BY <2>3 DEF Taken
    <3> QED  BY <2>1, <2>3, <3>1
  <2>11. Answering'  BY <1>1, <2>5, <2>6, <2>9 DEF Answering, QuietUp
  <2>12. Turn'  BY <1>1, <2>2, <2>5, <2>11 DEF Sound, Turn
  <2>13. Sound'  BY <1>1, <2>2, <2>8, <2>10, <2>12 DEF Sound
  <2> QED  BY <1>1, <2>13, StaysWell
<1> QED  BY <1>2, <1>3

-----------------------------------------------------------------------------
(* Once something is lost, that is remembered.                             *)
LEMMA LostStaysLost == ASSUME lost # NoMsg, Next PROVE lost' = lost
<1>1. ASSUME NEW len \in Commands, Send(len) PROVE lost' = lost
  BY <1>1 DEF Send, Lose
<1>2. CASE ClientSend  BY <1>2 DEF ClientSend
<1>3. CASE ClientRecv  BY <1>3 DEF ClientRecv
<1>4. CASE ClientFull  BY <1>4 DEF ClientFull, Lose
<1>5. CASE Select  BY <1>5 DEF Select
<1>6. CASE ServerRecv  BY <1>6 DEF ServerRecv
<1>7. CASE ServerFull  BY <1>7 DEF ServerFull, Lose
<1>8. CASE Handle  BY <1>8 DEF Handle, Lose
<1>9. CASE ServerSend  BY <1>9 DEF ServerSend
<1> QED
  BY <1>1, <1>2, <1>3, <1>4, <1>5, <1>6, <1>7, <1>8, <1>9 DEF Next, client_recv, handle_read

LEMMA StepSound == CInv /\ [Next]_vars => CInv'
<1> SUFFICES ASSUME CInv, [Next]_vars PROVE CInv'  OBVIOUS
<1>1. CASE UNCHANGED vars
  BY <1>1 DEF vars, here, there, CInv, HalfFits, Sound, Turn, Idle, Asking, Answering,
     QuietUp, QuietDown
<1>2. CASE lost # NoMsg /\ Next
  <2>1. lost' = lost  BY <1>2, LostStaysLost
  <2> QED  BY <1>2, <2>1 DEF CInv, HalfFits
<1>3. CASE lost = NoMsg /\ Next
  <2>0. Sound /\ lost = NoMsg  BY <1>3 DEF CInv
  <2>1. ASSUME NEW len \in Commands, Send(len) PROVE CInv'  BY <2>0, <2>1, SendSound
  <2>2. CASE ClientSend  BY <2>0, <2>2, ClientSendSound
  <2>3. CASE ClientRecv  BY <2>0, <2>3, ClientRecvSound
  <2>4. CASE ClientFull  BY <2>0, <2>4, ClientFullSound
  <2>5. CASE Select  BY <2>0, <2>5, SelectSound
  <2>6. CASE ServerRecv  BY <2>0, <2>6, ServerRecvSound
  <2>7. CASE ServerFull  BY <2>0, <2>7, ServerFullSound
  <2>8. CASE Handle  BY <2>0, <2>8, HandleSound
  <2>9. CASE ServerSend  BY <2>0, <2>9, ServerSendSound
  <2> QED
    BY <1>3, <2>1, <2>2, <2>3, <2>4, <2>5, <2>6, <2>7, <2>8, <2>9
    DEF Next, client_recv, handle_read
<1> QED  BY <1>1, <1>2, <1>3

-----------------------------------------------------------------------------
(* The invariant of the connection: up to the first loss it carries one    *)
(* message at a time, in order, and what is lost first was too long.       *)
THEOREM ConnectionInvariance == Spec => []CInv
  BY InitSound, StepSound, PTL DEF Spec

(* For all sizes of the buffers and of the messages, a message that fits   *)
(* half a buffer is not the first that buffer_append drops or that a full  *)
(* read buffer strands.                                                    *)
THEOREM WhatFitsHalfIsNotLost == Spec => []HalfFits
<1>1. CInv => HalfFits  BY DEF CInv
<1> QED  BY <1>1, ConnectionInvariance, PTL

(* Until something is lost client_recv returns the reply to the command    *)
(* that was sent last, in whatever pieces the network delivers the two.    *)
THEOREM AnswersInStep == Spec => []InStep
<1>1. CInv => InStep
  BY LenTypes DEF CInv, Sound, Turn, Idle, InStep
<1> QED  BY <1>1, ConnectionInvariance, PTL

(* The three pieces one behind the other.                                  *)
Row(x, net, y) == x \o net \o y

LEMMA SpreadIsFrame ==
    ASSUME NEW M, NEW m \in M, m.len \in Nat, NEW x, NEW net, NEW y, Spread(x, net, y, m)
    PROVE  Row(x, net, y) = Part(m, 0, Size(m))
<1>0. Size(m) \in Nat  BY FrameIsPart
<1>1. PICK a \in 0 .. Size(m) : \E b \in a .. Size(m) :
        x = Part(m, 0, a) /\ net = Part(m, a, b) /\ y = Part(m, b, Size(m))
  BY DEF Spread
<1>2. PICK b \in a .. Size(m) :
        x = Part(m, 0, a) /\ net = Part(m, a, b) /\ y = Part(m, b, Size(m))
  BY <1>1
<1>3. a \in Nat /\ b \in Nat /\ 0 <= a /\ a <= b /\ b <= Size(m) /\ 0 <= b  BY <1>0, <1>2
<1>4. x \o net = Part(m, 0, b)  BY <1>2, <1>3, PartJoin
<1>5. Part(m, 0, b) \o Part(m, b, Size(m)) = Part(m, 0, Size(m))
  BY <1>0, <1>3, PartJoin
<1> QED  BY <1>2, <1>4, <1>5 DEF Row

LEMMA FrameIsFramed ==
    ASSUME NEW M, NEW m \in M, m.len \in Nat
    PROVE  Framed(Part(m, 0, Size(m)))
<1> DEFINE s == Part(m, 0, Size(m))
<1>0. Size(m) \in Nat  BY FrameIsPart
<1>1. /\ Len(s) = Size(m) /\ DOMAIN s = 1 .. Size(m)
      /\ \A k \in 1 .. Size(m) : s[k] = [of |-> m, at |-> k]
  BY <1>0 DEF Part
<1> HIDE DEF s
<1>2. SUFFICES ASSUME NEW i \in 1 .. Size(m)
      PROVE  /\ i = 1 => s[i].at = 1
             /\ IF s[i].at = Header + s[i].of.len
                THEN i < Len(s) => s[i + 1].at = 1
                ELSE i < Len(s) /\ s[i + 1] = [s[i] EXCEPT !.at = @ + 1]
  BY <1>1 DEF Framed, s
<1>3. s[i] = [of |-> m, at |-> i]  BY <1>1
<1>4. CASE i = Size(m)  BY <1>0, <1>1, <1>3, <1>4 DEF Size
<1>5. CASE i # Size(m)
  <2>1. i + 1 \in 1 .. Size(m) /\ i < Len(s)  BY <1>0, <1>1, <1>5
  <2>2. s[i + 1] = [of |-> m, at |-> i + 1]  BY <1>1, <2>1
  <2>3. [s[i] EXCEPT !.at = @ + 1] = [of |-> m, at |-> i + 1]
    <3>1. \A t : [s[i] EXCEPT !.at = t] = [of |-> m, at |-> t]  BY <1>3
    <3>2. s[i].at = i  BY <1>3
    <3> QED  BY <3>1, <3>2
  <2> QED  BY <1>3, <1>5, <2>1, <2>2, <2>3 DEF Size
<1> QED  BY <1>4, <1>5

(* Until something is lost each direction carries whole frames and nothing *)
(* else, and the answers are in step with the commands.                    *)
THEOREM IntactUntilALoss == Spec => [](lost = NoMsg => Intact)
<1>1. ASSUME lost = NoMsg, Sound PROVE Intact
  <2>1. TypeOK
    <3>1. ASSUME NEW M, NEW b, Tidy(b, M) PROVE b \in Buffer(M)
      <4>1. b \in [r : Nat, data : Seq(Bytes(M))] /\ b.r \in 0 .. TCP_BUF_SIZE
        BY <3>1, HalfOfSize, TcpBufferAssumption DEF Tidy
      <4>2. b = [r |-> b.r, data |-> b.data] /\ b.data \in Seq(Bytes(M))  BY <4>1
      <4> QED  BY <4>1, <4>2 DEF Buffer
    <3> QED  BY <1>1, <3>1 DEF TypeOK, Sound
  <2>0. ToServer = Row(sr.data, up, cw.data) /\ ToClient = Row(cr.data, down, sw.data)
    BY DEF ToServer, ToClient, Row
  <2>2. Framed(<<>>)  BY DEF Framed
  <2>3. QuietUp => ToServer = <<>>
    <3>1. <<>> \o <<>> \o <<>> = <<>>  OBVIOUS
    <3> QED  BY <3>1 DEF QuietUp, ToServer
  <2>4. QuietDown => ToClient = <<>>
    <3>1. <<>> \o <<>> \o <<>> = <<>>  OBVIOUS
    <3> QED  BY <3>1 DEF QuietDown, ToClient
  <2>5. Framed(ToServer) /\ Framed(ToClient)
    <3>1. CASE client.pc = "idle"
      BY <1>1, <2>2, <2>3, <2>4, <3>1 DEF Sound, Turn, Idle
    <3>2. CASE client.pc # "idle"
      <4>1. client.cmd \in Command /\ (Asking \/ Answering)  BY <1>1, <3>2 DEF Sound, Turn
      <4>2. CASE Asking
        <5>1. client.cmd.len \in Nat /\ Spread(sr.data, up, cw.data, client.cmd)
          BY <4>1, <4>2, LenTypes DEF Asking
        <5>2. ToServer = Part(client.cmd, 0, Size(client.cmd))
          BY <2>0, <4>1, <5>1, SpreadIsFrame
        <5>3. Framed(Part(client.cmd, 0, Size(client.cmd)))
          BY ONLY <4>1, <5>1, FrameIsFramed
        <5> QED  BY <2>2, <2>4, <4>2, <5>2, <5>3 DEF Asking
      <4>3. CASE Answering
        <5>1. PICK m \in Reply : m.re = client.cmd /\ Spread(cr.data, down, sw.data, m)
          BY <4>3 DEF Answering
        <5>2. m.len \in Nat  BY LenTypes
        <5>3. ToClient = Part(m, 0, Size(m))  BY <2>0, <5>1, <5>2, SpreadIsFrame
        <5>4. Framed(Part(m, 0, Size(m)))  BY ONLY <5>2, FrameIsFramed
        <5> QED  BY <2>2, <2>3, <4>3, <5>3, <5>4 DEF Answering
      <4> QED  BY <4>1, <4>2, <4>3
    <3> QED  BY <3>1, <3>2
  <2>7. InStep  BY <1>1, LenTypes DEF Sound, Turn, Idle, InStep
  <2> QED  BY <2>1, <2>5, <2>7 DEF Intact, InFrames
<1>2. CInv => (lost = NoMsg => Intact)  BY <1>1 DEF CInv
<1> QED  BY <1>2, ConnectionInvariance, PTL
=============================================================================
