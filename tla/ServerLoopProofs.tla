-------------------------- MODULE ServerLoopProofs --------------------------
(* Proofs about ServerLoop, for any number of clients, threads, slots and  *)
(* descriptors: one handler per slot, the pool is used as ThreadPool takes *)
(* for granted, and answers go to the client who asked.                    *)
EXTENDS ServerLoop, FiniteSetTheorems, TLAPS

-----------------------------------------------------------------------------
(* The inductive invariant: OneHandler with the shape of what it speaks    *)
(* of.  The other variables may hold anything: no descriptor, no word of   *)
(* read_set and no client can make two threads handle a slot.              *)
MainRecord == main = [pc |-> main.pc, fd |-> main.fd, i |-> main.i, word |-> main.word]
MainPlace == main.i \in 0 .. FD_SETSIZE /\ (main.pc = "lock" => main.i \in Slots)
MainShape == MainRecord /\ MainPlace

Shape ==
    /\ jobs \in Seq(Slots) /\ mutex \in [Slots -> BOOLEAN] /\ MainShape
    /\ hand = [t \in Threads |-> hand[t]]
    /\ \A t \in Threads :
         /\ hand[t] = [pc |-> hand[t].pc, i |-> hand[t].i, fd |-> hand[t].fd,
                       word |-> hand[t].word, bye |-> hand[t].bye, c |-> hand[t].c]
         /\ hand[t].i \in Slots

LInv == Shape /\ OneHandler

(* What a queue holds, when a slot is added or taken.                      *)
LEMMA QueueAdds ==
    ASSUME NEW S, NEW q \in Seq(S), NEW x \in S
    PROVE  /\ Append(q, x) \in Seq(S) /\ ToSet(Append(q, x)) = ToSet(q) \cup {x}
           /\ IsInjective(q) /\ x \notin ToSet(q) => IsInjective(Append(q, x))
  <1>1. Append(q, x) \in Seq(S) /\ Len(Append(q, x)) = Len(q) + 1
    OBVIOUS
  <1>2. \A k \in 1 .. Len(q) : Append(q, x)[k] = q[k]
    OBVIOUS
  <1>3. Append(q, x)[Len(q) + 1] = x
    OBVIOUS
  <1>4. ToSet(Append(q, x)) = ToSet(q) \cup {x}
    BY <1>1, <1>2, <1>3 DEF ToSet
  <1>5. ASSUME IsInjective(q), x \notin ToSet(q) PROVE IsInjective(Append(q, x))
    BY <1>1, <1>2, <1>3, <1>5 DEF ToSet, IsInjective
  <1> QED  BY <1>1, <1>4, <1>5

LEMMA QueueTakes ==
    ASSUME NEW S, NEW q \in Seq(S), q # <<>>
    PROVE  /\ Tail(q) \in Seq(S) /\ Head(q) \in S
           /\ ToSet(q) = ToSet(Tail(q)) \cup {Head(q)}
           /\ IsInjective(q) => IsInjective(Tail(q)) /\ Head(q) \notin ToSet(Tail(q))
  <1>1. /\ Tail(q) \in Seq(S) /\ Head(q) = q[1] /\ Head(q) \in S
        /\ Len(q) \in Nat /\ Len(q) >= 1 /\ Len(Tail(q)) = Len(q) - 1
        /\ \A k \in 1 .. Len(q) - 1 : Tail(q)[k] = q[k + 1]
    OBVIOUS
  <1>2. ToSet(q) = ToSet(Tail(q)) \cup {Head(q)}
    <2>1. \A k \in 1 .. Len(q) : k = 1 \/ (k - 1 \in 1 .. Len(q) - 1 /\ Tail(q)[k - 1] = q[k])
      BY <1>1
    <2>2. ASSUME NEW x \in ToSet(q) PROVE x \in ToSet(Tail(q)) \cup {Head(q)}
      <3>1. PICK k \in 1 .. Len(q) : x = q[k]
        BY <1>1, <2>2 DEF ToSet
      <3>2. k = 1 \/ (k - 1 \in 1 .. Len(Tail(q)) /\ Tail(q)[k - 1] = x)
        BY <1>1, <2>1, <3>1
      <3>3. CASE k = 1
        BY <1>1, <3>1, <3>3
      <3>4. CASE k - 1 \in 1 .. Len(Tail(q)) /\ Tail(q)[k - 1] = x
        <4>1. DOMAIN Tail(q) = 1 .. Len(Tail(q))
          BY <1>1
        <4> QED  BY <3>4, <4>1 DEF ToSet
      <3> QED  BY <3>2, <3>3, <3>4
    <2>3. ASSUME NEW x \in ToSet(Tail(q)) \cup {Head(q)} PROVE x \in ToSet(q)
      BY <1>1, <2>3 DEF ToSet
    <2> QED  BY <2>2, <2>3
  <1>3. ASSUME IsInjective(q) PROVE IsInjective(Tail(q)) /\ Head(q) \notin ToSet(Tail(q))
    BY <1>1, <1>3 DEF ToSet, IsInjective
  <1> QED  BY <1>1, <1>2, <1>3

-----------------------------------------------------------------------------
(* One lemma per kind of step: nothing of the invariant changes but where  *)
(* the threads are; a slot is locked and queued; a thread takes one from   *)
(* the queue; a thread unlocks its slot.                                   *)
LEMMA SameHandlers ==
    ASSUME LInv, Shape', UNCHANGED <<jobs, mutex>>,
           \A t \in Threads : hand'[t].i = hand[t].i /\ (Handling(t)' <=> Handling(t))
    PROVE  LInv'
  BY DEF LInv, OneHandler

LEMMA TryLockPreserves ==
    ASSUME LInv, TryLock
    PROVE  LInv'
  <1>1. main.i \in Slots /\ UNCHANGED hand
    BY DEF LInv, Shape, MainShape, MainRecord, MainPlace, TryLock
  <1>2. MainShape'
    <2>1. MainRecord' /\ main'.pc = "scan" /\ main'.i = main.i + 1
      BY DEF LInv, Shape, MainShape, MainRecord, TryLock
    <2> QED  BY <1>1, <2>1, ServerLoopAssumption DEF MainShape, MainPlace, Slots
  <1>3. CASE mutex[main.i]
    <2>1. UNCHANGED <<jobs, mutex>>
      BY <1>3 DEF TryLock
    <2> QED  BY <1>1, <1>2, <2>1 DEF LInv, Shape, OneHandler, Handling, At
  <1>4. CASE ~mutex[main.i]
    <2>1. mutex' = [mutex EXCEPT ![main.i] = TRUE] /\ jobs' = Append(jobs, main.i)
      BY <1>4 DEF TryLock
    <2>2. /\ main.i \notin ToSet(jobs)
          /\ \A t \in Threads : Handling(t) => hand[t].i # main.i
      BY <1>1, <1>4 DEF LInv, OneHandler
    <2>3. jobs' \in Seq(Slots) /\ ToSet(jobs)' = ToSet(jobs) \cup {main.i} /\ IsInjective(jobs')
      BY <1>1, <2>1, <2>2, QueueAdds DEF LInv, Shape, OneHandler
    <2>4. Shape'
      BY <1>1, <1>2, <2>1, <2>3 DEF LInv, Shape
    <2>5. OneHandler'
      BY <1>1, <2>1, <2>2, <2>3 DEF LInv, Shape, OneHandler, Handling, At
    <2> QED  BY <2>4, <2>5 DEF LInv
  <1> QED  BY <1>3, <1>4

LEMMA StartPreserves ==
    ASSUME LInv, NEW t \in Threads, Start(t)
    PROVE  LInv'
  <1>1. /\ Tail(jobs) \in Seq(Slots) /\ Head(jobs) \in Slots
        /\ ToSet(jobs) = ToSet(Tail(jobs)) \cup {Head(jobs)}
        /\ IsInjective(Tail(jobs)) /\ Head(jobs) \notin ToSet(Tail(jobs))
    BY QueueTakes DEF LInv, Shape, OneHandler, Start
  <1>2. /\ jobs' = Tail(jobs) /\ UNCHANGED <<mutex, main>>
        /\ ~Handling(t) /\ Handling(t)' /\ hand'[t].i = Head(jobs)
        /\ \A u \in Threads \ {t} : hand'[u] = hand[u] /\ (Handling(u)' <=> Handling(u))
    BY DEF LInv, Shape, Start, Idle, Handling, At, slot
  <1>3. Shape'
    BY <1>1, <1>2 DEF LInv, Shape, MainShape, MainRecord, MainPlace, Start, Idle
  <1>4. OneHandler'
    <2>1. \A u \in Threads : Handling(u) => hand[u].i # Head(jobs)
      BY <1>1 DEF LInv, OneHandler
    <2> QED  BY <1>1, <1>2, <2>1 DEF LInv, OneHandler
  <1> QED  BY <1>3, <1>4 DEF LInv

LEMMA UnlockPreserves ==
    ASSUME LInv, NEW t \in Threads, Unlock(t)
    PROVE  LInv'
  <1>1. /\ UNCHANGED <<jobs, main>> /\ mutex' = [mutex EXCEPT ![hand[t].i] = FALSE]
        /\ hand[t].i \in Slots /\ Handling(t) /\ ~Handling(t)'
        /\ \A u \in Threads \ {t} : hand'[u] = hand[u] /\ (Handling(u)' <=> Handling(u))
    BY DEF LInv, Shape, Unlock, Idle, Handling, At
  <1>2. Shape'
    <2>1. 0 \in Slots
      BY ServerLoopAssumption DEF Slots
    <2> QED  BY <1>1, <2>1 DEF LInv, Shape, MainShape, MainRecord, MainPlace,
                                     Unlock, Idle
  <1>3. OneHandler'
    BY <1>1 DEF LInv, Shape, OneHandler
  <1> QED  BY <1>2, <1>3 DEF LInv

(* The other steps of a thread leave it handling its slot.                 *)
LEMMA HandlePreserves ==
    ASSUME LInv, NEW t \in Threads,
           Recv(t) \/ Reply(t) \/ Clear(t) \/ ClrLoad(t) \/ ClrStore(t) \/ Forget(t)
    PROVE  LInv'
  <1>1. UNCHANGED <<jobs, mutex, main>>
    BY DEF Recv, Reply, Clear, ClrLoad, ClrStore, Forget, slot
  <1>2. /\ hand' = [u \in Threads |-> hand'[u]]
        /\ hand'[t] = [pc |-> hand'[t].pc, i |-> hand'[t].i, fd |-> hand'[t].fd,
                       word |-> hand'[t].word, bye |-> hand'[t].bye, c |-> hand'[t].c]
        /\ hand'[t].i = hand[t].i /\ Handling(t) /\ Handling(t)'
        /\ \A u \in Threads \ {t} : hand'[u] = hand[u]
    BY DEF LInv, Shape, Recv, Reply, Clear, ClrLoad, ClrStore, Forget, GoOn, Handling, At
  <1>3. Shape'
    BY <1>1, <1>2 DEF LInv, Shape, MainShape, MainRecord, MainPlace
  <1>4. \A u \in Threads : hand'[u].i = hand[u].i /\ (Handling(u)' <=> Handling(u))
    BY <1>2 DEF Handling, At
  <1> QED  BY <1>1, <1>3, <1>4, SameHandlers

(* Nor do the clients, or the main thread away from the mutex.             *)
LEMMA OthersPreserve ==
    ASSUME LInv,
           \/ Select \/ Selected \/ Accept \/ TakeSlot \/ SetLoad \/ SetStore \/ Scan
           \/ \E c \in Clients : Connect(c) \/ Send(c) \/ Leave(c)
           \/ UNCHANGED vars
    PROVE  LInv'
  <1>1. UNCHANGED <<jobs, mutex, hand>>
    BY DEF Select, Selected, Accept, TakeSlot, SetLoad, SetStore, Scan, Connect, Send,
           Leave, vars, slot
  <1>2. MainShape'
    <2> USE DEF LInv, Shape, MainShape, MainRecord
    <2>1. CASE Select \/ Selected \/ Accept \/ SetLoad \/ SetStore
      <3>1. MainRecord' /\ main'.pc # "lock" /\ main'.i \in {main.i, 0}
        BY <2>1 DEF Select, Selected, Accept, SetLoad, SetStore, Goto
      <3> QED  BY <3>1, ServerLoopAssumption DEF MainPlace
    <2>2. CASE TakeSlot
      <3>1. MainRecord' /\ main'.pc # "lock" /\ main'.i \in Slots \cup {0}
        BY <2>2 DEF TakeSlot, FreeSlots
      <3> QED  BY <3>1, ServerLoopAssumption DEF MainPlace, Slots
    <2>3. CASE Scan
      <3>1. MainRecord' /\ \/ main'.pc = "lock" /\ main'.i \in ReadySlots
                           \/ main'.pc = "select" /\ main'.i = 0
        BY <2>3 DEF Scan
      <3> QED  BY <3>1, ServerLoopAssumption DEF MainPlace, ReadySlots, Slots
    <2>4. CASE \/ \E c \in Clients : Connect(c) \/ Send(c) \/ Leave(c)
               \/ UNCHANGED vars
      BY <2>4 DEF Connect, Send, Leave, vars, MainPlace
    <2> QED  BY <2>1, <2>2, <2>3, <2>4
  <1>3. Shape'
    BY <1>1, <1>2 DEF LInv, Shape
  <1> QED  BY <1>1, <1>3, SameHandlers DEF Handling, At

LEMMA StepPreserves ==
    ASSUME LInv, [Next]_vars
    PROVE  LInv'
  BY TryLockPreserves, StartPreserves, UnlockPreserves, HandlePreserves, OthersPreserve
     DEF Next, Main, handle_read

-----------------------------------------------------------------------------
LEMMA InitLInv == Init => LInv
  <1> SUFFICES ASSUME Init PROVE LInv
    OBVIOUS
  <1>1. 0 \in Slots
    BY ServerLoopAssumption DEF Slots
  <1>2. Shape
    <2>1. MainShape
      BY <1>1, ServerLoopAssumption DEF Init, MainShape, MainRecord, MainPlace
    <2>2. jobs \in Seq(Slots) /\ mutex \in [Slots -> BOOLEAN]
      BY DEF Init
    <2>3. hand = [t \in Threads |-> Idle]
      BY DEF Init
    <2> QED  BY <1>1, <2>1, <2>2, <2>3 DEF Shape, Idle
  <1>3. ToSet(jobs) = {} /\ IsInjective(jobs)
    BY DEF Init, ToSet, IsInjective
  <1>4. \A t \in Threads : ~Handling(t)
    BY DEF Init, Handling, At, Idle
  <1>5. OneHandler
    BY <1>3, <1>4 DEF Init, OneHandler
  <1> QED  BY <1>2, <1>5 DEF LInv

(* The invariant holds in every state, whoever connects, leaves or takes   *)
(* over a descriptor and however the threads interleave.                   *)
THEOREM LoopInvariance == Spec => []LInv
  <1>1. Init => LInv
    BY InitLInv
  <1>2. LInv /\ [Next]_vars => LInv'
    BY StepPreserves
  <1> QED  BY <1>1, <1>2, PTL DEF Spec

(* The mutex of a slot is held exactly while one job for it is queued or   *)
(* one thread handles it.                                                  *)
THEOREM OneThreadPerSlot == Spec => []OneHandler
  <1>1. LInv => OneHandler
    BY DEF LInv
  <1> QED  BY <1>1, LoopInvariance, PTL

-----------------------------------------------------------------------------
(* Each step of the loop is a step of the queue or changes nothing of it.  *)
LEMMA StepUsesPool ==
    ASSUME LInv, [Next]_vars
    PROVE  [Pool!Next]_Pool!vars
  <1> DEFINE running == [t \in Threads |-> IF Handling(t) THEN hand[t].i ELSE -1]
  <1>1. \A i \in Slots : i # -1
    BY ServerLoopAssumption DEF Slots
  <1>2. ASSUME TryLock PROVE [Pool!Next]_Pool!vars
    <2>1. UNCHANGED hand /\ main.i \in Slots
      BY <1>2 DEF LInv, Shape, MainShape, MainPlace, TryLock
    <2>2. UNCHANGED running
      BY <2>1 DEF Handling, At
    <2>3. CASE mutex[main.i]
      BY <1>2, <2>2, <2>3 DEF TryLock, Pool!vars
    <2>4. CASE ~mutex[main.i]
      <3>1. jobs' = Append(jobs, main.i)
        BY <1>2, <2>4 DEF TryLock
      <3>2. main.i \notin ToSet(jobs) /\ \A t \in Threads : running[t] # main.i
        BY <1>1, <2>1, <2>4 DEF LInv, OneHandler
      <3>3. Pool!Add(main.i)
        BY <2>2, <3>1, <3>2 DEF Pool!Add, Pool!Outstanding, ToSet, Pool!ToSet
      <3> QED  BY <2>1, <3>3 DEF Pool!Next
    <2> QED  BY <2>3, <2>4
  <1>3. ASSUME NEW t \in Threads, Start(t) PROVE Pool!Start(t)
    <2>1. /\ jobs # <<>> /\ jobs' = Tail(jobs) /\ running[t] = -1
          /\ \A u \in Threads : running'[u] = IF u = t THEN Head(jobs) ELSE running[u]
      BY <1>3 DEF LInv, Shape, Start, Idle, Handling, At
    <2>2. running' = [running EXCEPT ![t] = Head(jobs)]
      BY <2>1
    <2> QED  BY <2>1, <2>2 DEF Pool!Start
  <1>4. ASSUME NEW t \in Threads, Unlock(t) PROVE Pool!End(t)
    <2>1. /\ UNCHANGED jobs /\ running[t] # -1
          /\ \A u \in Threads : running'[u] = IF u = t THEN -1 ELSE running[u]
      BY <1>1, <1>4 DEF LInv, Shape, Unlock, Idle, Handling, At
    <2>2. running' = [running EXCEPT ![t] = -1]
      BY <2>1
    <2> QED  BY <2>1, <2>2 DEF Pool!End
  <1>5. ASSUME NEW t \in Threads,
               Recv(t) \/ Reply(t) \/ Clear(t) \/ ClrLoad(t) \/ ClrStore(t) \/ Forget(t)
        PROVE  UNCHANGED Pool!vars
    <2>1. UNCHANGED jobs /\ \A u \in Threads : running'[u] = running[u]
      BY <1>5 DEF LInv, Shape, Recv, Reply, Clear, ClrLoad, ClrStore, Forget, GoOn,
                  Handling, At
    <2> QED  BY <2>1 DEF Pool!vars
  <1>6. ASSUME \/ Select \/ Selected \/ Accept \/ TakeSlot \/ SetLoad \/ SetStore \/ Scan
               \/ \E c \in Clients : Connect(c) \/ Send(c) \/ Leave(c)
               \/ UNCHANGED vars
        PROVE  UNCHANGED Pool!vars
    <2>1. UNCHANGED <<jobs, hand>>
      BY <1>6 DEF Select, Selected, Accept, TakeSlot, SetLoad, SetStore, Scan, Connect,
                  Send, Leave, vars
    <2> QED  BY <2>1 DEF Pool!vars, Handling, At
  <1> QED  BY <1>2, <1>3, <1>4, <1>5, <1>6 DEF Next, Main, handle_read, Pool!Next

(* What ThreadPool takes for granted of its user: a slot is added to the   *)
(* queue only when it is neither queued nor handled.                       *)
THEOREM LoopUsesPool == Spec => UsesPool
  <1>1. Init => Pool!Init
    BY DEF Init, Idle, Handling, At, Pool!Init
  <1>2. LInv /\ [Next]_vars => [Pool!Next]_Pool!vars
    BY StepUsesPool
  <1> QED  BY <1>1, <1>2, LoopInvariance, PTL DEF Spec, UsesPool, Pool!Safety

-----------------------------------------------------------------------------
(* Descriptors.  What the invariant needs is that a descriptor a slot has  *)
(* is open, or the slot is being closed (Watched); and that a thread which *)
(* still uses its descriptor has the one of its slot (Tracks).             *)
Types ==
    /\ connfd \in [Slots -> Fds \cup {-1}]
    /\ sock \in [Fds -> Clients \cup {NoOne}]
    /\ backlog \in Seq(Clients)
    /\ \A t \in Threads : hand[t].fd \in Fds \cup {-1}

Watched == \A i \in Slots : connfd[i] # -1 /\ ~Open(connfd[i]) => Closing(i)

Tracks ==
    \A t \in Threads :
        hand[t].pc \in {"recv", "reply", "clear", "load"} /\ hand[t].fd # -1
            => connfd[hand[t].i] = hand[t].fd

Accepted ==
    main.pc = "slot" =>
        /\ Open(main.fd)
        /\ \A i \in Slots : connfd[i] = main.fd => Closing(i)

Replying == \A t \in Threads : At(t, "reply") => Open(hand[t].fd)

DInv == /\ LInv /\ Types /\ Watched /\ Tracks /\ Accepted
        /\ SlotsApart /\ Replying /\ ReplyToAsker

(* A slot is not being closed while its thread is still before that.       *)
LEMMA NotClosing ==
    ASSUME OneHandler, NEW t \in Threads, hand[t].pc \in {"recv", "reply", "clear"}
    PROVE  ~Closing(hand[t].i)
  BY DEF OneHandler, Closing, Handling, At

(* Two threads that still use their descriptors use two.                   *)
LEMMA OwnDescriptor ==
    ASSUME DInv, NEW t \in Threads, NEW u \in Threads, t # u, hand[t].fd # -1,
           hand[t].pc \in {"recv", "reply", "clear"}, hand[u].pc \in {"recv", "reply", "clear"}
    PROVE  hand[t].fd # hand[u].fd
  <1>1. ~Closing(hand[t].i) /\ ~Closing(hand[u].i)
    BY NotClosing DEF DInv, LInv
  <1>2. hand[t].i # hand[u].i /\ hand[t].i \in Slots /\ hand[u].i \in Slots
    BY DEF DInv, LInv, Shape, OneHandler, Handling, At
  <1>3. ASSUME hand[t].fd = hand[u].fd PROVE FALSE
    <2>1. connfd[hand[t].i] = hand[t].fd /\ connfd[hand[u].i] = hand[t].fd
      BY <1>3 DEF DInv, Tracks
    <2> QED  BY <1>1, <1>2, <2>1 DEF DInv, SlotsApart
  <1> QED  BY <1>3

(* Steps that change no slot and no descriptor, and end no closing.        *)
LEMMA SameDescriptors ==
    ASSUME DInv, LInv', Types', UNCHANGED <<connfd, sock>>,
           main'.pc = "slot" => main.pc = "slot" /\ main'.fd = main.fd,
           \A t \in Threads :
             /\ hand'[t].i = hand[t].i
             /\ hand[t].pc \in {"load", "store", "forget"}
                   => hand'[t].pc \in {"load", "store", "forget"},
           Tracks', Replying', ReplyToAsker'
    PROVE  DInv'
  <1>1. \A i \in Slots : Closing(i) => Closing(i)'
    BY DEF Closing
  <1>2. \A fd : Open(fd)' <=> Open(fd)
    BY DEF Open
  <1>3. Watched' /\ Accepted' /\ SlotsApart'
    BY <1>1, <1>2 DEF DInv, Watched, Accepted, SlotsApart
  <1> QED  BY <1>3 DEF DInv

-----------------------------------------------------------------------------
(* One lemma per action that changes a slot, a descriptor or where a       *)
(* thread is.                                                              *)
LEMMA AcceptKeeps ==
    ASSUME DInv, LInv', Accept
    PROVE  DInv'
  <1>1. PICK fd \in Fds : /\ ~Open(fd) /\ sock' = [sock EXCEPT ![fd] = Head(backlog)]
                          /\ main' = [main EXCEPT !.pc = "slot", !.fd = fd]
    BY DEF Accept
  <1>2. /\ backlog # <<>> /\ backlog' = Tail(backlog) /\ UNCHANGED <<connfd, hand>>
        /\ Head(backlog) \in Clients /\ Tail(backlog) \in Seq(Clients)
    BY DEF DInv, Types, Accept, slot
  <1>3. Types'
    BY <1>1, <1>2 DEF DInv, Types
  <1>4. /\ Open(fd)' /\ \A f : Open(f) => Open(f)'
        /\ \A f \in Fds \ {fd} : sock'[f] = sock[f]
    BY <1>1, <1>2, ServerLoopAssumption DEF DInv, Types, Open
  <1>5. main'.pc = "slot" /\ main'.fd = fd
    BY <1>1 DEF DInv, LInv, Shape, MainShape, MainRecord
  <1>6. \A i \in Slots : Closing(i)' <=> Closing(i)
    BY <1>2 DEF Closing
  <1>7. Watched' /\ Tracks' /\ Accepted' /\ SlotsApart'
    BY <1>1, <1>2, <1>4, <1>5, <1>6 DEF DInv, Types, Watched, Tracks, Accepted, SlotsApart
  <1>8. Replying' /\ ReplyToAsker'
    <2>1. ASSUME NEW t \in Threads, At(t, "reply") PROVE hand[t].fd \in Fds \ {fd}
      BY <1>1, <2>1 DEF DInv, Replying, Open
    <2> QED  BY <1>2, <1>4, <2>1 DEF DInv, Replying, ReplyToAsker, At
  <1> QED  BY <1>3, <1>7, <1>8 DEF DInv

LEMMA TakeSlotKeeps ==
    ASSUME DInv, LInv', TakeSlot
    PROVE  DInv'
  <1>1. /\ UNCHANGED <<sock, backlog, hand>> /\ main'.pc # "slot" /\ Open(main.fd)
        /\ \A i \in Slots : connfd[i] = main.fd => Closing(i)
    BY DEF DInv, LInv, Shape, MainShape, MainRecord, Accepted, TakeSlot, outside
  <1>2. /\ \A i : Closing(i)' <=> Closing(i)
        /\ \A f : Open(f)' <=> Open(f)
    BY <1>1 DEF Closing, Open
  <1>3. Accepted' /\ Replying' /\ ReplyToAsker'
    BY <1>1, <1>2 DEF DInv, Accepted, Replying, ReplyToAsker, At
  <1>4. CASE UNCHANGED connfd
    <2>1. Types' /\ Watched' /\ Tracks' /\ SlotsApart'
      BY <1>1, <1>2, <1>4 DEF DInv, Types, Watched, Tracks, SlotsApart
    <2> QED  BY <1>3, <2>1 DEF DInv
  <1>5. ASSUME NEW i \in FreeSlots, connfd' = [connfd EXCEPT ![i] = main.fd]
        PROVE  DInv'
    <2>1. main.fd \in Fds /\ i \in Slots /\ connfd[i] = -1
      BY <1>1 DEF Open, FreeSlots
    <2>2. connfd'[i] = main.fd /\ \A k \in Slots \ {i} : connfd'[k] = connfd[k]
      BY <1>5, <2>1 DEF DInv, Types
    <2>3. Types'
      BY <1>1, <1>5, <2>1 DEF DInv, Types
    <2>4. Watched' /\ SlotsApart'
      BY <1>1, <1>2, <2>1, <2>2 DEF DInv, Watched, SlotsApart
    <2>5. Tracks'
      BY <1>1, <2>1, <2>2 DEF DInv, LInv, Shape, Tracks
    <2> QED  BY <1>3, <2>3, <2>4, <2>5 DEF DInv
  <1> QED  BY <1>4, <1>5 DEF TakeSlot

LEMMA StartKeeps ==
    ASSUME DInv, LInv', NEW t \in Threads, Start(t)
    PROVE  DInv'
  <1>1. Head(jobs) \in Slots
    BY QueueTakes DEF DInv, LInv, Shape, Start
  <1>2. /\ UNCHANGED <<connfd, sock, backlog, main>> /\ hand[t].pc = "idle"
        /\ hand'[t].pc = "recv" /\ hand'[t].i = Head(jobs) /\ hand'[t].fd = connfd[Head(jobs)]
        /\ \A u \in Threads \ {t} : hand'[u] = hand[u]
    BY DEF DInv, LInv, Shape, Start, Idle, At, outside, slot
  <1>3. Types' /\ Tracks'
    BY <1>1, <1>2 DEF DInv, Types, Tracks
  <1>4. Replying' /\ ReplyToAsker'
    BY <1>2 DEF DInv, Replying, ReplyToAsker, At, Open
  <1>5. \A i \in Slots : Closing(i)' <=> Closing(i)
    BY <1>2 DEF Closing
  <1>6. Watched' /\ Accepted' /\ SlotsApart'
    BY <1>2, <1>5 DEF DInv, Watched, Accepted, SlotsApart, Open
  <1> QED  BY <1>3, <1>4, <1>6 DEF DInv

LEMMA RecvKeeps ==
    ASSUME DInv, LInv', NEW t \in Threads, Recv(t)
    PROVE  DInv'
  <1>1. /\ UNCHANGED <<connfd, sock, backlog, main>> /\ hand[t].pc = "recv"
        /\ hand'[t].i = hand[t].i /\ hand'[t].fd = hand[t].fd
        /\ \/ hand'[t].pc = "clear"
           \/ hand'[t].pc = "reply" /\ Open(hand[t].fd) /\ hand'[t].c = sock[hand[t].fd]
        /\ \A u \in Threads \ {t} : hand'[u] = hand[u]
    <2>1. UNCHANGED <<connfd, sock, backlog, main>> /\ hand[t].pc = "recv"
      BY DEF Recv, At, slot
    <2>2. CASE GoOn(t, "clear")
      BY <2>1, <2>2 DEF DInv, LInv, Shape, GoOn
    <2>3. CASE /\ Open(hand[t].fd)
               /\ hand' = [hand EXCEPT ![t].pc = "reply", ![t].c = sock[hand[t].fd],
                                       ![t].bye = (inbox[sock[hand[t].fd]] = "e")]
      BY <2>1, <2>3 DEF DInv, LInv, Shape
    <2> QED  BY <2>2, <2>3 DEF Recv
  <1>2. Types' /\ Tracks'
    BY <1>1 DEF DInv, Types, Tracks
  <1>3. Replying' /\ ReplyToAsker'
    BY <1>1 DEF DInv, Replying, ReplyToAsker, At, Open
  <1> QED  BY <1>1, <1>2, <1>3, SameDescriptors

LEMMA ReplyKeeps ==
    ASSUME DInv, LInv', NEW t \in Threads, Reply(t)
    PROVE  DInv'
  <1>1. /\ UNCHANGED <<connfd, sock, backlog, main>> /\ hand[t].pc = "reply"
        /\ hand'[t].i = hand[t].i /\ hand'[t].fd = hand[t].fd
        /\ hand'[t].pc \in {"clear", "unlock"}
        /\ \A u \in Threads \ {t} : hand'[u] = hand[u]
    BY DEF DInv, LInv, Shape, Reply, At, slot
  <1>2. Types' /\ Tracks'
    BY <1>1 DEF DInv, Types, Tracks
  <1>3. Replying' /\ ReplyToAsker'
    BY <1>1 DEF DInv, Replying, ReplyToAsker, At, Open
  <1> QED  BY <1>1, <1>2, <1>3, SameDescriptors

(* The close.  Another slot with the descriptor is being closed already,   *)
(* and another thread that uses it there is none.                          *)
LEMMA ClearKeeps ==
    ASSUME DInv, LInv', NEW t \in Threads, Clear(t)
    PROVE  DInv'
  <1> DEFINE fd == hand[t].fd
             i == hand[t].i
  <1>1. /\ UNCHANGED <<connfd, backlog, main>> /\ hand[t].pc = "clear"
        /\ i \in Slots /\ hand'[t].i = i /\ hand'[t].fd = fd
        /\ hand'[t].pc = IF fd = -1 THEN "forget" ELSE "load"
        /\ \A u \in Threads \ {t} : hand'[u] = hand[u]
    BY DEF DInv, LInv, Shape, Clear, GoOn, At
  <1>2. ~Closing(i) /\ Closing(i)' /\ \A k : Closing(k) => Closing(k)'
    <2>1. ~Closing(i)
      BY <1>1, NotClosing DEF DInv, LInv
    <2>2. hand'[t].pc \in {"load", "store", "forget"}
      BY <1>1
    <2> QED  BY <1>1, <2>1, <2>2 DEF Closing
  <1>3. Types'
    <2>1. sock' \in [Fds -> Clients \cup {NoOne}]
      BY DEF DInv, Types, Clear, Open
    <2> QED  BY <1>1, <2>1 DEF DInv, Types
  <1>4. Tracks'
    BY <1>1 DEF DInv, Tracks
  <1>5. CASE ~Open(fd)
    <2>1. UNCHANGED sock
      BY <1>5 DEF Clear
    <2>2. Replying' /\ ReplyToAsker'
      BY <1>1, <2>1 DEF DInv, Replying, ReplyToAsker, At, Open
    <2>3. Watched' /\ Accepted' /\ SlotsApart'
      BY <1>1, <1>2, <2>1 DEF DInv, Watched, Accepted, SlotsApart, Open
    <2> QED  BY <1>3, <1>4, <2>2, <2>3 DEF DInv
  <1>6. CASE Open(fd)
    <2>1. fd \in Fds /\ fd # -1 /\ connfd[i] = fd
      BY <1>1, <1>6 DEF DInv, Tracks, Open, Fds
    <2>2. \A f \in Fds \ {fd} : sock'[f] = sock[f]
      BY <1>6 DEF DInv, Types, Clear
    <2>3. \A f : f # fd => (Open(f)' <=> Open(f))
      BY <2>2 DEF Open
    <2>4. \A k \in Slots \ {i} : connfd[k] = fd => Closing(k)
      BY <1>1, <1>2, <2>1 DEF DInv, SlotsApart
    <2>5. Watched'
      BY <1>1, <1>2, <2>3, <2>4 DEF DInv, Watched
    <2>6. Accepted' /\ SlotsApart'
      BY <1>1, <1>2, <2>1, <2>3 DEF DInv, Accepted, SlotsApart
    <2>7. ASSUME NEW u \in Threads, At(u, "reply") PROVE hand[u].fd \in Fds \ {fd} /\ u # t
      BY <1>1, <2>1, <2>7, OwnDescriptor DEF DInv, Replying, At, Open
    <2>8. Replying' /\ ReplyToAsker'
      BY <1>1, <2>2, <2>3, <2>7 DEF DInv, Replying, ReplyToAsker, At
    <2> QED  BY <1>3, <1>4, <2>5, <2>6, <2>8 DEF DInv
  <1> QED  BY <1>5, <1>6

LEMMA ClrKeeps ==
    ASSUME DInv, LInv', NEW t \in Threads, ClrLoad(t) \/ ClrStore(t)
    PROVE  DInv'
  <1>1. /\ UNCHANGED <<connfd, sock, backlog, main>> /\ hand[t].pc \in {"load", "store"}
        /\ hand'[t].i = hand[t].i /\ hand'[t].fd \in {hand[t].fd, -1}
        /\ hand'[t].pc \in {"store", "forget"}
        /\ \A u \in Threads \ {t} : hand'[u] = hand[u]
    BY DEF DInv, LInv, Shape, ClrLoad, ClrStore, At, outside, slot
  <1>2. Types' /\ Tracks'
    BY <1>1 DEF DInv, Types, Tracks
  <1>3. Replying' /\ ReplyToAsker'
    BY <1>1 DEF DInv, Replying, ReplyToAsker, At, Open
  <1> QED  BY <1>1, <1>2, <1>3, SameDescriptors

LEMMA ForgetKeeps ==
    ASSUME DInv, LInv', NEW t \in Threads, Forget(t)
    PROVE  DInv'
  <1> DEFINE i == hand[t].i
  <1>1. /\ UNCHANGED <<sock, backlog, main>> /\ hand[t].pc = "forget"
        /\ i \in Slots /\ hand'[t].i = i /\ hand'[t].fd = hand[t].fd /\ hand'[t].pc = "unlock"
        /\ \A u \in Threads \ {t} : hand'[u] = hand[u]
    BY DEF DInv, LInv, Shape, Forget, GoOn, At, outside
  <1>2. connfd' = [connfd EXCEPT ![i] = -1]
    BY DEF Forget
  <1>3. connfd'[i] = -1 /\ \A k \in Slots \ {i} : connfd'[k] = connfd[k]
    BY <1>1, <1>2 DEF DInv, Types
  <1>4. \A k \in Slots \ {i} : Closing(k) => Closing(k)'
    BY <1>1 DEF Closing
  <1>5. Types'
    BY <1>1, <1>2 DEF DInv, Types
  <1>6. Tracks'
    <2>1. \A u \in Threads \ {t} : hand[u].pc # "idle" => hand[u].i # i
      BY <1>1 DEF DInv, LInv, OneHandler, Handling, At
    <2> QED  BY <1>1, <1>3, <2>1 DEF DInv, LInv, Shape, Tracks
  <1>7. Replying' /\ ReplyToAsker'
    BY <1>1 DEF DInv, Replying, ReplyToAsker, At, Open
  <1>8. Watched' /\ SlotsApart'
    BY <1>1, <1>3, <1>4 DEF DInv, Watched, SlotsApart, Open
  <1>9. Accepted'
    <2>1. main.pc = "slot" => main.fd # -1
      BY DEF DInv, Accepted, Open, Fds
    <2> QED  BY <1>1, <1>3, <1>4, <2>1 DEF DInv, Accepted, Open
  <1> QED  BY <1>5, <1>6, <1>7, <1>8, <1>9 DEF DInv

LEMMA UnlockKeeps ==
    ASSUME DInv, LInv', NEW t \in Threads, Unlock(t)
    PROVE  DInv'
  <1>1. /\ UNCHANGED <<connfd, sock, backlog, main>> /\ hand[t].pc = "unlock"
        /\ hand'[t].pc = "idle" /\ hand'[t].fd = -1
        /\ \A u \in Threads \ {t} : hand'[u] = hand[u]
    BY DEF DInv, LInv, Shape, Unlock, Idle, At, outside
  <1>2. Types' /\ Tracks'
    BY <1>1 DEF DInv, Types, Tracks
  <1>3. Replying' /\ ReplyToAsker'
    BY <1>1 DEF DInv, Replying, ReplyToAsker, At, Open
  <1>4. \A i \in Slots : Closing(i)' <=> Closing(i)
    BY <1>1 DEF Closing
  <1>5. Watched' /\ Accepted' /\ SlotsApart'
    BY <1>1, <1>4 DEF DInv, Watched, Accepted, SlotsApart, Open
  <1> QED  BY <1>2, <1>3, <1>5 DEF DInv

LEMMA OthersKeep ==
    ASSUME DInv, LInv',
           \/ Select \/ Selected \/ SetLoad \/ SetStore \/ Scan \/ TryLock
           \/ \E c \in Clients : Connect(c) \/ Send(c) \/ Leave(c)
           \/ UNCHANGED vars
    PROVE  DInv'
  <1>1. UNCHANGED <<connfd, sock, hand>>
    BY DEF Select, Selected, SetLoad, SetStore, Scan, TryLock, Connect, Send, Leave,
           vars, slot, outside
  <1>2. backlog' \in Seq(Clients)
    <2>1. CASE \E c \in Clients : Connect(c)
      <3>1. PICK c \in Clients : backlog' = Append(backlog, c)
        BY <2>1 DEF Connect
      <3> QED  BY <3>1 DEF DInv, Types
    <2>2. CASE \/ Select \/ Selected \/ SetLoad \/ SetStore \/ Scan \/ TryLock
               \/ \E c \in Clients : Send(c) \/ Leave(c)
               \/ UNCHANGED vars
      BY <2>2 DEF DInv, Types, Select, Selected, SetLoad, SetStore, Scan, TryLock, Send,
                  Leave, vars, outside
    <2> QED  BY <2>1, <2>2
  <1>3. main'.pc # "slot" \/ UNCHANGED main
    BY DEF DInv, LInv, Shape, MainShape, MainRecord, Select, Selected, SetLoad, SetStore,
           Scan, TryLock, Goto, Connect, Send, Leave, vars
  <1>4. Types' /\ Tracks' /\ Replying' /\ ReplyToAsker'
    BY <1>1, <1>2 DEF DInv, Types, Tracks, Replying, ReplyToAsker, At, Open
  <1> QED  BY <1>1, <1>3, <1>4, SameDescriptors

LEMMA InitDInv == Init => DInv
  <1> SUFFICES ASSUME Init, LInv PROVE DInv
    BY InitLInv
  <1>1. Types /\ Watched /\ Tracks /\ SlotsApart
    BY DEF Init, Idle, Types, Watched, Tracks, SlotsApart
  <1>2. Accepted /\ Replying /\ ReplyToAsker
    BY DEF Init, Idle, Accepted, Replying, ReplyToAsker, At
  <1> QED  BY <1>1, <1>2 DEF DInv

LEMMA StepKeeps == DInv /\ [Next]_vars => DInv'
  <1> SUFFICES ASSUME DInv, [Next]_vars PROVE DInv'
    OBVIOUS
  <1>1. LInv'
    BY StepPreserves DEF DInv
  <1> QED
    BY <1>1, AcceptKeeps, TakeSlotKeeps, StartKeeps, RecvKeeps, ReplyKeeps, ClearKeeps,
       ClrKeeps, ForgetKeeps, UnlockKeeps, OthersKeep DEF Next, Main, handle_read

(* Descriptors are given to one slot at a time, answers go to who asked:   *)
(* the invariant holds whatever clients come and go, though handle_read    *)
(* closes a descriptor before it clears its slot.                          *)
THEOREM DescriptorInvariance == Spec => []DInv
  BY InitDInv, StepKeeps, PTL DEF Spec

(* The answer to a command is sent to the client who sent it.              *)
THEOREM AnswersReachTheAsker == Spec => []ReplyToAsker
  <1>1. DInv => ReplyToAsker
    BY DEF DInv
  <1> QED  BY <1>1, DescriptorInvariance, PTL

(* Two slots have one descriptor only while one of them is being closed.   *)
THEOREM SlotsAreApart == Spec => []SlotsApart
  <1>1. DInv => SlotsApart
    BY DEF DInv
  <1> QED  BY <1>1, DescriptorInvariance, PTL

(* A descriptor in use leads to the client it is used for.                 *)
THEOREM DescriptorsAreRight == Spec => []Descriptors
  <1>1. ReplyToAsker /\ SlotsApart => Descriptors
    BY DEF Descriptors
  <1> QED  BY <1>1, AnswersReachTheAsker, SlotsAreApart, PTL

-----------------------------------------------------------------------------
(* Types.  Two of them are about more than a variable's values.  That the  *)
(* backlog holds the clients that are queued needs that a client owns no   *)
(* descriptor while it queues, and never two: a late close of the other    *)
(* would send it away.  The bounds of nready need where the main thread    *)
(* is: select has counted what TakeSlot and TryLock take off.              *)
Outside ==
    /\ client \in [Clients -> {"away", "queued", "in", "left"}]
    /\ inbox \in [Clients -> {"none", "command", "e"}]
    /\ waiting \in [Clients -> BOOLEAN]

Queued == IsInjective(backlog) /\ ToSet(backlog) = {c \in Clients : client[c] = "queued"}

Owned ==
    \A fd \in Fds : Open(fd) =>
        /\ client[sock[fd]] \in {"in", "left"}
        /\ \A f \in Fds : sock[f] = sock[fd] => f = fd

Watchable == Fds \cup {listenfd}

Counted ==
    /\ main.pc \in {"select", "wait"} => nready = 0
    /\ main.pc \in {"accept", "slot"} => nready \in -1 .. NFds + 1
    /\ main.pc = "lock" => nready \in 1 .. NFds + 1
    /\ nready \in -2 .. NFds + 1

Sets ==
    /\ read_set \subseteq Watchable /\ ready_set \subseteq Watchable
    /\ main.pc \in {"select", "wait", "accept", "slot", "load", "store", "scan", "lock"}
    /\ main.word \subseteq Watchable /\ (main.pc \in {"slot", "load", "store"} => main.fd \in Fds)
    /\ \A t \in Threads :
         /\ hand[t].pc \in {"idle", "recv", "reply", "clear", "load", "store", "forget", "unlock"}
         /\ hand[t].word \subseteq Watchable

TInv == DInv /\ Outside /\ Queued /\ Owned /\ Counted /\ Sets

(* select counts at most all there is to watch.                            *)
LEMMA ReadyCount ==
    ASSUME NEW S, S \subseteq Watchable
    PROVE  Cardinality(S) \in 0 .. NFds + 1 /\ (S # {} => Cardinality(S) >= 1)
  <1>1. NFds \in Nat
    BY ServerLoopAssumption
  <1>2. Watchable = 0 .. NFds
    BY <1>1 DEF Watchable, Fds, listenfd
  <1>3. IsFiniteSet(0 .. NFds) /\ Cardinality(0 .. NFds) = NFds + 1
    BY <1>1, FS_Interval
  <1>4. IsFiniteSet(S) /\ Cardinality(S) <= NFds + 1 /\ Cardinality(S) \in Nat
    BY <1>2, <1>3, FS_Subset, FS_CardinalityType
  <1>5. S # {} => Cardinality(S) # 0
    BY <1>4, FS_EmptySet
  <1> QED  BY <1>1, <1>4, <1>5

-----------------------------------------------------------------------------
(* The clients and their descriptors.                                      *)
Wiring == Outside /\ Queued /\ Owned

LEMMA ConnectWires ==
    ASSUME TInv, NEW c \in Clients, Connect(c)
    PROVE  Wiring'
  <1>1. /\ client[c] = "away" /\ client' = [client EXCEPT ![c] = "queued"]
        /\ backlog' = Append(backlog, c) /\ UNCHANGED <<inbox, waiting, sock>>
        /\ backlog \in Seq(Clients)
    BY DEF Connect, TInv, DInv, Types
  <1>2. c \notin ToSet(backlog)
    BY <1>1 DEF TInv, Queued
  <1>3. IsInjective(backlog') /\ ToSet(backlog)' = ToSet(backlog) \cup {c}
    BY <1>1, <1>2, QueueAdds DEF TInv, Queued
  <1>4. Outside' /\ Queued'
    BY <1>1, <1>3 DEF TInv, Outside, Queued
  <1>5. Owned'
    BY <1>1, ServerLoopAssumption DEF TInv, Outside, Owned, Open, DInv, Types
  <1> QED  BY <1>4, <1>5 DEF Wiring

LEMMA SendOrLeaveWires ==
    ASSUME TInv, NEW c \in Clients, Send(c) \/ Leave(c)
    PROVE  Wiring'
  <1>1. /\ client[c] = "in" /\ UNCHANGED <<backlog, sock>>
        /\ client' = client \/ client' = [client EXCEPT ![c] = "left"]
        /\ inbox' = inbox \/ \E m \in {"command", "e"} : inbox' = [inbox EXCEPT ![c] = m]
        /\ \E b \in BOOLEAN : waiting' = [waiting EXCEPT ![c] = b]
    BY DEF Send, Leave
  <1>2. Outside'
    BY <1>1 DEF TInv, Outside
  <1>3. Queued'
    BY <1>1 DEF TInv, Outside, Queued
  <1>4. Owned'
    BY <1>1, ServerLoopAssumption DEF TInv, Outside, Owned, Open, DInv, Types
  <1> QED  BY <1>2, <1>3, <1>4 DEF Wiring

LEMMA AcceptWires ==
    ASSUME TInv, Accept
    PROVE  Wiring'
  <1> DEFINE c == Head(backlog)
  <1>1. PICK fd \in Fds : ~Open(fd) /\ sock' = [sock EXCEPT ![fd] = c]
    BY DEF Accept
  <1>2. /\ backlog # <<>> /\ backlog' = Tail(backlog) /\ UNCHANGED <<inbox, waiting>>
        /\ client' = [client EXCEPT ![c] = "in"] /\ backlog \in Seq(Clients)
    BY DEF Accept, TInv, DInv, Types
  <1>3. /\ c \in Clients /\ ToSet(backlog) = ToSet(backlog)' \cup {c}
        /\ IsInjective(backlog') /\ c \notin ToSet(backlog)'
    BY <1>2, QueueTakes DEF TInv, Queued
  <1> HIDE DEF c
  <1>4. Outside' /\ Queued'
    BY <1>2, <1>3 DEF TInv, Outside, Queued
  <1>5. client[c] = "queued"
    BY <1>3 DEF TInv, Queued
  <1>6. Owned'
    <2>1. \A f \in Fds : sock'[f] = IF f = fd THEN c ELSE sock[f]
      BY <1>1 DEF TInv, DInv, Types
    <2>2. \A f \in Fds : Open(f) => sock[f] # c /\ sock[f] \in Clients
      BY <1>5 DEF TInv, Owned, Open, DInv, Types
    <2>3. \A f \in Fds : ~Open(f) => sock[f] = NoOne
      BY DEF Open
    <2>4. \A f \in Fds : Open(f)' <=> (f = fd \/ Open(f))
      BY <1>3, <2>1, ServerLoopAssumption DEF Open
    <2>5. \A d \in Clients : client'[d] = IF d = c THEN "in" ELSE client[d]
      BY <1>2 DEF TInv, Outside
    <2> QED  BY <1>1, <1>3, <2>1, <2>2, <2>3, <2>4, <2>5, ServerLoopAssumption DEF TInv, Owned
  <1> QED  BY <1>4, <1>6 DEF Wiring

LEMMA ClearWires ==
    ASSUME TInv, NEW t \in Threads, Clear(t)
    PROVE  Wiring'
  <1> DEFINE fd == hand[t].fd
             c == sock[fd]
  <1>1. CASE ~Open(fd)
    <2>1. UNCHANGED <<client, inbox, waiting, sock, backlog>>
      BY <1>1 DEF Clear
    <2> QED  BY <2>1 DEF TInv, Wiring, Outside, Queued, Owned, Open
  <1>2. CASE Open(fd)
    <2>1. /\ client' = [client EXCEPT ![c] = "away"] /\ inbox' = [inbox EXCEPT ![c] = "none"]
          /\ waiting' = [waiting EXCEPT ![c] = FALSE] /\ sock' = [sock EXCEPT ![fd] = NoOne]
          /\ UNCHANGED backlog
      BY <1>2 DEF Clear
    <2>2. fd \in Fds /\ c \in Clients /\ client[c] \in {"in", "left"}
      BY <1>2 DEF Open, TInv, DInv, Types, Owned
    <2> HIDE DEF fd, c
    <2>3. Outside' /\ Queued'
      BY <2>1, <2>2 DEF TInv, Outside, Queued
    <2>4. Owned'
      <3>1. \A f \in Fds : sock'[f] = IF f = fd THEN NoOne ELSE sock[f]
        BY <2>1 DEF TInv, DInv, Types
      <3>2. \A f \in Fds : Open(f)' => Open(f) /\ f # fd /\ sock[f] # c
        BY <1>2, <2>2, <3>1 DEF TInv, Owned, Open, fd, c
      <3> QED  BY <2>1, <2>2, <3>1, <3>2 DEF TInv, Owned, Outside, Open
    <2> QED  BY <2>3, <2>4 DEF Wiring
  <1> QED  BY <1>1, <1>2

LEMMA WiringKept ==
    ASSUME TInv, [Next]_vars
    PROVE  Wiring'
  <1>1. ASSUME UNCHANGED <<client, backlog, sock>>, Outside'
        PROVE  Wiring'
    BY <1>1 DEF TInv, Wiring, Queued, Owned, Open
  <1>2. ASSUME NEW t \in Threads, Recv(t) \/ Reply(t)
        PROVE  Wiring'
    <2>1. /\ UNCHANGED <<client, backlog, sock>>
          /\ inbox' = inbox \/ \E c : inbox' = [inbox EXCEPT ![c] = "none"]
          /\ waiting' = waiting \/ \E c : waiting' = [waiting EXCEPT ![c] = FALSE]
      BY <1>2 DEF Recv, Reply
    <2>2. Outside'
      BY <2>1 DEF TInv, Outside
    <2> QED  BY <1>1, <2>1, <2>2
  <1>3. ASSUME UNCHANGED outside
        PROVE  Wiring'
    <2>1. Outside'
      BY <1>3 DEF TInv, Outside, outside
    <2> QED  BY <1>1, <1>3, <2>1 DEF outside
  <1>4. CASE \/ Select \/ Selected \/ TakeSlot \/ SetLoad \/ SetStore \/ Scan \/ TryLock
             \/ \E t \in Threads : Start(t) \/ ClrLoad(t) \/ ClrStore(t) \/ Forget(t) \/ Unlock(t)
             \/ UNCHANGED vars
    BY <1>3, <1>4 DEF Select, Selected, TakeSlot, SetLoad, SetStore, Scan, TryLock, Start,
                      ClrLoad, ClrStore, Forget, Unlock, vars
  <1> QED
    BY <1>2, <1>4, ConnectWires, SendOrLeaveWires, AcceptWires, ClearWires
       DEF Next, Main, handle_read

-----------------------------------------------------------------------------
(* The sets of descriptors, and what the main thread counts.               *)
LEMMA MainSets ==
    ASSUME TInv, LInv', Main
    PROVE  Counted' /\ Sets'
  <1> USE DEF TInv
  <1>1. MainRecord /\ MainPlace /\ NFds \in Nat
    BY ServerLoopAssumption DEF DInv, LInv, Shape, MainShape
  <1>2. /\ nready \in -2 .. NFds + 1 /\ read_set \subseteq Watchable
        /\ ready_set \subseteq Watchable /\ main.word \subseteq Watchable
        /\ \A t \in Threads :
             /\ hand[t].pc \in {"idle", "recv", "reply", "clear", "load", "store", "forget",
                                "unlock"}
             /\ hand[t].word \subseteq Watchable
    BY DEF Sets, Counted
  <1>3. CASE Select
    BY <1>1, <1>2, <1>3 DEF Select, Goto, Counted, Sets, MainRecord
  <1>4. CASE Selected
    <2>1. /\ ready_set' = {fd \in ready_set : Readable(fd)} /\ ready_set' # {}
          /\ nready' = Cardinality(ready_set') /\ UNCHANGED <<read_set, hand>>
          /\ main'.pc \in {"accept", "scan"} /\ main'.word = main.word
      BY <1>1, <1>4 DEF Selected, MainRecord
    <2>2. ready_set' \subseteq Watchable
      BY <1>2, <2>1
    <2>3. nready' \in 1 .. NFds + 1
      BY <1>1, <2>1, <2>2, ReadyCount
    <2> QED  BY <1>1, <1>2, <2>1, <2>2, <2>3 DEF Counted, Sets
  <1>5. CASE Accept
    <2>1. PICK fd \in Fds : main' = [main EXCEPT !.pc = "slot", !.fd = fd]
      BY <1>5 DEF Accept
    <2>2. main.pc = "accept" /\ UNCHANGED <<sets, hand>>
      BY <1>5 DEF Accept
    <2> QED  BY <1>1, <1>2, <2>1, <2>2 DEF Counted, Sets, MainRecord, sets
  <1>6. CASE TakeSlot
    <2>1. /\ main.pc = "slot" /\ nready' = nready - 1 /\ UNCHANGED <<read_set, ready_set, hand>>
          /\ main'.pc \in {"scan", "load"} /\ main'.word = main.word
          /\ main'.pc = "load" => main'.fd = main.fd
      BY <1>1, <1>6 DEF TakeSlot, MainRecord
    <2> QED  BY <1>1, <1>2, <2>1 DEF Counted, Sets
  <1>7. CASE SetLoad
    BY <1>1, <1>2, <1>7 DEF SetLoad, Counted, Sets, MainRecord, sets
  <1>8. CASE SetStore
    BY <1>1, <1>2, <1>8 DEF SetStore, Counted, Sets, MainRecord, Watchable
  <1>9. CASE Scan
    <2>1. /\ main.pc = "scan" /\ UNCHANGED <<read_set, hand>> /\ main'.word = main.word
          /\ \/ main'.pc = "select" /\ ready_set' = {} /\ nready' = 0
             \/ main'.pc = "lock" /\ UNCHANGED <<ready_set, nready>> /\ ~(nready <= 0)
      BY <1>1, <1>9 DEF Scan, MainRecord
    <2> QED  BY <1>1, <1>2, <2>1 DEF Counted, Sets
  <1>10. CASE TryLock
    BY <1>1, <1>2, <1>10 DEF TryLock, Counted, Sets, MainRecord
  <1> QED  BY <1>3, <1>4, <1>5, <1>6, <1>7, <1>8, <1>9, <1>10 DEF Main

LEMMA ThreadSets ==
    ASSUME TInv, NEW t \in Threads, handle_read(t)
    PROVE  Counted' /\ Sets'
  <1> USE DEF TInv
  <1>1. /\ UNCHANGED <<main, ready_set, nready>> /\ hand = [u \in Threads |-> hand[u]]
        /\ \A u \in Threads :
             /\ hand[u].pc \in {"idle", "recv", "reply", "clear", "load", "store", "forget",
                                "unlock"}
             /\ hand[u].word \subseteq Watchable
    BY DEF handle_read, Start, Recv, Reply, Clear, ClrLoad, ClrStore, Forget, Unlock, sets,
           Sets, DInv, LInv, Shape
  <1>2. hand[t] = [pc |-> hand[t].pc, i |-> hand[t].i, fd |-> hand[t].fd,
                   word |-> hand[t].word, bye |-> hand[t].bye, c |-> hand[t].c]
    BY DEF DInv, LInv, Shape
  <1>3. \A u \in Threads : u # t => hand'[u] = hand[u]
    BY <1>1 DEF handle_read, Start, Recv, Reply, Clear, ClrLoad, ClrStore, Forget, Unlock, GoOn
  <1>4. /\ hand'[t].pc \in {"idle", "recv", "reply", "clear", "load", "store", "forget", "unlock"}
        /\ hand'[t].word \subseteq Watchable /\ read_set' \subseteq Watchable
    <2>1. read_set \subseteq Watchable
      BY DEF Sets
    <2>2. CASE Start(t) \/ Unlock(t)
      <3>1. UNCHANGED sets
        BY <2>2 DEF Start, Unlock
      <3>2. CASE Unlock(t)
        <4>1. hand'[t] = Idle
          BY <1>1, <3>2 DEF Unlock
        <4> QED  BY <2>1, <3>1, <4>1 DEF Idle, sets
      <3>3. CASE Start(t)
        <4>1. hand'[t] = [Idle EXCEPT !.pc = "recv", !.i = Head(jobs), !.fd = connfd[Head(jobs)]]
          BY <1>1, <3>3 DEF Start
        <4>2. hand'[t].pc = "recv" /\ hand'[t].word = {}
          BY <4>1 DEF Idle
        <4> QED  BY <2>1, <3>1, <4>2 DEF sets
      <3> QED  BY <2>2, <3>2, <3>3
    <2>3. CASE Recv(t)
      BY <1>1, <1>2, <2>1, <2>3 DEF Recv, GoOn, sets
    <2>4. CASE Reply(t)
      BY <1>1, <1>2, <2>1, <2>4 DEF Reply, sets
    <2>5. CASE Clear(t) \/ Forget(t)
      BY <1>1, <1>2, <2>1, <2>5 DEF Clear, Forget, GoOn, sets
    <2>6. CASE ClrLoad(t)
      BY <1>1, <1>2, <2>1, <2>6 DEF ClrLoad, sets
    <2>7. CASE ClrStore(t)
      BY <1>1, <1>2, <2>1, <2>7 DEF ClrStore
    <2> QED  BY <2>2, <2>3, <2>4, <2>5, <2>6, <2>7 DEF handle_read
  <1>5. Counted'
    BY <1>1 DEF Counted
  <1> QED  BY <1>1, <1>3, <1>4, <1>5 DEF Sets

(* Every state of server_run, add_conn and handle_read keeps the types,    *)
(* the backlog of the clients that queue, and the bounds of nready.        *)
THEOREM TypeInvariance == Spec => []TInv
  <1>1. Init => TInv
    <2> SUFFICES ASSUME Init, DInv PROVE TInv
      BY InitDInv
    <2>1. NFds \in Nat
      BY ServerLoopAssumption
    <2>2. Outside /\ Owned /\ Counted
      BY <2>1 DEF Init, Outside, Owned, Open, Counted
    <2>3. Queued
      BY DEF Init, Queued, IsInjective, ToSet
    <2>4. Sets
      BY DEF Init, Idle, Sets, Watchable
    <2> QED  BY <2>2, <2>3, <2>4 DEF TInv
  <1>2. TInv /\ [Next]_vars => TInv'
    <2> SUFFICES ASSUME TInv, [Next]_vars PROVE TInv'
      OBVIOUS
    <2>1. LInv' /\ DInv'
      BY StepPreserves, StepKeeps DEF TInv, DInv
    <2>2. CASE \/ \E c \in Clients : Connect(c) \/ Send(c) \/ Leave(c)
               \/ UNCHANGED vars
      <3>1. UNCHANGED <<read_set, ready_set, nready, main, hand>>
        BY <2>2 DEF Connect, Send, Leave, vars, sets
      <3> QED  BY <2>1, <3>1, WiringKept DEF TInv, Wiring, Counted, Sets
    <2>3. CASE Main \/ \E t \in Threads : handle_read(t)
      BY <2>1, <2>3, WiringKept, MainSets, ThreadSets DEF TInv, Wiring
    <2> QED  BY <2>2, <2>3 DEF Next
  <1> QED  BY <1>1, <1>2, PTL DEF Spec

(* Every variable keeps its type, the queue of clients who wait for accept *)
(* is that of those who connected, and nready stays within what select can *)
(* return and the two decrements that may follow.                          *)
THEOREM LoopTypeCorrect == Spec => []TypeOK
  <1>1. TInv => TypeOK
    BY DEF TInv, DInv, LInv, Shape, MainShape, MainPlace, Types, Outside, Queued, Counted, Sets,
           Watchable, TypeOK, ToSet
  <1> QED  BY <1>1, TypeInvariance, PTL
=============================================================================
