----------------------------- MODULE ServerLoop -----------------------------
(* server_run, add_conn and handle_read of tcp_utils.c: the main thread    *)
(* waits in select and gives the slots that are readable to the threads of *)
(* the pool.  The main thread and the threads share the slots and the set  *)
(* of descriptors; a step is an access to one of them, or a system call.   *)
EXTENDS Integers, SequencesExt, FiniteSets

CONSTANTS
    Clients, NoOne,
    Leavers,    \* the clients that may leave, by closing or with the command e
    Threads,    \* of the pool (12 in the server)
    FD_SETSIZE, \* slots
    NFds        \* descriptors that accept can return: 1 .. NFds

ASSUME ServerLoopAssumption ==
    /\ IsFiniteSet(Clients) /\ NoOne \notin Clients /\ Leavers \subseteq Clients
    /\ FD_SETSIZE \in Nat \ {0} /\ NFds \in Nat /\ NFds >= Cardinality(Clients)

Slots == 0 .. FD_SETSIZE - 1
Fds == 1 .. NFds
listenfd == 0

VARIABLES
    client,     \* external: away, queued (not accepted), in, or left (closed its end)
    inbox,      \* external: the bytes a client sent that nobody has read
    waiting,    \* external: the client has sent a command and has no answer
    backlog,    \* external: clients to accept
    sock,       \* external: the open descriptors and whose they are
    connfd,     \* the descriptor of each slot, or -1
    mutex,      \* of each slot: locked
    read_set, ready_set, nready,
    main,       \* the main thread: where it is, and its locals
    jobs,       \* the queue of the thread pool: slots
    hand        \* the threads: where in handle_read, and the locals there

outside == <<client, inbox, waiting, backlog, sock>>
slot == <<connfd, mutex>>
sets == <<read_set, ready_set, nready>>
vars == <<outside, slot, sets, main, jobs, hand>>

(* bye: on_recv said to close.  c is a ghost, the sender of the command.   *)
Idle == [pc |-> "idle", i |-> 0, fd |-> -1, word |-> {}, bye |-> FALSE, c |-> NoOne]

TypeOK ==
    /\ client \in [Clients -> {"away", "queued", "in", "left"}]
    /\ inbox \in [Clients -> {"none", "command", "e"}]
    /\ waiting \in [Clients -> BOOLEAN]
    /\ ToSet(backlog) = {c \in Clients : client[c] = "queued"}
    /\ sock \in [Fds -> Clients \cup {NoOne}]
    /\ connfd \in [Slots -> Fds \cup {-1}]
    /\ mutex \in [Slots -> BOOLEAN]
    /\ read_set \subseteq Fds \cup {listenfd} /\ ready_set \subseteq Fds \cup {listenfd}
    /\ nready \in -2 .. NFds + 1
    /\ main.pc \in {"select", "wait", "accept", "slot", "load", "store",
                    "scan", "lock"}
    /\ main.i \in 0 .. FD_SETSIZE
    /\ ToSet(jobs) \subseteq Slots
    /\ \A t \in Threads :
         hand[t].pc \in {"idle", "recv", "reply", "clear", "load", "store", "forget",
                         "unlock"}

Init ==
    /\ client = [c \in Clients |-> "away"] /\ inbox = [c \in Clients |-> "none"]
    /\ waiting = [c \in Clients |-> FALSE] /\ backlog = <<>>
    /\ sock = [fd \in Fds |-> NoOne]
    /\ connfd = [i \in Slots |-> -1]
    /\ mutex = [i \in Slots |-> FALSE]
    /\ read_set = {listenfd} /\ ready_set = {} /\ nready = 0
    /\ main = [pc |-> "select", fd |-> -1, i |-> 0, word |-> {}]
    /\ jobs = <<>> /\ hand = [t \in Threads |-> Idle]

-----------------------------------------------------------------------------
(* Clients.  One sends a command and waits for the answer (client.c).      *)
Connect(c) ==
    /\ client[c] = "away"
    /\ client' = [client EXCEPT ![c] = "queued"]
    /\ backlog' = Append(backlog, c)
    /\ UNCHANGED <<inbox, waiting, sock, slot, sets, main, jobs, hand>>

Send(c) ==
    /\ client[c] = "in" /\ ~waiting[c]
    /\ \E m \in {"command"} \cup (IF c \in Leavers THEN {"e"} ELSE {}) :
         inbox' = [inbox EXCEPT ![c] = m]
    /\ waiting' = [waiting EXCEPT ![c] = TRUE]
    /\ UNCHANGED <<client, backlog, sock, slot, sets, main, jobs, hand>>

Leave(c) ==
    /\ c \in Leavers /\ client[c] = "in"
    /\ client' = [client EXCEPT ![c] = "left"]
    /\ waiting' = [waiting EXCEPT ![c] = FALSE]
    /\ UNCHANGED <<inbox, backlog, sock, slot, sets, main, jobs, hand>>

Open(fd) == fd \in Fds /\ sock[fd] # NoOne
Readable(fd) ==
    IF fd = listenfd THEN backlog # <<>>
    ELSE Open(fd) /\ (inbox[sock[fd]] # "none" \/ client[sock[fd]] = "left")

-----------------------------------------------------------------------------
(* The main thread.  select fails at once, and leaves the set as it is,    *)
(* when a descriptor in it has been closed.                                *)
Goto(k) == main' = [main EXCEPT !.pc = k]

Select ==
    /\ main.pc = "select"
    /\ ready_set' = read_set
    /\ IF \E fd \in read_set \ {listenfd} : ~Open(fd)
       THEN nready' = -1 /\ Goto("accept")
       ELSE Goto("wait") /\ UNCHANGED nready
    /\ UNCHANGED <<outside, slot, read_set, jobs, hand>>

Selected ==
    /\ main.pc = "wait"
    /\ \E fd \in ready_set : Readable(fd)
    /\ ready_set' = {fd \in ready_set : Readable(fd)}
    /\ nready' = Cardinality(ready_set')
    /\ main' = [main EXCEPT !.pc = IF listenfd \in ready_set' THEN "accept" ELSE "scan",
                            !.i = 0]
    /\ UNCHANGED <<outside, slot, read_set, jobs, hand>>

(* accept waits for a client, and returns the lowest descriptor free.      *)
Accept ==
    /\ main.pc = "accept"
    /\ backlog # <<>>
    /\ client' = [client EXCEPT ![Head(backlog)] = "in"]
    /\ \E fd \in Fds :
         /\ ~Open(fd) /\ \A f \in 1 .. fd - 1 : Open(f)
         /\ sock' = [sock EXCEPT ![fd] = Head(backlog)]
         /\ main' = [main EXCEPT !.pc = "slot", !.fd = fd]
    /\ backlog' = Tail(backlog)
    /\ UNCHANGED <<inbox, waiting, slot, sets, jobs, hand>>

(* add_conn: the first free slot, its buffers, on_connection, FD_SET (in   *)
(* two steps: it is not atomic), or `Too many clients'.  Buffers and what  *)
(* a use of freed ones does are not modelled.                              *)
FreeSlots == {i \in Slots : connfd[i] = -1}

TakeSlot ==
    /\ main.pc = "slot"
    /\ nready' = nready - 1
    /\ IF FreeSlots = {}
       THEN main' = [main EXCEPT !.pc = "scan", !.i = 0, !.fd = -1] /\ UNCHANGED connfd
       ELSE \E i \in FreeSlots :
              /\ \A k \in FreeSlots : i <= k
              /\ connfd' = [connfd EXCEPT ![i] = main.fd]
              /\ main' = [main EXCEPT !.pc = "load", !.i = i]
    /\ UNCHANGED <<outside, mutex, read_set, ready_set, jobs, hand>>

SetLoad ==
    /\ main.pc = "load"
    /\ main' = [main EXCEPT !.pc = "store", !.word = read_set]
    /\ UNCHANGED <<outside, slot, sets, jobs, hand>>

SetStore ==
    /\ main.pc = "store"
    /\ read_set' = main.word \cup {main.fd}
    /\ main' = [main EXCEPT !.pc = "scan", !.i = 0, !.fd = -1, !.word = {}]
    /\ UNCHANGED <<outside, slot, ready_set, nready, jobs, hand>>

(* The loop over the slots (up to maxi; those above were never used), in   *)
(* one step to the next slot that is ready: only this thread makes slots   *)
(* active, so one it passed over stays so.  What nobody reads again before *)
(* it is set is reset here and below.                                      *)
ReadySlots == {i \in main.i .. FD_SETSIZE - 1 : connfd[i] \in ready_set}

Scan ==
    /\ main.pc = "scan"
    /\ IF ReadySlots = {} \/ nready <= 0
       THEN /\ main' = [main EXCEPT !.pc = "select", !.i = 0]
            /\ ready_set' = {} /\ nready' = 0
       ELSE /\ \E i \in ReadySlots :
                 /\ \A k \in ReadySlots : i <= k
                 /\ main' = [main EXCEPT !.pc = "lock", !.i = i]
            /\ UNCHANGED <<ready_set, nready>>
    /\ UNCHANGED <<outside, slot, read_set, jobs, hand>>

(* Mutant: the mutex is not looked at.                                     *)
TryLock_Always ==
    /\ main.pc = "lock"
    /\ mutex' = [mutex EXCEPT ![main.i] = TRUE]
    /\ nready' = nready - 1
    /\ jobs' = Append(jobs, main.i)
    /\ main' = [main EXCEPT !.pc = "scan", !.i = @ + 1]
    /\ UNCHANGED <<outside, connfd, read_set, ready_set, hand>>

TryLock ==
    /\ main.pc = "lock"
    /\ IF mutex[main.i] THEN UNCHANGED <<mutex, nready, jobs>>
       ELSE /\ mutex' = [mutex EXCEPT ![main.i] = TRUE]
            /\ nready' = nready - 1
            /\ jobs' = Append(jobs, main.i)
    /\ main' = [main EXCEPT !.pc = "scan", !.i = @ + 1]
    /\ UNCHANGED <<outside, connfd, read_set, ready_set, hand>>

Main ==
    \/ Select \/ Selected \/ Accept
    \/ TakeSlot \/ SetLoad \/ SetStore
    \/ Scan \/ TryLock

-----------------------------------------------------------------------------
(* A thread of the pool in handle_read.                                    *)
At(t, k) == hand[t].pc = k
GoOn(t, k) == hand' = [hand EXCEPT ![t].pc = k]

Start(t) ==
    /\ At(t, "idle") /\ jobs # <<>>
    /\ jobs' = Tail(jobs)
    /\ hand' = [hand EXCEPT ![t] =
                  [Idle EXCEPT !.pc = "recv", !.i = Head(jobs), !.fd = connfd[Head(jobs)]]]
    /\ UNCHANGED <<outside, slot, sets, main>>

(* read_to_buffer takes all there is, fails at the end of the stream or on *)
(* a closed descriptor, and with nothing to read tries again and again: no *)
(* step here.                                                              *)
Recv(t) ==
    /\ At(t, "recv")
    /\ LET fd == hand[t].fd
           c == sock[fd]
       IN IF ~Open(fd) THEN GoOn(t, "clear") /\ UNCHANGED inbox
          ELSE /\ Readable(fd)
               /\ IF inbox[c] = "none" THEN GoOn(t, "clear")
                  ELSE hand' = [hand EXCEPT ![t].pc = "reply", ![t].c = c,
                                            ![t].bye = (inbox[c] = "e")]
               /\ inbox' = [inbox EXCEPT ![c] = "none"]
    /\ UNCHANGED <<client, waiting, backlog, sock, slot, sets, main, jobs>>

(* on_recv and send_buffer.                                                *)
Reply(t) ==
    /\ At(t, "reply")
    /\ LET c == sock[hand[t].fd]
       IN waiting' = IF c = NoOne THEN waiting ELSE [waiting EXCEPT ![c] = FALSE]
    /\ hand' = [hand EXCEPT ![t].pc = IF hand[t].bye THEN "clear" ELSE "unlock",
                            ![t].bye = FALSE, ![t].c = NoOne]
    /\ UNCHANGED <<client, inbox, backlog, sock, slot, sets, main, jobs>>

(* free, cleanup and close.  With connfd -1 close fails, and FD_CLR clears *)
(* a bit that is nobody's (the last of the first word).                    *)
Clear(t) ==
    /\ At(t, "clear")
    /\ LET fd == hand[t].fd
       IN IF ~Open(fd) THEN UNCHANGED <<client, inbox, waiting, sock>>
          ELSE /\ client' = [client EXCEPT ![sock[fd]] = "away"]
               /\ inbox' = [inbox EXCEPT ![sock[fd]] = "none"]
               /\ waiting' = [waiting EXCEPT ![sock[fd]] = FALSE]
               /\ sock' = [sock EXCEPT ![fd] = NoOne]
    /\ GoOn(t, IF hand[t].fd = -1 THEN "forget" ELSE "load")
    /\ UNCHANGED <<backlog, connfd, mutex, sets, main, jobs>>

ClrLoad(t) ==
    /\ At(t, "load")
    /\ hand' = [hand EXCEPT ![t].pc = "store", ![t].word = read_set]
    /\ UNCHANGED <<outside, slot, sets, main, jobs>>

ClrStore(t) ==
    /\ At(t, "store")
    /\ read_set' = hand[t].word \ {hand[t].fd}
    /\ hand' = [hand EXCEPT ![t].pc = "forget", ![t].fd = -1, ![t].word = {}]
    /\ UNCHANGED <<outside, slot, ready_set, nready, main, jobs>>

(* Mutants: the slot gets descriptor 0; it keeps its descriptor.           *)
Forget_Zero(t) ==
    /\ At(t, "forget")
    /\ connfd' = [connfd EXCEPT ![hand[t].i] = 0]
    /\ GoOn(t, "unlock")
    /\ UNCHANGED <<outside, mutex, sets, main, jobs>>

Forget_Kept(t) ==
    /\ At(t, "forget")
    /\ GoOn(t, "unlock")
    /\ UNCHANGED <<outside, slot, sets, main, jobs>>

Forget(t) ==
    /\ At(t, "forget")
    /\ connfd' = [connfd EXCEPT ![hand[t].i] = -1]
    /\ GoOn(t, "unlock")
    /\ UNCHANGED <<outside, mutex, sets, main, jobs>>

(* Mutant: the mutex is unlocked only when the client has gone.            *)
Unlock_IfGone(t) ==
    /\ At(t, "unlock")
    /\ mutex' = [mutex EXCEPT ![hand[t].i] = connfd[hand[t].i] # -1]
    /\ hand' = [hand EXCEPT ![t] = Idle]
    /\ UNCHANGED <<outside, connfd, sets, main, jobs>>

Unlock(t) ==
    /\ At(t, "unlock")
    /\ mutex' = [mutex EXCEPT ![hand[t].i] = FALSE]
    /\ hand' = [hand EXCEPT ![t] = Idle]
    /\ UNCHANGED <<outside, connfd, sets, main, jobs>>

handle_read(t) ==
    \/ Start(t) \/ Recv(t) \/ Reply(t) \/ Clear(t)
    \/ ClrLoad(t) \/ ClrStore(t) \/ Forget(t) \/ Unlock(t)

Next ==
    \/ Main
    \/ \E t \in Threads : handle_read(t)
    \/ \E c \in Clients : Connect(c) \/ Send(c) \/ Leave(c)

(* The threads are scheduled; ClientsGoOn adds that everybody who is       *)
(* connected sends another command some day.                               *)
Fairness == WF_vars(Main) /\ \A t \in Threads : WF_vars(handle_read(t))
ClientsGoOn == \A c \in Clients : WF_vars(Send(c))

Spec == Init /\ [][Next]_vars
FairSpec == Spec /\ Fairness
BusySpec == FairSpec /\ ClientsGoOn
-----------------------------------------------------------------------------
(* Properties.                                                             *)
Handling(t) == ~At(t, "idle")
Closing(i) == \E t \in Threads : hand[t].i = i /\ hand[t].pc \in {"load", "store", "forget"}

(* A slot is locked exactly while one job for it is queued or one thread   *)
(* handles it, whoever comes and goes: "make sure only one thread is       *)
(* handling this client".                                                  *)
OneHandler ==
    /\ IsInjective(jobs)
    /\ \A t, u \in Threads : Handling(t) /\ Handling(u) /\ t # u => hand[t].i # hand[u].i
    /\ \A t \in Threads : Handling(t) => hand[t].i \notin ToSet(jobs)
    /\ \A i \in Slots :
         mutex[i] <=> i \in ToSet(jobs) \/ \E t \in Threads : Handling(t) /\ hand[t].i = i

(* While a command is carried out its descriptor is not closed and given   *)
(* to another client, who would get the answer.                            *)
ReplyToAsker == \A t \in Threads : At(t, "reply") => sock[hand[t].fd] = hand[t].c

(* Two slots have one descriptor only while the client of one of them is   *)
(* being closed.                                                           *)
SlotsApart ==
    \A i, k \in Slots : i # k /\ connfd[i] = connfd[k] /\ connfd[i] # -1
        => Closing(i) \/ Closing(k)

(* Descriptors close, are given out again and are cleared late, and still  *)
(* lead to the client they are used for.                                   *)
Descriptors == ReplyToAsker /\ SlotsApart

(* To the pool the loop is a well-behaved user: a slot is added when it is *)
(* neither queued nor handled, which ThreadPool takes for granted.         *)
Pool == INSTANCE JobQueue WITH
            queue <- jobs, Jobs <- Slots, NoJob <- -1,
            running <- [t \in Threads |-> IF Handling(t) THEN hand[t].i ELSE -1]
UsesPool == Pool!Safety

(* Every command is answered, or its client leaves.                        *)
Answered == \A c \in Clients : waiting[c] ~> ~waiting[c]
=============================================================================
