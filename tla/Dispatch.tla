------------------------------ MODULE Dispatch ------------------------------
(* on_recv and parse of the file server, on several threads: the word in   *)
(* front of a message is taken with strtok before the mutex is locked, the *)
(* arguments behind it are, and strtok remembers where it stopped in one   *)
(* pointer for all threads.  A message is its words, 0 .. words, the name  *)
(* of the command first; every client sends one.                           *)
EXTENDS Integers, Sequences

CONSTANTS
    Clients, NoOne,
    Kinds      \* of messages: words behind the name; whether it is a command;
               \* how many arguments its handler parses

ASSUME DispatchAssumption ==
    /\ NoOne \notin Clients
    /\ \A k \in Kinds : k.words \in Nat /\ k.takes \in Nat /\ k.known \in BOOLEAN

VARIABLES
    msg,      \* the message of each client, in the read buffer of its slot
    ended,    \* the words behind which a delimiter has become a NUL
    olds,     \* where strtok stopped (a static variable of the C library)
    mutex,    \* who has mutex_lock, or NoOne
    pc,       \* the thread that handles the client's message
    from,     \* the pointer strtok(NULL) has read from olds
    argv,     \* the arguments parsed so far, as the words they point to
    touched   \* ghost: somebody else used strtok in this parse or in this message

dispatchvars == <<msg, ended, olds, mutex, pc, from, argv, touched>>

Word(c, k) == [of |-> c, k |-> k]
Pointer == [of : Clients \cup {NoOne}, k : Nat]
Words == [of : Clients, k : Nat]
Nowhere == Word(NoOne, 0)

(* A pointer at a NUL is one behind the last word.                         *)
AtNul(p) == p.of = NoOne \/ p.k > msg[p.of].words
Behind(c) == Word(c, msg[c].words + 1)

DispatchTypeOK ==
    /\ msg \in [Clients -> Kinds]
    /\ ended \in [Clients -> SUBSET Nat]
    /\ \A c \in Clients : ended[c] \subseteq 0 .. msg[c].words
    /\ olds \in Pointer /\ from \in [Clients -> Pointer]
    /\ mutex \in Clients \cup {NoOne}
    /\ pc \in [Clients -> {"name", "lock", "parse", "null", "cut", "run", "done"}]
    /\ argv \in [Clients -> Seq(Words)]
    /\ \A c \in Clients : Len(argv[c]) <= msg[c].takes
    /\ touched \in [Clients -> BOOLEAN]

DispatchInit ==
    /\ msg \in [Clients -> Kinds]
    /\ ended = [c \in Clients |-> {}]
    /\ olds = Nowhere /\ mutex = NoOne
    /\ pc = [c \in Clients |-> "name"]
    /\ from = [c \in Clients |-> Nowhere]
    /\ argv = [c \in Clients |-> <<>>]
    /\ touched = [c \in Clients |-> FALSE]

-----------------------------------------------------------------------------
(* strtok with the pointer p: the word there, its delimiter a NUL from now *)
(* on, and olds behind it, or at the NUL that was there already.           *)
strtok(p) ==
    /\ ended' = IF AtNul(p) THEN ended ELSE [ended EXCEPT ![p.of] = @ \cup {p.k}]
    /\ olds' = IF AtNul(p) THEN p
               ELSE IF p.k \in ended[p.of] THEN Behind(p.of) ELSE Word(p.of, p.k + 1)

Parsing(c) == pc[c] \in {"parse", "null", "cut"} /\ (argv[c] # <<>> \/ pc[c] # "parse")

Touch(c, p) ==
    touched' = [d \in Clients |-> touched[d] \/ (d # c /\ (Parsing(d) \/ p.of = d))]

Goto(c, k) == pc' = [pc EXCEPT ![c] = k]

(* on_recv: the name.  What is no command is answered at once.             *)
Name(c) ==
    /\ pc[c] = "name"
    /\ strtok(Word(c, 0)) /\ Touch(c, Word(c, 0))
    /\ Goto(c, IF msg[c].known THEN "lock" ELSE "done")
    /\ UNCHANGED <<msg, mutex, from, argv>>

(* Mutant: no lock.                                                        *)
Lock_Not(c) ==
    /\ pc[c] = "lock"
    /\ mutex' = c
    /\ Goto(c, IF msg[c].takes = 0 THEN "run" ELSE "parse")
    /\ UNCHANGED <<msg, ended, olds, from, argv, touched>>

Lock(c) ==
    /\ pc[c] = "lock" /\ mutex = NoOne
    /\ mutex' = c
    /\ Goto(c, IF msg[c].takes = 0 THEN "run" ELSE "parse")
    /\ UNCHANGED <<msg, ended, olds, from, argv, touched>>

(* parse: what a call of strtok returned is an argument; it goes on until  *)
(* it has maxargs of them, or none came.  Mutant: one less.                *)
Took_OneLess(c, p) ==
    /\ argv' = IF AtNul(p) THEN argv ELSE [argv EXCEPT ![c] = Append(@, p)]
    /\ Goto(c, IF AtNul(p) \/ Len(argv'[c]) >= msg[c].takes - 1 THEN "run" ELSE "null")

Took(c, p) ==
    /\ argv' = IF AtNul(p) THEN argv ELSE [argv EXCEPT ![c] = Append(@, p)]
    /\ Goto(c, IF AtNul(p) \/ Len(argv'[c]) >= msg[c].takes THEN "run" ELSE "null")

(* strtok(line).  Mutant: strtok(NULL), from where the name ended.         *)
FirstWord_Null(c) ==
    /\ pc[c] = "parse"
    /\ strtok(olds) /\ Touch(c, olds)
    /\ Took(c, olds)
    /\ UNCHANGED <<msg, mutex, from>>

FirstWord(c) ==
    /\ pc[c] = "parse"
    /\ strtok(Word(c, 1)) /\ Touch(c, Word(c, 1))
    /\ Took(c, Word(c, 1))
    /\ UNCHANGED <<msg, mutex, from>>

(* strtok(NULL): it reads olds, and stores it when it has found a word.    *)
Load(c) ==
    /\ pc[c] = "null"
    /\ from' = [from EXCEPT ![c] = olds]
    /\ Goto(c, "cut")
    /\ UNCHANGED <<msg, ended, olds, mutex, argv, touched>>

Cut(c) ==
    /\ pc[c] = "cut"
    /\ strtok(from[c]) /\ Touch(c, from[c])
    /\ Took(c, from[c])
    /\ from' = [from EXCEPT ![c] = Nowhere]
    /\ UNCHANGED <<msg, mutex>>

(* The handler, and the reply.                                             *)
Serve(c) ==
    /\ pc[c] = "run"
    /\ mutex' = NoOne
    /\ Goto(c, "done")
    /\ UNCHANGED <<msg, ended, olds, from, argv, touched>>

AllDone == (\A c \in Clients : pc[c] = "done") /\ UNCHANGED dispatchvars

DispatchNext ==
    \/ \E c \in Clients : Name(c) \/ Lock(c) \/ FirstWord(c) \/ Load(c) \/ Cut(c) \/ Serve(c)
    \/ AllDone

DispatchSpec == DispatchInit /\ [][DispatchNext]_dispatchvars
-----------------------------------------------------------------------------
(* Properties.                                                             *)
Own(c) == {i \in DOMAIN argv[c] : argv[c][i].of = c}

(* The first argument, the file or directory a command is about, is the    *)
(* one its client named.  Behind it come words of its own message in their *)
(* places, until the pointer is another client's: then all that follow are *)
(* other clients'.                                                         *)
FirstIsOwn ==
    /\ DispatchTypeOK
    /\ \A c \in Clients :
         /\ pc[c] = "run" /\ msg[c].takes > 0 =>
              (argv[c] = <<>> <=> msg[c].words = 0)
         /\ argv[c] # <<>> => argv[c][1] = Word(c, 1)
         /\ \E n \in 0 .. Len(argv[c]) : Own(c) = 1 .. n
         /\ \A i \in Own(c) : argv[c][i].k = i

(* A word that came from another client's message is still in its buffer   *)
(* while the command runs that was given it: that message waits for the    *)
(* mutex.  (It is not when the message was no command: its buffer is used  *)
(* for the next one.)                                                      *)
StillThere ==
    \A c \in Clients : pc[c] = "run" =>
        \A i \in DOMAIN argv[c] \ Own(c) :
            LET d == argv[c][i].of IN msg[d].known => pc[d] = "lock"

(* With nobody else in strtok between its name and its last argument a     *)
(* command is given the words its client sent, as many as it takes.        *)
Whole ==
    \A c \in Clients : pc[c] = "run" /\ ~touched[c] =>
        LET n == IF msg[c].takes < msg[c].words THEN msg[c].takes ELSE msg[c].words
        IN argv[c] = [i \in 1 .. n |-> Word(c, i)]
=============================================================================
