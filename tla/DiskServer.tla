----------------------------- MODULE DiskServer -----------------------------
(* The disk server (disk.c and server.c under src/disk) and the file       *)
(* server's read_block, write_block and get_disk_info: one request at a    *)
(* time over a connection that the file server never opens again.  Either  *)
(* process may die at any moment.  Messages arrive whole and in order (see *)
(* Connection: they fit half a buffer).                                    *)
EXTENDS Integers, Sequences

CONSTANTS
    Ncyl, Nsec,  \* geometry the disk server was started with
    Asked,       \* block numbers the file server uses, some not on the disk
    Data,        \* what it writes: blocks, of two bytes each
    Nothing, Unknown,
    MaxKills, MaxCrashes  \* bounds: deaths of the disk server and of the file server

Blocks == 0 .. Ncyl * Nsec - 1
Byte == {0} \cup {v[1] : v \in Data} \cup {v[2] : v \in Data}
Block == [1 .. 2 -> Byte]

ASSUME DiskServerAssumption ==
    /\ Ncyl \in Nat \ {0} /\ Nsec \in Nat \ {0} /\ Asked \subseteq Nat
    /\ Data \subseteq Block
    /\ Unknown \notin Block /\ MaxKills \in Nat /\ MaxCrashes \in Nat

VARIABLES
    fs,       \* the file server: where it is, the call it is in, its _nsec, and
              \* (ghost) whether it took an end of the connection for an answer
    conn,     \* external: the connection, as the file server's kernel sees it
    queue,    \* what the disk server was sent and has not carried out; mine: the
              \* sender is alive
    copied,   \* bytes of the first request's data that memcpy has copied
    answer,   \* the reply under way
    bds,      \* the disk server is up
    disk,     \* the mapped file
    known,    \* ghost: what this file server last read or wrote in each block
    kept,     \* ghost: what the last write to each block was, if acknowledged
    reopened, \* ghost: the disk server has been started again
    kills, crashes

link == <<conn, queue, answer>>
file == <<bds, copied, disk, reopened>>
ghosts == <<known, kept>>
bounds == <<kills, crashes>>
vars == <<fs, link, file, ghosts, bounds>>

Call == [op : {"I"}] \cup [op : {"R"}, b : Asked] \cup [op : {"W"}, b : Asked, data : Data]
Request == [call : Call, mine : BOOLEAN, at : [cyl : Nat, sec : Nat] \cup {Nothing}]
Yes(d) == [ok |-> TRUE, data |-> d]
No == [ok |-> FALSE, data |-> Nothing]
Reply == {Yes(d) : d \in Block \cup {Nothing}} \cup {No}

ASSUME NothingAssumption == Nothing \notin Call \cup Reply

TypeOK ==
    /\ fs \in [pc : {"down", "idle", "sent"}, call : Call \cup {Nothing}, nsec : {0, Nsec},
               misled : BOOLEAN]
    /\ conn \in {"none", "open", "closed", "poked", "reset"}
    /\ queue \in Seq(Request)
    /\ copied \in 0 .. 2
    /\ answer \in Reply \cup {Nothing}
    /\ bds \in BOOLEAN /\ reopened \in BOOLEAN /\ disk \in [Blocks -> Block]
    /\ known \in [Blocks -> Block \cup {Unknown}] /\ kept \in [Blocks -> Block \cup {Unknown}]
    /\ kills \in 0 .. MaxKills /\ crashes \in 0 .. MaxCrashes

Down == [pc |-> "down", call |-> Nothing, nsec |-> 0, misled |-> FALSE]
NoneKnown == [b \in Blocks |-> Unknown]

Init ==
    /\ fs = Down /\ conn = "none" /\ queue = <<>> /\ answer = Nothing
    /\ bds = TRUE /\ copied = 0 /\ reopened = FALSE
    /\ disk = [b \in Blocks |-> <<0, 0>>]
    /\ known = NoneKnown /\ kept = NoneKnown
    /\ kills = 0 /\ crashes = 0

-----------------------------------------------------------------------------
(* The file server.  A request says cylinder and sector.                   *)
(* Mutant: exchanged.                                                      *)
Place_Exchanged(b) == [cyl |-> b % fs.nsec, sec |-> b \div fs.nsec]

Place(b) == [cyl |-> b \div fs.nsec, sec |-> b % fs.nsec]

Message(call) == [call |-> call, mine |-> TRUE,
                  at |-> IF call.op = "I" THEN Nothing ELSE Place(call.b)]

(* diskseverinit and get_disk_info.                                        *)
Connect ==
    /\ fs.pc = "down" /\ bds
    /\ fs' = [Down EXCEPT !.pc = "sent", !.call = [op |-> "I"]]
    /\ conn' = "open"
    /\ queue' = Append(queue, Message([op |-> "I"]))
    /\ UNCHANGED <<answer, file, ghosts, bounds>>

(* client_send.  The first send after the other end has closed is taken,   *)
(* and answered with a reset in its time.  Mutant: it connects again.      *)
client_send_Again(call) ==
    /\ bds \/ conn = "open"
    /\ conn' = "open"
    /\ queue' = Append(queue, Message(call))

client_send(call) ==
    \/ conn = "open" /\ queue' = Append(queue, Message(call)) /\ UNCHANGED conn
    \/ conn \in {"closed", "poked"} /\ conn' = "poked" /\ UNCHANGED queue

Start(call) ==
    /\ fs.pc = "idle" /\ fs.nsec # 0
    /\ client_send(call)
    /\ fs' = [fs EXCEPT !.pc = "sent", !.call = call]
    /\ UNCHANGED <<answer, file, bounds>>

read_block(b) == Start([op |-> "R", b |-> b]) /\ UNCHANGED ghosts

write_block(b, v) ==
    /\ Start([op |-> "W", b |-> b, data |-> v])
    /\ IF conn = "open" /\ b \in Blocks
       THEN known' = [known EXCEPT ![b] = Unknown] /\ kept' = [kept EXCEPT ![b] = Unknown]
       ELSE UNCHANGED ghosts

(* client_recv and what the callers make of the reply.  "No " leaves the   *)
(* buffer of read_block alone, and write_block only logs it.               *)
Receive ==
    /\ fs.pc = "sent" /\ answer # Nothing
    /\ fs' = [fs EXCEPT !.pc = "idle", !.call = Nothing,
                        !.nsec = IF fs.call.op = "I" THEN Nsec ELSE @]
    /\ answer' = Nothing
    /\ known' = CASE fs.call.op = "R" /\ answer.ok -> [known EXCEPT ![fs.call.b] = answer.data]
                  [] fs.call.op = "W" /\ fs.call.b \in Blocks ->
                       [known EXCEPT ![fs.call.b] = fs.call.data]
                  [] OTHER -> known
    /\ kept' = IF fs.call.op = "W" /\ answer.ok
               THEN [kept EXCEPT ![fs.call.b] = fs.call.data] ELSE kept
    /\ UNCHANGED <<conn, queue, file, bounds>>

(* client_recv returns 0, which nobody takes for an error: a block of      *)
(* zeroes was read, or a block was written.                                *)
ReceiveNothing ==
    /\ fs.pc = "sent" /\ answer = Nothing /\ conn # "open"
    /\ fs' = [fs EXCEPT !.pc = "idle", !.call = Nothing, !.misled = @ \/ fs.call.op # "I"]
    /\ UNCHANGED <<link, file, ghosts, bounds>>

(* The next file server starts with new globals; what this one sent will   *)
(* still be carried out.                                                   *)
Dies ==
    /\ fs' = Down /\ conn' = "none" /\ answer' = Nothing
    /\ queue' = [i \in DOMAIN queue |-> [queue[i] EXCEPT !.mine = FALSE]]
    /\ known' = NoneKnown
    /\ UNCHANGED <<file, kept, kills>>

(* Its next call kills it: SIGPIPE from a send after the reset, or a       *)
(* division by the _nsec it was never told.                                *)
Fatal ==
    /\ fs.pc = "idle" /\ (conn = "reset" \/ fs.nsec = 0)
    /\ Dies /\ UNCHANGED crashes

Crash ==
    /\ fs.pc # "down" /\ crashes < MaxCrashes
    /\ Dies /\ crashes' = crashes + 1

-----------------------------------------------------------------------------
(* The disk server: one thread, which takes the requests as they came.     *)
First == queue[1]
On(op) == bds /\ queue # <<>> /\ First.call.op = op
OnDisk == First.at.cyl < Ncyl /\ First.at.sec < Nsec
Number == First.at.cyl * Nsec + First.at.sec

(* A reply to a file server that died reaches nobody.                      *)
Answer(a) ==
    /\ answer' = IF First.mine THEN a ELSE answer
    /\ queue' = Tail(queue)

cmd_i ==
    /\ On("I") /\ Answer(Yes(Nothing))
    /\ UNCHANGED <<fs, conn, file, ghosts, bounds>>

cmd_r ==
    /\ On("R") /\ OnDisk
    /\ Answer(Yes(disk[Number]))
    /\ UNCHANGED <<fs, conn, file, ghosts, bounds>>

(* Mutant: a refused request is left in the buffer and met again.          *)
Refuse_Again ==
    /\ On("R") \/ On("W")
    /\ ~OnDisk
    /\ UNCHANGED vars

Refuse ==
    /\ On("R") \/ On("W")
    /\ ~OnDisk /\ Answer(No)
    /\ UNCHANGED <<fs, conn, file, ghosts, bounds>>

(* memcpy, which a kill may cut short, and msync.                          *)
Copy ==
    /\ On("W") /\ OnDisk /\ copied < 2
    /\ copied' = copied + 1
    /\ disk' = [disk EXCEPT ![Number][copied'] = First.call.data[copied']]
    /\ UNCHANGED <<fs, link, bds, reopened, ghosts, bounds>>

cmd_w ==
    /\ On("W") /\ copied = 2
    /\ copied' = 0
    /\ \E a \in {Yes(Nothing), No} : Answer(a)
    /\ UNCHANGED <<fs, conn, bds, reopened, disk, ghosts, bounds>>

(* The kernel closes the connection, or resets it when a request had not   *)
(* been read.  A reply that was sent before is still there to be read.     *)
Kill ==
    /\ bds /\ kills < MaxKills
    /\ bds' = FALSE /\ kills' = kills + 1
    /\ queue' = <<>> /\ copied' = 0
    /\ IF conn # "open" THEN UNCHANGED conn
       ELSE \/ conn' = "closed"
            \/ conn' = "reset" /\ \E i \in DOMAIN queue : queue[i].mine
    /\ UNCHANGED <<fs, answer, disk, reopened, ghosts, crashes>>

Reset ==
    /\ conn = "poked" /\ conn' = "reset"
    /\ UNCHANGED <<fs, queue, answer, file, ghosts, bounds>>

(* init_disk: to stretch the file it writes a zero to the last byte.       *)
(* Mutant: it starts with an empty file.                                   *)
init_disk_Empty ==
    /\ ~bds /\ bds' = TRUE /\ reopened' = TRUE
    /\ disk' = [b \in Blocks |-> <<0, 0>>]
    /\ UNCHANGED <<fs, link, copied, ghosts, bounds>>

init_disk ==
    /\ ~bds /\ bds' = TRUE /\ reopened' = TRUE
    /\ disk' = [disk EXCEPT ![Ncyl * Nsec - 1][2] = 0]
    /\ UNCHANGED <<fs, link, copied, ghosts, bounds>>

DiskStep == cmd_i \/ cmd_r \/ Refuse \/ Copy \/ cmd_w

Next ==
    \/ Connect \/ Receive \/ ReceiveNothing \/ Fatal \/ Crash
    \/ \E b \in Asked : read_block(b) \/ \E v \in Data : write_block(b, v)
    \/ DiskStep \/ Kill \/ Reset \/ init_disk

(* Processes that are up are scheduled.                                    *)
Spec == Init /\ [][Next]_vars
FairSpec == Spec /\ WF_vars(DiskStep) /\ WF_vars(Receive \/ ReceiveNothing)
-----------------------------------------------------------------------------
(* Properties.                                                             *)
(* What the file server has read or written is on the disk as long as its  *)
(* connection stands, and nobody changes it behind its back, not even      *)
(* requests that an earlier file server left.                              *)
Coherent ==
    /\ TypeOK
    /\ \A b \in Blocks : conn = "open" /\ known[b] # Unknown => disk[b] = known[b]

(* A write that was acknowledged is on the disk until the block is written *)
(* again, whoever dies and restarts; but a restart of the disk server      *)
(* clears the last byte of the last block.                                 *)
Durable ==
    \A b \in Blocks : kept[b] # Unknown =>
        \/ disk[b] = kept[b]
        \/ reopened /\ b = Ncyl * Nsec - 1 /\ disk[b] = [kept[b] EXCEPT ![2] = 0]

(* A file server that took an end of the connection for a block of zeroes, *)
(* or for a block written, has no request on its way to the disk and never *)
(* gets a connection to it again, so what it makes of them stays with it.  *)
Cut == fs.misled => conn # "open" /\ \A i \in DOMAIN queue : ~queue[i].mine

(* Every call returns: with an answer, or without when the disk server has *)
(* died.                                                                   *)
Returns == fs.pc = "sent" ~> fs.pc # "sent"
=============================================================================
