-------------------------- MODULE DiskServerProofs --------------------------
(* Proofs about DiskServer, for any geometry, any requests and any number  *)
(* of deaths.                                                              *)
EXTENDS DiskServer, TLAPS

-----------------------------------------------------------------------------
(* Division by Nsec: where a block is, and that it is found there.         *)
LEMMA Geometry ==
    ASSUME NEW b \in Nat
    PROVE  /\ b \div Nsec \in Nat /\ b % Nsec \in Nat /\ b % Nsec < Nsec
           /\ (b \div Nsec) * Nsec + (b % Nsec) = b
           /\ b \div Nsec < Ncyl <=> b \in Blocks
<1> DEFINE q == b \div Nsec
<1>1. q \in Nat /\ b % Nsec \in Nat /\ b % Nsec < Nsec /\ q * Nsec + (b % Nsec) = b
  BY DiskServerAssumption
<1>2. ASSUME q < Ncyl PROVE b \in Blocks
  <2>1. \A x, y \in Nat : x <= y => x * Nsec <= y * Nsec  BY DiskServerAssumption
  <2>2. (q + 1) * Nsec <= Ncyl * Nsec  BY <1>1, <1>2, <2>1, DiskServerAssumption
  <2>3. (q + 1) * Nsec = q * Nsec + Nsec  BY <1>1, DiskServerAssumption
  <2>4. q * Nsec \in Nat /\ Ncyl * Nsec \in Nat  BY <1>1, DiskServerAssumption
  <2> HIDE DEF q
  <2> QED  BY <1>1, <2>2, <2>3, <2>4, DiskServerAssumption DEF Blocks
<1>3. ASSUME ~(q < Ncyl) PROVE b \notin Blocks
  <2>1. \A x, y \in Nat : x <= y => x * Nsec <= y * Nsec  BY DiskServerAssumption
  <2>2. Ncyl * Nsec <= q * Nsec  BY <1>1, <1>3, <2>1, DiskServerAssumption
  <2>3. q * Nsec \in Nat /\ Ncyl * Nsec \in Nat  BY <1>1, DiskServerAssumption
  <2> HIDE DEF q
  <2>4. b >= Ncyl * Nsec  BY <1>1, <2>2, <2>3
  <2> QED  BY <2>3, <2>4 DEF Blocks
<1> QED  BY <1>1, <1>2, <1>3

-----------------------------------------------------------------------------
(* The inductive invariant.                                                *)
Last == Ncyl * Nsec - 1

(* Requests say where their block is.                                      *)
Placed(r) ==
    IF r.call.op = "I" THEN r.at = Nothing
    ELSE r.call.b \in Nat /\ r.at = [cyl |-> r.call.b \div Nsec, sec |-> r.call.b % Nsec]
Placing == \A i \in DOMAIN queue : Placed(queue[i])

(* A connection that has ended stays ended, and nothing is left on it.     *)
Linked ==
    /\ conn = "open" => bds
    /\ conn # "open" => \A i \in DOMAIN queue : ~queue[i].mine
    /\ conn \in {"closed", "poked", "reset"} \/ ~bds => queue = <<>>
    /\ fs.pc = "down" => fs = Down /\ conn = "none" /\ answer = Nothing /\ known = NoneKnown
    /\ fs.pc # "down" => conn # "none"
    /\ fs.misled => conn # "open"
    /\ fs.pc = "sent" => fs.call \in Call

(* On an open connection one request is under way, the last in the queue;  *)
(* only the first request of a file server finds others before it.         *)
Sent ==
    /\ queue # <<>> /\ queue[Len(queue)].mine /\ queue[Len(queue)].call = fs.call
    /\ \A i \in 1 .. Len(queue) - 1 : ~queue[i].mine

Order ==
    /\ fs.pc = "idle" => answer = Nothing /\ (conn = "open" => queue = <<>>)
    /\ conn = "open" /\ fs.pc = "sent" => IF answer = Nothing THEN Sent ELSE queue = <<>>
    /\ fs.pc = "sent" /\ fs.call.op = "I" => known = NoneKnown

(* A write that stands, but for the byte a restart clears.                 *)
Stands(b, v) ==
    \/ disk[b] = v
    \/ reopened /\ b = Last /\ disk[b] = [v EXCEPT ![2] = 0]

(* A reply under way says how things are.                                  *)
Replied ==
    fs.pc = "sent" /\ answer # Nothing =>
        /\ fs.call.op = "R" /\ answer.ok =>
             /\ fs.call.b \in Blocks /\ answer.data \in Block
             /\ conn = "open" => answer.data = disk[fs.call.b]
        /\ fs.call.op = "W" /\ answer.ok => fs.call.b \in Blocks /\ Stands(fs.call.b, fs.call.data)
        /\ fs.call.op = "W" /\ fs.call.b \in Blocks /\ conn = "open" =>
             disk[fs.call.b] = fs.call.data

(* Nothing is claimed of a block while a write to it waits.                *)
Pending ==
    \A i \in DOMAIN queue :
        queue[i].call.op = "W" /\ queue[i].call.b \in Blocks =>
            known[queue[i].call.b] = Unknown /\ kept[queue[i].call.b] = Unknown

Copying ==
    /\ copied > 0 => On("W") /\ First.call.b \in Blocks
    /\ \A k \in 1 .. copied : disk[First.call.b][k] = First.call.data[k]

KnownIsThere == \A b \in Blocks : conn = "open" /\ known[b] # Unknown => disk[b] = known[b]
KeptStands == \A b \in Blocks : kept[b] # Unknown => Stands(b, kept[b])

DInv ==
    /\ TypeOK /\ Placing /\ Linked /\ Order /\ Replied /\ Pending /\ Copying
    /\ KnownIsThere /\ KeptStands

-----------------------------------------------------------------------------
LEMMA Sizes ==
    /\ Ncyl \in Nat /\ Nsec \in Nat /\ Nsec > 0 /\ Ncyl * Nsec \in Nat
    /\ Last \in Blocks /\ Blocks \subseteq Nat
    /\ \A v \in Data : v \in Block
    /\ 0 \in Byte
<1>1. Ncyl \in Nat /\ Nsec \in Nat /\ Nsec > 0 /\ Ncyl > 0  BY DiskServerAssumption
<1>2. Ncyl * Nsec \in Nat /\ Ncyl * Nsec > 0  BY <1>1
<1>3. Last \in Blocks /\ Blocks \subseteq Nat
  <2> DEFINE p == Ncyl * Nsec
  <2> HIDE DEF p
  <2>1. p \in Nat /\ p > 0  BY <1>2 DEF p
  <2>2. p - 1 \in 0 .. p - 1 /\ 0 .. p - 1 \subseteq Nat  BY <2>1
  <2> QED  BY <2>2 DEF p, Last, Blocks
<1> QED  BY <1>1, <1>2, <1>3, DiskServerAssumption DEF Byte

LEMMA CallTypes ==
    \A c \in Call :
        /\ c # Nothing /\ c.op \in {"I", "R", "W"}
        /\ c.op # "I" => c.b \in Asked /\ c.b \in Nat
        /\ c.op = "W" => c.data \in Data /\ c.data \in Block
  BY NothingAssumption, DiskServerAssumption DEF Call

LEMMA InitDInv == Init => DInv
<1> SUFFICES ASSUME Init PROVE DInv  OBVIOUS
<1>1. disk \in [Blocks -> Block]
  <2>1. <<0, 0>> \in Block  BY Sizes DEF Block
  <2> QED  BY <2>1 DEF Init
<1>2. NoneKnown \in [Blocks -> Block \cup {Unknown}]  BY DEF NoneKnown
<1>3. TypeOK
  <2>1. fs \in [pc : {"down", "idle", "sent"}, call : Call \cup {Nothing}, nsec : {0, Nsec},
                misled : BOOLEAN]
    BY DEF Init, Down
  <2>2. kills \in 0 .. MaxKills /\ crashes \in 0 .. MaxCrashes
    BY DiskServerAssumption DEF Init
  <2>3. queue \in Seq(Request)
    <3>1. <<>> \in Seq(Request)  OBVIOUS
    <3> QED  BY <3>1 DEF Init
  <2>4. known \in [Blocks -> Block \cup {Unknown}] /\ kept \in [Blocks -> Block \cup {Unknown}]
    BY <1>2 DEF Init
  <2>5. copied \in 0 .. 2  BY DEF Init
  <2>6. answer \in Reply \cup {Nothing}  BY DEF Init
  <2>7. bds \in BOOLEAN /\ reopened \in BOOLEAN  BY DEF Init
  <2>8. conn \in {"none", "open", "closed", "poked", "reset"}  BY DEF Init
  <2> QED  BY ONLY <1>1, <2>1, <2>2, <2>3, <2>4, <2>5, <2>6, <2>7, <2>8 DEF TypeOK
<1>4. Placing /\ Linked /\ Order /\ Replied
  BY DEF Init, Placing, Linked, Order, Replied, Down
<1>5. Pending /\ Copying /\ KnownIsThere /\ KeptStands
  BY DEF Init, Pending, Copying, KnownIsThere, KeptStands, NoneKnown
<1> QED  BY <1>3, <1>4, <1>5 DEF DInv

LEMMA QueueTypes ==
    ASSUME TypeOK
    PROVE  /\ queue \in Seq(Request) /\ Len(queue) \in Nat /\ DOMAIN queue = 1 .. Len(queue)
           /\ \A i \in DOMAIN queue : queue[i].call \in Call /\ queue[i].mine \in BOOLEAN
           /\ queue # <<>> => Len(queue) > 0 /\ 1 \in DOMAIN queue
<1>1. queue \in Seq(Request)  BY DEF TypeOK
<1>2. \A i \in DOMAIN queue : queue[i] \in Request  BY <1>1
<1>3. \A r \in Request : r.call \in Call /\ r.mine \in BOOLEAN  BY DEF Request
<1> HIDE DEF TypeOK
<1> QED  BY <1>1, <1>2, <1>3

-----------------------------------------------------------------------------
(* The file server's steps.                                                *)
LEMMA ConnectDInv == ASSUME DInv, Connect PROVE DInv'
<1> DEFINE c == [op |-> "I"]
           r == [call |-> c, mine |-> TRUE, at |-> Nothing]
<1>1. /\ fs.pc = "down" /\ bds
      /\ fs' = [Down EXCEPT !.pc = "sent", !.call = c]
      /\ conn' = "open" /\ answer' = answer /\ bds' = bds /\ copied' = copied /\ disk' = disk
      /\ reopened' = reopened /\ known' = known /\ kept' = kept
      /\ kills' = kills /\ crashes' = crashes
  BY DEF Connect, file, ghosts, bounds
<1>2. queue' = Append(queue, r)  BY DEF Connect, Message
<1>3. c \in Call /\ r \in Request /\ c.op = "I"
  <2>1. c \in Call /\ c.op = "I"  BY DEF Call
  <2> HIDE DEF c
  <2> QED  BY <2>1 DEF Request
<1>4. conn = "none" /\ answer = Nothing /\ known = NoneKnown /\ (\A i \in DOMAIN queue : ~queue[i].mine)
  BY <1>1 DEF DInv, Linked
<1>5. fs' = [pc |-> "sent", call |-> c, nsec |-> 0, misled |-> FALSE]  BY <1>1 DEF Down
<1>6. r.call = c /\ r.mine = TRUE /\ r.at = Nothing  OBVIOUS
<1> HIDE DEF c, r
<1>7. queue \in Seq(Request) /\ Len(queue) \in Nat /\ DOMAIN queue = 1 .. Len(queue)
      /\ (queue # <<>> => Len(queue) > 0)
  BY QueueTypes DEF DInv
<1>8. /\ queue' \in Seq(Request) /\ Len(queue') = Len(queue) + 1 /\ DOMAIN queue' = 1 .. Len(queue) + 1
      /\ queue' # <<>> /\ queue'[Len(queue) + 1] = r
      /\ \A i \in 1 .. Len(queue) : queue'[i] = queue[i]
  BY <1>2, <1>3, <1>7
<1>9. TypeOK'
  <2>1. fs' \in [pc : {"down", "idle", "sent"}, call : Call \cup {Nothing}, nsec : {0, Nsec},
                 misled : BOOLEAN]
    BY <1>3, <1>5
  <2>2. TypeOK  BY DEF DInv
  <2> QED  BY ONLY <1>1, <1>8, <2>1, <2>2 DEF TypeOK
<1>10. Placing'
  BY <1>3, <1>6, <1>7, <1>8 DEF DInv, Placing, Placed
<1>11. Linked'
  <2>1. fs'.pc = "sent" /\ fs'.call \in Call /\ ~fs'.misled  BY <1>3, <1>5
  <2>2. conn' = "open" /\ bds'  BY ONLY <1>1
  <2> QED  BY ONLY <2>1, <2>2 DEF Linked
<1>12. Order'
  BY <1>1, <1>4, <1>5, <1>6, <1>7, <1>8 DEF Order, Sent
<1>13. Replied'  BY <1>1, <1>4 DEF Replied
<1>14. Pending'
  BY <1>1, <1>3, <1>6, <1>7, <1>8 DEF DInv, Pending
<1>15. Copying'
  <2>1. copied > 0 => 1 \in 1 .. Len(queue) /\ queue # <<>>
    BY <1>7 DEF DInv, Copying, On
  <2>2. copied > 0 => queue'[1] = queue[1]  BY <1>8, <2>1
  <2>3. copied \in Nat  BY DEF DInv, TypeOK
  <2>4. copied = 0 => 1 .. copied = {}  OBVIOUS
  <2> QED  BY <1>1, <1>8, <2>1, <2>2, <2>3, <2>4 DEF DInv, Copying, On, First
<1>16. KnownIsThere'  BY <1>1, <1>4 DEF KnownIsThere, NoneKnown
<1>17. KeptStands'  BY <1>1 DEF DInv, KeptStands, Stands
<1> QED
  BY <1>9, <1>10, <1>11, <1>12, <1>13, <1>14, <1>15, <1>16, <1>17 DEF DInv

(* A read or a write that leaves the file server.                          *)
LEMMA StartDInv ==
    ASSUME DInv, NEW c \in Call, c.op # "I", Start(c),
           known' \in [Blocks -> Block \cup {Unknown}], kept' \in [Blocks -> Block \cup {Unknown}],
           \A b \in Blocks : known'[b] \in {known[b], Unknown},
           \A b \in Blocks : kept'[b] \in {kept[b], Unknown},
           conn = "open" /\ c.op = "W" /\ c.b \in Blocks =>
               known'[c.b] = Unknown /\ kept'[c.b] = Unknown
    PROVE  DInv'
<1> DEFINE r == Message(c)
<1>0. fs.pc = "idle" /\ fs.nsec = Nsec
  BY DEF Start, DInv, TypeOK
<1>1. /\ fs' = [fs EXCEPT !.pc = "sent", !.call = c]
      /\ answer' = answer /\ bds' = bds /\ copied' = copied /\ disk' = disk
      /\ reopened' = reopened /\ kills' = kills /\ crashes' = crashes
  BY DEF Start, file, bounds
<1>2. \/ conn = "open" /\ queue' = Append(queue, r) /\ conn' = conn
      \/ conn \in {"closed", "poked"} /\ conn' = "poked" /\ queue' = queue
  BY DEF Start, client_send
<1>3. r.call = c /\ r.mine = TRUE /\ Placed(r) /\ r \in Request
  <2>1. c.b \in Nat  BY CallTypes
  <2>2. r = [call |-> c, mine |-> TRUE, at |-> [cyl |-> c.b \div Nsec, sec |-> c.b % Nsec]]
    BY <1>0 DEF Message, Place
  <2>3. [cyl |-> c.b \div Nsec, sec |-> c.b % Nsec] \in [cyl : Nat, sec : Nat]
    BY <2>1, Geometry
  <2> HIDE DEF r
  <2> QED  BY <2>1, <2>2, <2>3 DEF Placed, Request
<1> HIDE DEF r
<1>4. /\ fs'.pc = "sent" /\ fs'.call = c /\ fs'.misled = fs.misled
      /\ fs' \in [pc : {"down", "idle", "sent"}, call : Call \cup {Nothing}, nsec : {0, Nsec},
                  misled : BOOLEAN]
  BY <1>1 DEF DInv, TypeOK
<1>5. queue \in Seq(Request) /\ Len(queue) \in Nat /\ DOMAIN queue = 1 .. Len(queue)
  BY QueueTypes DEF DInv
<1>6. TypeOK'
  <2>1. queue' \in Seq(Request)  BY <1>2, <1>3, <1>5
  <2>2. conn' \in {"none", "open", "closed", "poked", "reset"}  BY <1>2
  <2> QED  BY <1>1, <1>4, <2>1, <2>2 DEF DInv, TypeOK
<1>7. CASE conn = "open" /\ queue' = Append(queue, r) /\ conn' = conn
  <2>1. queue = <<>> /\ answer = Nothing  BY <1>0, <1>7 DEF DInv, Order
  <2>2. queue' = <<r>> /\ Len(queue') = 1 /\ DOMAIN queue' = {1} /\ queue'[1] = r /\ queue' # <<>>
    BY <1>7, <2>1
  <2>3. Placing'  BY <1>3, <2>2 DEF Placing
  <2>4. Linked'
    BY <1>1, <1>4, <1>7 DEF DInv, Linked
  <2>5. Order'
    <3>1. 1 .. 1 - 1 = {}  OBVIOUS
    <3>2. Sent'  BY <1>3, <1>4, <2>2, <3>1 DEF Sent
    <3> QED  BY <1>1, <1>4, <2>1, <3>2 DEF Order
  <2>6. Replied'  BY <1>1, <2>1 DEF Replied
  <2>7. Pending'  BY <1>3, <1>7, <2>2 DEF Pending
  <2>8. Copying'
    <3>1. copied = 0 /\ 1 .. 0 = {}
      BY <2>1 DEF DInv, TypeOK, Copying, On
    <3> QED  BY <1>1, <3>1 DEF Copying
  <2>9. KnownIsThere'  BY <1>1, <1>7 DEF DInv, KnownIsThere
  <2>10. KeptStands'  BY <1>1 DEF DInv, KeptStands, Stands
  <2> QED  BY <1>6, <2>3, <2>4, <2>5, <2>6, <2>7, <2>8, <2>9, <2>10 DEF DInv
<1>8. CASE conn \in {"closed", "poked"} /\ conn' = "poked" /\ queue' = queue
  <2>1. queue = <<>>  BY <1>8 DEF DInv, Linked
  <2>2. Placing' /\ Pending'  BY <1>8, <2>1 DEF Placing, Pending
  <2>3. Linked'  BY <1>1, <1>4, <1>8, <2>1 DEF DInv, Linked
  <2>4. Order'  BY <1>4, <1>8 DEF Order
  <2>5. Replied'
    BY <1>0, <1>1 DEF DInv, Order, Replied
  <2>6. Copying'
    <3>1. copied = 0 /\ 1 .. 0 = {}
      BY <2>1 DEF DInv, TypeOK, Copying, On
    <3> QED  BY <1>1, <3>1 DEF Copying
  <2>7. KnownIsThere'  BY <1>8 DEF KnownIsThere
  <2>8. KeptStands'  BY <1>1 DEF DInv, KeptStands, Stands
  <2> QED  BY <1>6, <2>2, <2>3, <2>4, <2>5, <2>6, <2>7, <2>8 DEF DInv
<1> QED  BY <1>2, <1>7, <1>8

LEMMA ReadDInv == ASSUME DInv, NEW b \in Asked, read_block(b) PROVE DInv'
<1> DEFINE c == [op |-> "R", b |-> b]
<1>1. c \in Call /\ c.op = "R"  BY DEF Call
<1>2. Start(c) /\ known' = known /\ kept' = kept  BY DEF read_block, ghosts
<1> HIDE DEF c
<1>3. known \in [Blocks -> Block \cup {Unknown}] /\ kept \in [Blocks -> Block \cup {Unknown}]
  BY DEF DInv, TypeOK
<1> QED  BY <1>1, <1>2, <1>3, StartDInv

LEMMA WriteDInv ==
    ASSUME DInv, NEW b \in Asked, NEW v \in Data, write_block(b, v) PROVE DInv'
<1> DEFINE c == [op |-> "W", b |-> b, data |-> v]
<1>1. c \in Call /\ c.op = "W" /\ c.b = b  BY DEF Call
<1>2. Start(c)  BY DEF write_block
<1>3. IF conn = "open" /\ b \in Blocks
      THEN known' = [known EXCEPT ![b] = Unknown] /\ kept' = [kept EXCEPT ![b] = Unknown]
      ELSE known' = known /\ kept' = kept
  BY DEF write_block, ghosts
<1> HIDE DEF c
<1>4. known \in [Blocks -> Block \cup {Unknown}] /\ kept \in [Blocks -> Block \cup {Unknown}]
  BY DEF DInv, TypeOK
<1>5. /\ known' \in [Blocks -> Block \cup {Unknown}] /\ kept' \in [Blocks -> Block \cup {Unknown}]
      /\ \A x \in Blocks : known'[x] \in {known[x], Unknown}
      /\ \A x \in Blocks : kept'[x] \in {kept[x], Unknown}
      /\ conn = "open" /\ b \in Blocks => known'[b] = Unknown /\ kept'[b] = Unknown
  BY <1>3, <1>4
<1> QED  BY <1>1, <1>2, <1>5, StartDInv

(* A queue that is empty as long as the file server is connected to none   *)
(* or has its answer.                                                      *)
LEMMA Answered ==
    ASSUME DInv, fs.pc = "sent", answer # Nothing \/ conn # "open"
    PROVE  queue = <<>> /\ copied = 0
<1>1. conn \in {"none", "open", "closed", "poked", "reset"} /\ conn # "none"
  BY DEF DInv, TypeOK, Linked
<1>2. queue = <<>>  BY <1>1 DEF DInv, Linked, Order
<1> QED  BY <1>2 DEF DInv, TypeOK, Copying, On

LEMMA ReceiveDInv == ASSUME DInv, Receive PROVE DInv'
<1>0. queue = <<>> /\ copied = 0 /\ 1 .. 0 = {}
  BY Answered DEF Receive
<1>1. /\ fs.pc = "sent" /\ answer # Nothing /\ answer' = Nothing
      /\ conn' = conn /\ queue' = queue /\ bds' = bds /\ copied' = copied /\ disk' = disk
      /\ reopened' = reopened /\ kills' = kills /\ crashes' = crashes
  BY DEF Receive, file, bounds
<1>2. /\ fs'.pc = "idle" /\ fs'.misled = fs.misled
      /\ fs' \in [pc : {"down", "idle", "sent"}, call : Call \cup {Nothing}, nsec : {0, Nsec},
                  misled : BOOLEAN]
  BY DEF Receive, DInv, TypeOK
<1>3. /\ known \in [Blocks -> Block \cup {Unknown}] /\ kept \in [Blocks -> Block \cup {Unknown}]
      /\ fs.call \in Call
  BY <1>1 DEF DInv, TypeOK, Linked
<1>4. /\ known' \in [Blocks -> Block \cup {Unknown}]
      /\ \A b \in Blocks : known'[b] # known[b] =>
           b = fs.call.b /\ (conn = "open" => disk[b] = known'[b])
  <2>1. CASE fs.call.op = "R" /\ answer.ok
    <3>1. known' = [known EXCEPT ![fs.call.b] = answer.data]  BY <2>1 DEF Receive
    <3>2. answer.data \in Block /\ (conn = "open" => answer.data = disk[fs.call.b])
      BY <1>1, <2>1 DEF DInv, Replied
    <3> QED  BY ONLY <1>3, <3>1, <3>2
  <2>2. CASE fs.call.op = "W" /\ fs.call.b \in Blocks
    <3>1. known' = [known EXCEPT ![fs.call.b] = fs.call.data]  BY <2>2 DEF Receive
    <3>2. fs.call.data \in Block /\ (conn = "open" => fs.call.data = disk[fs.call.b])
      BY <1>1, <1>3, <2>2, CallTypes DEF DInv, Replied
    <3> QED  BY ONLY <1>3, <3>1, <3>2
  <2>3. CASE ~(fs.call.op = "R" /\ answer.ok) /\ ~(fs.call.op = "W" /\ fs.call.b \in Blocks)
    <3>1. known' = known  BY <2>3 DEF Receive
    <3> QED  BY ONLY <1>3, <3>1
  <2> QED  BY <2>1, <2>2, <2>3
<1>5. /\ kept' \in [Blocks -> Block \cup {Unknown}]
      /\ \A b \in Blocks : kept'[b] # kept[b] => Stands(b, kept'[b])
  <2>1. CASE fs.call.op = "W" /\ answer.ok
    <3>1. kept' = [kept EXCEPT ![fs.call.b] = fs.call.data]  BY <2>1 DEF Receive
    <3>2. fs.call.data \in Block /\ Stands(fs.call.b, fs.call.data)
      BY <1>1, <1>3, <2>1, CallTypes DEF DInv, Replied
    <3> QED  BY ONLY <1>3, <3>1, <3>2
  <2>2. CASE ~(fs.call.op = "W" /\ answer.ok)
    <3>1. kept' = kept  BY <2>2 DEF Receive
    <3> QED  BY ONLY <1>3, <3>1
  <2> QED  BY <2>1, <2>2
<1>6. TypeOK'
  <2>1. TypeOK  BY DEF DInv
  <2> QED  BY ONLY <1>1, <1>2, <1>4, <1>5, <2>1 DEF TypeOK
<1>7. Placing' /\ Pending'  BY <1>0, <1>1 DEF Placing, Pending
<1>8. Linked'  BY <1>0, <1>1, <1>2 DEF DInv, Linked
<1>9. Order' /\ Replied'  BY <1>0, <1>1, <1>2 DEF Order, Replied
<1>10. Copying'  BY <1>0, <1>1 DEF Copying
<1>11. KnownIsThere'  BY <1>1, <1>4 DEF DInv, KnownIsThere
<1>12. KeptStands'
  <2>1. \A b, v : Stands(b, v)' <=> Stands(b, v)  BY <1>1 DEF Stands
  <2> QED  BY <1>5, <2>1 DEF DInv, KeptStands
<1> QED  BY <1>6, <1>7, <1>8, <1>9, <1>10, <1>11, <1>12 DEF DInv

LEMMA ReceiveNothingDInv == ASSUME DInv, ReceiveNothing PROVE DInv'
<1>0. queue = <<>> /\ copied = 0 /\ 1 .. 0 = {}
  BY Answered DEF ReceiveNothing
<1>1. /\ fs.pc = "sent" /\ answer = Nothing /\ answer' = answer /\ conn # "open"
      /\ conn' = conn /\ queue' = queue /\ bds' = bds /\ copied' = copied /\ disk' = disk
      /\ reopened' = reopened /\ kills' = kills /\ crashes' = crashes
      /\ known' = known /\ kept' = kept
  BY DEF ReceiveNothing, link, file, ghosts, bounds
<1>2. /\ fs'.pc = "idle"
      /\ fs' \in [pc : {"down", "idle", "sent"}, call : Call \cup {Nothing}, nsec : {0, Nsec},
                  misled : BOOLEAN]
  BY DEF ReceiveNothing, DInv, TypeOK
<1>3. TypeOK'
  <2>1. TypeOK  BY DEF DInv
  <2> QED  BY ONLY <1>1, <1>2, <2>1 DEF TypeOK
<1>4. Placing' /\ Pending'  BY <1>0, <1>1 DEF Placing, Pending
<1>5. Linked'  BY <1>0, <1>1, <1>2 DEF DInv, Linked
<1>6. Order' /\ Replied'  BY <1>0, <1>1, <1>2 DEF Order, Replied
<1>7. Copying'  BY <1>0, <1>1 DEF Copying
<1>8. KnownIsThere'  BY <1>1 DEF DInv, KnownIsThere
<1>9. KeptStands'  BY <1>1 DEF DInv, KeptStands, Stands
<1> QED  BY <1>3, <1>4, <1>5, <1>6, <1>7, <1>8, <1>9 DEF DInv

LEMMA DiesDInv ==
    ASSUME DInv, Dies, crashes' \in 0 .. MaxCrashes PROVE DInv'
<1>1. /\ fs' = Down /\ conn' = "none" /\ answer' = Nothing /\ known' = NoneKnown
      /\ queue' = [i \in DOMAIN queue |-> [queue[i] EXCEPT !.mine = FALSE]]
      /\ bds' = bds /\ copied' = copied /\ disk' = disk /\ reopened' = reopened
      /\ kept' = kept /\ kills' = kills
  BY DEF Dies, file
<1>2. queue \in Seq(Request) /\ Len(queue) \in Nat /\ DOMAIN queue = 1 .. Len(queue)
  BY QueueTypes DEF DInv
<1> DEFINE g(r) == [r EXCEPT !.mine = FALSE]
<1>3. \A r \in Request :
        g(r) \in Request /\ g(r).mine = FALSE /\ g(r).call = r.call /\ g(r).at = r.at
  BY DEF Request
<1>4. \A i \in 1 .. Len(queue) : queue[i] \in Request  BY <1>2
<1>5. /\ queue' \in Seq(Request) /\ Len(queue') = Len(queue) /\ DOMAIN queue' = 1 .. Len(queue)
      /\ \A i \in 1 .. Len(queue) : queue'[i].mine = FALSE /\ queue'[i].call = queue[i].call
                                    /\ queue'[i].at = queue[i].at
      /\ queue = <<>> <=> queue' = <<>>
  <2>1. queue' = [i \in 1 .. Len(queue) |-> g(queue[i])]  BY <1>1, <1>2
  <2> HIDE DEF g
  <2>2. \A i \in 1 .. Len(queue) : queue'[i] = g(queue[i])  BY <2>1
  <2>3. \A i \in 1 .. Len(queue) :
          queue'[i] \in Request /\ queue'[i].mine = FALSE /\ queue'[i].call = queue[i].call
          /\ queue'[i].at = queue[i].at
    BY <1>3, <1>4, <2>2
  <2>4. queue' \in Seq(Request)
    <3>1. \A i \in 1 .. Len(queue) : g(queue[i]) \in Request  BY <1>3, <1>4
    <3> QED  BY <1>2, <2>1, <3>1
  <2>5. Len(queue') = Len(queue) /\ DOMAIN queue' = 1 .. Len(queue)  BY <1>2, <2>1
  <2> QED  BY <1>2, <2>3, <2>4, <2>5
<1>6. NoneKnown \in [Blocks -> Block \cup {Unknown}]  BY DEF NoneKnown
<1>7. fs' \in [pc : {"down", "idle", "sent"}, call : Call \cup {Nothing}, nsec : {0, Nsec},
               misled : BOOLEAN]
      /\ fs'.pc = "down" /\ fs'.misled = FALSE
  BY <1>1 DEF Down
<1>8. TypeOK'
  <2>1. TypeOK  BY DEF DInv
  <2> QED  BY ONLY <1>1, <1>5, <1>6, <1>7, <2>1, crashes' \in 0 .. MaxCrashes DEF TypeOK
<1>9. Placing'  BY <1>2, <1>5 DEF DInv, Placing, Placed
<1>10. Linked'  BY <1>1, <1>5, <1>7 DEF DInv, Linked
<1>11. Order' /\ Replied'  BY <1>7 DEF Order, Replied
<1>12. Pending'  BY <1>1, <1>2, <1>5 DEF DInv, Pending, NoneKnown
<1>13. Copying'
  <2>1. copied > 0 => queue # <<>> /\ 1 \in 1 .. Len(queue)  BY <1>2 DEF DInv, Copying, On
  <2>2. copied > 0 => queue'[1].call = queue[1].call  BY <1>5, <2>1
  <2>3. copied \in Nat /\ (copied = 0 => 1 .. copied = {})  BY DEF DInv, TypeOK
  <2> QED  BY <1>1, <1>5, <2>1, <2>2, <2>3 DEF DInv, Copying, On, First
<1>14. KnownIsThere'  BY <1>1 DEF KnownIsThere
<1>15. KeptStands'  BY <1>1 DEF DInv, KeptStands, Stands
<1> QED  BY <1>8, <1>9, <1>10, <1>11, <1>12, <1>13, <1>14, <1>15 DEF DInv

LEMMA FatalDInv == ASSUME DInv, Fatal PROVE DInv'
<1>1. Dies /\ crashes' \in 0 .. MaxCrashes  BY DEF Fatal, DInv, TypeOK
<1> QED  BY <1>1, DiesDInv

LEMMA CrashDInv == ASSUME DInv, Crash PROVE DInv'
<1>1. crashes \in 0 .. MaxCrashes /\ crashes < MaxCrashes /\ crashes' = crashes + 1 /\ Dies
  BY DEF Crash, DInv, TypeOK
<1>2. crashes' \in 0 .. MaxCrashes  BY <1>1, DiskServerAssumption
<1> QED  BY <1>1, <1>2, DiesDInv

-----------------------------------------------------------------------------
(* The disk server's steps.                                                *)
(* OnDisk and Number find the block that was asked for.                    *)
LEMMA FirstPlace ==
    ASSUME DInv, queue # <<>>, First.call.op # "I"
    PROVE  /\ OnDisk <=> First.call.b \in Blocks
           /\ Number = First.call.b
<1>1. Placed(First)  BY QueueTypes DEF DInv, Placing, First
<1>2. /\ First.call.b \in Nat
      /\ First.at.cyl = First.call.b \div Nsec /\ First.at.sec = First.call.b % Nsec
  BY <1>1 DEF Placed
<1> QED  BY <1>2, Geometry DEF OnDisk, Number

LEMMA Tails ==
    ASSUME DInv, queue # <<>>
    PROVE  /\ Tail(queue) \in Seq(Request) /\ Len(Tail(queue)) = Len(queue) - 1
           /\ DOMAIN Tail(queue) = 1 .. Len(queue) - 1
           /\ \A i \in 1 .. Len(queue) - 1 : Tail(queue)[i] = queue[i + 1] /\ i + 1 \in DOMAIN queue
           /\ Len(queue) = 1 => Tail(queue) = <<>>
<1>1. queue \in Seq(Request) /\ Len(queue) \in Nat /\ DOMAIN queue = 1 .. Len(queue)
      /\ Len(queue) > 0
  BY QueueTypes DEF DInv
<1>2. Tail(queue) \in Seq(Request) /\ Len(Tail(queue)) = Len(queue) - 1
  BY <1>1
<1>3. \A i \in 1 .. Len(queue) - 1 : Tail(queue)[i] = queue[i + 1]  BY <1>1
<1> QED  BY <1>1, <1>2, <1>3

(* What an answer a to the first request must say.                         *)
Right(a) ==
    /\ First.call.op = "R" /\ a.ok =>
         First.call.b \in Blocks /\ a.data = disk[First.call.b]
    /\ First.call.op = "W" /\ a.ok =>
         First.call.b \in Blocks /\ disk[First.call.b] = First.call.data
    /\ First.call.op = "W" /\ First.call.b \in Blocks =>
         disk[First.call.b] = First.call.data

LEMMA AnswerDInv ==
    ASSUME DInv, bds, queue # <<>>, NEW a \in Reply, Right(a), Answer(a), copied' = 0,
           UNCHANGED <<fs, conn, bds, disk, reopened, known, kept, kills, crashes>>
    PROVE  DInv'
<1>1. /\ queue' = Tail(queue) /\ answer' = IF First.mine THEN a ELSE answer
  BY DEF Answer
<1>2. /\ queue' \in Seq(Request) /\ Len(queue') = Len(queue) - 1
      /\ DOMAIN queue' = 1 .. Len(queue) - 1
      /\ \A i \in 1 .. Len(queue) - 1 : queue'[i] = queue[i + 1] /\ i + 1 \in DOMAIN queue
      /\ Len(queue) = 1 => queue' = <<>>
  BY <1>1, Tails
<1>3. Len(queue) \in Nat /\ Len(queue) > 0 /\ DOMAIN queue = 1 .. Len(queue) /\ 1 \in DOMAIN queue
  BY QueueTypes DEF DInv
<1>4. fs' = fs /\ conn' = conn /\ bds' = bds /\ disk' = disk /\ reopened' = reopened
      /\ known' = known /\ kept' = kept /\ kills' = kills /\ crashes' = crashes
  OBVIOUS
<1>5. a # Nothing  BY NothingAssumption
<1>6. First.mine => conn = "open"  BY <1>3 DEF DInv, Linked, First
<1>7. conn = "open" => fs.pc = "sent" /\ answer = Nothing /\ Sent
  <2>1. fs.pc \in {"down", "idle", "sent"}  BY DEF DInv, TypeOK
  <2> QED  BY <2>1 DEF DInv, Linked, Order
<1>8. fs.pc # "sent" \/ (conn = "open" /\ answer = Nothing)
  BY Answered
<1>9. First.mine => Len(queue) = 1 /\ First.call = fs.call
  <2>1. CASE Len(queue) = 1  BY <1>6, <1>7, <2>1 DEF Sent, First
  <2>2. CASE Len(queue) # 1
    <3>1. 1 \in 1 .. Len(queue) - 1  BY <1>3, <2>2
    <3> QED  BY <1>6, <1>7, <3>1 DEF Sent, First
  <2> QED  BY <2>1, <2>2
<1>10. answer' \in Reply \cup {Nothing}  BY <1>1 DEF DInv, TypeOK
<1>11. TypeOK'
  <2>1. TypeOK  BY DEF DInv
  <2>2. copied' \in 0 .. 2  OBVIOUS
  <2> QED  BY ONLY <1>2, <1>4, <1>10, <2>1, <2>2 DEF TypeOK
<1>12. Placing'  BY <1>2 DEF DInv, Placing, Placed
<1>13. Linked'
  <2>1. \A i \in DOMAIN queue' : queue'[i].mine => conn = "open"
    BY <1>2 DEF DInv, Linked
  <2>2. fs.pc = "down" => answer' = answer  BY <1>1, <1>6, <1>7
  <2>3. ~(conn \in {"closed", "poked", "reset"} \/ ~bds)  BY DEF DInv, Linked
  <2> QED  BY <1>4, <2>1, <2>2, <2>3 DEF DInv, Linked
<1>14. Order'
  <2>1. fs.pc = "idle" => answer' = Nothing /\ conn # "open"
    BY <1>1, <1>6, <1>7 DEF DInv, Order
  <2>2. ASSUME conn = "open", First.mine PROVE answer' # Nothing /\ queue' = <<>>
    BY <1>1, <1>2, <1>5, <1>9, <2>2
  <2>3. ASSUME conn = "open", ~First.mine PROVE answer' = Nothing /\ Sent'
    <3>1. answer' = Nothing  BY <1>1, <1>7, <2>3
    <3>2. Len(queue) # 1  BY <1>7, <2>3 DEF Sent, First
    <3>3. Len(queue) - 1 \in 1 .. Len(queue) - 1 /\ Len(queue) - 1 > 0  BY <1>3, <3>2
    <3>4. queue'[Len(queue')] = queue[Len(queue)]
      <4>1. queue'[Len(queue) - 1] = queue[(Len(queue) - 1) + 1]  BY <1>2, <3>3
      <4> QED  BY <1>2, <1>3, <4>1
    <3>5. queue' # <<>>  BY <1>2, <3>3
    <3>6. \A i \in 1 .. Len(queue') - 1 : ~queue'[i].mine
      <4>1. \A i \in 1 .. Len(queue') - 1 : i \in 1 .. Len(queue) - 1 /\ i + 1 \in 1 .. Len(queue) - 1
        BY <1>2, <1>3
      <4> QED  BY <1>2, <1>7, <2>3, <4>1 DEF Sent
    <3> QED  BY <1>4, <1>7, <2>3, <3>1, <3>4, <3>5, <3>6 DEF Sent
  <2>4. fs.pc = "sent" /\ fs.call.op = "I" => known = NoneKnown  BY DEF DInv, Order
  <2> QED  BY <1>4, <2>1, <2>2, <2>3, <2>4 DEF Order
<1>15. Replied'
  <2>1. ASSUME fs.pc = "sent", answer' # Nothing
        PROVE  conn = "open" /\ First.call = fs.call /\ answer' = a
    BY <1>1, <1>8, <1>9, <2>1
  <2>2. fs.pc = "sent" => fs.call \in Call  BY DEF DInv, Linked
  <2>3. \A b \in Blocks : disk[b] \in Block  BY DEF DInv, TypeOK
  <2> SUFFICES ASSUME fs.pc = "sent", answer' # Nothing PROVE Replied'
    BY <1>4 DEF Replied
  <2>4. First.call = fs.call /\ answer' = a  BY <2>1
  <2>5. fs.call.op = "R" /\ a.ok => fs.call.b \in Blocks /\ a.data = disk[fs.call.b]
    BY <2>4 DEF Right
  <2>6. fs.call.op = "W" /\ a.ok => fs.call.b \in Blocks /\ disk[fs.call.b] = fs.call.data
    BY <2>4 DEF Right
  <2>7. fs.call.op = "W" /\ fs.call.b \in Blocks => disk[fs.call.b] = fs.call.data
    BY <2>4 DEF Right
  <2>8. fs.call.op = "R" /\ a.ok => a.data \in Block  BY <2>3, <2>5
  <2>9. fs'.call.op = "R" /\ answer'.ok =>
          /\ fs'.call.b \in Blocks /\ answer'.data \in Block
          /\ conn' = "open" => answer'.data = disk'[fs'.call.b]
    BY <1>4, <2>4, <2>5, <2>8
  <2>10. fs'.call.op = "W" /\ answer'.ok =>
           fs'.call.b \in Blocks /\ Stands(fs.call.b, fs.call.data)'
    <3>1. \A b, v : disk[b] = v => disk'[b] = v  BY <1>4
    <3>2. \A b, v : disk'[b] = v => Stands(b, v)'  BY DEF Stands
    <3>3. fs'.call = fs.call /\ answer' = a  BY <1>4, <2>4
    <3>4. fs.call.op = "W" /\ a.ok => disk'[fs'.call.b] = fs'.call.data
      BY <2>6, <3>1, <3>3
    <3> QED  BY <2>6, <3>2, <3>3, <3>4
  <2>11. fs'.call.op = "W" /\ fs'.call.b \in Blocks /\ conn' = "open" =>
           disk'[fs'.call.b] = fs'.call.data
    BY <1>4, <2>7
  <2> QED  BY <2>9, <2>10, <2>11 DEF Replied
<1>16. Pending'  BY <1>2, <1>4 DEF DInv, Pending
<1>17. Copying'
  <2>1. 1 .. 0 = {}  OBVIOUS
  <2> QED  BY <2>1 DEF Copying
<1>18. KnownIsThere'  BY <1>4 DEF DInv, KnownIsThere
<1>19. KeptStands'  BY <1>4 DEF DInv, KeptStands, Stands
<1> QED
  BY <1>11, <1>12, <1>13, <1>14, <1>15, <1>16, <1>17, <1>18, <1>19 DEF DInv

LEMMA CmdIDInv == ASSUME DInv, cmd_i PROVE DInv'
<1>1. bds /\ queue # <<>> /\ First.call.op = "I" /\ Answer(Yes(Nothing))  BY DEF cmd_i, On
<1>2. UNCHANGED <<fs, conn, bds, disk, reopened, known, kept, kills, crashes>> /\ copied' = copied
  BY DEF cmd_i, file, ghosts, bounds
<1>3. copied = 0  BY <1>1 DEF DInv, TypeOK, Copying, On
<1>4. Yes(Nothing) \in Reply /\ Right(Yes(Nothing))  BY <1>1 DEF Reply, Right
<1> QED  BY <1>1, <1>2, <1>3, <1>4, AnswerDInv

LEMMA CmdRDInv == ASSUME DInv, cmd_r PROVE DInv'
<1> DEFINE a == Yes(disk[Number])
<1>1. bds /\ queue # <<>> /\ First.call.op = "R" /\ OnDisk /\ Answer(a)  BY DEF cmd_r, On
<1>2. UNCHANGED <<fs, conn, bds, disk, reopened, known, kept, kills, crashes>> /\ copied' = copied
  BY DEF cmd_r, file, ghosts, bounds
<1>3. copied = 0  BY <1>1 DEF DInv, TypeOK, Copying, On
<1>4. Number = First.call.b /\ First.call.b \in Blocks  BY <1>1, FirstPlace
<1>5. disk[Number] \in Block  BY <1>4 DEF DInv, TypeOK
<1>6. a \in Reply  BY <1>5 DEF Reply
<1>7. Right(a)  BY <1>1, <1>4 DEF Right, Yes
<1> HIDE DEF a
<1> QED  BY <1>1, <1>2, <1>3, <1>6, <1>7, AnswerDInv

LEMMA RefuseDInv == ASSUME DInv, Refuse PROVE DInv'
<1>1. bds /\ queue # <<>> /\ First.call.op \in {"R", "W"} /\ ~OnDisk /\ Answer(No)
  BY DEF Refuse, On
<1>2. UNCHANGED <<fs, conn, bds, disk, reopened, known, kept, kills, crashes>> /\ copied' = copied
  BY DEF Refuse, file, ghosts, bounds
<1>3. First.call.b \notin Blocks  BY <1>1, FirstPlace
<1>4. copied = 0  BY <1>3 DEF DInv, TypeOK, Copying
<1>5. No \in Reply /\ Right(No)  BY <1>3 DEF Reply, Right, No
<1> QED  BY <1>1, <1>2, <1>4, <1>5, AnswerDInv

LEMMA CmdWDInv == ASSUME DInv, cmd_w PROVE DInv'
<1>1. bds /\ queue # <<>> /\ First.call.op = "W" /\ copied = 2 /\ copied' = 0  BY DEF cmd_w, On
<1>2. PICK a \in {Yes(Nothing), No} : Answer(a)  BY DEF cmd_w
<1>3. UNCHANGED <<fs, conn, bds, disk, reopened, known, kept, kills, crashes>>
  BY DEF cmd_w, ghosts, bounds
<1>4. a \in Reply  BY DEF Reply
<1>5. First.call.b \in Blocks /\ \A k \in 1 .. 2 : disk[First.call.b][k] = First.call.data[k]
  BY <1>1 DEF DInv, Copying
<1>6. First.call \in Call  BY <1>1, QueueTypes DEF DInv, First
<1>7. disk[First.call.b] \in [1 .. 2 -> Byte] /\ First.call.data \in [1 .. 2 -> Byte]
  BY <1>1, <1>5, <1>6, CallTypes DEF DInv, TypeOK, Block
<1>8. disk[First.call.b] = First.call.data  BY <1>5, <1>7
<1>9. Right(a)  BY <1>1, <1>5, <1>8 DEF Right
<1> QED  BY <1>1, <1>2, <1>3, <1>4, <1>9, AnswerDInv

LEMMA CopyDInv == ASSUME DInv, Copy PROVE DInv'
<1> DEFINE b == First.call.b
           k == copied + 1
           row == [disk[b] EXCEPT ![k] = First.call.data[k]]
<1>1. /\ bds /\ queue # <<>> /\ First.call.op = "W" /\ OnDisk /\ copied < 2 /\ copied' = k
      /\ fs' = fs /\ conn' = conn /\ queue' = queue /\ answer' = answer /\ bds' = bds
      /\ reopened' = reopened /\ known' = known /\ kept' = kept
      /\ kills' = kills /\ crashes' = crashes
  BY DEF Copy, On, link, ghosts, bounds
<1>2. b \in Blocks /\ Number = b  BY <1>1, FirstPlace
<1>3. disk' = [disk EXCEPT ![b] = row]  BY <1>1, <1>2 DEF Copy
<1>4. copied \in Nat /\ k \in 1 .. 2 /\ k \in 0 .. 2 /\ 1 .. k = (1 .. copied) \cup {k}
  BY <1>1 DEF DInv, TypeOK
<1>5. First.call \in Call /\ 1 \in DOMAIN queue  BY <1>1, QueueTypes DEF DInv, First
<1>6. disk \in [Blocks -> Block]  BY DEF DInv, TypeOK
<1>7. disk[b] \in [1 .. 2 -> Byte] /\ First.call.data \in [1 .. 2 -> Byte]
  BY <1>1, <1>2, <1>5, <1>6, CallTypes DEF Block
<1>8. row \in Block /\ row[k] = First.call.data[k]
      /\ \A j \in 1 .. 2 : j # k => row[j] = disk[b][j]
  BY <1>4, <1>7 DEF Block
<1> HIDE DEF row
<1>9. /\ disk' \in [Blocks -> Block] /\ disk'[b] = row
      /\ \A x \in Blocks : x # b => disk'[x] = disk[x]
  BY <1>2, <1>3, <1>6, <1>8
<1>10. known[b] = Unknown /\ kept[b] = Unknown
  BY <1>1, <1>2, <1>5 DEF DInv, Pending, First
<1>11. fs.pc = "sent" => answer = Nothing  BY <1>1, Answered
<1>12. TypeOK'
  <2>1. TypeOK  BY DEF DInv
  <2> QED  BY ONLY <1>1, <1>4, <1>9, <2>1 DEF TypeOK
<1>13. Placing'  BY <1>1 DEF DInv, Placing, Placed
<1>14. Linked'  BY <1>1 DEF DInv, Linked
<1>15. Order'  BY <1>1 DEF DInv, Order, Sent
<1>16. Replied'  BY <1>1, <1>11 DEF Replied
<1>17. Pending'  BY <1>1 DEF DInv, Pending
<1>18. Copying'
  <2>1. First' = First /\ On("W")'  BY <1>1 DEF First, On
  <2>2. \A j \in 1 .. copied : disk[b][j] = First.call.data[j]  BY DEF DInv, Copying
  <2>3. \A j \in 1 .. k : row[j] = First.call.data[j]  BY <1>1, <1>4, <1>8, <2>2
  <2> QED  BY <1>1, <1>2, <1>9, <2>1, <2>3 DEF Copying
<1>19. KnownIsThere'  BY <1>1, <1>9, <1>10 DEF DInv, KnownIsThere
<1>20. KeptStands'  BY <1>1, <1>9, <1>10 DEF DInv, KeptStands, Stands
<1> QED
  BY <1>12, <1>13, <1>14, <1>15, <1>16, <1>17, <1>18, <1>19, <1>20 DEF DInv

LEMMA KillDInv == ASSUME DInv, Kill PROVE DInv'
<1>1. /\ bds' = FALSE /\ kills < MaxKills /\ kills' = kills + 1 /\ queue' = <<>> /\ copied' = 0
      /\ fs' = fs /\ answer' = answer /\ disk' = disk /\ reopened' = reopened
      /\ known' = known /\ kept' = kept /\ crashes' = crashes
  BY DEF Kill, ghosts
<1>2. IF conn # "open" THEN conn' = conn ELSE conn' \in {"closed", "reset"}
  BY DEF Kill
<1>3. conn' \in {"none", "open", "closed", "poked", "reset"} /\ conn' # "open"
      /\ (conn' = "none" <=> conn = "none")
  BY <1>2 DEF DInv, TypeOK
<1>4. TypeOK'
  <2>1. TypeOK  BY DEF DInv
  <2>2. kills' \in 0 .. MaxKills  BY <1>1, DiskServerAssumption DEF DInv, TypeOK
  <2>3. queue' \in Seq(Request)
    <3>1. <<>> \in Seq(Request)  OBVIOUS
    <3> QED  BY <1>1, <3>1
  <2>4. copied' \in 0 .. 2 /\ bds' \in BOOLEAN
    <3>1. copied' \in 0 .. 2  BY <1>1
    <3>2. bds' \in BOOLEAN  BY <1>1
    <3> QED  BY <3>1, <3>2
  <2> QED  BY ONLY <1>1, <1>3, <2>1, <2>2, <2>3, <2>4 DEF TypeOK
<1>5. Placing' /\ Pending'  BY <1>1 DEF Placing, Pending
<1>6. Linked'  BY <1>1, <1>3 DEF DInv, Linked
<1>7. Order'  BY <1>1, <1>3 DEF DInv, Order
<1>8. Replied'  BY <1>1, <1>3 DEF DInv, Replied, Stands
<1>9. Copying'
  <2>1. 1 .. 0 = {}  OBVIOUS
  <2> QED  BY <1>1, <2>1 DEF Copying
<1>10. KnownIsThere'  BY <1>3 DEF KnownIsThere
<1>11. KeptStands'  BY <1>1 DEF DInv, KeptStands, Stands
<1> QED  BY <1>4, <1>5, <1>6, <1>7, <1>8, <1>9, <1>10, <1>11 DEF DInv

LEMMA ResetDInv == ASSUME DInv, Reset PROVE DInv'
<1>1. /\ conn = "poked" /\ conn' = "reset"
      /\ fs' = fs /\ queue' = queue /\ answer' = answer /\ bds' = bds /\ copied' = copied
      /\ disk' = disk /\ reopened' = reopened /\ known' = known /\ kept' = kept
      /\ kills' = kills /\ crashes' = crashes
  BY DEF Reset, file, ghosts, bounds
<1>2. TypeOK'
  <2>1. TypeOK  BY DEF DInv
  <2> QED  BY ONLY <1>1, <2>1 DEF TypeOK
<1>3. Placing' /\ Pending'  BY <1>1 DEF DInv, Placing, Placed, Pending
<1>4. Linked'  BY <1>1 DEF DInv, Linked
<1>5. Order' /\ Replied'  BY <1>1 DEF DInv, Order, Replied, Stands
<1>6. Copying'  BY <1>1 DEF DInv, Copying, On, First
<1>7. KnownIsThere'  BY <1>1 DEF KnownIsThere
<1>8. KeptStands'  BY <1>1 DEF DInv, KeptStands, Stands
<1> QED  BY <1>2, <1>3, <1>4, <1>5, <1>6, <1>7, <1>8 DEF DInv

LEMMA InitDiskDInv == ASSUME DInv, init_disk PROVE DInv'
<1> DEFINE row == [disk[Last] EXCEPT ![2] = 0]
<1>1. /\ ~bds /\ bds' = TRUE /\ reopened' = TRUE
      /\ fs' = fs /\ conn' = conn /\ queue' = queue /\ answer' = answer /\ copied' = copied
      /\ known' = known /\ kept' = kept /\ kills' = kills /\ crashes' = crashes
  BY DEF init_disk, link, ghosts, bounds
<1>2. disk' = [disk EXCEPT ![Last] = row]  BY DEF init_disk, Last
<1>3. disk \in [Blocks -> Block] /\ Last \in Blocks  BY Sizes DEF DInv, TypeOK
<1>4. disk[Last] \in [1 .. 2 -> Byte]  BY <1>3 DEF Block
<1>5. row \in Block  BY <1>4, Sizes DEF Block
<1>6. \A v : disk[Last] = v => row = [v EXCEPT ![2] = 0]  OBVIOUS
<1>7. \A v \in Block : disk[Last] = [v EXCEPT ![2] = 0] => row = [v EXCEPT ![2] = 0]
  <2>1. ASSUME NEW v \in Block, disk[Last] = [v EXCEPT ![2] = 0]
        PROVE  row = [v EXCEPT ![2] = 0]
    <3>1. v \in [1 .. 2 -> Byte]  BY DEF Block
    <3>2. [v EXCEPT ![2] = 0] \in [1 .. 2 -> Byte] /\ [v EXCEPT ![2] = 0][2] = 0
      BY <3>1, Sizes
    <3>3. row \in [1 .. 2 -> Byte] /\ row[2] = 0 /\ row[1] = [v EXCEPT ![2] = 0][1]
      BY <1>4, <2>1, Sizes
    <3>4. \A j \in 1 .. 2 : row[j] = [v EXCEPT ![2] = 0][j]  BY <3>2, <3>3
    <3> QED  BY ONLY <3>2, <3>3, <3>4
  <2> QED  BY <2>1
<1> HIDE DEF row
<1>8. /\ disk' \in [Blocks -> Block] /\ disk'[Last] = row
      /\ \A b \in Blocks : b # Last => disk'[b] = disk[b]
  BY <1>2, <1>3, <1>5
<1>9. \A b \in Blocks : \A v \in Block : Stands(b, v) => Stands(b, v)'
  <2>1. ASSUME NEW b \in Blocks, NEW v \in Block, Stands(b, v) PROVE Stands(b, v)'
    <3>1. CASE b = Last
      BY <1>1, <1>6, <1>7, <1>8, <2>1, <3>1 DEF Stands
    <3>2. CASE b # Last  BY <1>8, <2>1, <3>2 DEF Stands
    <3> QED  BY <3>1, <3>2
  <2> QED  BY <2>1
<1>10. conn # "open" /\ queue = <<>>  BY <1>1 DEF DInv, Linked
<1>11. TypeOK'
  <2>1. TypeOK  BY DEF DInv
  <2> QED  BY ONLY <1>1, <1>8, <2>1 DEF TypeOK
<1>12. Placing' /\ Pending'  BY <1>1, <1>10 DEF Placing, Pending
<1>13. Linked'  BY <1>1, <1>10 DEF DInv, Linked
<1>14. Order'  BY <1>1, <1>10 DEF DInv, Order
<1>15. Replied'
  <2>1. fs.pc = "sent" /\ fs.call.op = "W" => fs.call.data \in Block
    BY CallTypes DEF DInv, Linked
  <2> QED  BY <1>1, <1>9, <1>10, <2>1 DEF DInv, Replied
<1>16. Copying'
  <2>1. copied = 0 /\ 1 .. 0 = {}  BY <1>1 DEF DInv, TypeOK, Copying, On
  <2> QED  BY <1>1, <2>1 DEF Copying
<1>17. KnownIsThere'  BY <1>1, <1>10 DEF KnownIsThere
<1>18. KeptStands'
  <2>1. \A b \in Blocks : kept[b] # Unknown => kept[b] \in Block  BY DEF DInv, TypeOK
  <2> QED  BY <1>1, <1>9, <2>1 DEF DInv, KeptStands
<1> QED
  BY <1>11, <1>12, <1>13, <1>14, <1>15, <1>16, <1>17, <1>18 DEF DInv

LEMMA StepDInv == DInv /\ [Next]_vars => DInv'
<1> SUFFICES ASSUME DInv, [Next]_vars PROVE DInv'  OBVIOUS
<1>1. CASE UNCHANGED vars
  BY <1>1 DEF vars, link, file, ghosts, bounds, DInv, TypeOK, Placing, Placed, Linked, Order,
     Sent, Replied, Stands, Pending, Copying, On, First, KnownIsThere, KeptStands
<1>2. CASE Connect  BY <1>2, ConnectDInv
<1>3. CASE Receive  BY <1>3, ReceiveDInv
<1>4. CASE ReceiveNothing  BY <1>4, ReceiveNothingDInv
<1>5. CASE Fatal  BY <1>5, FatalDInv
<1>6. CASE Crash  BY <1>6, CrashDInv
<1>7. ASSUME NEW b \in Asked, read_block(b) PROVE DInv'  BY <1>7, ReadDInv
<1>8. ASSUME NEW b \in Asked, NEW v \in Data, write_block(b, v) PROVE DInv'
  BY <1>8, WriteDInv
<1>9. CASE cmd_i  BY <1>9, CmdIDInv
<1>10. CASE cmd_r  BY <1>10, CmdRDInv
<1>11. CASE Refuse  BY <1>11, RefuseDInv
<1>12. CASE Copy  BY <1>12, CopyDInv
<1>13. CASE cmd_w  BY <1>13, CmdWDInv
<1>14. CASE Kill  BY <1>14, KillDInv
<1>15. CASE Reset  BY <1>15, ResetDInv
<1>16. CASE init_disk  BY <1>16, InitDiskDInv
<1> QED
  BY <1>1, <1>2, <1>3, <1>4, <1>5, <1>6, <1>7, <1>8, <1>9, <1>10, <1>11, <1>12, <1>13, <1>14,
     <1>15, <1>16 DEF Next, DiskStep

-----------------------------------------------------------------------------
(* The inductive invariant of the two servers: what is in the queue and on *)
(* the way back, and how it agrees with the disk.                          *)
THEOREM DiskInvariance == Spec => []DInv
  BY InitDInv, StepDInv, PTL DEF Spec

(* Whatever dies, what the file server read or wrote is on the disk as     *)
(* long as its connection stands.                                          *)
THEOREM DiskIsCoherent == Spec => []Coherent
<1>1. DInv => Coherent  BY DEF DInv, KnownIsThere, Coherent
<1> QED  BY <1>1, DiskInvariance, PTL

(* An acknowledged write stays on the disk through every death of either   *)
(* process, but for the byte that init_disk clears.                        *)
THEOREM WritesAreDurable == Spec => []Durable
<1>1. DInv => Durable  BY DEF DInv, KeptStands, Stands, Last, Durable
<1> QED  BY <1>1, DiskInvariance, PTL

(* A file server that took an end of the connection for an answer has      *)
(* nothing on its way to the disk and never will have.                     *)
THEOREM MisledIsCutOff == Spec => []Cut
<1>1. DInv => Cut  BY DEF DInv, Linked, Cut
<1> QED  BY <1>1, DiskInvariance, PTL
=============================================================================
