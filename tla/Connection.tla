----------------------------- MODULE Connection -----------------------------
(* One client and its slot in the server, byte by byte: client_send and    *)
(* client_recv of client.c's loop, read_to_buffer, handle_read's handling  *)
(* of the messages in its buffer and send_buffer.  The network delivers    *)
(* what was sent, in order, in pieces of any size.                         *)
EXTENDS TcpBuffer

CONSTANTS
    Commands, Replies,  \* lengths of the messages each side sends
    NetSize,            \* what the kernel buffers of one direction hold
    NoMsg

ASSUME ConnectionAssumption ==
    /\ Commands \subseteq Nat /\ Replies \subseteq Nat
    /\ NetSize \in Nat /\ NetSize >= TCP_BUF_SIZE

VARIABLES
    client,   \* where the client is, its last command, and whether
              \* read_to_buffer has read anything (count > 0)
    cw, cr,   \* the client's write_buf and read_buf
    up, down, \* external: the bytes under way to the server and to the client
    server,   \* the job for the slot: where it is, and count > 0
    sr, sw,   \* read_buf and write_buf of the slot
    got,      \* ghost: what client_recv returned last
    lost      \* ghost: the first message that was dropped or got stuck

here == <<client, cw, cr, got>>
there == <<server, sr, sw>>
vars == <<here, there, up, down, lost>>

(* A command is told from the one before it by a bit; a reply says what    *)
(* command it is the reply to.                                             *)
Command == [bit : {0, 1}, len : Commands]
Reply == [re : Command \cup {Garbled}, len : Replies]
ASSUME MessageAssumption == NoMsg \notin Command \cup Reply /\ Garbled \notin Reply

Bytes(M) == [of : M, at : Nat]
Buffer(M) == [r : 0 .. TCP_BUF_SIZE, data : Seq(Bytes(M))]

TypeOK ==
    /\ client \in [pc : {"idle", "send", "recv"}, cmd : Command \cup {NoMsg}, count : BOOLEAN]
    /\ server \in [pc : {"select", "recv", "handle", "send"}, count : BOOLEAN]
    /\ cw \in Buffer(Command) /\ sr \in Buffer(Command) /\ up \in Seq(Bytes(Command))
    /\ sw \in Buffer(Reply) /\ cr \in Buffer(Reply) /\ down \in Seq(Bytes(Reply))
    /\ got \in Reply \cup {NoMsg, Garbled}
    /\ lost \in Command \cup Reply \cup {NoMsg}

Init ==
    /\ client = [pc |-> "idle", cmd |-> NoMsg, count |-> FALSE]
    /\ server = [pc |-> "select", count |-> FALSE]
    /\ cw = init_buffer /\ cr = init_buffer /\ sr = init_buffer /\ sw = init_buffer
    /\ up = <<>> /\ down = <<>>
    /\ got = NoMsg /\ lost = NoMsg

Lose(m) == lost' = IF lost = NoMsg THEN m ELSE lost

-----------------------------------------------------------------------------
(* The client's loop: a command, its answer, the next command.             *)
Send(len) ==
    /\ client.pc = "idle"
    /\ LET m == [bit |-> IF client.cmd = NoMsg THEN 0 ELSE 1 - client.cmd.bit, len |-> len]
       IN /\ client' = [client EXCEPT !.pc = "send", !.cmd = m]
          /\ cw' = buffer_append(cw, m)
          /\ IF Room(cw, m) THEN UNCHANGED lost ELSE Lose(m)
    /\ UNCHANGED <<cr, got, there, up, down>>

(* send_buffer, on a socket that blocks: any part of what is readable at a *)
(* time, until all is sent.                                                *)
Pieces(s, net) == {n \in 1 .. Len(s) : n <= NetSize - Len(net)}

ClientSend ==
    /\ client.pc = "send"
    /\ IF readable(cw) = 0
       THEN /\ client' = [client EXCEPT !.pc = "recv", !.count = FALSE]
            /\ UNCHANGED <<cw, up>>
       ELSE /\ \E n \in Pieces(cw.data, up) :
                 /\ up' = up \o SubSeq(cw.data, 1, n)
                 /\ cw' = recycle_read(cw, n)
            /\ UNCHANGED client
    /\ UNCHANGED <<cr, got, there, down, lost>>

(* client_recv after a read_to_buffer that read something into b: the      *)
(* first message if it is complete, or once more from the socket.          *)
Returned(b) ==
    IF Complete(b)
    THEN /\ got' = FirstMessage(b)
         /\ cr' = TakeFirst(b)
         /\ client' = [client EXCEPT !.pc = "idle", !.count = FALSE]
    ELSE cr' = b /\ client' = [client EXCEPT !.count = FALSE] /\ UNCHANGED got

(* read_to_buffer: as long as a recv fills the buffer it goes on.          *)
Arriving(net, b) == {n \in 1 .. Len(net) : n <= writeable(b)}

ClientRecv ==
    /\ client.pc = "recv" /\ writeable(cr) > 0
    /\ \E n \in Arriving(down, cr) :
         LET b == recycle_write(cr, SubSeq(down, 1, n))
         IN /\ down' = SubSeq(down, n + 1, Len(down))
            /\ IF n = writeable(cr)
               THEN cr' = b /\ client' = [client EXCEPT !.count = TRUE] /\ UNCHANGED got
               ELSE Returned(b)
    /\ UNCHANGED <<cw, there, up, lost>>

(* `read buffer full': with nothing read, client_recv takes that for a     *)
(* closed connection and returns 0.                                        *)
ClientFull ==
    /\ client.pc = "recv" /\ writeable(cr) = 0
    /\ IF client.count THEN Returned(cr) /\ UNCHANGED lost
       ELSE /\ client' = [client EXCEPT !.pc = "idle"]
            /\ Lose(cr.data[1].of)
            /\ UNCHANGED <<cr, got>>
    /\ UNCHANGED <<cw, there, up, down>>

-----------------------------------------------------------------------------
(* The server: select, and a job that is handle_read.                      *)
Select ==
    /\ server.pc = "select" /\ up # <<>>
    /\ server' = [pc |-> "recv", count |-> FALSE]
    /\ UNCHANGED <<here, sr, sw, up, down, lost>>

(* read_to_buffer.  A recv that finds nothing tries again: no step.        *)
ServerRecv ==
    /\ server.pc = "recv" /\ writeable(sr) > 0
    /\ \E n \in Arriving(up, sr) :
         /\ sr' = recycle_write(sr, SubSeq(up, 1, n))
         /\ up' = SubSeq(up, n + 1, Len(up))
         /\ server' = [pc |-> IF n = writeable(sr) THEN "recv" ELSE "handle", count |-> TRUE]
    /\ UNCHANGED <<here, sw, down, lost>>

ServerFull ==
    /\ server.pc = "recv" /\ writeable(sr) = 0
    /\ server' = [server EXCEPT !.pc = IF server.count THEN "handle" ELSE "send"]
    /\ IF server.count THEN UNCHANGED lost ELSE Lose(sr.data[1].of)
    /\ UNCHANGED <<here, sr, sw, up, down>>

(* All complete messages: on_recv, which replies.                          *)
Handle ==
    /\ server.pc = "handle"
    /\ IF Complete(sr)
       THEN /\ \E len \in Replies :
                 LET m == [re |-> FirstMessage(sr), len |-> len]
                 IN /\ sw' = buffer_append(sw, m)
                    /\ IF Room(sw, m) THEN UNCHANGED lost ELSE Lose(m)
            /\ sr' = TakeFirst(sr)
            /\ UNCHANGED server
       ELSE /\ server' = [server EXCEPT !.pc = "send"]
            /\ UNCHANGED <<sr, sw, lost>>
    /\ UNCHANGED <<here, up, down>>

(* send_buffer, on a socket that does not block: when the kernel takes no  *)
(* more, the rest stays for the next job.                                  *)
(* Mutant: one send.                                                       *)
ServerSend_Once ==
    /\ server.pc = "send"
    /\ IF readable(sw) = 0 \/ Len(down) = NetSize
       THEN UNCHANGED <<sw, down>>
       ELSE \E n \in Pieces(sw.data, down) :
              /\ down' = down \o SubSeq(sw.data, 1, n)
              /\ sw' = recycle_read(sw, n)
    /\ server' = [pc |-> "select", count |-> FALSE]
    /\ UNCHANGED <<here, sr, up, lost>>

ServerSend ==
    /\ server.pc = "send"
    /\ IF readable(sw) = 0 \/ Len(down) = NetSize
       THEN server' = [pc |-> "select", count |-> FALSE] /\ UNCHANGED <<sw, down>>
       ELSE /\ \E n \in Pieces(sw.data, down) :
                 /\ down' = down \o SubSeq(sw.data, 1, n)
                 /\ sw' = recycle_read(sw, n)
            /\ UNCHANGED server
    /\ UNCHANGED <<here, sr, up, lost>>

client_recv == ClientRecv \/ ClientFull
handle_read == Select \/ ServerRecv \/ ServerFull \/ Handle \/ ServerSend

Next ==
    \/ \E len \in Commands : Send(len)
    \/ ClientSend \/ client_recv
    \/ handle_read

(* Both programs are scheduled, and the network delivers.                  *)
Spec == Init /\ [][Next]_vars
FairSpec == Spec /\ WF_vars(ClientSend \/ client_recv) /\ WF_vars(handle_read)
-----------------------------------------------------------------------------
(* Properties.                                                             *)
(* What is under way in one direction.                                     *)
ToServer == sr.data \o up \o cw.data
ToClient == cr.data \o down \o sw.data

(* A row of whole frames.                                                  *)
Framed(s) ==
    \A i \in DOMAIN s :
        /\ i = 1 => s[i].at = 1
        /\ IF s[i].at = Header + s[i].of.len
           THEN i < Len(s) => s[i + 1].at = 1
           ELSE i < Len(s) /\ s[i + 1] = [s[i] EXCEPT !.at = @ + 1]

(* Both directions carry whole frames, also after messages were lost: they *)
(* are dropped whole or not at all, and no end ever takes the middle of a  *)
(* message for the start of one, however far the answers are behind.       *)
InFrames == TypeOK /\ Framed(ToServer) /\ Framed(ToClient)

(* Until something is lost a client is given the reply to the command it   *)
(* has sent last, which the server read as it was sent.                    *)
InStep ==
    lost = NoMsg /\ client.pc = "idle" /\ client.cmd # NoMsg
        => got \notin {NoMsg, Garbled} /\ got.re = client.cmd

(* Until something is lost neither the bytes of one direction nor the      *)
(* turns of the two get mixed up, whatever pieces the network delivers and *)
(* the indices do.  (The bytes do not get mixed up after that either.)     *)
Intact == InFrames /\ InStep

(* A message that fits half a buffer is not the first to be dropped or     *)
(* stuck, wherever the messages before it left the indices.                *)
Fits(m) == m.len + Header <= TCP_BUF_SIZE - Half
HalfFits == lost # NoMsg => ~Fits(lost)

(* Every command is answered, or something did not fit.                    *)
Answered == client.pc # "idle" ~> client.pc = "idle" \/ lost # NoMsg
=============================================================================
