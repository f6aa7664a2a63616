------------------------------ MODULE TcpBuffer ------------------------------
(* tcp_buffer.c: the buffer of one direction of a connection, and the      *)
(* messages in it.  A buffer is its read_index r and the bytes from there  *)
(* to its write_index; a byte is a message and a position in its frame.    *)
EXTENDS Integers, Sequences

CONSTANTS
    TCP_BUF_SIZE,
    Header,      \* bytes of the length in front of a message (4)
    Garbled

ASSUME TcpBufferAssumption == TCP_BUF_SIZE \in Nat \ {0} /\ Header \in Nat \ {0}

Half == TCP_BUF_SIZE \div 2

init_buffer == [r |-> 0, data |-> <<>>]
readable(b) == Len(b.data)
writeable(b) == TCP_BUF_SIZE - (b.r + Len(b.data))

(* memmove to the front once more than half of the buffer has been read.   *)
(* Mutants: the first byte stays behind; only at the very end.             *)
adjust_buffer_OneShort(b) ==
    IF b.r > Half THEN [r |-> 0, data |-> SubSeq(b.data, 2, Len(b.data))] ELSE b

adjust_buffer_AtEnd(b) == IF b.r >= TCP_BUF_SIZE THEN [b EXCEPT !.r = 0] ELSE b

adjust_buffer(b) == IF b.r > Half THEN [b EXCEPT !.r = 0] ELSE b

(* The bytes s have been copied behind write_index; n bytes were read.     *)
recycle_write(b, s) ==
    IF Len(s) > writeable(b) THEN b ELSE adjust_buffer([b EXCEPT !.data = @ \o s])

recycle_read(b, n) ==
    IF b.r + n > TCP_BUF_SIZE THEN b
    ELSE adjust_buffer([r |-> b.r + n, data |-> SubSeq(b.data, n + 1, Len(b.data))])

(* A message is a record with its length in len.  What does not fit is     *)
(* dropped; reply_with_yes and reply_with_no do the same with their prefix *)
(* as part of the message.                                                 *)
Frame(m) == [k \in 1 .. Header + m.len |-> [of |-> m, at |-> k]]

Room(b, m) == writeable(b) >= m.len + Header

(* Mutant: as much of the message as there is room for.                    *)
buffer_append_Cut(b, m) ==
    LET f == Frame(m) n == writeable(b)
    IN recycle_write(b, IF Len(f) <= n THEN f ELSE SubSeq(f, 1, n))

buffer_append(b, m) == IF Room(b, m) THEN recycle_write(b, Frame(m)) ELSE b

(* The first message in the buffer: its length is in its first bytes.      *)
(* What the reader makes of it is the message, or Garbled when the bytes   *)
(* it takes are not its body.                                              *)
FirstLen(b) == b.data[1].of.len
Complete(b) == readable(b) >= Header /\ readable(b) >= FirstLen(b) + Header
Body(m) == SubSeq(Frame(m), Header + 1, Header + m.len)
FirstMessage(b) ==
    IF SubSeq(b.data, Header + 1, Header + FirstLen(b)) = Body(b.data[1].of)
    THEN b.data[1].of ELSE Garbled

TakeFirst(b) == recycle_read(b, FirstLen(b) + Header)
=============================================================================
