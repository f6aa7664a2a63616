------------------------------ MODULE FileEdit ------------------------------
(* What w, i and d do to the text of one file, one step per round of the   *)
(* loops of readi and writei, so that the server can die in the middle of  *)
(* an edit.  The blocks of the file are its own and all mapped (BlockMap   *)
(* says when), and none of them holds inodes, which on a real disk is true *)
(* only of the blocks BlockAlloc calls apart; a block that was never       *)
(* written holds zeroes.                                                   *)
EXTENDS Integers, SequencesExt

CONSTANTS
    B,          \* BSIZE, bytes of a block (512 in the code)
    MAXFILEB,   \* blocks of the longest file
    W,          \* 2^32, the values of an unsigned int
    Bytes       \* bytes of text; 0, the NUL byte, is none of them

ASSUME FileEditAssumption ==
    /\ B \in Nat \ {0} /\ MAXFILEB \in Nat \ {0}
    /\ W \in Nat /\ W > 2 * MAXFILEB * B
    /\ Bytes \subseteq Nat \ {0}

VARIABLES
    blk,        \* on disk: the bytes of each block
    saved,      \* on disk: the size of the file
    size,       \* in memory: ip->size
    cmd,        \* the command in progress
    todo,       \* the calls it has still to make
    tot,        \* how far the loop of the call in progress is
    buf,        \* in memory: what readi has read
    was,        \* ghost: the text when the command began
    spilt       \* history: a command put more than text into the file

vars == <<blk, saved, size, cmd, todo, tot, buf, was, spilt>>

Cap == MAXFILEB * B
Text(n) == [x \in 1 .. n |-> blk[(x - 1) \div B][(x - 1) % B]]
Texts == {<<>>} \cup UNION {[1 .. n -> Bytes] : n \in 1 .. B}

Cmd(k, pos, len, text) == [k |-> k, pos |-> pos, len |-> len, text |-> text]
Idle == Cmd("idle", 0, 0, <<>>)

(* A call to readi, to writei with the text or the buffer, or the          *)
(* assignment of a size, or of a size less n, that an iupdate follows.     *)
Call(k, off, n) == [k |-> k, off |-> off, n |-> n]

TypeOK ==
    /\ blk \in [0 .. MAXFILEB - 1 -> [0 .. B - 1 -> Bytes \cup {0}]]
    /\ saved \in 0 .. Cap /\ size \in 0 .. Cap
    /\ cmd.k \in {"idle", "cat", "w", "i", "d"}
    /\ cmd.k = "idle" => todo = <<>> /\ buf = <<>> /\ tot = 0
    /\ tot \in 0 .. Cap
    /\ Len(buf) <= Cap /\ Len(was) <= Cap
    /\ spilt \in BOOLEAN

Init ==
    /\ blk = [k \in 0 .. MAXFILEB - 1 |-> [o \in 0 .. B - 1 |-> 0]]
    /\ saved = 0 /\ size = 0
    /\ cmd = Idle /\ todo = <<>> /\ tot = 0 /\ buf = <<>>
    /\ was = <<>> /\ spilt = FALSE

-----------------------------------------------------------------------------
(* Commands.  iget reads the size; what follows is planned from it.        *)
Larger(m, n) == IF m > n THEN m ELSE n

Open(c, calls) ==
    /\ cmd = Idle
    /\ cmd' = c /\ todo' = calls
    /\ size' = saved /\ was' = Text(saved)
    /\ UNCHANGED <<blk, saved, tot, buf>>

cmd_cat ==
    /\ Open(Cmd("cat", 0, 0, <<>>), <<Call("read", 0, saved)>>)
    /\ UNCHANGED spilt

cmd_w(text) ==
    /\ Open(Cmd("w", 0, Len(text), text),
            <<Call("text", 0, Len(text))>>
            \o (IF Len(text) < saved THEN <<Call("size", 0, Len(text))>> ELSE <<>>))
    /\ UNCHANGED spilt

(* The size after a writei of n bytes at off, which refuses to begin       *)
(* beyond the end of the file and to go beyond its blocks.                 *)
Grown(off, n) ==
    IF off > saved \/ off + n > Cap THEN saved ELSE Larger(saved, off + n)

(* The tail is read, the text written over it, the tail after the text;    *)
(* the length of the last call is computed from the size after the second. *)
(* Nobody looks at what the calls return, so that any of the two writes    *)
(* may be refused and the other made.                                      *)
(* Mutant: the text is written before the tail is read.                    *)
Spills(pos, len) ==
    pos < saved /\ pos + len > saved /\ Grown(pos, len) + len <= Cap

cmd_i_WriteFirst(pos, text) ==
    LET len == Len(text)
        c == Cmd("i", pos, len, text)
    IN /\ IF pos >= saved
          THEN Open(c, <<Call("text", saved, len)>>)
          ELSE Open(c, <<Call("text", pos, len), Call("read", pos, saved - pos),
                         Call("buf", pos + len, Grown(pos, len) - pos)>>)
       /\ spilt' = (spilt \/ Spills(pos, len))

cmd_i(pos, text) ==
    LET len == Len(text)
        c == Cmd("i", pos, len, text)
    IN /\ IF pos >= saved
          THEN Open(c, <<Call("text", saved, len)>>)
          ELSE Open(c, <<Call("read", pos, saved - pos), Call("text", pos, len),
                         Call("buf", pos + len, Grown(pos, len) - pos)>>)
       /\ spilt' = (spilt \/ Spills(pos, len))

(* pos + len, like the sizes below, is an unsigned int.  Bound: d sets no  *)
(* size that the blocks of a file cannot hold.                             *)
cmd_d(pos, len) ==
    LET end == (pos + len) % W
        copylen == (saved - end) % W
        c == Cmd("d", pos, len, <<>>)
    IN /\ IF end >= saved
          THEN pos <= Cap /\ Open(c, <<Call("size", 0, pos)>>)
          ELSE /\ (Grown(pos, copylen) - len) % W <= Cap
               /\ Open(c, <<Call("read", end, copylen), Call("buf", pos, copylen),
                            Call("less", 0, len)>>)
       /\ spilt' = (spilt \/ pos > saved \/ pos + len >= W)

-----------------------------------------------------------------------------
(* The loops.  n bytes from off, a block or what is left of one at a time. *)
Doing(k) == todo # <<>> /\ Head(todo).k = k
call == Head(todo)
Refused == call.off > size \/ (call.k # "read" /\ call.off + call.n > Cap)
Count ==
    IF Refused THEN 0
    ELSE IF call.k = "read" /\ call.off + call.n > size THEN size - call.off
    ELSE call.n

off == call.off + tot
(* Mutant: the position inside the block is dropped.                       *)
Inside_Zero(o) == 0
Inside(o) == o % B
chunk == IF Count - tot < B - Inside(off) THEN Count - tot ELSE B - Inside(off)

ReadChunk ==
    /\ Doing("read") /\ tot < Count
    /\ buf' = buf \o [x \in 1 .. chunk |-> blk[off \div B][Inside(off) + x - 1]]
    /\ tot' = tot + chunk
    /\ UNCHANGED <<blk, saved, size, cmd, todo, was, spilt>>

(* writei copies from the text or from the buffer, and goes on into the    *)
(* heap beyond the buffer, where there may be any byte (`junk').           *)
Source(x, junk) ==
    IF call.k = "text" THEN cmd.text[x]
    ELSE IF x <= Len(buf) THEN buf[x] ELSE junk

WriteChunk ==
    /\ Doing("text") \/ Doing("buf")
    /\ tot < Count
    /\ \E junk \in Bytes \cup {0} :
         blk' = [blk EXCEPT ![off \div B] =
                    [o \in 0 .. B - 1 |->
                       IF o \in Inside(off) .. Inside(off) + chunk - 1
                       THEN Source(tot + 1 + o - Inside(off), junk) ELSE @[o]]]
    /\ tot' = tot + chunk
    /\ UNCHANGED <<saved, size, cmd, todo, buf, was, spilt>>

(* The end of a call: writei updates the size and the inode.               *)
(* Mutant: the size is one too large.                                      *)
Reached_OneMore(c) == IF c.off + c.n > size THEN c.off + c.n + 1 ELSE size
Reached(c) == IF c.n > 0 /\ c.off + c.n > size THEN c.off + c.n ELSE size

EndRead ==
    /\ Doing("read") /\ tot = Count
    /\ todo' = Tail(todo) /\ tot' = 0
    /\ UNCHANGED <<blk, saved, size, cmd, buf, was, spilt>>

EndWrite ==
    /\ Doing("text") \/ Doing("buf")
    /\ tot = Count
    /\ IF Refused THEN UNCHANGED <<saved, size>>
                  ELSE size' = Reached(call) /\ saved' = size'
    /\ todo' = Tail(todo) /\ tot' = 0
    /\ UNCHANGED <<blk, cmd, buf, was, spilt>>

SetSize ==
    /\ Doing("size") \/ Doing("less")
    /\ size' = IF call.k = "size" THEN call.n ELSE (size - call.n) % W
    /\ saved' = size'
    /\ todo' = Tail(todo)
    /\ UNCHANGED <<blk, cmd, tot, buf, was, spilt>>

(* The command is answered, or the server dies in the middle of it.        *)
Leave ==
    /\ cmd # Idle
    /\ cmd' = Idle /\ todo' = <<>> /\ tot' = 0 /\ buf' = <<>>
    /\ size' = 0 /\ was' = <<>>
    /\ UNCHANGED <<blk, saved, spilt>>

Finish == todo = <<>> /\ Leave
Crash == todo # <<>> /\ Leave

Next ==
    \/ cmd_cat
    \/ \E text \in Texts : cmd_w(text)
    \/ \E pos \in 0 .. Cap, text \in Texts : cmd_i(pos, text)
    \/ \E pos, len \in 0 .. W - 1 : cmd_d(pos, len)
    \/ ReadChunk \/ WriteChunk \/ EndRead \/ EndWrite \/ SetSize
    \/ Finish \/ Crash

Spec == Init /\ [][Next]_vars

-----------------------------------------------------------------------------
(* Properties.  What the commands mean, on sequences.                      *)
Inserted(s, pos, text) ==
    IF pos >= Len(s) THEN s \o text
    ELSE SubSeq(s, 1, pos) \o text \o SubSeq(s, pos + 1, Len(s))
Deleted(s, pos, len) == SubSeq(s, 1, pos) \o SubSeq(s, pos + len + 1, Len(s))

Done(k) == cmd.k = k /\ todo = <<>>

(* After w the file is the text: no tail of a longer file is left.         *)
Replaces == Done("w") => Text(saved) = cmd.text

(* The two writes of i fit into the blocks of the file, and what i leaves  *)
(* when they do not: the text alone, over what there was, or nothing new.  *)
Room ==
    Larger(Len(was), IF cmd.pos < Len(was) THEN cmd.pos + cmd.len ELSE 0) + cmd.len <= Cap
Overwritten(s, pos, text) ==
    SubSeq(s, 1, pos) \o text \o SubSeq(s, pos + Len(text) + 1, Len(s))

(* After i the file begins with what an insertion gives, and that is all   *)
(* of it unless the text reaches beyond the end.  Then the second writei   *)
(* takes the length of the tail from a size that the first has changed,    *)
(* against the comment `[pos, size) -> [pos+len, size+len)' above it       *)
(* (fs.c:576-579), and the file is longer by what the text was beyond the  *)
(* end.  At the limit of inode.c:88 the append is not made, or the tail    *)
(* after the text is lost, or neither write is made: the file is what is   *)
(* said here then.                                                         *)
Inserts ==
    Done("i") =>
        LET goal == Inserted(was, cmd.pos, cmd.text)
            end == cmd.pos + cmd.len
        IN IF Room
           THEN /\ IsPrefix(goal, Text(saved))
                /\ cmd.pos >= Len(was) \/ end <= Len(was) => Text(saved) = goal
                /\ cmd.pos < Len(was) => saved = Larger(Len(was), end) + cmd.len
           ELSE Text(saved) = IF cmd.pos >= Len(was) \/ end > Cap THEN was
                              ELSE Overwritten(was, cmd.pos, cmd.text)

(* d removes the bytes from pos, for every position inside the file and    *)
(* every length that does not wrap.                                        *)
Deletes ==
    Done("d") /\ cmd.pos <= Len(was) /\ cmd.pos + cmd.len < W
        => Text(saved) = Deleted(was, cmd.pos, cmd.len)

(* A command that was answered has left the file with the text its         *)
(* reference definition gives, however the text, the position and the      *)
(* length fall on blocks and on the end of the file.                       *)
Edited == Replaces /\ Inserts /\ Deletes

(* Whatever step of an edit the server dies after, the bytes before the    *)
(* position it was made at are still there.                                *)
BeforePosition ==
    cmd.k \in {"i", "d"} /\ cmd.pos <= Len(was) =>
        IsPrefix(SubSeq(was, 1, cmd.pos), Text(saved))

(* Crash or not, no byte that no command wrote becomes part of the file    *)
(* (cat would end at a NUL), until d is given a position beyond the end or *)
(* lengths that wrap, or i spills the heap; sizes and positions keep their *)
(* types in any case.                                                      *)
TextOnly ==
    /\ TypeOK
    /\ ~spilt => \A x \in 1 .. saved : Text(saved)[x] \in Bytes
=============================================================================
