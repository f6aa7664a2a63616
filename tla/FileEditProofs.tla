--------------------------- MODULE FileEditProofs ---------------------------
(* Proofs about FileEdit, for blocks of any size, files of any number of   *)
(* blocks, and any bytes.                                                  *)
EXTENDS FileEdit, SequenceTheorems, TLAPS

-----------------------------------------------------------------------------
(* The inductive invariant.  At(x) is the byte of the file at x, the first *)
(* one at 0.  The history `was' says what the text and the size were when  *)
(* the command began, so each command can be told where it is by the calls *)
(* it has still to make.                                                   *)
At(x) == blk[x \div B][x % B]
Old == Len(was)

Kept(from, to) == \A x \in from .. to - 1 : At(x) = was[x + 1]
Wrote(from, n) == \A x \in 0 .. n - 1 : At(from + x) = cmd.text[x + 1]
Moved(to, from, n) == \A x \in 0 .. n - 1 : At(to + x) = was[from + x + 1]
Has(from, n) == buf = [x \in 1 .. n |-> was[from + x]]
Sizes(n) == size = n /\ saved = n

Words == Bytes \cup {0}
Lines == {text \in Seq(Bytes) : Len(text) <= B}
Numbers == 0 .. W - 1

Types ==
    /\ blk \in [0 .. MAXFILEB - 1 -> [0 .. B - 1 -> Words]]
    /\ saved \in 0 .. Cap /\ size \in 0 .. Cap
    /\ tot \in 0 .. Cap
    /\ was \in Seq(Words) /\ Old <= Cap
    /\ buf \in Seq(Words) /\ Len(buf) <= Cap
    /\ spilt \in BOOLEAN

(* The calls of a loop in progress are at tot; between calls it is 0.      *)
AtIdle == cmd = Idle /\ todo = <<>> /\ buf = <<>> /\ tot = 0 /\ was = <<>>

AtCat ==
    /\ cmd = Cmd("cat", 0, 0, <<>>)
    /\ Sizes(Old) /\ Kept(0, Old)
    /\ \/ todo = <<Call("read", 0, Old)>> /\ tot <= Old /\ Has(0, tot)
       \/ todo = <<>> /\ tot = 0

AtWrite ==
    /\ cmd.text \in Lines /\ cmd = Cmd("w", 0, Len(cmd.text), cmd.text)
    /\ buf = <<>>
    /\ \/ /\ todo = <<Call("text", 0, cmd.len)>>
                    \o (IF cmd.len < Old THEN <<Call("size", 0, cmd.len)>> ELSE <<>>)
          /\ Sizes(Old) /\ tot <= cmd.len /\ Wrote(0, tot) /\ Kept(tot, Old)
       \/ /\ todo = <<Call("size", 0, cmd.len)>> /\ cmd.len < Old
          /\ Sizes(Old) /\ tot = 0 /\ Wrote(0, cmd.len) /\ Kept(cmd.len, Old)
       \/ /\ todo = <<>>
          /\ Sizes(cmd.len) /\ tot = 0 /\ Wrote(0, cmd.len)

(* How much of the text a write at o puts into the file: what would not    *)
(* fit is refused.                                                         *)
Taken(o) == IF o + cmd.len <= Cap THEN cmd.len ELSE 0

AtAppend ==
    /\ cmd.text \in Lines /\ cmd = Cmd("i", cmd.pos, Len(cmd.text), cmd.text)
    /\ cmd.pos \in 0 .. Cap /\ cmd.pos >= Old
    /\ buf = <<>> /\ Kept(0, Old)
    /\ \/ /\ todo = <<Call("text", Old, cmd.len)>>
          /\ Sizes(Old) /\ tot <= Taken(Old) /\ Wrote(Old, tot)
       \/ /\ todo = <<>>
          /\ Sizes(Old + Taken(Old)) /\ tot = 0 /\ Wrote(Old, Taken(Old))

(* The size between the two writes of an insertion, and the tail it moves, *)
(* unless it would not fit.                                                *)
Put == Taken(cmd.pos)
Mid == Larger(Old, cmd.pos + Put)
Fits == Mid + cmd.len <= Cap
ReadTail == Call("read", cmd.pos, Old - cmd.pos)
PutText == Call("text", cmd.pos, cmd.len)
PutTail == Call("buf", cmd.pos + cmd.len, Mid - cmd.pos)

AtInsert ==
    /\ cmd.text \in Lines /\ cmd = Cmd("i", cmd.pos, Len(cmd.text), cmd.text)
    /\ cmd.pos \in 0 .. Cap /\ cmd.pos < Old
    /\ Kept(0, cmd.pos)
    /\ \/ /\ todo = <<ReadTail, PutText, PutTail>>
          /\ Sizes(Old) /\ tot <= Old - cmd.pos
          /\ Has(cmd.pos, tot) /\ Kept(cmd.pos, Old)
       \/ /\ todo = <<PutText, PutTail>>
          /\ Sizes(Old) /\ tot <= Put /\ Has(cmd.pos, Old - cmd.pos)
          /\ Wrote(cmd.pos, tot) /\ Kept(cmd.pos + tot, Old)
       \/ /\ todo = <<PutTail>> /\ Fits
          /\ Sizes(Mid) /\ tot <= Mid - cmd.pos /\ Has(cmd.pos, Old - cmd.pos)
          /\ Wrote(cmd.pos, cmd.len)
          /\ \A x \in 0 .. tot - 1 : x < Old - cmd.pos =>
                 At(cmd.pos + cmd.len + x) = was[cmd.pos + x + 1]
          /\ Kept(cmd.pos + cmd.len + tot, Old)
       \/ /\ todo = <<>> /\ Fits /\ tot = 0
          /\ Sizes(Mid + cmd.len) /\ Wrote(cmd.pos, cmd.len)
          /\ Moved(cmd.pos + cmd.len, cmd.pos, Old - cmd.pos)
       \/ /\ todo = <<PutTail>> \/ todo = <<>>
          /\ ~Fits /\ tot = 0
          /\ Sizes(Mid) /\ Wrote(cmd.pos, Put) /\ Kept(cmd.pos + Put, Old)

(* End is where a deletion ends, Rest the number of bytes that follow.     *)
End == (cmd.pos + cmd.len) % W

AtCut ==
    /\ cmd = Cmd("d", cmd.pos, cmd.len, <<>>)
    /\ cmd.pos \in 0 .. Cap /\ cmd.len \in Numbers /\ End >= Old
    /\ buf = <<>> /\ tot = 0 /\ Kept(0, Old)
    /\ \/ todo = <<Call("size", 0, cmd.pos)>> /\ Sizes(Old)
       \/ todo = <<>> /\ Sizes(cmd.pos)

Rest == Old - End
Then == IF cmd.pos > Old THEN Old ELSE Larger(Old, cmd.pos + Rest)
ReadRest == Call("read", End, Rest)
PutRest == Call("buf", cmd.pos, Rest)
LessLen == Call("less", 0, cmd.len)

AtDelete ==
    /\ cmd = Cmd("d", cmd.pos, cmd.len, <<>>)
    /\ cmd.pos \in Numbers /\ cmd.len \in Numbers /\ End < Old
    /\ Then <= Cap /\ (Then - cmd.len) % W <= Cap
    /\ \/ /\ todo = <<ReadRest, PutRest, LessLen>>
          /\ Sizes(Old) /\ tot <= Rest /\ Has(End, tot) /\ Kept(0, Old)
       \/ /\ todo = <<PutRest, LessLen>>
          /\ Sizes(Old) /\ tot <= Rest /\ Has(End, Rest)
          /\ IF cmd.pos > Old THEN tot = 0 /\ Kept(0, Old)
             ELSE /\ Kept(0, cmd.pos) /\ Moved(cmd.pos, End, tot)
                  /\ Kept(cmd.pos + tot, Old)
       \/ /\ todo = <<LessLen>> \/ todo = <<>>
          /\ Sizes(IF todo = <<>> THEN (Then - cmd.len) % W ELSE Then)
          /\ tot = 0
          /\ IF cmd.pos > Old THEN Kept(0, Old)
             ELSE /\ Kept(0, cmd.pos) /\ Moved(cmd.pos, End, Rest)
                  /\ Kept(cmd.pos + Rest, Old)

Progress ==
    AtIdle \/ AtCat \/ AtWrite \/ AtAppend \/ AtInsert \/ AtCut \/ AtDelete

(* Until something has spilt there is text and nothing else on the disk,   *)
(* and the command in progress does not reach beyond it.                   *)
Inward ==
    /\ cmd.k = "i" /\ cmd.pos < Old => cmd.pos + cmd.len <= Old \/ ~Fits
    /\ cmd.k = "d" => cmd.pos <= Old /\ cmd.pos + cmd.len < W
Clean ==
    ~spilt =>
        /\ \A x \in 0 .. saved - 1 : At(x) \in Bytes
        /\ \A x \in 1 .. Old : was[x] \in Bytes
        /\ Inward

IInv == Types /\ Progress /\ Clean

-----------------------------------------------------------------------------
(* Bytes in blocks.                                                        *)
LEMMA Monotone == \A x, y, z \in Nat : x <= y => x * z <= y * z
OBVIOUS

LEMMA Products == \A x, y \in Nat : x * y \in Nat /\ (x + 1) * y = x * y + y
OBVIOUS

LEMMA BlockSize == B \in Nat /\ B > 0 /\ MAXFILEB \in Nat /\ MAXFILEB > 0
BY FileEditAssumption

LEMMA CapIsNatural == Cap \in Nat /\ B <= Cap /\ W \in Nat /\ W > 2 * Cap
<1>1. Cap \in Nat  BY BlockSize, Products DEF Cap
<1>2. 1 * B <= MAXFILEB * B  BY BlockSize, Monotone
<1>3. 2 * (MAXFILEB * B) = 2 * MAXFILEB * B  BY BlockSize
<1> QED  BY <1>1, <1>2, <1>3, BlockSize, FileEditAssumption DEF Cap

LEMMA Divided ==
    ASSUME NEW x \in Nat
    PROVE  x \div B \in Nat /\ x % B \in 0 .. B - 1 /\ x = (x \div B) * B + (x % B)
BY BlockSize

(* A number has one quotient and one remainder.                            *)
LEMMA OneQuotient ==
    ASSUME NEW a \in Nat, NEW q \in Nat, NEW w \in 0 .. B - 1, NEW s \in 0 .. B - 1,
           a * B + w = q * B + s
    PROVE  a = q
<1>1. a * B \in Nat /\ q * B \in Nat  BY Products, BlockSize
<1>2. ~(q < a)
  <2>1. SUFFICES ASSUME q + 1 <= a PROVE FALSE  OBVIOUS
  <2>2. (q + 1) * B <= a * B  BY <2>1, Monotone, BlockSize
  <2>3. q * B + B <= a * B  BY <2>2, Products, BlockSize
  <2> QED  BY <1>1, <2>3, BlockSize
<1>3. ~(a < q)
  <2>1. SUFFICES ASSUME a + 1 <= q PROVE FALSE  OBVIOUS
  <2>2. (a + 1) * B <= q * B  BY <2>1, Monotone, BlockSize
  <2>3. a * B + B <= q * B  BY <2>2, Products, BlockSize
  <2> QED  BY <1>1, <2>3, BlockSize
<1> QED  BY <1>2, <1>3

LEMMA InFile ==
    ASSUME NEW x \in 0 .. Cap - 1
    PROVE  x \div B \in 0 .. MAXFILEB - 1 /\ x % B \in 0 .. B - 1
<1> DEFINE q == x \div B
<1>1. x \in Nat /\ x < MAXFILEB * B  BY CapIsNatural DEF Cap
<1>2. q \in Nat /\ x % B \in 0 .. B - 1 /\ x = q * B + (x % B)  BY <1>1, Divided
<1>3. q < MAXFILEB
  <2> HIDE DEF q
  <2>1. SUFFICES ASSUME MAXFILEB <= q PROVE FALSE  BY <1>2, BlockSize
  <2>2. MAXFILEB * B <= q * B  BY <1>2, <2>1, Monotone, BlockSize
  <2>3. MAXFILEB * B \in Nat /\ q * B \in Nat  BY <1>2, Products, BlockSize
  <2> QED  BY <1>1, <1>2, <2>2, <2>3
<1> QED  BY <1>2, <1>3, BlockSize

(* c bytes from o that do not leave o's block.                             *)
LEMMA InOneBlock ==
    ASSUME NEW o \in Nat, NEW c \in Nat, (o % B) + c <= B, NEW x \in Nat
    PROVE  /\ o <= x /\ x < o + c <=>
                  x \div B = o \div B /\ x % B \in (o % B) .. (o % B) + c - 1
           /\ x \div B = o \div B => x - o = (x % B) - (o % B)
<1> DEFINE q == x \div B  r == x % B  p == o \div B  s == o % B
<1>1. q \in Nat /\ r \in 0 .. B - 1 /\ x = q * B + r  BY Divided
<1>2. p \in Nat /\ s \in 0 .. B - 1 /\ o = p * B + s  BY Divided
<1>3. s + c <= B  OBVIOUS
<1> HIDE DEF q, r, p, s
<1>4. q * B \in Nat /\ p * B \in Nat  BY <1>1, <1>2, Products, BlockSize
<1>5. q = p => x - o = r - s  BY <1>1, <1>2, <1>4
<1>6. ASSUME o <= x, x < o + c PROVE q = p
  <2>1. s + (x - o) \in 0 .. B - 1 /\ x = p * B + (s + (x - o))
    BY <1>2, <1>3, <1>4, <1>6, BlockSize
  <2>2. q * B + r = p * B + (s + (x - o))  BY <1>1, <2>1
  <2> HIDE DEF q
  <2> QED  BY <1>1, <1>2, <2>1, <2>2, OneQuotient
<1>7. o <= x /\ x < o + c <=> q = p /\ r \in s .. s + c - 1
  BY <1>1, <1>2, <1>5, <1>6
<1> QED  BY <1>5, <1>7 DEF q, r, p, s

(* Reading and writing a chunk.                                            *)
LEMMA ChunkIs ==
    ASSUME call.off \in Nat, tot \in Nat, Count \in Nat, tot < Count
    PROVE  /\ off \in Nat /\ chunk \in Nat /\ chunk > 0
           /\ tot + chunk <= Count /\ (off % B) + chunk <= B
<1>1. off \in Nat  BY DEF off
<1>2. off % B \in 0 .. B - 1  BY <1>1, Divided
<1> QED  BY <1>1, <1>2, BlockSize DEF chunk, Inside

LEMMA ReadsOn ==
    ASSUME Types, ReadChunk, call.off \in Nat, Count \in Nat, call.off + Count <= Cap,
           Len(buf) = tot
    PROVE  /\ tot' \in Nat /\ tot < tot' /\ tot' <= Count
           /\ buf' \in Seq(Words) /\ Len(buf') = tot'
           /\ \A x \in 1 .. tot : buf'[x] = buf[x]
           /\ \A x \in tot + 1 .. tot' : buf'[x] = At(call.off + x - 1)
           /\ UNCHANGED <<blk, saved, size, cmd, todo, was, spilt>>
<1> DEFINE new == [x \in 1 .. chunk |-> blk[off \div B][Inside(off) + x - 1]]
<1>1. /\ tot < Count /\ tot \in Nat /\ buf' = buf \o new /\ tot' = tot + chunk
      /\ UNCHANGED <<blk, saved, size, cmd, todo, was, spilt>>
      /\ buf \in Seq(Words) /\ blk \in [0 .. MAXFILEB - 1 -> [0 .. B - 1 -> Words]]
  BY CapIsNatural DEF ReadChunk, Types
<1>2. /\ off \in Nat /\ chunk \in Nat /\ chunk > 0
      /\ tot + chunk <= Count /\ (off % B) + chunk <= B
  BY <1>1, ChunkIs
<1>3. ASSUME NEW x \in 1 .. chunk
      PROVE  new[x] = At(off + x - 1) /\ new[x] \in Words
  <2> DEFINE y == off + x - 1
  <2>1. y \in Nat /\ off <= y /\ y < off + chunk  BY <1>2
  <2>2. y \in 0 .. Cap - 1  BY <1>2, <2>1, CapIsNatural DEF off
  <2>3. y \div B = off \div B /\ y - off = (y % B) - (off % B)
    BY <1>2, <2>1, InOneBlock
  <2>4. (off % B) + x - 1 = y % B
    <3>1. off % B \in Int /\ y % B \in Int  BY <1>2, <2>1, Divided
    <3> QED  BY <1>2, <2>3, <3>1
  <2>5. new[x] = blk[y \div B][y % B]  BY <2>3, <2>4 DEF Inside
  <2>6. y \div B \in 0 .. MAXFILEB - 1 /\ y % B \in 0 .. B - 1  BY <2>2, InFile
  <2> QED  BY <1>1, <2>5, <2>6 DEF At
<1> HIDE DEF new
<1>4. new \in Seq(Words) /\ Len(new) = chunk
  <2>1. new \in [1 .. chunk -> Words]  BY <1>3 DEF new
  <2> QED  BY <1>2, <2>1
<1>5. /\ buf' \in Seq(Words) /\ Len(buf') = tot + chunk
      /\ \A x \in 1 .. tot + chunk : buf'[x] = IF x <= tot THEN buf[x] ELSE new[x - tot]
  BY <1>1, <1>2, <1>4, ConcatProperties
<1>6. \A x \in tot + 1 .. tot + chunk : buf'[x] = At(call.off + x - 1)
  <2> TAKE x \in tot + 1 .. tot + chunk
  <2>1. x - tot \in 1 .. chunk /\ off + (x - tot) - 1 = call.off + x - 1
    BY <1>1, <1>2 DEF off
  <2>2. buf'[x] = new[x - tot]  BY <1>1, <1>2, <1>5
  <2> QED  BY <1>3, <2>1, <2>2
<1> QED  BY <1>1, <1>2, <1>5, <1>6

LEMMA WritesOn ==
    ASSUME Types, WriteChunk, call.off \in Nat, Count \in Nat, call.off + Count <= Cap,
           \A x \in 1 .. Count, junk \in Words : Source(x, junk) \in Words
    PROVE  /\ tot' \in Nat /\ tot < tot' /\ tot' <= Count
           /\ blk' \in [0 .. MAXFILEB - 1 -> [0 .. B - 1 -> Words]]
           /\ \E junk \in Words : \A x \in 0 .. Cap - 1 :
                  At(x)' = IF call.off + tot <= x /\ x < call.off + tot'
                           THEN Source(x - call.off + 1, junk) ELSE At(x)
           /\ UNCHANGED <<saved, size, cmd, todo, buf, was, spilt>>
<1>1. /\ tot < Count /\ tot \in Nat /\ tot' = tot + chunk
      /\ UNCHANGED <<saved, size, cmd, todo, buf, was, spilt>>
      /\ blk \in [0 .. MAXFILEB - 1 -> [0 .. B - 1 -> Words]]
  BY CapIsNatural DEF WriteChunk, Types
<1>2. /\ off \in Nat /\ chunk \in Nat /\ chunk > 0
      /\ tot + chunk <= Count /\ (off % B) + chunk <= B
  BY <1>1, ChunkIs
<1> DEFINE b == off \div B  s == off % B
<1>3. PICK junk \in Words :
          blk' = [blk EXCEPT ![b] = [o \in 0 .. B - 1 |->
                     IF o \in s .. s + chunk - 1
                     THEN Source(tot + 1 + o - s, junk) ELSE @[o]]]
  BY DEF WriteChunk, Inside, Words
<1>4. s \in 0 .. B - 1 /\ b \in 0 .. MAXFILEB - 1
  <2>1. off \in 0 .. Cap - 1  BY <1>1, <1>2, CapIsNatural DEF off
  <2> QED  BY <2>1, InFile
<1> HIDE DEF b, s
<1>5. /\ \A c \in 0 .. MAXFILEB - 1 : c # b => blk'[c] = blk[c]
      /\ \A o \in 0 .. B - 1 : blk'[b][o] =
             IF o \in s .. s + chunk - 1 THEN Source(tot + 1 + o - s, junk) ELSE blk[b][o]
  BY <1>1, <1>3, <1>4
<1>6. \A o \in s .. s + chunk - 1 : tot + 1 + o - s \in 1 .. Count
  BY <1>1, <1>2, <1>4
<1>7. blk' \in [0 .. MAXFILEB - 1 -> [0 .. B - 1 -> Words]]
  <2> DEFINE new == [o \in 0 .. B - 1 |->
                        IF o \in s .. s + chunk - 1
                        THEN Source(tot + 1 + o - s, junk) ELSE blk[b][o]]
  <2>1. new \in [0 .. B - 1 -> Words]
    <3>1. blk[b] \in [0 .. B - 1 -> Words]  BY <1>1, <1>4
    <3>2. \A o \in 0 .. B - 1 : new[o] \in Words  BY <1>6, <3>1
    <3> QED  BY <3>2
  <2>2. blk' = [blk EXCEPT ![b] = new]  BY <1>3
  <2> QED  BY <1>1, <2>1, <2>2
<1>8. \A x \in 0 .. Cap - 1 :
          At(x)' = IF call.off + tot <= x /\ x < call.off + (tot + chunk)
                   THEN Source(x - call.off + 1, junk) ELSE At(x)
  <2> TAKE x \in 0 .. Cap - 1
  <2>1. x \in Nat /\ x \div B \in 0 .. MAXFILEB - 1 /\ x % B \in 0 .. B - 1
    BY InFile, CapIsNatural
  <2>2. /\ off <= x /\ x < off + chunk <=>
               x \div B = b /\ x % B \in s .. s + chunk - 1
        /\ x \div B = b => x - off = (x % B) - s
    BY <1>2, <2>1, InOneBlock DEF b, s
  <2>3. off = call.off + tot  BY DEF off
  <2>4. At(x)' = blk'[x \div B][x % B]  BY DEF At
  <2>5. CASE off <= x /\ x < off + chunk
    <3>1. At(x)' = Source(tot + 1 + (x % B) - s, junk)  BY <1>5, <2>1, <2>2, <2>4, <2>5
    <3>2. tot + 1 + (x % B) - s = x - call.off + 1
      <4> DEFINE r == x % B
      <4>1. r \in Int /\ s \in Int  BY <1>4, <2>1, BlockSize
      <4>2. x - off = r - s  BY <2>2, <2>5
      <4> HIDE DEF r
      <4>3. tot + 1 + r - s = x - call.off + 1  BY <1>1, <2>1, <2>3, <4>1, <4>2
      <4> QED  BY <4>3 DEF r
    <3> QED  BY <1>1, <1>2, <2>1, <2>3, <2>5, <3>1, <3>2
  <2>6. CASE ~(off <= x /\ x < off + chunk)
    <3>1. blk'[x \div B][x % B] = blk[x \div B][x % B]  BY <1>5, <2>1, <2>2, <2>6
    <3> QED  BY <1>1, <1>2, <2>1, <2>3, <2>4, <2>6, <3>1 DEF At
  <2> QED  BY <2>5, <2>6
<1> QED  BY <1>1, <1>2, <1>7, <1>8

-----------------------------------------------------------------------------
(* The calls of a command, one after the other.                            *)
LEMMA Records ==
    /\ \A k, p, n, t : LET c == Cmd(k, p, n, t)
                       IN c.k = k /\ c.pos = p /\ c.len = n /\ c.text = t
    /\ \A k, o, n : LET c == Call(k, o, n) IN c.k = k /\ c.off = o /\ c.n = n
BY DEF Cmd, Call

LEMMA Lists ==
    /\ \A a : Head(<<a>>) = a /\ Tail(<<a>>) = <<>> /\ <<a>> # <<>>
    /\ \A a, b : Head(<<a, b>>) = a /\ Tail(<<a, b>>) = <<b>> /\ <<a, b>> # <<>>
    /\ \A a, b, c : /\ Head(<<a, b, c>>) = a /\ Tail(<<a, b, c>>) = <<b, c>>
                    /\ <<a, b, c>> # <<>>
OBVIOUS

LEMMA Joined ==
    /\ \A a : <<a>> \o <<>> = <<a>>
    /\ \A a, c : <<a>> \o <<c>> = <<a, c>>
<1>1. ASSUME NEW a PROVE <<a>> \o <<>> = <<a>>
  <2>1. <<a>> \in Seq({a})  OBVIOUS
  <2> QED  BY <2>1, ConcatEmptySeq
<1>2. ASSUME NEW a, NEW c PROVE <<a>> \o <<c>> = <<a, c>>
  <2> DEFINE S == {a, c}  s == <<a>>  t == <<c>>
  <2>1. s \in Seq(S) /\ t \in Seq(S) /\ Len(s) = 1 /\ Len(t) = 1 /\ s[1] = a /\ t[1] = c
    OBVIOUS
  <2> HIDE DEF s, t
  <2>2. s \o t \in Seq(S) /\ Len(s \o t) = 2 /\ (s \o t)[1] = a /\ (s \o t)[2] = c
    BY <2>1, ConcatProperties
  <2>3. <<a, c>> \in Seq(S) /\ Len(<<a, c>>) = 2  OBVIOUS
  <2>5. <<a, c>>[1] = a /\ <<a, c>>[2] = c  OBVIOUS
  <2>6. \A i \in 1 .. 2 : i = 1 \/ i = 2  OBVIOUS
  <2>7. \A i \in 1 .. 2 : (s \o t)[i] = <<a, c>>[i]  BY <2>2, <2>5, <2>6, Zenon
  <2>4. s \o t = <<a, c>>  BY <2>2, <2>3, <2>7, SeqEqual
  <2> QED  BY <2>4 DEF s, t
<1> QED  BY <1>1, <1>2

(* While a command is in progress no other begins.                         *)
LEMMA InProgress ==
    ASSUME Next, cmd # Idle
    PROVE  ReadChunk \/ WriteChunk \/ EndRead \/ EndWrite \/ SetSize \/ Finish \/ Crash
BY DEF Next, cmd_cat, cmd_w, cmd_i, cmd_d, Open

LEMMA TheCall ==
    ASSUME Next, cmd # Idle, todo # <<>>, NEW k, NEW o, NEW n, Head(todo) = Call(k, o, n)
    PROVE  \/ k = "read" /\ (ReadChunk \/ EndRead)
           \/ k \in {"text", "buf"} /\ (WriteChunk \/ EndWrite)
           \/ k \in {"size", "less"} /\ SetSize
           \/ Crash
<1>1. Head(todo).k = k  BY Records
<1> QED
  BY <1>1, InProgress
  DEF ReadChunk, WriteChunk, EndRead, EndWrite, SetSize, Finish, Doing

LEMMA NoCall ==
    ASSUME Next, cmd # Idle, todo = <<>> PROVE Finish
BY InProgress DEF ReadChunk, WriteChunk, EndRead, EndWrite, SetSize, Crash, Doing

LEMMA Reads ==
    ASSUME Types, ReadChunk, NEW o \in Nat, NEW n \in Nat,
           Head(todo) = Call("read", o, n), o + n <= size, Has(o, tot),
           \A x \in o .. o + n - 1 : At(x) = was[x + 1]
    PROVE  /\ Types' /\ tot' <= n /\ Has(o, tot)'
           /\ UNCHANGED <<blk, saved, size, cmd, todo, was, spilt>>
<1>1. call.off = o /\ Count = n /\ call.off + Count <= Cap
  BY Records, CapIsNatural DEF call, Count, Refused, Types
<1>2. Len(buf) = tot /\ \A x \in 1 .. tot : buf[x] = was[o + x]
  BY CapIsNatural DEF Has, Types
<1>3. /\ tot' \in Nat /\ tot < tot' /\ tot' <= n
      /\ buf' \in Seq(Words) /\ Len(buf') = tot'
      /\ \A x \in 1 .. tot : buf'[x] = buf[x]
      /\ \A x \in tot + 1 .. tot' : buf'[x] = At(o + x - 1)
      /\ UNCHANGED <<blk, saved, size, cmd, todo, was, spilt>>
  BY <1>1, <1>2, ReadsOn
<1>4. Types'  BY <1>1, <1>3, CapIsNatural DEF Types, Old
<1>5. \A x \in 1 .. tot' : buf'[x] = was[o + x]
  <2> TAKE x \in 1 .. tot'
  <2>1. tot \in Nat  BY CapIsNatural DEF Types, Old
  <2>2. CASE x <= tot  BY <1>2, <1>3, <2>1, <2>2
  <2>3. CASE x > tot
    <3>1. buf'[x] = At(o + x - 1)  BY <1>3, <2>1, <2>3
    <3>2. At(o + x - 1) = was[o + x - 1 + 1]  BY <1>3, <2>1
    <3>3. o + x - 1 + 1 = o + x  BY <1>3
    <3> QED  BY <3>1, <3>2, <3>3
  <2> QED  BY <2>1, <2>2, <2>3, <1>3
<1>6. buf' = [x \in 1 .. tot' |-> was[o + x]]
  <2>1. buf' = [x \in 1 .. tot' |-> buf'[x]]  BY <1>3
  <2> QED  BY <1>5, <2>1, Zenon
<1> QED  BY <1>3, <1>4, <1>6 DEF Has

LEMMA EndsReading ==
    ASSUME Types, EndRead, NEW o \in Nat, NEW n \in Nat,
           Head(todo) = Call("read", o, n), o + n <= size
    PROVE  /\ Types' /\ tot = n /\ tot' = 0 /\ todo' = Tail(todo)
           /\ UNCHANGED <<blk, saved, size, cmd, buf, was, spilt>>
<1>1. Count = n  BY Records, CapIsNatural DEF call, Count, Refused, Types
<1>2. /\ tot = n /\ tot' = 0 /\ todo' = Tail(todo)
      /\ UNCHANGED <<blk, saved, size, cmd, buf, was, spilt>>
  BY <1>1 DEF EndRead
<1> QED  BY <1>2, CapIsNatural DEF Types, Old

(* A byte a write puts into the file, from the text or the buffer.         *)
From(k, x, junk) ==
    IF k = "text" THEN cmd.text[x] ELSE IF x <= Len(buf) THEN buf[x] ELSE junk

LEMMA Writes ==
    ASSUME Types, WriteChunk, NEW k \in {"text", "buf"}, NEW o \in Nat, NEW n \in Nat,
           Head(todo) = Call(k, o, n), o <= size, o + n <= Cap,
           k = "text" => cmd.text \in Seq(Words) /\ n = Len(cmd.text)
    PROVE  /\ Types' /\ tot' <= n
           /\ \E junk \in Words : \A x \in 0 .. Cap - 1 :
                  At(x)' = IF o + tot <= x /\ x < o + tot'
                           THEN From(k, x - o + 1, junk) ELSE At(x)
           /\ tot \in Nat /\ tot' \in Nat /\ tot < tot'
           /\ UNCHANGED <<saved, size, cmd, todo, buf, was, spilt>>
<1>1. call.off = o /\ Count = n /\ call.off + Count <= Cap
  BY Records, CapIsNatural DEF call, Count, Refused, Types
<1>2. \A x, junk : Source(x, junk) = From(k, x, junk)
  BY Records DEF Source, From, call
<1>3. \A x \in 1 .. Count, junk \in Words : Source(x, junk) \in Words
  <2> TAKE x \in 1 .. Count, junk \in Words
  <2>1. CASE k = "text"  BY <1>1, <1>2, <2>1 DEF From
  <2>2. CASE k # "text" /\ x <= Len(buf)
    <3>1. buf[x] \in Words  BY <1>1, <2>2 DEF Types
    <3> QED  BY <1>2, <2>2, <3>1 DEF From
  <2>3. CASE k # "text" /\ ~(x <= Len(buf))  BY <1>2, <2>3 DEF From
  <2> QED  BY <2>1, <2>2, <2>3
<1>4. /\ tot' \in Nat /\ tot < tot' /\ tot' <= n
      /\ blk' \in [0 .. MAXFILEB - 1 -> [0 .. B - 1 -> Words]]
      /\ \E junk \in Words : \A x \in 0 .. Cap - 1 :
             At(x)' = IF o + tot <= x /\ x < o + tot'
                      THEN Source(x - o + 1, junk) ELSE At(x)
      /\ UNCHANGED <<saved, size, cmd, todo, buf, was, spilt>>
  BY <1>1, <1>3, WritesOn
<1>5. Types' /\ tot \in Nat  BY <1>1, <1>4, CapIsNatural DEF Types, Old
<1> QED  BY <1>2, <1>4, <1>5

LEMMA EndsWriting ==
    ASSUME Types, EndWrite, NEW k \in {"text", "buf"}, NEW o \in Nat, NEW n \in Nat,
           Head(todo) = Call(k, o, n), o <= size, o + n <= Cap
    PROVE  /\ Types' /\ tot = n /\ tot' = 0 /\ todo' = Tail(todo)
           /\ size' = Larger(size, o + n) /\ saved' = size'
           /\ UNCHANGED <<blk, cmd, buf, was, spilt>>
<1>1. ~Refused /\ Count = n /\ Reached(call) = Larger(size, o + n)
  BY Records, CapIsNatural DEF call, Count, Refused, Types, Reached, Larger
<1>2. /\ tot = n /\ tot' = 0 /\ todo' = Tail(todo)
      /\ size' = Larger(size, o + n) /\ saved' = size'
      /\ UNCHANGED <<blk, cmd, buf, was, spilt>>
  BY <1>1 DEF EndWrite
<1> QED  BY <1>2, CapIsNatural DEF Types, Larger, Old

(* Both ends of a command leave the disk as it is.                         *)
LEMMA Leaves ==
    ASSUME Types, Clean, Leave PROVE Types' /\ AtIdle' /\ Clean'
<1>1. /\ cmd' = Idle /\ todo' = <<>> /\ tot' = 0 /\ buf' = <<>>
      /\ size' = 0 /\ was' = <<>> /\ UNCHANGED <<blk, saved, spilt>>
  BY DEF Leave
<1>2. Types'  BY <1>1, CapIsNatural DEF Types, Old
<1>3. AtIdle'  BY <1>1 DEF AtIdle
<1>4. cmd'.k = "idle"  BY <1>1, Records DEF Idle
<1>5. \A x : At(x)' = At(x)  BY <1>1 DEF At
<1> QED  BY <1>1, <1>2, <1>3, <1>4, <1>5 DEF Clean, Inward, Old

(* The text of the file, and what a command finds when it begins.          *)
LEMMA TextIs ==
    ASSUME Types
    PROVE  /\ Text(saved) \in Seq(Words) /\ Len(Text(saved)) = saved
           /\ \A x \in 0 .. saved - 1 : Text(saved)[x + 1] = At(x)
           /\ \A x \in 1 .. saved : Text(saved)[x] = At(x - 1)
<1>1. saved \in Nat /\ saved <= Cap  BY CapIsNatural DEF Types, Old
<1>2. \A x \in 0 .. saved - 1 : At(x) \in Words
  <2> TAKE x \in 0 .. saved - 1
  <2>1. x \div B \in 0 .. MAXFILEB - 1 /\ x % B \in 0 .. B - 1
    BY <1>1, InFile, CapIsNatural
  <2> HIDE DEF Words
  <2> QED  BY <2>1, Zenon DEF Types, At
<1>3. Text(saved) = [x \in 1 .. saved |-> At(x - 1)]  BY DEF Text, At
<1>4. Text(saved) \in [1 .. saved -> Words]
  <2>1. \A x \in 1 .. saved : At(x - 1) \in Words  BY <1>1, <1>2
  <2> QED  BY <1>3, <2>1, Zenon
<1>5. \A x \in 1 .. saved : Text(saved)[x] = At(x - 1)  BY <1>3, Zenon
<1>6. \A x \in 0 .. saved - 1 : Text(saved)[x + 1] = At(x)
  <2> TAKE x \in 0 .. saved - 1
  <2>1. x + 1 \in 1 .. saved /\ x + 1 - 1 = x  BY <1>1
  <2> QED  BY <1>5, <2>1
<1> HIDE DEF Text
<1> QED  BY <1>1, <1>4, <1>5, <1>6

LEMMA TextsAreLines == \A text \in Texts : text \in Lines
<1>1. \A n \in 1 .. B : \A text \in [1 .. n -> Bytes] : text \in Seq(Bytes) /\ Len(text) = n
  BY BlockSize
<1>2. \A n \in 1 .. B : \A text \in [1 .. n -> Bytes] : text \in Lines
  BY <1>1, BlockSize DEF Lines
<1>3. <<>> \in Lines  BY BlockSize DEF Lines
<1> QED  BY <1>2, <1>3 DEF Texts

LEMMA Opened ==
    ASSUME Types, AtIdle, Clean, NEW c, NEW calls, Open(c, calls), spilt' \in BOOLEAN
    PROVE  /\ Types' /\ Sizes(Old)' /\ Kept(0, Old)' /\ Old' = saved
           /\ cmd' = c /\ todo' = calls /\ tot' = 0 /\ buf' = <<>>
           /\ \A x \in 0 .. saved - 1 : At(x)' = was'[x + 1]
           /\ ~spilt => /\ \A x \in 0 .. saved' - 1 : At(x)' \in Bytes
                        /\ \A x \in 1 .. Old' : was'[x] \in Bytes
<1>1. /\ cmd' = c /\ todo' = calls /\ size' = saved /\ was' = Text(saved)
      /\ tot' = 0 /\ buf' = <<>> /\ UNCHANGED <<blk, saved, tot, buf>>
  BY DEF Open, AtIdle
<1>2. /\ was' \in Seq(Words) /\ Len(was') = saved
      /\ \A x \in 0 .. saved - 1 : was'[x + 1] = At(x)
      /\ \A x \in 1 .. saved : was'[x] = At(x - 1)
  BY <1>1, TextIs
<1>3. saved \in Nat /\ saved <= Cap  BY CapIsNatural DEF Types, Old
<1>4. Types'  BY <1>1, <1>2, <1>3 DEF Types, Old
<1>5. \A x : At(x)' = At(x)  BY <1>1 DEF At
<1>6. Old' = saved  BY <1>2 DEF Old
<1>7. Kept(0, Old)'
  <2>1. \A x \in 0 .. saved - 1 : At(x)' = was'[x + 1]  BY <1>2, <1>5
  <2> QED  BY <1>6, <2>1 DEF Kept
<1>8. ~spilt => /\ \A x \in 0 .. saved' - 1 : At(x)' \in Bytes
                /\ \A x \in 1 .. Old' : was'[x] \in Bytes
  BY <1>1, <1>2, <1>3, <1>5, <1>6 DEF Clean
<1> QED  BY <1>1, <1>2, <1>4, <1>5, <1>6, <1>7, <1>8 DEF Sizes

-----------------------------------------------------------------------------
(* Each command keeps to its plan.                                         *)
LEMMA Nothing == \A n : buf = <<>> => Has(n, 0)
BY DEF Has

LEMMA Typed ==
    ASSUME Types
    PROVE  /\ saved \in Nat /\ saved <= Cap /\ size \in Nat /\ size <= Cap
           /\ tot \in Nat /\ tot <= Cap /\ Old \in Nat /\ Old <= Cap
BY CapIsNatural DEF Types, Old

LEMMA LineIs ==
    ASSUME NEW text \in Lines
    PROVE  /\ text \in Seq(Bytes) /\ text \in Seq(Words)
           /\ Len(text) \in Nat /\ Len(text) <= Cap
<1>1. text \in Seq(Bytes) /\ Len(text) \in Nat /\ Len(text) <= B
  BY DEF Lines
<1>2. text \in [1 .. Len(text) -> Words]  BY <1>1 DEF Words
<1> QED  BY <1>1, <1>2, CapIsNatural, BlockSize

LEMMA CatGoes ==
    ASSUME Types, AtCat, Next
    PROVE  Leave \/ (Types' /\ AtCat' /\ UNCHANGED <<cmd, was, spilt>>)
<1>1. cmd # Idle  BY Records DEF AtCat, Idle
<1>2. Sizes(Old) /\ Kept(0, Old) /\ Old \in Nat  BY Typed DEF AtCat
<1>3. CASE todo = <<>>
  BY <1>1, <1>3, NoCall DEF Finish
<1>4. CASE todo = <<Call("read", 0, Old)>> /\ tot <= Old /\ Has(0, tot)
  <2>1. Head(todo) = Call("read", 0, Old) /\ Tail(todo) = <<>> /\ todo # <<>>
    BY <1>4, Lists
  <2>2. Crash \/ ReadChunk \/ EndRead  BY <1>1, <2>1, TheCall
  <2>3. CASE Crash  BY <2>3 DEF Crash
  <2>4. CASE ReadChunk
    <3>1. \A x \in 0 .. 0 + Old - 1 : At(x) = was[x + 1]  BY <1>2 DEF Kept
    <3>2. 0 + Old <= size  BY <1>2 DEF Sizes
    <3>3. /\ Types' /\ tot' <= Old /\ Has(0, tot)'
          /\ UNCHANGED <<blk, saved, size, cmd, todo, was, spilt>>
      BY <1>2, <1>4, <2>1, <2>4, <3>1, <3>2, Reads
    <3>4. \A x : At(x)' = At(x)  BY <3>3 DEF At
    <3>5. Old' = Old  BY <3>3 DEF Old
    <3> QED  BY <1>2, <1>4, <3>3, <3>4, <3>5 DEF AtCat, Sizes, Kept
  <2>5. CASE EndRead
    <3>2. 0 + Old <= size  BY <1>2 DEF Sizes
    <3>3. /\ Types' /\ tot' = 0 /\ todo' = <<>>
          /\ UNCHANGED <<blk, saved, size, cmd, buf, was, spilt>>
      BY <1>2, <2>1, <2>5, <3>2, EndsReading
    <3>4. \A x : At(x)' = At(x)  BY <3>3 DEF At
    <3>5. Old' = Old  BY <3>3 DEF Old
    <3> QED  BY <1>2, <3>3, <3>4, <3>5 DEF AtCat, Sizes, Kept
  <2> QED  BY <2>2, <2>3, <2>4, <2>5
<1> QED  BY <1>3, <1>4 DEF AtCat

(* One step of a call that writes the text of the command from o on.       *)
Putting(text, o, n) ==
    /\ cmd # Idle /\ cmd.text = text /\ n = Len(text)
    /\ todo # <<>> /\ Head(todo) = Call("text", o, n)

LEMMA PutsText ==
    ASSUME Types, Next, NEW text \in Lines, NEW o \in Nat, NEW n \in Nat,
           Putting(text, o, n), o <= size, o + n <= Cap, tot <= n, Wrote(o, tot)
    PROVE  \/ Leave
           \/ /\ Types' /\ tot' \in Nat /\ tot <= tot' /\ tot' <= n /\ Wrote(o, tot)'
              /\ \A x \in 0 .. Cap - 1 :
                     ~(o <= x /\ x < o + tot') => At(x)' = At(x)
              /\ UNCHANGED <<saved, size, cmd, todo, buf, was, spilt>>
           \/ /\ Types' /\ tot = n /\ tot' = 0 /\ todo' = Tail(todo)
              /\ size' = Larger(size, o + n) /\ saved' = size'
              /\ UNCHANGED <<blk, cmd, buf, was, spilt>>
<1>1. tot \in Nat /\ Cap \in Nat  BY Typed, CapIsNatural
<1>2. Crash \/ WriteChunk \/ EndWrite  BY TheCall DEF Putting
<1>3. CASE Crash  BY <1>3 DEF Crash
<1>4. CASE WriteChunk
  <2>1. /\ Types' /\ tot' <= n
        /\ \E junk \in Words : \A x \in 0 .. Cap - 1 :
               At(x)' = IF o + tot <= x /\ x < o + tot'
                        THEN From("text", x - o + 1, junk) ELSE At(x)
        /\ tot' \in Nat /\ tot < tot'
        /\ UNCHANGED <<saved, size, cmd, todo, buf, was, spilt>>
    BY <1>4, LineIs, Writes DEF Putting
  <2>2. \A x \in 0 .. Cap - 1 :
           At(x)' = IF o + tot <= x /\ x < o + tot' THEN text[x - o + 1] ELSE At(x)
    BY <2>1 DEF From, Putting
  <2>6. tot' \in Nat /\ tot < tot' /\ tot <= tot' /\ tot' <= n  BY <1>1, <2>1
  <2>7. Types' /\ UNCHANGED <<saved, size, cmd, todo, buf, was, spilt>>  BY <2>1
  <2>3. \A x \in 0 .. tot' - 1 : At(o + x)' = text[x + 1]
    <3>1. PICK t \in Nat : t = tot'  BY <2>6
    <3>2. t <= n /\ tot < t  BY <2>6, <3>1
    <3>3. \A x \in 0 .. t - 1 : o + x \in 0 .. Cap - 1 /\ o + x - o + 1 = x + 1
      BY <1>1, <3>2
    <3>4. \A y \in 0 .. Cap - 1 :
             At(y)' = IF o + tot <= y /\ y < o + t THEN text[y - o + 1] ELSE At(y)
      BY <2>2, <3>1
    <3>5. \A x \in 0 .. tot - 1 : At(o + x) = text[x + 1]
      BY DEF Wrote, Putting
    <3>6. ASSUME NEW x \in 0 .. t - 1 PROVE At(o + x)' = text[x + 1]
      <4> DEFINE y == o + x
      <4>1. y \in 0 .. Cap - 1 /\ y - o + 1 = x + 1  BY <3>3
      <4>2. At(y)' = IF o + tot <= y /\ y < o + t THEN text[y - o + 1] ELSE At(y)
        BY <3>4, <4>1
      <4>3. CASE x < tot
        <5>1. ~(o + tot <= y) /\ x \in 0 .. tot - 1  BY <1>1, <3>2, <4>3
        <5> QED  BY <3>5, <4>2, <5>1
      <4>4. CASE x >= tot
        <5>1. o + tot <= y /\ y < o + t  BY <1>1, <3>2, <4>4
        <5> QED  BY <4>1, <4>2, <5>1
      <4> QED  BY <1>1, <3>2, <4>3, <4>4
    <3> QED  BY <3>1, <3>6
  <2>4. Wrote(o, tot)'
    BY <2>1, <2>3 DEF Wrote, Putting
  <2>5. \A x \in 0 .. Cap - 1 : ~(o <= x /\ x < o + tot') => At(x)' = At(x)
    <3> TAKE x \in 0 .. Cap - 1
    <3>1. At(x)' = IF o + tot <= x /\ x < o + tot' THEN text[x - o + 1] ELSE At(x)
      BY <2>2
    <3>2. o + tot <= x => o <= x  BY <1>1
    <3> QED  BY <3>1, <3>2
  <2> QED  BY <2>4, <2>5, <2>6, <2>7
<1>5. CASE EndWrite
  BY <1>5, EndsWriting DEF Putting
<1> QED  BY <1>2, <1>3, <1>4, <1>5

(* A write that begins beyond the end of the file, or that does not fit,   *)
(* does nothing.                                                           *)
LEMMA PutsNothing ==
    ASSUME Types, Next, NEW k \in {"text", "buf"}, NEW o \in Nat, NEW n \in Nat,
           cmd # Idle, todo # <<>>, Head(todo) = Call(k, o, n), o > size \/ o + n > Cap
    PROVE  \/ Leave
           \/ /\ Types' /\ tot = 0 /\ tot' = 0 /\ todo' = Tail(todo)
              /\ UNCHANGED <<blk, cmd, saved, size, buf, was, spilt>>
<1>1. Refused /\ Count = 0
  BY Records DEF call, Refused, Count
<1>2. Crash \/ WriteChunk \/ EndWrite  BY TheCall
<1>3. CASE Crash  BY <1>3 DEF Crash
<1>4. CASE WriteChunk
  BY <1>1, <1>4, Typed DEF WriteChunk
<1>5. CASE EndWrite
  <2>1. /\ tot = 0 /\ tot' = 0 /\ todo' = Tail(todo)
        /\ UNCHANGED <<blk, cmd, saved, size, buf, was, spilt>>
    BY <1>1, <1>5 DEF EndWrite
  <2> QED  BY <2>1, CapIsNatural DEF Types, Old
<1> QED  BY <1>2, <1>3, <1>4, <1>5

(* So of the text all is written, or nothing.                              *)
LEMMA PutsSome ==
    ASSUME Types, Next, NEW text \in Lines, NEW o \in Nat, NEW n \in Nat, NEW m \in Nat,
           Putting(text, o, n), m = IF o + n <= Cap THEN n ELSE 0,
           o <= size, saved = size, tot <= m, Wrote(o, tot)
    PROVE  \/ Leave
           \/ /\ Types' /\ tot' \in Nat /\ tot <= tot' /\ tot' <= m /\ Wrote(o, tot)'
              /\ \A x \in 0 .. Cap - 1 :
                     ~(o <= x /\ x < o + tot') => At(x)' = At(x)
              /\ UNCHANGED <<saved, size, cmd, todo, buf, was, spilt>>
           \/ /\ Types' /\ tot = m /\ tot' = 0 /\ todo' = Tail(todo)
              /\ size' = Larger(size, o + m) /\ saved' = size'
              /\ UNCHANGED <<blk, cmd, buf, was, spilt>>
<1>1. CASE o + n <= Cap
  <2>1. m = n  BY <1>1
  <2> QED  BY <1>1, <2>1, PutsText
<1>2. CASE ~(o + n <= Cap)
  <2>1. m = 0 /\ o + n > Cap /\ size \in Nat  BY <1>2, CapIsNatural, Typed
  <2>2. Larger(size, o + m) = size  BY <2>1 DEF Larger
  <2>3. \/ Leave
        \/ /\ Types' /\ tot = 0 /\ tot' = 0 /\ todo' = Tail(todo)
           /\ UNCHANGED <<blk, cmd, saved, size, buf, was, spilt>>
    BY <2>1, PutsNothing DEF Putting
  <2> QED  BY <2>1, <2>2, <2>3
<1> QED  BY <1>1, <1>2

LEMMA WriteGoes ==
    ASSUME Types, AtWrite, Next
    PROVE  Leave \/ (Types' /\ AtWrite' /\ UNCHANGED <<cmd, was, spilt>>)
<1>1. PICK text \in Lines : cmd.text = text  BY DEF AtWrite
<1>2. PICK n \in Nat : n = Len(text)  BY LineIs
<1>3. /\ cmd = Cmd("w", 0, n, text) /\ cmd.len = n /\ cmd # Idle
      /\ buf = <<>> /\ n <= Cap
  BY <1>1, <1>2, LineIs, Records DEF AtWrite, Idle
<1>4. PICK old \in Nat : old = Old /\ old <= Cap  BY Typed
<1>5. Cap \in Nat /\ tot \in Nat  BY CapIsNatural, Typed
<1> DEFINE cut == IF n < old THEN <<Call("size", 0, n)>> ELSE <<>>
<1>6. CASE /\ todo = <<Call("text", 0, n)>> \o cut
           /\ Sizes(old) /\ tot <= n /\ Wrote(0, tot) /\ Kept(tot, old)
  <2>1. Head(todo) = Call("text", 0, n) /\ Tail(todo) = cut /\ todo # <<>>
    <3>2. CASE n < old
      <4>1. todo = <<Call("text", 0, n), Call("size", 0, n)>>  BY <1>6, <3>2, Joined
      <4> QED  BY <3>2, <4>1, Lists
    <3>3. CASE ~(n < old)
      <4>1. todo = <<Call("text", 0, n)>>  BY <1>6, <3>3, Joined
      <4> QED  BY <3>3, <4>1, Lists
    <3> QED  BY <3>2, <3>3
  <2>2. Putting(text, 0, n)  BY <1>1, <1>2, <1>3, <2>1 DEF Putting
  <2>3. 0 <= size /\ size = old /\ saved = old  BY <1>6 DEF Sizes
  <2> HIDE DEF cut
  <2>4. \/ Leave
        \/ /\ Types' /\ tot' \in Nat /\ tot <= tot' /\ tot' <= n /\ Wrote(0, tot)'
           /\ \A x \in 0 .. Cap - 1 : ~(0 <= x /\ x < 0 + tot') => At(x)' = At(x)
           /\ UNCHANGED <<saved, size, cmd, todo, buf, was, spilt>>
        \/ /\ Types' /\ tot = n /\ tot' = 0 /\ todo' = Tail(todo)
           /\ size' = Larger(size, 0 + n) /\ saved' = size'
           /\ UNCHANGED <<blk, cmd, buf, was, spilt>>
    BY <1>3, <1>6, <2>2, <2>3, PutsText
  <2>5. CASE /\ Types' /\ tot' \in Nat /\ tot <= tot' /\ tot' <= n /\ Wrote(0, tot)'
             /\ \A x \in 0 .. Cap - 1 : ~(0 <= x /\ x < 0 + tot') => At(x)' = At(x)
             /\ UNCHANGED <<saved, size, cmd, todo, buf, was, spilt>>
    <3>1. Old' = old  BY <1>4, <2>5 DEF Old
    <3>2. \A x \in tot' .. old - 1 : At(x)' = was'[x + 1]
      <4>1. PICK t \in Nat : t = tot' /\ tot <= t  BY <2>5
      <4>2. \A x \in t .. old - 1 : /\ x \in 0 .. Cap - 1 /\ x \in tot .. old - 1
                                     /\ ~(x < 0 + t)
        <5> TAKE x \in t .. old - 1
        <5>1. x \in Nat /\ t <= x /\ x <= old - 1  BY <1>4, <4>1
        <5>2. x \in 0 .. Cap - 1  BY <1>4, <1>5, <5>1
        <5>3. x \in tot .. old - 1  BY <1>4, <1>5, <4>1, <5>1
        <5>4. 0 + t = t /\ ~(x < t)  BY <5>1
        <5> QED  BY <5>2, <5>3, <5>4
      <4>3. \A x \in t .. old - 1 : At(x)' = At(x)  BY <2>5, <4>1, <4>2
      <4>4. \A x \in t .. old - 1 : At(x) = was[x + 1]  BY <1>6, <4>2 DEF Kept
      <4>5. was' = was  BY <2>5
      <4> QED  BY <4>1, <4>3, <4>4, <4>5
    <3>3. todo' = <<Call("text", 0, n)>> \o cut /\ Sizes(Old)'
      BY <1>6, <2>3, <2>5, <3>1 DEF Sizes
    <3>4. Kept(tot, Old)'  BY <3>1, <3>2 DEF Kept
    <3>5. cmd' = Cmd("w", 0, n, text) /\ cmd'.text = text /\ cmd'.len = n /\ buf' = <<>>
      BY <1>1, <1>3, <2>5
    <3> QED  BY <1>2, <2>5, <3>1, <3>3, <3>4, <3>5 DEF AtWrite, cut
  <2>6. CASE /\ Types' /\ tot = n /\ tot' = 0 /\ todo' = Tail(todo)
             /\ size' = Larger(size, 0 + n) /\ saved' = size'
             /\ UNCHANGED <<blk, cmd, buf, was, spilt>>
    <3>1. Old' = old /\ was' = was /\ \A x : At(x)' = At(x)
      BY <1>4, <2>6 DEF Old, At
    <3>2. cmd' = Cmd("w", 0, n, text) /\ cmd'.text = text /\ cmd'.len = n /\ buf' = <<>>
      BY <1>1, <1>3, <2>6
    <3>3. Wrote(0, cmd.len)'
      BY <1>1, <1>6, <2>6, <3>1, <3>2 DEF Wrote
    <3>4. CASE n < old
      <4>1. todo' = <<Call("size", 0, n)>> /\ size' = old /\ saved' = old
        BY <1>5, <2>1, <2>3, <2>6, <3>4 DEF cut, Larger
      <4>2. Kept(cmd.len, Old)'
        BY <1>6, <2>6, <3>1, <3>2 DEF Kept
      <4> QED  BY <1>2, <2>6, <3>1, <3>2, <3>3, <3>4, <4>1, <4>2 DEF AtWrite, Sizes
    <3>5. CASE ~(n < old)
      <4>1. todo' = <<>> /\ size' = n /\ saved' = n
        BY <1>5, <2>1, <2>3, <2>6, <3>5 DEF cut, Larger
      <4> QED  BY <1>2, <2>6, <3>2, <3>3, <4>1 DEF AtWrite, Sizes
    <3> QED  BY <3>4, <3>5
  <2> QED  BY <2>4, <2>5, <2>6
<1>7. CASE /\ todo = <<Call("size", 0, n)>> /\ n < old
           /\ Sizes(old) /\ tot = 0 /\ Wrote(0, n) /\ Kept(n, old)
  <2>1. Head(todo) = Call("size", 0, n) /\ Tail(todo) = <<>> /\ todo # <<>>
    BY <1>7, Lists
  <2>2. Crash \/ SetSize  BY <1>3, <2>1, TheCall
  <2>3. CASE Crash  BY <2>3 DEF Crash
  <2>4. CASE SetSize
    <3>1. /\ size' = n /\ saved' = n /\ todo' = <<>> /\ UNCHANGED <<blk, cmd, tot, buf, was, spilt>>
      BY <2>1, <2>4, Records DEF SetSize, call
    <3>2. Types'  BY <1>3, <1>5, <3>1 DEF Types, Old
    <3>3. \A x : At(x)' = At(x)  BY <3>1 DEF At
    <3>4. Wrote(0, cmd.len)'  BY <1>3, <1>7, <3>1, <3>3 DEF Wrote
    <3> QED  BY <1>1, <1>2, <1>3, <1>7, <3>1, <3>2, <3>4 DEF AtWrite, Sizes
  <2> QED  BY <2>2, <2>3, <2>4
<1>8. CASE todo = <<>>
  BY <1>3, <1>8, NoCall DEF Finish
<1> QED  BY <1>3, <1>4, <1>6, <1>7, <1>8 DEF AtWrite

LEMMA AppendGoes ==
    ASSUME Types, AtAppend, Next
    PROVE  Leave \/ (Types' /\ AtAppend' /\ UNCHANGED <<cmd, was, spilt>>)
<1>1. PICK text \in Lines : cmd.text = text  BY DEF AtAppend
<1>2. PICK n \in Nat : n = Len(text)  BY LineIs
<1>3. PICK pos \in 0 .. Cap : pos = cmd.pos /\ pos >= Old  BY DEF AtAppend
<1>4. PICK old \in Nat : old = Old /\ old <= Cap  BY Typed
<1>5. /\ cmd = Cmd("i", pos, n, text) /\ cmd.len = n /\ cmd # Idle
      /\ buf = <<>> /\ n <= Cap /\ Kept(0, old)
  <2>1. /\ cmd = Cmd("i", cmd.pos, Len(cmd.text), cmd.text)
        /\ buf = <<>> /\ Kept(0, Old)
    BY DEF AtAppend
  <2>2. cmd = Cmd("i", pos, n, text)  BY <1>1, <1>2, <1>3, <2>1
  <2>3. cmd.len = n /\ cmd # Idle  BY <2>2, Records DEF Idle
  <2>4. Kept(0, old)  BY <1>4, <2>1, <2>3
  <2>5. n <= Cap  BY <1>1, <1>2, LineIs, CapIsNatural
  <2> QED  BY <2>1, <2>2, <2>3, <2>4, <2>5
<1>6. Cap \in Nat /\ tot \in Nat  BY CapIsNatural, Typed
<1>9. PICK m \in Nat : m = Taken(old) /\ m = IF old + n <= Cap THEN n ELSE 0
  BY <1>5 DEF Taken
<1>7. CASE /\ todo = <<Call("text", old, n)>>
           /\ Sizes(old) /\ tot <= m /\ Wrote(old, tot)
  <2>1. Head(todo) = Call("text", old, n) /\ Tail(todo) = <<>> /\ todo # <<>>
    BY <1>7, Lists
  <2>2. Putting(text, old, n)  BY <1>1, <1>2, <1>5, <2>1 DEF Putting
  <2>3. old <= size /\ size = old /\ saved = old  BY <1>7 DEF Sizes
  <2>4. \/ Leave
        \/ /\ Types' /\ tot' \in Nat /\ tot <= tot' /\ tot' <= m /\ Wrote(old, tot)'
           /\ \A x \in 0 .. Cap - 1 : ~(old <= x /\ x < old + tot') => At(x)' = At(x)
           /\ UNCHANGED <<saved, size, cmd, todo, buf, was, spilt>>
        \/ /\ Types' /\ tot = m /\ tot' = 0 /\ todo' = Tail(todo)
           /\ size' = Larger(size, old + m) /\ saved' = size'
           /\ UNCHANGED <<blk, cmd, buf, was, spilt>>
    BY <1>7, <1>9, <2>2, <2>3, PutsSome
  <2>5. CASE /\ Types' /\ tot' \in Nat /\ tot <= tot' /\ tot' <= m /\ Wrote(old, tot)'
             /\ \A x \in 0 .. Cap - 1 : ~(old <= x /\ x < old + tot') => At(x)' = At(x)
             /\ UNCHANGED <<saved, size, cmd, todo, buf, was, spilt>>
    <3>1. Old' = old /\ was' = was /\ buf' = <<>> /\ cmd' = cmd /\ cmd.len = n
          /\ Taken(Old)' = m
      BY <1>4, <1>5, <1>9, <2>5 DEF Old, Taken
    <3>2. \A x \in 0 .. old - 1 : x \in 0 .. Cap - 1 /\ ~(old <= x)  BY <1>4, <1>6
    <3>3. \A x \in 0 .. old - 1 : At(x)' = At(x)  BY <2>5, <3>2
    <3>4. Kept(0, Old)'  BY <1>5, <3>1, <3>3 DEF Kept
    <3>5. Wrote(Old, tot)'  BY <2>5, <3>1 DEF Wrote
    <3>6. todo' = <<Call("text", old, n)>> /\ Sizes(Old)'
      BY <1>7, <2>5, <3>1 DEF Sizes
    <3> QED
      BY <1>1, <1>2, <1>3, <1>4, <1>5, <2>5, <3>1, <3>4, <3>5, <3>6 DEF AtAppend
  <2>6. CASE /\ Types' /\ tot = m /\ tot' = 0 /\ todo' = Tail(todo)
             /\ size' = Larger(size, old + m) /\ saved' = size'
             /\ UNCHANGED <<blk, cmd, buf, was, spilt>>
    <3>1. Old' = old /\ was' = was /\ buf' = <<>> /\ cmd' = cmd /\ cmd.len = n
          /\ Taken(Old)' = m /\ \A x : At(x)' = At(x)
      BY <1>4, <1>5, <1>9, <2>6 DEF Old, At, Taken
    <3>2. Kept(0, Old)'  BY <1>5, <3>1 DEF Kept
    <3>3. Wrote(Old, Taken(Old))'  BY <1>7, <2>6, <3>1 DEF Wrote
    <3>4. todo' = <<>> /\ size' = old + m /\ saved' = old + m
      BY <2>1, <2>3, <2>6 DEF Larger
    <3> QED
      BY <1>1, <1>2, <1>3, <1>4, <1>5, <2>6, <3>1, <3>2, <3>3, <3>4 DEF AtAppend, Sizes
  <2> QED  BY <2>4, <2>5, <2>6
<1>8. CASE todo = <<>>
  BY <1>5, <1>8, NoCall DEF Finish
<1> QED  BY <1>4, <1>5, <1>7, <1>8, <1>9 DEF AtAppend

(* One step of a call that writes the buffer, which holds m bytes of the   *)
(* text there was from `from' on, to o and what follows.                   *)
Placing(o, n) == cmd # Idle /\ todo # <<>> /\ Head(todo) = Call("buf", o, n)
Placed(o, from, m, t) == \A x \in 0 .. t - 1 : x < m => At(o + x) = was[from + x + 1]

LEMMA PutsBuffer ==
    ASSUME Types, Next, NEW o \in Nat, NEW n \in Nat, NEW from \in Nat, NEW m \in Nat,
           Placing(o, n), o <= size, o + n <= Cap, tot <= n,
           Has(from, m), Placed(o, from, m, tot)
    PROVE  \/ Leave
           \/ /\ Types' /\ tot' \in Nat /\ tot <= tot' /\ tot' <= n
              /\ Placed(o, from, m, tot)'
              /\ \A x \in 0 .. Cap - 1 :
                     ~(o <= x /\ x < o + tot') => At(x)' = At(x)
              /\ UNCHANGED <<saved, size, cmd, todo, buf, was, spilt>>
           \/ /\ Types' /\ tot = n /\ tot' = 0 /\ todo' = Tail(todo)
              /\ size' = Larger(size, o + n) /\ saved' = size'
              /\ UNCHANGED <<blk, cmd, buf, was, spilt>>
<1>1. tot \in Nat /\ Cap \in Nat  BY Typed, CapIsNatural
<1>2. Crash \/ WriteChunk \/ EndWrite  BY TheCall DEF Placing
<1>3. CASE Crash  BY <1>3 DEF Crash
<1>4. CASE WriteChunk
  <2>1. /\ Types' /\ tot' <= n
        /\ \E junk \in Words : \A x \in 0 .. Cap - 1 :
               At(x)' = IF o + tot <= x /\ x < o + tot'
                        THEN From("buf", x - o + 1, junk) ELSE At(x)
        /\ tot' \in Nat /\ tot < tot'
        /\ UNCHANGED <<saved, size, cmd, todo, buf, was, spilt>>
    BY <1>4, Writes DEF Placing
  <2>2. PICK junk \in Words : \A x \in 0 .. Cap - 1 :
               At(x)' = IF o + tot <= x /\ x < o + tot'
                        THEN From("buf", x - o + 1, junk) ELSE At(x)
    BY <2>1
  <2>3. \A x \in 1 .. m : From("buf", x, junk) = was[from + x]
    <3>1. Len(buf) = m /\ \A x \in 1 .. m : buf[x] = was[from + x]  BY DEF Has
    <3> QED  BY <3>1 DEF From
  <2>6. tot' \in Nat /\ tot < tot' /\ tot <= tot' /\ tot' <= n  BY <1>1, <2>1
  <2>7. Types' /\ UNCHANGED <<saved, size, cmd, todo, buf, was, spilt>>  BY <2>1
  <2>8. \A x \in 0 .. tot' - 1 : x < m => At(o + x)' = was[from + x + 1]
    <3>1. PICK t \in Nat : t = tot'  BY <2>6
    <3>2. t <= n /\ tot < t  BY <2>6, <3>1
    <3>3. \A x \in 0 .. t - 1 : o + x \in 0 .. Cap - 1 /\ o + x - o + 1 = x + 1
      BY <1>1, <3>2
    <3>4. \A y \in 0 .. Cap - 1 :
             At(y)' = IF o + tot <= y /\ y < o + t THEN From("buf", y - o + 1, junk)
                                                    ELSE At(y)
      BY <2>2, <3>1
    <3>5. \A x \in 0 .. tot - 1 : x < m => At(o + x) = was[from + x + 1]
      BY DEF Placed
    <3>6. ASSUME NEW x \in 0 .. t - 1, x < m PROVE At(o + x)' = was[from + x + 1]
      <4> DEFINE y == o + x
      <4>1. y \in 0 .. Cap - 1 /\ y - o + 1 = x + 1  BY <3>3
      <4>2. At(y)' = IF o + tot <= y /\ y < o + t THEN From("buf", y - o + 1, junk)
                                                   ELSE At(y)
        BY <3>4, <4>1
      <4>3. CASE x < tot
        <5>1. ~(o + tot <= y) /\ x \in 0 .. tot - 1  BY <1>1, <3>2, <4>3
        <5> QED  BY <3>5, <3>6, <4>2, <5>1
      <4>4. CASE x >= tot
        <5>1. o + tot <= y /\ y < o + t  BY <1>1, <3>2, <4>4
        <5>2. At(y)' = From("buf", x + 1, junk)  BY <4>1, <4>2, <5>1
        <5>3. x + 1 \in 1 .. m /\ from + (x + 1) = from + x + 1  BY <3>6
        <5>4. From("buf", x + 1, junk) = was[from + (x + 1)]  BY <2>3, <5>3
        <5> QED  BY <5>2, <5>3, <5>4
      <4> QED  BY <1>1, <3>2, <4>3, <4>4
    <3> QED  BY <3>1, <3>6
  <2>4. Placed(o, from, m, tot)'
    <3>1. was' = was  BY <2>7
    <3> QED  BY <2>8, <3>1 DEF Placed
  <2>5. \A x \in 0 .. Cap - 1 : ~(o <= x /\ x < o + tot') => At(x)' = At(x)
    <3> TAKE x \in 0 .. Cap - 1
    <3>1. At(x)' = IF o + tot <= x /\ x < o + tot' THEN From("buf", x - o + 1, junk)
                                                    ELSE At(x)
      BY <2>2
    <3>2. o + tot <= x => o <= x  BY <1>1
    <3> QED  BY <3>1, <3>2
  <2> QED  BY <2>4, <2>5, <2>6, <2>7
<1>5. CASE EndWrite
  BY <1>5, EndsWriting DEF Placing
<1> QED  BY <1>2, <1>3, <1>4, <1>5

LEMMA Later ==
    \A o, s, t, m, c \in Nat : s <= t /\ m <= c =>
        \A x \in o + t .. m - 1 :
            x \in 0 .. c - 1 /\ x \in o + s .. m - 1 /\ ~(o <= x /\ x < o + t)
OBVIOUS

LEMMA SamePlan ==
    ASSUME cmd' = cmd, was' = was
    PROVE  /\ Old' = Old /\ Put' = Put /\ Mid' = Mid /\ Fits' = Fits
           /\ \A o : Taken(o)' = Taken(o)
           /\ ReadTail' = ReadTail /\ PutText' = PutText /\ PutTail' = PutTail
           /\ End' = End /\ Rest' = Rest /\ Then' = Then
           /\ ReadRest' = ReadRest /\ PutRest' = PutRest /\ LessLen' = LessLen
<1>1. Old' = Old  BY DEF Old
<1>2. End' = End  BY DEF End
<1>6. Put' = Put /\ \A o : Taken(o)' = Taken(o)  BY DEF Put, Taken
<1>3. Mid' = Mid /\ Fits' = Fits /\ Rest' = Rest
  BY <1>1, <1>2, <1>6 DEF Mid, Fits, Rest
<1>4. ReadTail' = ReadTail /\ PutText' = PutText /\ PutTail' = PutTail
  BY <1>1, <1>3 DEF ReadTail, PutText, PutTail
<1>5. Then' = Then  BY <1>1, <1>3 DEF Then
<1> QED
  BY <1>1, <1>2, <1>3, <1>4, <1>5, <1>6 DEF ReadRest, PutRest, LessLen

LEMMA CutGoes ==
    ASSUME Types, AtCut, Next
    PROVE  Leave \/ (Types' /\ AtCut' /\ UNCHANGED <<cmd, was, spilt>>)
<1>1. PICK pos \in 0 .. Cap : pos = cmd.pos  BY DEF AtCut
<1>2. cmd # Idle  BY Records DEF AtCut, Idle
<1>3. CASE todo = <<>>  BY <1>2, <1>3, NoCall DEF Finish
<1>4. CASE todo = <<Call("size", 0, cmd.pos)>>
  <2>1. Head(todo) = Call("size", 0, pos) /\ Tail(todo) = <<>> /\ todo # <<>>
    BY <1>1, <1>4, Lists
  <2>2. Crash \/ SetSize  BY <1>2, <2>1, TheCall
  <2>3. CASE Crash  BY <2>3 DEF Crash
  <2>4. CASE SetSize
    <3>1. /\ size' = pos /\ saved' = pos /\ todo' = <<>>
          /\ UNCHANGED <<blk, cmd, tot, buf, was, spilt>>
      BY <2>1, <2>4, Records DEF SetSize, call
    <3>2. Types'  BY <3>1, CapIsNatural DEF Types, Old
    <3>3. \A x : At(x)' = At(x)  BY <3>1 DEF At
    <3>4. Old' = Old /\ End' = End /\ was' = was /\ cmd' = cmd  BY <3>1, SamePlan
    <3>5. Kept(0, Old)'  BY <3>3, <3>4 DEF AtCut, Kept
    <3> QED  BY <1>1, <3>1, <3>2, <3>4, <3>5 DEF AtCut, Sizes
  <2> QED  BY <2>2, <2>3, <2>4
<1> QED  BY <1>3, <1>4 DEF AtCut

LEMMA InsertGoes ==
    ASSUME Types, AtInsert, Next
    PROVE  Leave \/ (Types' /\ AtInsert' /\ UNCHANGED <<cmd, was, spilt>>)
<1>1. PICK text \in Lines : cmd.text = text  BY DEF AtInsert
<1>2. PICK n \in Nat : n = Len(text)  BY LineIs
<1>3. PICK pos \in Nat : pos = cmd.pos /\ pos < Old  BY CapIsNatural DEF AtInsert
<1>4. PICK old \in Nat : old = Old /\ old <= Cap  BY Typed
<1>0. cmd.len = n  BY <1>1, <1>2, Records DEF AtInsert
<1>16. PICK put \in Nat : put = Put /\ put = IF pos + n <= Cap THEN n ELSE 0
  BY <1>0, <1>3 DEF Put, Taken
<1>5. PICK mid \in Nat : mid = Mid /\ mid = Larger(old, pos + put)
  BY <1>3, <1>4, <1>16 DEF Mid, Larger
<1>6. /\ cmd = Cmd("i", pos, n, text) /\ cmd.len = n /\ cmd # Idle
      /\ (Fits <=> mid + n <= Cap) /\ Kept(0, pos)
  BY <1>0, <1>1, <1>2, <1>3, <1>5, Records DEF AtInsert, Idle, Fits
<1>7. Cap \in Nat /\ tot \in Nat  BY CapIsNatural, Typed
<1>8. pos < old /\ old <= mid /\ pos + put <= mid /\ (Fits => put = n)
  BY <1>3, <1>4, <1>5, <1>6, <1>7, <1>16 DEF Larger
<1>9. PICK rest \in Nat : rest = old - pos  BY <1>8
<1>10. /\ ReadTail = Call("read", pos, rest) /\ PutText = Call("text", pos, n)
       /\ PutTail = Call("buf", pos + n, mid - pos)
  BY <1>3, <1>4, <1>5, <1>6, <1>9 DEF ReadTail, PutText, PutTail
<1>11. ASSUME cmd' = cmd, was' = was,
              \/ /\ todo' = <<ReadTail, PutText, PutTail>>
                 /\ Sizes(old)' /\ tot' <= rest
                 /\ Has(pos, tot)' /\ Kept(pos, old)'
              \/ /\ todo' = <<PutText, PutTail>>
                 /\ Sizes(old)' /\ tot' <= put /\ Has(pos, rest)'
                 /\ Wrote(pos, tot)' /\ Kept(pos + tot, old)'
              \/ /\ todo' = <<PutTail>> /\ Fits
                 /\ Sizes(mid)' /\ tot' <= mid - pos /\ Has(pos, rest)'
                 /\ Wrote(pos, n)' /\ Placed(pos + n, pos, rest, tot)'
                 /\ Kept(pos + n + tot, old)'
              \/ /\ todo' = <<>> /\ Fits /\ tot' = 0
                 /\ Sizes(mid + n)' /\ Wrote(pos, n)' /\ Moved(pos + n, pos, rest)'
              \/ /\ todo' = <<PutTail>> \/ todo' = <<>>
                 /\ ~Fits /\ tot' = 0
                 /\ Sizes(mid)' /\ Wrote(pos, put)' /\ Kept(pos + put, old)',
              Kept(0, pos)'
       PROVE  AtInsert'
  <2>1. /\ Old' = old /\ Mid' = mid /\ Put' = put /\ Fits' = Fits /\ cmd'.pos = pos /\ cmd'.len = n /\ cmd'.text = text
        /\ ReadTail' = ReadTail /\ PutText' = PutText /\ PutTail' = PutTail
    BY <1>1, <1>3, <1>4, <1>5, <1>6, <1>11, <1>16, SamePlan
  <2>2. rest = Old' - cmd'.pos /\ pos \in 0 .. Cap  BY <1>4, <1>7, <1>8, <1>9, <2>1
  <2>3. /\ cmd'.text \in Lines /\ cmd' = Cmd("i", cmd'.pos, Len(cmd'.text), cmd'.text)
        /\ cmd'.pos \in 0 .. Cap /\ cmd'.pos < Old'
    BY <1>2, <1>3, <1>4, <1>6, <1>11, <2>1, <2>2
  <2> DEFINE head == /\ cmd.text \in Lines
                     /\ cmd = Cmd("i", cmd.pos, Len(cmd.text), cmd.text)
                     /\ cmd.pos \in 0 .. Cap /\ cmd.pos < Old
                     /\ Kept(0, cmd.pos)
  <2>4. head'  BY <1>11, <2>1, <2>3 DEF Kept
  <2> HIDE DEF head
  <2>5. CASE /\ todo' = <<ReadTail, PutText, PutTail>>
             /\ Sizes(old)' /\ tot' <= rest
             /\ Has(pos, tot)' /\ Kept(pos, old)'
    BY <2>1, <2>2, <2>4, <2>5 DEF AtInsert, Sizes, Has, Kept, head
  <2>6. CASE /\ todo' = <<PutText, PutTail>>
             /\ Sizes(old)' /\ tot' <= put /\ Has(pos, rest)'
             /\ Wrote(pos, tot)' /\ Kept(pos + tot, old)'
    BY <2>1, <2>2, <2>4, <2>6 DEF AtInsert, Sizes, Has, Kept, Wrote, head
  <2>7. CASE /\ todo' = <<PutTail>> /\ Fits
             /\ Sizes(mid)' /\ tot' <= mid - pos /\ Has(pos, rest)'
             /\ Wrote(pos, n)' /\ Placed(pos + n, pos, rest, tot)'
             /\ Kept(pos + n + tot, old)'
    BY <2>1, <2>2, <2>4, <2>7 DEF AtInsert, Sizes, Has, Kept, Wrote, Placed, head
  <2>8. CASE /\ todo' = <<>> /\ Fits /\ tot' = 0
             /\ Sizes(mid + n)' /\ Wrote(pos, n)' /\ Moved(pos + n, pos, rest)'
    BY <2>1, <2>2, <2>4, <2>8 DEF AtInsert, Sizes, Wrote, Moved, head
  <2>9. CASE /\ todo' = <<PutTail>> \/ todo' = <<>>
             /\ ~Fits /\ tot' = 0
             /\ Sizes(mid)' /\ Wrote(pos, put)' /\ Kept(pos + put, old)'
    BY <2>1, <2>4, <2>9 DEF AtInsert, Sizes, Wrote, Kept, head
  <2> QED  BY <1>11, <2>5, <2>6, <2>7, <2>8, <2>9
<1>12. CASE /\ todo = <<ReadTail, PutText, PutTail>>
            /\ Sizes(old) /\ tot <= rest /\ Has(pos, tot) /\ Kept(pos, old)
  <2>1. /\ Head(todo) = Call("read", pos, rest) /\ Tail(todo) = <<PutText, PutTail>>
        /\ todo # <<>>
    BY <1>10, <1>12, Lists
  <2>2. Crash \/ ReadChunk \/ EndRead  BY <1>6, <2>1, TheCall
  <2>3. CASE Crash  BY <2>3 DEF Crash
  <2>4. pos + rest <= size /\ size = old /\ saved = old /\ pos + rest = old
    BY <1>8, <1>9, <1>12 DEF Sizes
  <2>5. \A x \in pos .. old - 1 : At(x) = was[x + 1]  BY <1>12 DEF Kept
  <2>6. CASE ReadChunk
    <3>1. /\ Types' /\ tot' <= rest /\ Has(pos, tot)'
          /\ UNCHANGED <<blk, saved, size, cmd, todo, was, spilt>>
      BY <1>12, <2>1, <2>4, <2>5, <2>6, Reads
    <3>2. was' = was /\ \A x : At(x)' = At(x)  BY <3>1 DEF At
    <3>3. Kept(0, pos)' /\ Kept(pos, old)' /\ Sizes(old)'
      BY <1>6, <1>12, <3>1, <3>2 DEF Kept, Sizes
    <3>4. AtInsert'  BY <1>11, <1>12, <3>1, <3>3
    <3> QED  BY <3>1, <3>4
  <2>7. CASE EndRead
    <3>1. /\ Types' /\ tot = rest /\ tot' = 0 /\ todo' = <<PutText, PutTail>>
          /\ UNCHANGED <<blk, saved, size, cmd, buf, was, spilt>>
      BY <2>1, <2>4, <2>7, EndsReading
    <3>2. was' = was /\ \A x : At(x)' = At(x)  BY <3>1 DEF At
    <3>3. Kept(0, pos)' /\ Kept(pos + tot, old)' /\ Sizes(old)' /\ Wrote(pos, tot)'
      BY <1>6, <1>12, <3>1, <3>2 DEF Kept, Sizes, Wrote
    <3>4. Has(pos, rest)'  BY <1>12, <3>1 DEF Has
    <3>5. AtInsert'  BY <1>11, <3>1, <3>3, <3>4
    <3> QED  BY <3>1, <3>5
  <2> QED  BY <2>2, <2>3, <2>6, <2>7
<1>13. CASE /\ todo = <<PutText, PutTail>>
            /\ Sizes(old) /\ tot <= put /\ Has(pos, rest)
            /\ Wrote(pos, tot) /\ Kept(pos + tot, old)
  <2>1. Head(todo) = Call("text", pos, n) /\ Tail(todo) = <<PutTail>> /\ todo # <<>>
    BY <1>10, <1>13, Lists
  <2>2. Putting(text, pos, n)  BY <1>1, <1>2, <1>6, <2>1 DEF Putting
  <2>3. pos <= size /\ size = old /\ saved = old  BY <1>8, <1>13 DEF Sizes
  <2>5. \/ Leave
        \/ /\ Types' /\ tot' \in Nat /\ tot <= tot' /\ tot' <= put /\ Wrote(pos, tot)'
           /\ \A x \in 0 .. Cap - 1 : ~(pos <= x /\ x < pos + tot') => At(x)' = At(x)
           /\ UNCHANGED <<saved, size, cmd, todo, buf, was, spilt>>
        \/ /\ Types' /\ tot = put /\ tot' = 0 /\ todo' = Tail(todo)
           /\ size' = Larger(size, pos + put) /\ saved' = size'
           /\ UNCHANGED <<blk, cmd, buf, was, spilt>>
    BY <1>13, <1>16, <2>2, <2>3, PutsSome
  <2>6. CASE /\ Types' /\ tot' \in Nat /\ tot <= tot' /\ tot' <= put /\ Wrote(pos, tot)'
             /\ \A x \in 0 .. Cap - 1 : ~(pos <= x /\ x < pos + tot') => At(x)' = At(x)
             /\ UNCHANGED <<saved, size, cmd, todo, buf, was, spilt>>
    <3>1. PICK t \in Nat : t = tot' /\ tot <= t  BY <2>6
    <3>2. was' = was /\ \A x \in 0 .. pos - 1 : At(x)' = At(x)
      <4>1. \A x \in 0 .. pos - 1 : x \in 0 .. Cap - 1 /\ ~(pos <= x /\ x < pos + t)
        BY <1>4, <1>7, <1>8
      <4> QED  BY <2>6, <3>1, <4>1
    <3>3. Kept(0, pos)'  BY <1>6, <3>2 DEF Kept
    <3>4. Kept(pos + tot, old)'
      <4>1. \A x \in pos + t .. old - 1 :
                x \in 0 .. Cap - 1 /\ x \in pos + tot .. old - 1 /\ ~(pos <= x /\ x < pos + t)
        <5>1. pos \in Nat /\ tot \in Nat /\ t \in Nat /\ old \in Nat /\ Cap \in Nat
          BY <1>7
        <5>2. tot <= t /\ old <= Cap  BY <1>4, <3>1
        <5> QED  BY <5>1, <5>2, Later, Zenon
      <4>2. \A x \in pos + t .. old - 1 : At(x)' = At(x)  BY <2>6, <3>1, <4>1
      <4>3. \A x \in pos + t .. old - 1 : At(x) = was[x + 1]  BY <1>13, <4>1 DEF Kept
      <4> QED  BY <3>1, <3>2, <4>2, <4>3 DEF Kept
    <3>5. Has(pos, rest)' /\ Sizes(old)'  BY <1>13, <2>6 DEF Has, Sizes
    <3>6. AtInsert'  BY <1>11, <1>13, <2>6, <3>3, <3>4, <3>5
    <3> QED  BY <2>6, <3>6
  <2>7. CASE /\ Types' /\ tot = put /\ tot' = 0 /\ todo' = Tail(todo)
             /\ size' = Larger(size, pos + put) /\ saved' = size'
             /\ UNCHANGED <<blk, cmd, buf, was, spilt>>
    <3>1. was' = was /\ \A x : At(x)' = At(x)  BY <2>7 DEF At
    <3>2. Kept(0, pos)' /\ Wrote(pos, put)' /\ Has(pos, rest)'
      BY <1>6, <1>13, <2>7, <3>1 DEF Kept, Wrote, Has
    <3>3. Sizes(mid)'  BY <1>5, <2>3, <2>7 DEF Sizes
    <3>4. Kept(pos + put, old)'  BY <1>13, <2>7, <3>1 DEF Kept
    <3>5. CASE Fits
      <4>1. put = n  BY <1>8, <3>5
      <4>2. Placed(pos + n, pos, rest, tot)' /\ tot' <= mid - pos
        BY <1>5, <1>8, <2>7 DEF Placed
      <4>3. Kept(pos + n + tot, old)'  BY <2>7, <3>4, <4>1 DEF Kept
      <4>4. AtInsert'  BY <1>11, <2>1, <2>7, <3>2, <3>3, <3>5, <4>1, <4>2, <4>3
      <4> QED  BY <2>7, <4>4
    <3>6. CASE ~Fits
      <4>1. AtInsert'  BY <1>11, <2>1, <2>7, <3>2, <3>3, <3>4, <3>6
      <4> QED  BY <2>7, <4>1
    <3> QED  BY <3>5, <3>6
  <2> QED  BY <2>5, <2>6, <2>7
<1>14. CASE /\ todo = <<PutTail>> /\ Fits
            /\ Sizes(mid) /\ tot <= mid - pos /\ Has(pos, rest)
            /\ Wrote(pos, n) /\ Placed(pos + n, pos, rest, tot)
            /\ Kept(pos + n + tot, old)
  <2> DEFINE o == pos + n  m == mid - pos
  <2>1. /\ o \in Nat /\ m \in Nat /\ o <= mid /\ o + m = mid + n /\ o + m <= Cap
        /\ rest <= m
    BY <1>6, <1>7, <1>8, <1>9, <1>14
  <2>2. Head(todo) = Call("buf", o, m) /\ Tail(todo) = <<>> /\ todo # <<>>
    BY <1>10, <1>14, Lists
  <2>3. /\ tot <= m /\ Placed(o, pos, rest, tot) /\ Kept(o + tot, old)
        /\ size = mid /\ saved = mid
    BY <1>14 DEF Sizes
  <2>4. o <= size  BY <2>1, <2>3
  <2>5. Placing(o, m)  BY <1>6, <2>2 DEF Placing
  <2> HIDE DEF o, m
  <2>6. \/ Leave
        \/ /\ Types' /\ tot' \in Nat /\ tot <= tot' /\ tot' <= m
           /\ Placed(o, pos, rest, tot)'
           /\ \A x \in 0 .. Cap - 1 : ~(o <= x /\ x < o + tot') => At(x)' = At(x)
           /\ UNCHANGED <<saved, size, cmd, todo, buf, was, spilt>>
        \/ /\ Types' /\ tot = m /\ tot' = 0 /\ todo' = Tail(todo)
           /\ size' = Larger(size, o + m) /\ saved' = size'
           /\ UNCHANGED <<blk, cmd, buf, was, spilt>>
    BY <1>14, <2>1, <2>3, <2>4, <2>5, PutsBuffer
  <2>7. CASE /\ Types' /\ tot' \in Nat /\ tot <= tot' /\ tot' <= m
             /\ Placed(o, pos, rest, tot)'
             /\ \A x \in 0 .. Cap - 1 : ~(o <= x /\ x < o + tot') => At(x)' = At(x)
             /\ UNCHANGED <<saved, size, cmd, todo, buf, was, spilt>>
    <3>1. PICK t \in Nat : t = tot' /\ tot <= t  BY <2>7
    <3>2. was' = was /\ \A x \in 0 .. o - 1 : At(x)' = At(x)
      <4>1. \A x \in 0 .. o - 1 : x \in 0 .. Cap - 1 /\ ~(o <= x /\ x < o + t)
        BY <1>7, <2>1
      <4> QED  BY <2>7, <3>1, <4>1
    <3>3. Kept(0, pos)'
      <4>1. \A x \in 0 .. pos - 1 : x \in 0 .. o - 1  BY DEF o
      <4> QED  BY <1>6, <3>2, <4>1 DEF Kept
    <3>4. Wrote(pos, n)'
      <4>1. \A x \in 0 .. n - 1 : pos + x \in 0 .. o - 1  BY DEF o
      <4>2. cmd' = cmd  BY <2>7
      <4> QED  BY <1>14, <3>2, <4>1, <4>2 DEF Wrote
    <3>5. Kept(o + tot, old)'
      <4>1. \A x \in o + t .. old - 1 :
                x \in 0 .. Cap - 1 /\ x \in o + tot .. old - 1 /\ ~(o <= x /\ x < o + t)
        <5>1. o \in Nat /\ tot \in Nat /\ t \in Nat /\ old \in Nat /\ Cap \in Nat
          BY <1>7, <2>1
        <5>2. tot <= t /\ old <= Cap  BY <1>4, <3>1
        <5> QED  BY <5>1, <5>2, Later, Zenon
      <4>2. \A x \in o + t .. old - 1 : At(x)' = At(x)  BY <2>7, <3>1, <4>1
      <4>3. \A x \in o + t .. old - 1 : At(x) = was[x + 1]  BY <2>3, <4>1 DEF Kept
      <4> QED  BY <3>1, <3>2, <4>2, <4>3 DEF Kept
    <3>6. Has(pos, rest)' /\ Sizes(mid)'  BY <1>14, <2>7 DEF Has, Sizes
    <3>7. tot' <= mid - pos /\ Placed(pos + n, pos, rest, tot)' /\ Kept(pos + n + tot, old)'
      BY <2>7, <3>5 DEF o, m
    <3>8. AtInsert'  BY <1>11, <1>14, <2>7, <3>3, <3>4, <3>6, <3>7
    <3> QED  BY <2>7, <3>8
  <2>8. CASE /\ Types' /\ tot = m /\ tot' = 0 /\ todo' = Tail(todo)
             /\ size' = Larger(size, o + m) /\ saved' = size'
             /\ UNCHANGED <<blk, cmd, buf, was, spilt>>
    <3>1. was' = was /\ cmd' = cmd /\ \A x : At(x)' = At(x)  BY <2>8 DEF At
    <3>2. Kept(0, pos)' /\ Wrote(pos, n)'
      BY <1>6, <1>14, <3>1 DEF Kept, Wrote
    <3>3. Sizes(mid + n)'
      BY <2>1, <2>3, <2>8 DEF Sizes, Larger
    <3>4. Moved(pos + n, pos, rest)'
      <4>1. \A x \in 0 .. rest - 1 : x \in 0 .. m - 1 /\ x < rest  BY <2>1
      <4>2. \A x \in 0 .. rest - 1 : At(o + x) = was[pos + x + 1]
        BY <2>3, <2>8, <4>1 DEF Placed
      <4> QED  BY <3>1, <4>2 DEF Moved, o
    <3>5. AtInsert'  BY <1>11, <1>14, <2>2, <2>8, <3>1, <3>2, <3>3, <3>4
    <3> QED  BY <2>8, <3>5
  <2> QED  BY <2>6, <2>7, <2>8
<1>17. CASE /\ todo = <<PutTail>> /\ ~Fits /\ tot = 0
            /\ Sizes(mid) /\ Wrote(pos, put) /\ Kept(pos + put, old)
  <2> DEFINE o == pos + n  m == mid - pos
  <2>1. o \in Nat /\ m \in Nat /\ o + m > Cap
    BY <1>6, <1>7, <1>8, <1>17
  <2>2. Head(todo) = Call("buf", o, m) /\ Tail(todo) = <<>> /\ todo # <<>>
    BY <1>10, <1>17, Lists
  <2> HIDE DEF o, m
  <2>3. \/ Leave
        \/ /\ Types' /\ tot' = 0 /\ todo' = Tail(todo)
           /\ UNCHANGED <<blk, cmd, saved, size, buf, was, spilt>>
    BY <1>6, <2>1, <2>2, PutsNothing
  <2>4. CASE /\ Types' /\ tot' = 0 /\ todo' = Tail(todo)
             /\ UNCHANGED <<blk, cmd, saved, size, buf, was, spilt>>
    <3>1. was' = was /\ cmd' = cmd /\ \A x : At(x)' = At(x)  BY <2>4 DEF At
    <3>2. Kept(0, pos)' /\ Wrote(pos, put)' /\ Kept(pos + put, old)' /\ Sizes(mid)'
      BY <1>6, <1>17, <2>4, <3>1 DEF Kept, Wrote, Sizes
    <3>3. AtInsert'  BY <1>11, <1>17, <2>2, <2>4, <3>1, <3>2
    <3> QED  BY <2>4, <3>3
  <2> QED  BY <2>3, <2>4
<1>15. CASE todo = <<>>
  BY <1>6, <1>15, NoCall DEF Finish
<1> QED
  <2>1. /\ rest = Old - cmd.pos /\ old = Old /\ pos = cmd.pos /\ mid = Mid /\ n = cmd.len
        /\ put = Put
    BY <1>3, <1>4, <1>5, <1>6, <1>9, <1>16
  <2>2. \A t : (\A x \in 0 .. t - 1 : x < Old - cmd.pos =>
                    At(cmd.pos + cmd.len + x) = was[cmd.pos + x + 1])
               => Placed(pos + n, pos, rest, t)
    BY <2>1 DEF Placed
  <2> QED  BY <1>12, <1>13, <1>14, <1>15, <1>17, <2>1, <2>2 DEF AtInsert

LEMMA DeleteGoes ==
    ASSUME Types, AtDelete, Next
    PROVE  Leave \/ (Types' /\ AtDelete' /\ UNCHANGED <<cmd, was, spilt>>)
<1>1. Cap \in Nat /\ tot \in Nat /\ W \in Nat /\ W > 0  BY CapIsNatural, Typed
<1>2. PICK pos \in Nat : pos = cmd.pos  BY <1>1 DEF AtDelete, Numbers
<1>3. PICK n \in Nat : n = cmd.len  BY <1>1 DEF AtDelete, Numbers
<1>4. PICK old \in Nat : old = Old /\ old <= Cap  BY Typed
<1>5. PICK end \in Nat : end = End /\ end < old
  <2>1. cmd.pos + cmd.len \in Nat  BY <1>2, <1>3
  <2>2. End \in Nat  BY <1>1, <2>1 DEF End
  <2> QED  BY <1>4, <2>2 DEF AtDelete
<1>6. PICK rest \in Nat : rest = Rest /\ rest = old - end  BY <1>4, <1>5 DEF Rest
<1>7. PICK then \in Nat : /\ then = Then /\ then <= Cap
                          /\ then = IF pos > old THEN old ELSE Larger(old, pos + rest)
  BY <1>2, <1>4, <1>6 DEF AtDelete, Then, Larger
<1>8. PICK less \in Nat : less = (then - n) % W /\ less <= Cap
  <2>1. (then - n) % W \in Nat  BY <1>1
  <2> QED  BY <1>3, <1>7, <2>1 DEF AtDelete
<1>9. cmd = Cmd("d", pos, n, <<>>) /\ cmd # Idle
  BY <1>2, <1>3, Records DEF AtDelete, Idle
<1>10. /\ ReadRest = Call("read", end, rest) /\ PutRest = Call("buf", pos, rest)
       /\ LessLen = Call("less", 0, n)
  BY <1>2, <1>3, <1>5, <1>6 DEF ReadRest, PutRest, LessLen
<1>11. ASSUME cmd' = cmd, was' = was, tot' \in Nat,
              \/ /\ todo' = <<ReadRest, PutRest, LessLen>>
                 /\ Sizes(old)' /\ tot' <= rest /\ Has(end, tot)' /\ Kept(0, old)'
              \/ /\ todo' = <<PutRest, LessLen>>
                 /\ Sizes(old)' /\ tot' <= rest /\ Has(end, rest)'
                 /\ IF pos > old THEN tot' = 0 /\ Kept(0, old)'
                    ELSE /\ Kept(0, pos)' /\ Placed(pos, end, rest, tot)'
                         /\ Kept(pos + tot, old)'
              \/ /\ \/ todo' = <<LessLen>> /\ Sizes(then)'
                    \/ todo' = <<>> /\ Sizes(less)'
                 /\ tot' = 0
                 /\ IF pos > old THEN Kept(0, old)'
                    ELSE /\ Kept(0, pos)' /\ Placed(pos, end, rest, rest)'
                         /\ Kept(pos + rest, old)'
       PROVE  AtDelete'
  <2>1. /\ Old' = old /\ End' = end /\ Rest' = rest /\ Then' = then
        /\ cmd'.pos = pos /\ cmd'.len = n
        /\ ReadRest' = ReadRest /\ PutRest' = PutRest /\ LessLen' = LessLen
    BY <1>2, <1>3, <1>4, <1>5, <1>6, <1>7, <1>11, SamePlan
  <2> DEFINE head == /\ cmd = Cmd("d", cmd.pos, cmd.len, <<>>)
                     /\ cmd.pos \in Numbers /\ cmd.len \in Numbers /\ End < Old
                     /\ Then <= Cap /\ (Then - cmd.len) % W <= Cap
  <2>2. head'
    BY <1>2, <1>3, <1>4, <1>5, <1>7, <1>8, <1>11, <2>1 DEF AtDelete
  <2> HIDE DEF head
  <2>3. CASE /\ todo' = <<ReadRest, PutRest, LessLen>>
             /\ Sizes(old)' /\ tot' <= rest /\ Has(end, tot)' /\ Kept(0, old)'
    BY <2>1, <2>2, <2>3 DEF AtDelete, Sizes, Has, Kept, head
  <2>4. CASE /\ todo' = <<PutRest, LessLen>>
             /\ Sizes(old)' /\ tot' <= rest /\ Has(end, rest)'
             /\ IF pos > old THEN tot' = 0 /\ Kept(0, old)'
                ELSE /\ Kept(0, pos)' /\ Placed(pos, end, rest, tot)'
                     /\ Kept(pos + tot, old)'
    <3>1. CASE pos > old
      BY <2>1, <2>2, <2>4, <3>1 DEF AtDelete, Sizes, Has, Kept, head
    <3>2. CASE ~(pos > old)
      <4>1. Moved(cmd.pos, End, tot)'
        <5>0. tot' \in Nat /\ tot' <= rest  BY <1>11, <2>4
        <5>3. \A t \in Nat : t <= rest => \A x \in 0 .. t - 1 : x < rest  OBVIOUS
        <5>1. \A x \in 0 .. tot' - 1 : x < rest  BY <5>0, <5>3, Zenon
        <5>2. \A x \in 0 .. tot' - 1 : At(pos + x)' = was'[end + x + 1]
          BY <2>4, <3>2, <5>1 DEF Placed
        <5> QED  BY <2>1, <5>2 DEF Moved
      <4> QED
        BY <2>1, <2>2, <2>4, <3>2, <4>1 DEF AtDelete, Sizes, Has, Kept, head
    <3> QED  BY <3>1, <3>2
  <2>5. CASE /\ \/ todo' = <<LessLen>> /\ Sizes(then)'
                \/ todo' = <<>> /\ Sizes(less)'
             /\ tot' = 0
             /\ IF pos > old THEN Kept(0, old)'
                ELSE /\ Kept(0, pos)' /\ Placed(pos, end, rest, rest)'
                     /\ Kept(pos + rest, old)'
    <3>1. ~(pos > old) => Moved(cmd.pos, End, Rest)'
      <4>1. \A x \in 0 .. rest - 1 : x < rest  OBVIOUS
      <4>2. ~(pos > old) => \A x \in 0 .. rest - 1 : At(pos + x)' = was'[end + x + 1]
        BY <2>5, <4>1 DEF Placed
      <4> QED  BY <2>1, <4>2 DEF Moved
    <3>2. IF pos > old THEN Kept(0, Old)'
          ELSE /\ Kept(0, cmd.pos)' /\ Moved(cmd.pos, End, Rest)'
               /\ Kept(cmd.pos + Rest, Old)'
      BY <2>1, <2>5, <3>1 DEF Kept
    <3>3. /\ todo' = <<LessLen'>> \/ todo' = <<>>
          /\ todo' = <<>> => size' = less /\ saved' = less
          /\ todo' # <<>> => size' = then /\ saved' = then
      BY <2>1, <2>5 DEF Sizes
    <3>4. less = (Then' - cmd'.len) % W  BY <1>8, <2>1
    <3> QED
      BY <2>1, <2>2, <2>5, <3>2, <3>3, <3>4 DEF AtDelete, Sizes, head
  <2> QED  BY <1>11, <2>3, <2>4, <2>5
<1>12. CASE /\ todo = <<ReadRest, PutRest, LessLen>>
            /\ Sizes(old) /\ tot <= rest /\ Has(end, tot) /\ Kept(0, old)
  <2>1. /\ Head(todo) = Call("read", end, rest) /\ Tail(todo) = <<PutRest, LessLen>>
        /\ todo # <<>>
    BY <1>10, <1>12, Lists
  <2>2. Crash \/ ReadChunk \/ EndRead  BY <1>9, <2>1, TheCall
  <2>3. CASE Crash  BY <2>3 DEF Crash
  <2>4. end + rest <= size /\ size = old /\ saved = old /\ end + rest = old
    BY <1>5, <1>6, <1>12 DEF Sizes
  <2>5. \A x \in end .. end + rest - 1 : At(x) = was[x + 1]
    <3>1. \A x \in 0 .. old - 1 : At(x) = was[x + 1]  BY <1>12 DEF Kept
    <3> QED  BY <2>4, <3>1
  <2>6. CASE ReadChunk
    <3>1. /\ Types' /\ tot' <= rest /\ Has(end, tot)'
          /\ UNCHANGED <<blk, saved, size, cmd, todo, was, spilt>>
      BY <1>12, <2>1, <2>4, <2>5, <2>6, Reads
    <3>2. was' = was /\ \A x : At(x)' = At(x)  BY <3>1 DEF At
    <3>3. Kept(0, old)' /\ Sizes(old)'
      BY <1>12, <3>1, <3>2 DEF Kept, Sizes
    <3>4. tot' \in Nat  BY <1>1, <3>1 DEF Types
    <3>5. AtDelete'  BY <1>11, <1>12, <3>1, <3>3, <3>4
    <3> QED  BY <3>1, <3>5
  <2>7. CASE EndRead
    <3>1. /\ Types' /\ tot = rest /\ tot' = 0 /\ todo' = <<PutRest, LessLen>>
          /\ UNCHANGED <<blk, saved, size, cmd, buf, was, spilt>>
      BY <2>1, <2>4, <2>7, EndsReading
    <3>2. was' = was /\ \A x : At(x)' = At(x)  BY <3>1 DEF At
    <3>3. Sizes(old)' /\ Has(end, rest)' /\ Placed(pos, end, rest, tot)'
      BY <1>12, <3>1, <3>2 DEF Sizes, Has, Placed
    <3>4. IF pos > old THEN Kept(0, old)' ELSE Kept(0, pos)' /\ Kept(pos + tot, old)'
      <4>1. \A x \in 0 .. old - 1 : At(x)' = was'[x + 1]  BY <1>12, <3>2 DEF Kept
      <4>2. Kept(0, old)'  BY <4>1 DEF Kept
      <4>3. pos <= old => Kept(0, pos)'  BY <4>1 DEF Kept
      <4>4. pos <= old => Kept(pos + tot, old)'  BY <3>1, <4>1 DEF Kept
      <4> QED  BY <4>2, <4>3, <4>4
    <3>5. AtDelete'  BY <1>11, <3>1, <3>3, <3>4
    <3> QED  BY <3>1, <3>5
  <2> QED  BY <2>2, <2>3, <2>6, <2>7
<1>13. CASE /\ todo = <<PutRest, LessLen>>
            /\ Sizes(old) /\ tot <= rest /\ Has(end, rest)
            /\ IF pos > old THEN tot = 0 /\ Kept(0, old)
               ELSE /\ Kept(0, pos) /\ Placed(pos, end, rest, tot)
                    /\ Kept(pos + tot, old)
  <2>1. Head(todo) = Call("buf", pos, rest) /\ Tail(todo) = <<LessLen>> /\ todo # <<>>
    BY <1>10, <1>13, Lists
  <2>2. Placing(pos, rest)  BY <1>9, <2>1 DEF Placing
  <2>3. size = old /\ saved = old  BY <1>13 DEF Sizes
  <2>4. CASE pos > old
    <3>1. \/ Leave
          \/ /\ Types' /\ tot' = 0 /\ todo' = Tail(todo)
             /\ UNCHANGED <<blk, cmd, saved, size, buf, was, spilt>>
      BY <2>2, <2>3, <2>4, PutsNothing DEF Placing
    <3>2. CASE /\ Types' /\ tot' = 0 /\ todo' = Tail(todo)
               /\ UNCHANGED <<blk, cmd, saved, size, buf, was, spilt>>
      <4>1. was' = was /\ \A x : At(x)' = At(x)  BY <3>2 DEF At
      <4>2. Kept(0, old)'  BY <1>13, <2>4, <4>1 DEF Kept
      <4>3. Sizes(then)'  BY <1>7, <2>3, <2>4, <3>2 DEF Sizes
      <4>4. AtDelete'  BY <1>11, <2>1, <2>4, <3>2, <4>2, <4>3
      <4> QED  BY <3>2, <4>4
    <3> QED  BY <3>1, <3>2
  <2>5. CASE ~(pos > old)
    <3>1. pos <= size /\ pos + rest <= Cap /\ then = Larger(old, pos + rest)
      <4>1. then = Larger(old, pos + rest)  BY <1>7, <2>5
      <4>2. pos + rest <= then  BY <4>1 DEF Larger
      <4> QED  BY <1>1, <1>7, <2>3, <2>5, <4>1, <4>2
    <3>2. \/ Leave
          \/ /\ Types' /\ tot' \in Nat /\ tot <= tot' /\ tot' <= rest
             /\ Placed(pos, end, rest, tot)'
             /\ \A x \in 0 .. Cap - 1 : ~(pos <= x /\ x < pos + tot') => At(x)' = At(x)
             /\ UNCHANGED <<saved, size, cmd, todo, buf, was, spilt>>
          \/ /\ Types' /\ tot = rest /\ tot' = 0 /\ todo' = Tail(todo)
             /\ size' = Larger(size, pos + rest) /\ saved' = size'
             /\ UNCHANGED <<blk, cmd, buf, was, spilt>>
      BY <1>13, <2>2, <2>5, <3>1, PutsBuffer
    <3>3. CASE /\ Types' /\ tot' \in Nat /\ tot <= tot' /\ tot' <= rest
               /\ Placed(pos, end, rest, tot)'
               /\ \A x \in 0 .. Cap - 1 : ~(pos <= x /\ x < pos + tot') => At(x)' = At(x)
               /\ UNCHANGED <<saved, size, cmd, todo, buf, was, spilt>>
      <4>1. PICK t \in Nat : t = tot' /\ tot <= t  BY <3>3
      <4>2. was' = was /\ \A x \in 0 .. pos - 1 : At(x)' = At(x)
        <5>1. \A x \in 0 .. pos - 1 : x \in 0 .. Cap - 1 /\ ~(pos <= x /\ x < pos + t)
          BY <1>1, <1>4, <2>5
        <5> QED  BY <3>3, <4>1, <5>1
      <4>3. Kept(0, pos)'  BY <1>13, <2>5, <4>2 DEF Kept
      <4>4. Kept(pos + tot, old)'
        <5>1. pos \in Nat /\ tot \in Nat /\ t \in Nat /\ old \in Nat /\ Cap \in Nat
          BY <1>1
        <5>2. tot <= t /\ old <= Cap  BY <1>4, <4>1
        <5>3. \A x \in pos + t .. old - 1 :
                  x \in 0 .. Cap - 1 /\ x \in pos + tot .. old - 1 /\ ~(pos <= x /\ x < pos + t)
          BY <5>1, <5>2, Later, Zenon
        <5>4. \A x \in pos + t .. old - 1 : At(x)' = At(x)  BY <3>3, <4>1, <5>3
        <5>5. \A x \in pos + t .. old - 1 : At(x) = was[x + 1]  BY <1>13, <2>5, <5>3 DEF Kept
        <5> QED  BY <4>1, <4>2, <5>4, <5>5 DEF Kept
      <4>5. Has(end, rest)' /\ Sizes(old)'  BY <1>13, <3>3 DEF Has, Sizes
      <4>6. AtDelete'  BY <1>11, <1>13, <2>5, <3>3, <4>3, <4>4, <4>5
      <4> QED  BY <3>3, <4>6
    <3>4. CASE /\ Types' /\ tot = rest /\ tot' = 0 /\ todo' = Tail(todo)
               /\ size' = Larger(size, pos + rest) /\ saved' = size'
               /\ UNCHANGED <<blk, cmd, buf, was, spilt>>
      <4>1. was' = was /\ \A x : At(x)' = At(x)  BY <3>4 DEF At
      <4>2. Kept(0, pos)' /\ Placed(pos, end, rest, rest)' /\ Kept(pos + rest, old)'
        BY <1>13, <2>5, <3>4, <4>1 DEF Kept, Placed
      <4>3. Sizes(then)'  BY <2>3, <3>1, <3>4 DEF Sizes
      <4>4. AtDelete'  BY <1>11, <2>1, <2>5, <3>4, <4>2, <4>3
      <4> QED  BY <3>4, <4>4
    <3> QED  BY <3>2, <3>3, <3>4
  <2> QED  BY <2>4, <2>5
<1>14. CASE /\ todo = <<LessLen>> /\ Sizes(then) /\ tot = 0
            /\ IF pos > old THEN Kept(0, old)
               ELSE /\ Kept(0, pos) /\ Placed(pos, end, rest, rest)
                    /\ Kept(pos + rest, old)
  <2>1. Head(todo) = Call("less", 0, n) /\ Tail(todo) = <<>> /\ todo # <<>>
    BY <1>10, <1>14, Lists
  <2>2. Crash \/ SetSize  BY <1>9, <2>1, TheCall
  <2>3. CASE Crash  BY <2>3 DEF Crash
  <2>4. CASE SetSize
    <3>1. /\ size' = less /\ saved' = less /\ todo' = <<>>
          /\ UNCHANGED <<blk, cmd, tot, buf, was, spilt>>
      BY <1>8, <1>14, <2>1, <2>4, Records DEF SetSize, call, Sizes
    <3>2. Types'  BY <1>1, <1>8, <3>1 DEF Types, Old
    <3>3. was' = was /\ \A x : At(x)' = At(x)  BY <3>1 DEF At
    <3>4. IF pos > old THEN Kept(0, old)'
          ELSE /\ Kept(0, pos)' /\ Placed(pos, end, rest, rest)'
               /\ Kept(pos + rest, old)'
      BY <1>14, <3>3 DEF Kept, Placed
    <3>5. Sizes(less)'  BY <3>1 DEF Sizes
    <3>6. AtDelete'  BY <1>11, <1>14, <3>1, <3>4, <3>5
    <3> QED  BY <3>1, <3>2, <3>6
  <2> QED  BY <2>2, <2>3, <2>4
<1>15. CASE todo = <<>>
  BY <1>9, <1>15, NoCall DEF Finish
<1> QED
  <2>1. /\ rest = Rest /\ old = Old /\ pos = cmd.pos /\ end = End /\ n = cmd.len
        /\ then = Then
    BY <1>2, <1>3, <1>4, <1>5, <1>6, <1>7
  <2>2. \A t : Moved(cmd.pos, End, t) => Placed(pos, end, rest, t)
    BY <2>1 DEF Moved, Placed
  <2>3. todo = <<LessLen>> => todo # <<>>  BY Lists
  <2> QED  BY <1>12, <1>13, <1>14, <1>15, <2>1, <2>2, <2>3 DEF AtDelete

-----------------------------------------------------------------------------
(* A command begins at the first call of its plan.                         *)
LEMMA SmallMod == \A a \in Nat : a < W => a % W = a
BY CapIsNatural

LEMMA BelowMod == \A a \in Nat : a < W => (a - W) % W = a
<1>1. W \in Nat \ {0}  BY FileEditAssumption, CapIsNatural
<1> QED  BY <1>1

LEMMA BeginsCat ==
    ASSUME Types, AtIdle, Clean, cmd_cat PROVE Types' /\ AtCat' /\ Clean'
<1> DEFINE c == Cmd("cat", 0, 0, <<>>)  calls == <<Call("read", 0, saved)>>
<1>1. Open(c, calls) /\ spilt' = spilt /\ spilt' \in BOOLEAN  BY DEF cmd_cat, Types
<1> HIDE DEF c, calls
<1>2. /\ Types' /\ Sizes(Old)' /\ Kept(0, Old)' /\ Old' = saved
      /\ cmd' = c /\ todo' = calls /\ tot' = 0 /\ buf' = <<>>
      /\ ~spilt => /\ \A x \in 0 .. saved' - 1 : At(x)' \in Bytes
                   /\ \A x \in 1 .. Old' : was'[x] \in Bytes
  BY <1>1, Opened
<1>3. Has(0, tot)'  BY <1>2 DEF Has
<1>4. saved \in Nat  BY Typed
<1>5. todo' = <<Call("read", 0, Old')>>  BY <1>2 DEF calls
<1>6. AtCat'  BY <1>2, <1>3, <1>4, <1>5 DEF AtCat, c
<1>7. cmd'.k = "cat"  BY <1>2, Records DEF c
<1>8. Clean'  BY <1>1, <1>2, <1>7 DEF Clean, Inward
<1> QED  BY <1>2, <1>6, <1>8

LEMMA BeginsWrite ==
    ASSUME Types, AtIdle, Clean, NEW text \in Lines, cmd_w(text)
    PROVE  Types' /\ AtWrite' /\ Clean'
<1> DEFINE n == Len(text)
           c == Cmd("w", 0, n, text)
           calls == <<Call("text", 0, n)>>
                    \o (IF n < saved THEN <<Call("size", 0, n)>> ELSE <<>>)
<1>1. Open(c, calls) /\ spilt' = spilt /\ spilt' \in BOOLEAN  BY DEF cmd_w, Types
<1> HIDE DEF c, calls
<1>2. /\ Types' /\ Sizes(Old)' /\ Kept(0, Old)' /\ Old' = saved
      /\ cmd' = c /\ todo' = calls /\ tot' = 0 /\ buf' = <<>>
      /\ ~spilt => /\ \A x \in 0 .. saved' - 1 : At(x)' \in Bytes
                   /\ \A x \in 1 .. Old' : was'[x] \in Bytes
  BY <1>1, Opened
<1>3. n \in Nat  BY LineIs
<1>4. /\ cmd'.k = "w" /\ cmd'.text = text /\ cmd'.len = n
      /\ cmd' = Cmd("w", 0, Len(cmd'.text), cmd'.text)
  BY <1>2, Records DEF c
<1>5. Wrote(0, tot)' /\ Kept(tot, Old)'  BY <1>2 DEF Wrote, Kept
<1> HIDE DEF n
<1>6. todo' = <<Call("text", 0, cmd'.len)>>
              \o (IF cmd'.len < Old' THEN <<Call("size", 0, cmd'.len)>> ELSE <<>>)
  BY <1>2, <1>4 DEF calls
<1>7. AtWrite'  BY <1>2, <1>3, <1>4, <1>5, <1>6 DEF AtWrite
<1>8. Clean'  BY <1>1, <1>2, <1>4 DEF Clean, Inward
<1> QED  BY <1>2, <1>7, <1>8

LEMMA BeginsInsert ==
    ASSUME Types, AtIdle, Clean, NEW pos \in 0 .. Cap, NEW text \in Lines, cmd_i(pos, text)
    PROVE  Types' /\ (AtAppend' \/ AtInsert') /\ Clean'
<1> DEFINE n == Len(text)
           c == Cmd("i", pos, n, text)
           put == <<Call("text", saved, n)>>
           move == <<Call("read", pos, saved - pos), Call("text", pos, n),
                     Call("buf", pos + n, Grown(pos, n) - pos)>>
<1>1. /\ IF pos >= saved THEN Open(c, put) ELSE Open(c, move)
      /\ spilt' = (spilt \/ Spills(pos, n))
  BY DEF cmd_i
<1>2. spilt' \in BOOLEAN /\ (~spilt' => ~spilt /\ ~Spills(pos, n))
  BY <1>1 DEF Types, Spills
<1>3. n \in Nat /\ pos \in Nat /\ saved \in Nat  BY LineIs, Typed, CapIsNatural
<1>4. /\ c.k = "i" /\ c.pos = pos /\ c.text = text /\ c.len = n
      /\ c = Cmd("i", c.pos, Len(c.text), c.text)
  BY Records
<1> HIDE DEF n, c, put, move
<1>5. PICK calls : /\ Open(c, calls)
                   /\ calls = IF pos >= saved THEN put ELSE move
  BY <1>1
<1>6. /\ Types' /\ Sizes(Old)' /\ Kept(0, Old)' /\ Old' = saved
      /\ cmd' = c /\ todo' = calls /\ tot' = 0 /\ buf' = <<>>
      /\ ~spilt => /\ \A x \in 0 .. saved' - 1 : At(x)' \in Bytes
                   /\ \A x \in 1 .. Old' : was'[x] \in Bytes
  BY <1>2, <1>5, Opened
<1>11. Cap \in Nat /\ saved <= Cap  BY Typed, CapIsNatural
<1>12. pos < saved => Mid' = Grown(pos, n) /\ (Fits' <=> Grown(pos, n) + n <= Cap)
  <2>1. Put' = IF pos + n <= Cap THEN n ELSE 0  BY <1>4, <1>6 DEF Put, Taken
  <2>2. Mid' = Larger(saved, pos + Put')  BY <1>4, <1>6 DEF Mid
  <2>3. pos < saved => Mid' = Grown(pos, n)
    BY <1>3, <1>11, <2>1, <2>2 DEF Larger, Grown
  <2> QED  BY <1>4, <1>6, <2>3 DEF Fits
<1>7. Inward' \/ spilt'
  BY <1>2, <1>3, <1>4, <1>6, <1>12 DEF Inward, Spills
<1>8. Clean'  BY <1>2, <1>6, <1>7 DEF Clean
<1>9. CASE pos >= saved
  <2>1. Wrote(Old, tot)'  BY <1>6 DEF Wrote
  <2>2. todo' = <<Call("text", Old', cmd'.len)>>
    BY <1>1, <1>4, <1>5, <1>6, <1>9 DEF put
  <2>3. Taken(Old)' \in Nat  BY <1>3, <1>4, <1>6 DEF Taken
  <2>4. tot' <= Taken(Old)'  BY <1>6, <2>3
  <2> QED
    BY <1>3, <1>4, <1>6, <1>8, <1>9, <2>1, <2>2, <2>4 DEF AtAppend
<1>10. CASE ~(pos >= saved)
  <2>1. /\ ReadTail' = Call("read", pos, saved - pos) /\ PutText' = Call("text", pos, n)
        /\ PutTail' = Call("buf", pos + n, Grown(pos, n) - pos)
    BY <1>3, <1>4, <1>6, <1>10, <1>12 DEF ReadTail, PutText, PutTail
  <2>2. todo' = <<ReadTail', PutText', PutTail'>>
    BY <1>5, <1>6, <1>10, <2>1 DEF move
  <2>3. Kept(0, cmd.pos)' /\ Kept(cmd.pos, Old)'
    BY <1>3, <1>4, <1>6, <1>10 DEF Kept
  <2>4. Has(cmd.pos, tot)' /\ tot' <= Old' - cmd'.pos
    BY <1>3, <1>4, <1>6, <1>10 DEF Has
  <2>5. AtInsert'
    BY <1>3, <1>4, <1>6, <1>10, <2>1, <2>2, <2>3, <2>4 DEF AtInsert
  <2> QED  BY <1>6, <1>8, <2>5
<1> QED  BY <1>9, <1>10

LEMMA BeginsDelete ==
    ASSUME Types, AtIdle, Clean, NEW pos \in Numbers, NEW n \in Numbers, cmd_d(pos, n)
    PROVE  Types' /\ (AtCut' \/ AtDelete') /\ Clean'
<1> DEFINE end == (pos + n) % W
           copy == (saved - end) % W
           then == IF pos > saved THEN saved ELSE Larger(saved, pos + copy)
           grown == Grown(pos, copy)
           c == Cmd("d", pos, n, <<>>)
           cut == <<Call("size", 0, pos)>>
           move == <<Call("read", end, copy), Call("buf", pos, copy), Call("less", 0, n)>>
<1>0. /\ IF end >= saved THEN pos <= Cap /\ Open(c, cut)
         ELSE (grown - n) % W <= Cap /\ Open(c, move)
      /\ spilt' = (spilt \/ pos > saved \/ pos + n >= W)
  BY DEF cmd_d
<1>2. spilt' \in BOOLEAN /\ (~spilt' => ~spilt /\ ~(pos > saved) /\ ~(pos + n >= W))
  BY <1>0 DEF Types
<1>3. /\ pos \in Nat /\ n \in Nat /\ saved \in Nat /\ saved <= Cap
      /\ W \in Nat /\ W > 0 /\ Cap \in Nat /\ W > Cap
  BY Typed, CapIsNatural DEF Numbers
<1>4. end \in Nat
  <2>1. pos + n \in Nat  BY <1>3
  <2> QED  BY <1>3, <2>1
<1>5. c.k = "d" /\ c.pos = pos /\ c.len = n /\ c = Cmd("d", c.pos, c.len, <<>>)
  BY Records
<1>6. ~(end >= saved) => copy = saved - end
  <2> HIDE DEF end
  <2>1. ~(end >= saved) => saved - end \in Nat /\ saved - end < W  BY <1>3, <1>4
  <2> QED  BY <2>1, SmallMod
<1>14. ~(end >= saved) /\ (grown - n) % W <= Cap => then = grown /\ then <= Cap
  <2> SUFFICES ASSUME ~(end >= saved), (grown - n) % W <= Cap
               PROVE  then = grown /\ then <= Cap
    OBVIOUS
  <2>1. copy = saved - end  BY <1>6
  <2> HIDE DEF end, copy
  <2>2. PICK rest \in Nat : rest = copy /\ rest <= saved  BY <1>3, <1>4, <2>1
  <2>3. CASE pos > saved  BY <1>3, <2>3 DEF then, grown, Grown
  <2>4. CASE pos <= saved /\ pos + rest <= Cap
    <3>1. ~(pos > saved) /\ ~(pos + rest > Cap)  BY <1>3, <2>4
    <3> QED  BY <1>3, <2>2, <2>4, <3>1 DEF then, grown, Grown, Larger
  <2>5. CASE pos <= saved /\ pos + rest > Cap
    <3>1. grown = saved  BY <2>2, <2>5 DEF grown, Grown
    <3>2. n < W /\ pos <= Cap /\ 2 * Cap < W  BY <1>3, <2>5, CapIsNatural DEF Numbers
    <3>3. CASE pos + n < W
      <4>1. end = pos + n  BY <1>3, <3>3, SmallMod DEF end
      <4>2. pos + rest = saved - n  BY <1>3, <2>1, <2>2, <4>1
      <4> QED  BY <1>3, <2>5, <4>2
    <3>4. CASE ~(pos + n < W)
      <4>1. PICK d \in Nat : pos + n = d + W /\ d < W  BY <1>3, <3>2, <3>4
      <4>2. (d + W) % W = d  BY <1>3, <4>1
      <4>3. end = d  BY <4>1, <4>2 DEF end
      <4>4. PICK a \in Nat : a = pos + rest  BY <1>3
      <4>5. saved - n = a - W /\ a < W
        BY <1>3, <2>1, <2>2, <2>5, <3>2, <4>1, <4>3, <4>4
      <4>6. (a - W) % W = a  BY <4>5, BelowMod
      <4> QED  BY <1>3, <2>5, <3>1, <4>4, <4>5, <4>6
    <3> QED  BY <3>3, <3>4
  <2> QED  BY <1>3, <2>2, <2>3, <2>4, <2>5
<1>1. /\ IF end >= saved THEN pos <= Cap /\ Open(c, cut)
         ELSE then <= Cap /\ (then - n) % W <= Cap /\ Open(c, move)
      /\ spilt' = (spilt \/ pos > saved \/ pos + n >= W)
  BY <1>0, <1>14
<1> HIDE DEF end, copy, then, grown, c, cut, move
<1>7. PICK calls : Open(c, calls) /\ calls = IF end >= saved THEN cut ELSE move
  BY <1>1
<1>8. /\ Types' /\ Sizes(Old)' /\ Kept(0, Old)' /\ Old' = saved
      /\ cmd' = c /\ todo' = calls /\ tot' = 0 /\ buf' = <<>>
      /\ ~spilt => /\ \A x \in 0 .. saved' - 1 : At(x)' \in Bytes
                   /\ \A x \in 1 .. Old' : was'[x] \in Bytes
  BY <1>2, <1>7, Opened
<1>9. Inward' \/ spilt'
  BY <1>2, <1>3, <1>5, <1>8 DEF Inward
<1>10. Clean'  BY <1>2, <1>8, <1>9 DEF Clean
<1>11. End' = end  BY <1>5, <1>8 DEF End, end
<1>12. CASE end >= saved
  <2>1. todo' = <<Call("size", 0, cmd'.pos)>> /\ cmd'.pos \in 0 .. Cap /\ End' >= Old'
    BY <1>1, <1>3, <1>5, <1>7, <1>8, <1>11, <1>12 DEF cut
  <2>2. cmd' = Cmd("d", cmd'.pos, cmd'.len, <<>>) /\ cmd'.len \in Numbers
    BY <1>5, <1>8
  <2> QED  BY <1>8, <1>10, <2>1, <2>2 DEF AtCut
<1>13. CASE ~(end >= saved)
  <2>1. Rest' = copy /\ Then' = then
    BY <1>5, <1>6, <1>8, <1>11, <1>13 DEF Rest, Then, then
  <2>2. ReadRest' = Call("read", end, copy) /\ PutRest' = Call("buf", pos, copy)
        /\ LessLen' = Call("less", 0, n)
    BY <1>5, <1>8, <1>11, <2>1 DEF ReadRest, PutRest, LessLen
  <2>3. todo' = <<ReadRest', PutRest', LessLen'>>
    BY <1>7, <1>8, <1>13, <2>2 DEF move
  <2>4. /\ cmd' = Cmd("d", cmd'.pos, cmd'.len, <<>>) /\ cmd'.pos \in Numbers
        /\ cmd'.len \in Numbers /\ End' < Old'
        /\ Then' <= Cap /\ (Then' - cmd'.len) % W <= Cap
    BY <1>1, <1>3, <1>4, <1>5, <1>8, <1>11, <1>13, <2>1
  <2>5. Has(End, tot)' /\ tot' <= Rest'
    BY <1>3, <1>4, <1>6, <1>8, <1>13, <2>1 DEF Has
  <2>6. AtDelete'  BY <1>8, <2>3, <2>4, <2>5 DEF AtDelete
  <2> QED  BY <1>8, <1>10, <2>6
<1> QED  BY <1>12, <1>13

-----------------------------------------------------------------------------
(* Where the file is text.                                                 *)
AllText(from, to) == \A x \in from .. to - 1 : At(x) \in Bytes
WasText == \A x \in 1 .. Old : was[x] \in Bytes

LEMMA KeptText ==
    ASSUME Types, WasText, NEW a \in Nat, NEW b \in Nat, b <= Old, Kept(a, b)
    PROVE  AllText(a, b)
BY Typed DEF WasText, Kept, AllText

LEMMA WroteText ==
    ASSUME NEW text \in Lines, cmd.text = text, NEW t \in Nat, t <= Len(text),
           NEW o \in Nat, Wrote(o, t)
    PROVE  AllText(o, o + t)
<1>1. \A x \in 0 .. t - 1 : At(o + x) \in Bytes
  BY LineIs DEF Wrote
<1>2. ASSUME NEW y \in o .. o + t - 1 PROVE At(y) \in Bytes
  <2>1. y - o \in 0 .. t - 1 /\ o + (y - o) = y  OBVIOUS
  <2> QED  BY <1>1, <2>1
<1> QED  BY <1>2 DEF AllText

LEMMA PlacedText ==
    ASSUME Types, WasText, NEW to \in Nat, NEW from \in Nat, NEW m \in Nat, NEW t \in Nat,
           t <= m, from + m <= Old, Placed(to, from, m, t)
    PROVE  AllText(to, to + t)
<1>1. \A x \in 0 .. t - 1 : At(to + x) \in Bytes
  <2> TAKE x \in 0 .. t - 1
  <2>1. x < m /\ from + x + 1 \in 1 .. Old  BY Typed
  <2> QED  BY <2>1 DEF Placed, WasText
<1>2. ASSUME NEW y \in to .. to + t - 1 PROVE At(y) \in Bytes
  <2>1. y - to \in 0 .. t - 1 /\ to + (y - to) = y  OBVIOUS
  <2> QED  BY <1>1, <2>1
<1> QED  BY <1>2 DEF AllText

LEMMA TextJoins ==
    \A a, b, c \in Nat : a <= b /\ b <= c /\ AllText(a, b) /\ AllText(b, c) => AllText(a, c)
BY DEF AllText

LEMMA TextWithin ==
    \A a, b, c \in Nat : b <= c /\ AllText(a, c) => AllText(a, b)
BY DEF AllText

LEMMA CatText ==
    ASSUME Types, AtCat, WasText PROVE AllText(0, saved)
BY Typed, KeptText DEF AtCat, Sizes

LEMMA WriteText ==
    ASSUME Types, AtWrite, WasText PROVE AllText(0, saved)
<1>1. PICK text \in Lines : cmd.text = text  BY DEF AtWrite
<1>2. PICK n \in Nat : n = Len(text)  BY LineIs
<1>3. cmd.len = n  BY <1>1, <1>2, Records DEF AtWrite
<1>4. PICK old \in Nat : old = Old  BY Typed
<1>5. PICK t \in Nat : t = tot  BY Typed
<1>6. CASE Sizes(old) /\ t <= n /\ Wrote(0, t) /\ Kept(t, old)
  <2>1. AllText(0, 0 + t)  BY <1>1, <1>2, <1>6, WroteText
  <2>2. AllText(t, old)  BY <1>4, <1>6, KeptText
  <2>3. 0 + t = t /\ saved = old  BY <1>6 DEF Sizes
  <2> QED  BY <2>1, <2>2, <2>3 DEF AllText
<1>7. CASE Sizes(old) /\ Wrote(0, n) /\ Kept(n, old)
  <2>1. AllText(0, 0 + n)  BY <1>1, <1>2, <1>7, WroteText
  <2>2. AllText(n, old)  BY <1>4, <1>7, KeptText
  <2>3. 0 + n = n /\ saved = old  BY <1>7 DEF Sizes
  <2> QED  BY <2>1, <2>2, <2>3 DEF AllText
<1>8. CASE Sizes(n) /\ Wrote(0, n)
  <2>1. AllText(0, 0 + n)  BY <1>1, <1>2, <1>8, WroteText
  <2>2. 0 + n = n /\ saved = n  BY <1>8 DEF Sizes
  <2> QED  BY <2>1, <2>2
<1> QED  BY <1>3, <1>4, <1>5, <1>6, <1>7, <1>8 DEF AtWrite

LEMMA AppendText ==
    ASSUME Types, AtAppend, WasText PROVE AllText(0, saved)
<1>1. PICK text \in Lines : cmd.text = text  BY DEF AtAppend
<1>2. PICK n \in Nat : n = Len(text)  BY LineIs
<1>3. cmd.len = n  BY <1>1, <1>2, Records DEF AtAppend
<1>4. PICK old \in Nat : old = Old  BY Typed
<1>5. AllText(0, old)  BY <1>4, KeptText DEF AtAppend
<1>6. CASE Sizes(old)  BY <1>5, <1>6 DEF Sizes
<1>8. PICK m \in Nat : m = Taken(old) /\ m <= n  BY <1>3 DEF Taken
<1>7. CASE Sizes(old + m) /\ Wrote(old, m)
  <2>1. AllText(old, old + m)  BY <1>1, <1>2, <1>7, <1>8, WroteText
  <2>2. saved = old + m  BY <1>7 DEF Sizes
  <2>3. AllText(0, old + m)  BY <1>5, <2>1, TextJoins
  <2> QED  BY <2>2, <2>3
<1> QED  BY <1>3, <1>4, <1>6, <1>7, <1>8 DEF AtAppend

LEMMA InsertText ==
    ASSUME Types, AtInsert, WasText, cmd.pos + cmd.len <= Old \/ ~Fits
    PROVE  AllText(0, saved)
<1>1. PICK text \in Lines : cmd.text = text  BY DEF AtInsert
<1>2. PICK n \in Nat : n = Len(text)  BY LineIs
<1>3. cmd.len = n  BY <1>1, <1>2, Records DEF AtInsert
<1>4. PICK pos \in Nat : pos = cmd.pos /\ pos < Old  BY CapIsNatural DEF AtInsert
<1>5. PICK old \in Nat : old = Old  BY Typed
<1>6. PICK t \in Nat : t = tot  BY Typed
<1>13. PICK put \in Nat : put = Put /\ put <= n  BY <1>3, <1>4 DEF Put, Taken
<1>14. pos < old /\ old <= Cap /\ Cap \in Nat  BY <1>4, <1>5, Typed, CapIsNatural
<1>7. Fits => pos + n <= old /\ Mid = old
  <2>1. Fits => pos + n <= old  BY <1>3, <1>4, <1>5
  <2>2. Fits => put = n  BY <1>3, <1>4, <1>13, <1>14, <2>1 DEF Put, Taken
  <2> QED  BY <1>4, <1>5, <1>13, <1>14, <2>1, <2>2 DEF Mid, Larger
<1>8. AllText(0, pos)  BY <1>4, <1>5, KeptText DEF AtInsert
<1>9. CASE Sizes(old) /\ Kept(pos, old)
  <2>1. AllText(pos, old)  BY <1>5, <1>9, KeptText
  <2>2. AllText(0, old)  BY <1>14, <1>8, <2>1, TextJoins
  <2> QED  BY <1>9, <2>2 DEF Sizes
<1>10. CASE Sizes(old) /\ t <= put /\ Wrote(pos, t) /\ Kept(pos + t, old)
  <2>1. AllText(pos, pos + t)  BY <1>1, <1>2, <1>10, <1>13, WroteText
  <2>2. AllText(pos + t, old)  BY <1>5, <1>10, KeptText
  <2>3. AllText(0, pos + t)  BY <1>8, <2>1, TextJoins
  <2>4. AllText(0, old)  BY <2>2, <2>3 DEF AllText
  <2> QED  BY <1>10, <2>4 DEF Sizes
<1>11. CASE /\ Fits /\ Sizes(old) /\ t <= old - pos /\ Wrote(pos, n)
            /\ Placed(pos + n, pos, old - pos, t) /\ Kept(pos + n + t, old)
  <2>1. AllText(pos, pos + n)  BY <1>1, <1>2, <1>11, WroteText
  <2>2. AllText(0, pos + n)  BY <1>8, <2>1, TextJoins
  <2>3. AllText(pos + n, pos + n + t)
    <3>1. old - pos \in Nat /\ pos + (old - pos) <= old /\ pos + n \in Nat  BY <1>14
    <3> QED  BY <1>5, <1>11, <3>1, PlacedText
  <2>4. AllText(pos + n + t, old)  BY <1>5, <1>11, KeptText
  <2>5. AllText(0, old)
    <3>1. \A x \in 0 .. old - 1 : \/ x \in 0 .. pos + n - 1
                                  \/ x \in pos + n .. pos + n + t - 1
                                  \/ x \in pos + n + t .. old - 1
      OBVIOUS
    <3> QED  BY <2>2, <2>3, <2>4, <3>1 DEF AllText
  <2> QED  BY <1>11, <2>5 DEF Sizes
<1>12. CASE /\ Fits /\ Sizes(old + n) /\ Wrote(pos, n)
            /\ Placed(pos + n, pos, old - pos, old - pos)
  <2>1. AllText(pos, pos + n)  BY <1>1, <1>2, <1>12, WroteText
  <2>2. AllText(0, pos + n)  BY <1>8, <2>1, TextJoins
  <2>3. AllText(pos + n, pos + n + (old - pos))
    <3>1. old - pos \in Nat /\ pos + (old - pos) <= old /\ pos + n \in Nat  BY <1>14
    <3> QED  BY <1>5, <1>12, <3>1, PlacedText
  <2>4. pos + n + (old - pos) = old + n /\ pos + n <= old + n  BY <1>14
  <2>5. AllText(0, old + n)  BY <2>2, <2>3, <2>4, TextJoins
  <2> QED  BY <1>12, <2>5 DEF Sizes
<1>15. CASE Sizes(Mid) /\ Wrote(pos, put) /\ Kept(pos + put, old)
  <2>1. AllText(pos, pos + put)  BY <1>1, <1>2, <1>13, <1>15, WroteText
  <2>2. AllText(pos + put, old)  BY <1>5, <1>15, KeptText
  <2>3. Mid = IF old > pos + put THEN old ELSE pos + put
    BY <1>4, <1>5, <1>13 DEF Mid, Larger
  <2>4. AllText(0, Mid)  BY <1>8, <2>1, <2>2, <2>3 DEF AllText
  <2> QED  BY <1>15, <2>4 DEF Sizes
<1> QED
  <2>1. \A k : (\A x \in 0 .. k - 1 : x < Old - cmd.pos =>
                    At(cmd.pos + cmd.len + x) = was[cmd.pos + x + 1])
               => Placed(pos + n, pos, old - pos, k)
    BY <1>3, <1>4, <1>5 DEF Placed
  <2>2. Moved(cmd.pos + cmd.len, cmd.pos, Old - cmd.pos)
            => Placed(pos + n, pos, old - pos, old - pos)
    BY <1>3, <1>4, <1>5 DEF Placed, Moved
  <2> QED
    BY <1>3, <1>4, <1>5, <1>6, <1>7, <1>9, <1>10, <1>11, <1>12, <1>13, <1>15, <2>1, <2>2
    DEF AtInsert

LEMMA CutText ==
    ASSUME Types, AtCut, WasText, cmd.pos <= Old PROVE AllText(0, saved)
<1>1. AllText(0, Old)  BY Typed, KeptText DEF AtCut
<1>2. cmd.pos \in Nat  BY CapIsNatural DEF AtCut
<1> QED  BY <1>1, <1>2, Typed, TextWithin DEF AtCut, Sizes

(* A deletion inside the file that does not wrap.                          *)
LEMMA Straight ==
    ASSUME Types, AtDelete, cmd.pos <= Old, cmd.pos + cmd.len < W
    PROVE  /\ cmd.pos \in Nat /\ cmd.len \in Nat /\ End = cmd.pos + cmd.len
           /\ Rest = Old - cmd.pos - cmd.len /\ Rest \in Nat /\ Then = Old
           /\ (Then - cmd.len) % W = Old - cmd.len /\ Old - cmd.len \in Nat
<1>1. /\ Old \in Nat /\ W \in Nat /\ Old < W
  BY Typed, CapIsNatural
<1>2. cmd.pos \in Nat /\ cmd.len \in Nat  BY <1>1 DEF AtDelete, Numbers
<1>3. PICK pos \in Nat, n \in Nat : pos = cmd.pos /\ n = cmd.len  BY <1>2
<1>4. End = pos + n
  <2>1. pos + n \in Nat /\ pos + n < W  BY <1>3
  <2> QED  BY <1>3, <2>1, SmallMod DEF End
<1>5. pos + n < Old  BY <1>4 DEF AtDelete
<1>6. Rest = Old - pos - n /\ Rest \in Nat  BY <1>1, <1>4, <1>5 DEF Rest
<1>7. Then = Old
  <2>1. ~(pos > Old) /\ ~(Old > pos + Rest) => pos + Rest = Old  BY <1>1, <1>5, <1>6
  <2>2. ~(pos > Old)  BY <1>1, <1>5
  <2> QED  BY <1>3, <2>1, <2>2 DEF Then, Larger
<1>8. Old - n \in Nat /\ Old - n < W  BY <1>1, <1>5
<1>9. (Old - n) % W = Old - n  BY <1>8, SmallMod
<1> QED  BY <1>3, <1>4, <1>6, <1>7, <1>8, <1>9

LEMMA DeleteText ==
    ASSUME Types, AtDelete, WasText, cmd.pos <= Old, cmd.pos + cmd.len < W
    PROVE  AllText(0, saved)
<1>1. PICK pos \in Nat, n \in Nat, rest \in Nat, old \in Nat, t \in Nat :
          /\ pos = cmd.pos /\ n = cmd.len /\ rest = Rest /\ old = Old /\ t = tot
  BY Straight, Typed
<1>2. /\ End = pos + n /\ rest = old - pos - n /\ Then = old /\ pos <= old
      /\ (Then - cmd.len) % W = old - n
  BY <1>1, Straight
<1>3. pos + n + rest = old /\ pos + rest = old - n /\ pos + rest <= old  BY <1>2
<1>4. CASE Sizes(old) /\ Kept(0, old)
  BY <1>1, <1>4, KeptText DEF Sizes
<1>5. CASE /\ Sizes(old) /\ t <= rest
           /\ Kept(0, pos) /\ Placed(pos, pos + n, rest, t) /\ Kept(pos + t, old)
  <2>1. AllText(0, pos)  BY <1>1, <1>2, <1>5, KeptText
  <2>2. AllText(pos, pos + t)
    <3>1. pos + n \in Nat /\ pos + n + rest <= old  BY <1>3
    <3> QED  BY <1>1, <1>5, <3>1, PlacedText
  <2>3. AllText(pos + t, old)  BY <1>1, <1>5, KeptText
  <2>4. AllText(0, pos + t)  BY <2>1, <2>2, TextJoins
  <2>5. pos + t <= old  BY <1>3, <1>5
  <2>6. AllText(0, old)  BY <2>3, <2>4, <2>5, TextJoins
  <2> QED  BY <1>5, <2>6 DEF Sizes
<1>6. CASE /\ Sizes(old) \/ Sizes(old - n)
           /\ Kept(0, pos) /\ Placed(pos, pos + n, rest, rest)
           /\ Kept(pos + rest, old)
  <2>1. AllText(0, pos)  BY <1>1, <1>2, <1>6, KeptText
  <2>2. AllText(pos, pos + rest)
    <3>1. pos + n \in Nat /\ pos + n + rest <= old  BY <1>3
    <3> QED  BY <1>1, <1>6, <3>1, PlacedText
  <2>3. AllText(pos + rest, old)  BY <1>1, <1>6, KeptText
  <2>4. AllText(0, pos + rest)  BY <2>1, <2>2, TextJoins
  <2>5. AllText(0, old)  BY <1>3, <2>3, <2>4, TextJoins
  <2> QED  BY <1>3, <1>6, <2>4, <2>5 DEF Sizes
<1> QED
  <2>1. \A k : Moved(cmd.pos, End, k) /\ k <= rest => Placed(pos, pos + n, rest, k)
    BY <1>1, <1>2 DEF Moved, Placed
  <2>2. ~(cmd.pos > Old)  BY <1>1, <1>2
  <2>3. CASE /\ Sizes(Old) /\ tot <= Rest /\ Kept(0, Old)
    BY <1>1, <1>4, <2>3
  <2>4. CASE /\ Sizes(Old) /\ tot <= Rest
             /\ Kept(0, cmd.pos) /\ Moved(cmd.pos, End, tot) /\ Kept(cmd.pos + tot, Old)
    BY <1>1, <1>5, <2>1, <2>4
  <2>5. CASE /\ Sizes(IF todo = <<>> THEN (Then - cmd.len) % W ELSE Then)
             /\ Kept(0, cmd.pos) /\ Moved(cmd.pos, End, Rest) /\ Kept(cmd.pos + Rest, Old)
    BY <1>1, <1>2, <1>6, <2>1, <2>5
  <2> QED  BY <2>2, <2>3, <2>4, <2>5 DEF AtDelete

LEMMA FromPlan ==
    Types /\ Progress /\ cmd # Idle /\ WasText /\ Inward => AllText(0, saved)
<1> SUFFICES ASSUME Types, Progress, cmd # Idle, WasText, Inward PROVE AllText(0, saved)
  OBVIOUS
<1>1. CASE AtIdle  BY <1>1 DEF AtIdle
<1>2. CASE AtCat  BY <1>2, CatText
<1>3. CASE AtWrite  BY <1>3, WriteText
<1>4. CASE AtAppend  BY <1>4, AppendText
<1>5. CASE AtInsert
  <2>1. cmd.k = "i" /\ cmd.pos < Old  BY <1>5, Records DEF AtInsert
  <2> QED  BY <1>5, <2>1, InsertText DEF Inward
<1>6. CASE AtCut
  <2>1. cmd.k = "d"  BY <1>6, Records DEF AtCut
  <2> QED  BY <1>6, <2>1, CutText DEF Inward
<1>7. CASE AtDelete
  <2>1. cmd.k = "d"  BY <1>7, Records DEF AtDelete
  <2> QED  BY <1>7, <2>1, DeleteText DEF Inward
<1> QED  BY <1>1, <1>2, <1>3, <1>4, <1>5, <1>6, <1>7 DEF Progress

-----------------------------------------------------------------------------
(* The induction.                                                          *)
LEMMA InitHolds == Init => IInv
<1> SUFFICES ASSUME Init PROVE IInv  OBVIOUS
<1>1. \A o \in 0 .. B - 1 : [x \in 0 .. B - 1 |-> 0][o] = 0  OBVIOUS
<1>2. [o \in 0 .. B - 1 |-> 0] \in [0 .. B - 1 -> Words]  BY DEF Words
<1>3. blk \in [0 .. MAXFILEB - 1 -> [0 .. B - 1 -> Words]]
  BY <1>2 DEF Init
<1>4. saved = 0 /\ size = 0 /\ tot = 0 /\ buf = <<>> /\ was = <<>> /\ spilt = FALSE
      /\ cmd = Idle /\ todo = <<>>
  BY DEF Init
<1>5. Types
  <2>1. \A S : <<>> \in Seq(S) /\ Len(<<>>) = 0  BY EmptySeq
  <2>5. 0 \in 0 .. Cap  BY CapIsNatural
  <2>2. /\ saved \in 0 .. Cap /\ size \in 0 .. Cap /\ tot \in 0 .. Cap
        /\ spilt \in BOOLEAN
    BY <1>4, <2>5, Zenon
  <2>3. was \in Seq(Words) /\ buf \in Seq(Words) /\ Len(was) = 0 /\ Len(buf) = 0
    BY <1>4, <2>1
  <2>4. Old <= Cap /\ Len(buf) <= Cap  BY <2>3, CapIsNatural DEF Old
  <2> HIDE DEF Words
  <2> QED  BY <1>3, <2>2, <2>3, <2>4, Zenon DEF Types
<1>6. Progress  BY <1>4 DEF Progress, AtIdle
<1>7. cmd.k = "idle"  BY <1>4, Records DEF Idle
<1>8. Clean  BY <1>4, <1>7 DEF Clean, Inward, Old
<1> QED  BY <1>5, <1>6, <1>8 DEF IInv

LEMMA StepKeeps == IInv /\ Next => IInv'
<1> SUFFICES ASSUME IInv, Next PROVE IInv'  OBVIOUS
<1>1. Types /\ Progress /\ Clean  BY DEF IInv
<1>2. CASE AtIdle
  <2>1. cmd = Idle /\ todo = <<>>  BY <1>2 DEF AtIdle
  <2>2. ~ReadChunk /\ ~WriteChunk /\ ~EndRead /\ ~EndWrite /\ ~SetSize /\ ~Finish /\ ~Crash
    BY <2>1
    DEF ReadChunk, WriteChunk, EndRead, EndWrite, SetSize, Finish, Crash, Leave, Doing
  <2>3. CASE cmd_cat
    BY <1>1, <1>2, <2>3, BeginsCat DEF IInv, Progress
  <2>4. CASE \E text \in Texts : cmd_w(text)
    BY <1>1, <1>2, <2>4, BeginsWrite, TextsAreLines DEF IInv, Progress
  <2>5. CASE \E pos \in 0 .. Cap, text \in Texts : cmd_i(pos, text)
    BY <1>1, <1>2, <2>5, BeginsInsert, TextsAreLines DEF IInv, Progress
  <2>6. CASE \E pos, len \in 0 .. W - 1 : cmd_d(pos, len)
    BY <1>1, <1>2, <2>6, BeginsDelete DEF IInv, Progress, Numbers
  <2> QED  BY <2>2, <2>3, <2>4, <2>5, <2>6 DEF Next
<1>3. CASE ~AtIdle
  <2>1. Leave \/ (Types' /\ Progress' /\ UNCHANGED <<cmd, was, spilt>>)
    BY <1>1, <1>3, CatGoes, WriteGoes, AppendGoes, InsertGoes, CutGoes, DeleteGoes
    DEF Progress
  <2>2. CASE Leave  BY <1>1, <2>2, Leaves DEF IInv, Progress
  <2>3. CASE Types' /\ Progress' /\ UNCHANGED <<cmd, was, spilt>>
    <3>1. cmd # Idle
      BY <1>1, <1>3, Records
      DEF Progress, AtCat, AtWrite, AtAppend, AtInsert, AtCut, AtDelete, Idle
    <3>2. cmd' # Idle /\ spilt' = spilt /\ Old' = Old /\ was' = was /\ Inward' = Inward
      BY <2>3, <3>1, SamePlan DEF Inward
    <3>3. WasText' = WasText  BY <3>2 DEF WasText
    <3>4. WasText' /\ Inward' => AllText(0, saved)'
      <4>1. (Types /\ Progress /\ cmd # Idle /\ WasText /\ Inward => AllText(0, saved))'
        BY FromPlan, PTL
      <4> QED  BY <2>3, <3>2, <4>1 DEF Idle, Cmd
    <3>5. Clean'
      BY <1>1, <3>2, <3>3, <3>4 DEF Clean, WasText, AllText
    <3> QED  BY <2>3, <3>5 DEF IInv
  <2> QED  BY <2>1, <2>2, <2>3
<1> QED  BY <1>2, <1>3

LEMMA StutterKeeps == IInv /\ UNCHANGED vars => IInv'
<1> SUFFICES ASSUME IInv, UNCHANGED vars PROVE IInv'  OBVIOUS
<1>1. UNCHANGED <<blk, saved, size, cmd, todo, tot, buf, was, spilt>>  BY DEF vars
<1>2. \A x : At(x)' = At(x)  BY <1>1 DEF At
<1>3. /\ \A a, b : Kept(a, b)' = Kept(a, b) /\ Wrote(a, b)' = Wrote(a, b)
      /\ \A a, b, c : Moved(a, b, c)' = Moved(a, b, c)
      /\ \A a, b : Has(a, b)' = Has(a, b)
      /\ \A a : Sizes(a)' = Sizes(a)
  BY <1>1, <1>2 DEF Kept, Wrote, Moved, Has, Sizes
<1>4. /\ Old' = Old /\ Put' = Put /\ Mid' = Mid /\ Fits' = Fits
      /\ Taken(Old)' = Taken(Old)
      /\ ReadTail' = ReadTail /\ PutText' = PutText /\ PutTail' = PutTail
      /\ End' = End /\ Rest' = Rest /\ Then' = Then
      /\ ReadRest' = ReadRest /\ PutRest' = PutRest /\ LessLen' = LessLen
  BY <1>1, SamePlan
<1>5. Types' = Types  BY <1>1, <1>4 DEF Types
<1>6. Clean' = Clean  BY <1>1, <1>2, <1>4 DEF Clean, Inward
<1>7. AtIdle' = AtIdle /\ AtCut' = AtCut
  BY <1>1, <1>3, <1>4 DEF AtIdle, AtCut
<1>8. AtCat' = AtCat  BY <1>1, <1>3, <1>4 DEF AtCat
<1>9. AtWrite' = AtWrite  BY <1>1, <1>3, <1>4 DEF AtWrite
<1>10. AtAppend' = AtAppend  BY <1>1, <1>3, <1>4 DEF AtAppend
<1>11. AtInsert' = AtInsert  BY <1>1, <1>2, <1>3, <1>4 DEF AtInsert
<1>12. AtDelete' = AtDelete  BY <1>1, <1>3, <1>4 DEF AtDelete
<1> QED
  BY <1>5, <1>6, <1>7, <1>8, <1>9, <1>10, <1>11, <1>12 DEF IInv, Progress

(* Whatever the size of a block and of the file, and whatever the texts,   *)
(* the positions and the lengths, each command is where its plan says: the *)
(* size, the bytes written, the bytes moved, the bytes kept and the buffer *)
(* follow from the text there was and the calls that remain.               *)
THEOREM EditInvariance == Spec => []IInv
<1>1. IInv /\ [Next]_vars => IInv'  BY StepKeeps, StutterKeeps
<1> QED  BY InitHolds, <1>1, PTL DEF Spec

-----------------------------------------------------------------------------
(* What follows.  TextOnly first.                                          *)
LEMMA TypesSafe == IInv => TextOnly
<1> SUFFICES ASSUME IInv PROVE TextOnly  OBVIOUS
<1>1. Types /\ Progress /\ Clean  BY DEF IInv
<1>2. /\ cmd.k \in {"idle", "cat", "w", "i", "d"}
      /\ cmd.k = "idle" => AtIdle
  <2>1. AtIdle => cmd.k = "idle"  BY Records DEF AtIdle, Idle
  <2>2. AtCat => cmd.k = "cat"  BY Records DEF AtCat
  <2>3. AtWrite => cmd.k = "w"  BY Records DEF AtWrite
  <2>4. AtAppend \/ AtInsert => cmd.k = "i"  BY Records DEF AtAppend, AtInsert
  <2>5. AtCut \/ AtDelete => cmd.k = "d"  BY Records DEF AtCut, AtDelete
  <2> QED  BY <1>1, <2>1, <2>2, <2>3, <2>4, <2>5 DEF Progress
<1>3. TypeOK
  BY <1>1, <1>2 DEF TypeOK, Types, AtIdle, Old, Words
<1>4. ~spilt => \A x \in 1 .. saved : Text(saved)[x] \in Bytes
  <2>1. saved \in Nat  BY <1>1, Typed
  <2>2. ~spilt => \A x \in 1 .. saved : At(x - 1) \in Bytes
    BY <1>1, <2>1 DEF Clean
  <2>3. \A x \in 1 .. saved : Text(saved)[x] = At(x - 1)  BY <1>1, TextIs
  <2> QED  BY <2>2, <2>3, Zenon
<1> QED  BY <1>3, <1>4 DEF TextOnly

(* Crash or not, and whatever the commands, nothing that no command wrote  *)
(* becomes part of the file, until a command spills.                       *)
THEOREM TextStaysText == Spec => []TextOnly
BY EditInvariance, TypesSafe, PTL

-----------------------------------------------------------------------------
(* Sequences.                                                              *)
LEMMA Part ==
    ASSUME NEW s \in Seq(Words), NEW m \in Nat \ {0}, NEW n \in Nat, n <= Len(s)
    PROVE  /\ SubSeq(s, m, n) \in Seq(Words)
           /\ Len(SubSeq(s, m, n)) = IF m <= n THEN n - m + 1 ELSE 0
           /\ \A i \in 1 .. n - m + 1 : SubSeq(s, m, n)[i] = s[m + i - 1]
<1>1. \A i \in m .. n : s[i] \in Words  BY ElementOfSeq
<1> QED  BY <1>1, SubSeqProperties

LEMMA PrefixIs ==
    ASSUME NEW s \in Seq(Words), NEW t \in Seq(Words), Len(s) <= Len(t),
           \A i \in 1 .. Len(s) : t[i] = s[i]
    PROVE  IsPrefix(s, t)
<1> DEFINE n == Len(s)  a == SubSeq(s, 1, n)  b == SubSeq(t, 1, n)
<1>1. n \in Nat /\ n <= Len(t)  BY LenProperties
<1> HIDE DEF n
<1>2. 1 \in Nat \ {0} /\ n <= Len(s) /\ n - 1 + 1 = n  BY <1>1 DEF n
<1>3. /\ a \in Seq(Words) /\ Len(a) = IF 1 <= n THEN n - 1 + 1 ELSE 0
      /\ \A i \in 1 .. n - 1 + 1 : a[i] = s[1 + i - 1]
  BY <1>1, <1>2, Part
<1>4. /\ b \in Seq(Words) /\ Len(b) = IF 1 <= n THEN n - 1 + 1 ELSE 0
      /\ \A i \in 1 .. n - 1 + 1 : b[i] = t[1 + i - 1]
  BY <1>1, <1>2, Part
<1> HIDE DEF a, b
<1>5. Len(a) = n /\ Len(b) = n  BY <1>1, <1>3, <1>4
<1>6. \A i \in 1 .. n : a[i] = s[i] /\ b[i] = t[i]  BY <1>1, <1>3, <1>4
<1>7. \A i \in 1 .. n : t[i] = s[i]  BY DEF n
<1>8. a = b  BY <1>3, <1>4, <1>5, <1>6, <1>7, SeqEqual
<1> QED  BY <1>1, <1>8 DEF IsPrefix, n, a, b

Joins(c, a, b) == c = a \o b

LEMMA TwoParts ==
    ASSUME NEW a \in Seq(Words), NEW b \in Seq(Words), NEW p \in Nat, NEW k \in Nat,
           Len(a) = p, Len(b) = k, NEW c, Joins(c, a, b)
    PROVE  /\ c \in Seq(Words) /\ Len(c) = p + k
           /\ \A i \in 1 .. p : c[i] = a[i]
           /\ \A i \in 1 .. k : c[p + i] = b[i]
<1>1. /\ c \in Seq(Words) /\ Len(c) = p + k
      /\ \A i \in 1 .. p + k : c[i] = IF i <= p THEN a[i] ELSE b[i - p]
  BY ConcatProperties DEF Joins
<1>2. \A i \in 1 .. p : i \in 1 .. p + k /\ i <= p  OBVIOUS
<1>3. \A i \in 1 .. k : p + i \in 1 .. p + k /\ ~(p + i <= p) /\ p + i - p = i  OBVIOUS
<1>4. \A i \in 1 .. p : c[i] = a[i]  BY <1>1, <1>2
<1>5. \A i \in 1 .. k : c[p + i] = b[i]  BY <1>1, <1>3
<1> QED  BY <1>1, <1>4, <1>5

LEMMA UpTo ==
    ASSUME NEW s \in Seq(Words), NEW p \in Nat, p <= Len(s)
    PROVE  /\ SubSeq(s, 1, p) \in Seq(Words) /\ Len(SubSeq(s, 1, p)) = p
           /\ \A i \in 1 .. p : SubSeq(s, 1, p)[i] = s[i]
<1> DEFINE a == SubSeq(s, 1, p)
<1>1. 1 \in Nat \ {0}  OBVIOUS
<1>2. /\ a \in Seq(Words) /\ Len(a) = IF 1 <= p THEN p - 1 + 1 ELSE 0
      /\ \A i \in 1 .. p - 1 + 1 : a[i] = s[1 + i - 1]
  BY <1>1, Part
<1> HIDE DEF a
<1>3. Len(a) = p /\ \A i \in 1 .. p : a[i] = s[i]  BY <1>2
<1> QED  BY <1>2, <1>3 DEF a

LEMMA Beyond ==
    ASSUME NEW s \in Seq(Words), NEW l \in Nat, l = Len(s), NEW m \in Nat, m <= l
    PROVE  /\ SubSeq(s, m + 1, l) \in Seq(Words) /\ Len(SubSeq(s, m + 1, l)) = l - m
           /\ \A i \in 1 .. l - m : SubSeq(s, m + 1, l)[i] = s[m + i]
<1> DEFINE b == SubSeq(s, m + 1, l)
<1>1. m + 1 \in Nat \ {0} /\ l <= Len(s)  OBVIOUS
<1>2. /\ b \in Seq(Words) /\ Len(b) = IF m + 1 <= l THEN l - (m + 1) + 1 ELSE 0
      /\ \A i \in 1 .. l - (m + 1) + 1 : b[i] = s[m + 1 + i - 1]
  BY <1>1, Part
<1> HIDE DEF b
<1>3. Len(b) = l - m  BY <1>2
<1>4. ASSUME NEW i \in 1 .. l - m PROVE b[i] = s[m + i]
  <2>1. i \in 1 .. l - (m + 1) + 1 /\ m + 1 + i - 1 = m + i  OBVIOUS
  <2> QED  BY <1>2, <2>1
<1> QED  BY <1>2, <1>3, <1>4 DEF b

(* An insertion at the end or beyond it, and one inside the text.          *)
AppendGoal(g, s, text, l, n) ==
    /\ g \in Seq(Words) /\ Len(g) = l + n
    /\ \A i \in 1 .. l : g[i] = s[i]
    /\ \A i \in 1 .. n : g[l + i] = text[i]
InsertGoal(g, s, pos, text, l, n) ==
    /\ g \in Seq(Words) /\ Len(g) = l + n
    /\ \A i \in 1 .. pos : g[i] = s[i]
    /\ \A i \in 1 .. n : g[pos + i] = text[i]
    /\ \A i \in 1 .. l - pos : g[pos + n + i] = s[pos + i]

LEMMA AppendedIs ==
    ASSUME NEW s \in Seq(Words), NEW text \in Seq(Words), NEW pos \in Nat, pos >= Len(s)
    PROVE  AppendGoal(Inserted(s, pos, text), s, text, Len(s), Len(text))
<1>1. PICK l \in Nat, n \in Nat : l = Len(s) /\ n = Len(text)  BY LenProperties
<1>2. PICK g : g = Inserted(s, pos, text) /\ Joins(g, s, text)
  BY DEF Inserted, Joins
<1>3. /\ g \in Seq(Words) /\ Len(g) = l + n
      /\ \A i \in 1 .. l : g[i] = s[i]
      /\ \A i \in 1 .. n : g[l + i] = text[i]
  <2>1. Len(s) = l /\ Len(text) = n /\ Joins(g, s, text)  BY <1>1, <1>2
  <2>2. s \in Seq(Words) /\ text \in Seq(Words)  OBVIOUS
  <2> QED  BY <2>1, <2>2, TwoParts
<1> QED  BY <1>1, <1>2, <1>3 DEF AppendGoal

LEMMA InsertedIs ==
    ASSUME NEW s \in Seq(Words), NEW text \in Seq(Words), NEW pos \in Nat, pos < Len(s)
    PROVE  InsertGoal(Inserted(s, pos, text), s, pos, text, Len(s), Len(text))
<1>0. PICK l \in Nat, n \in Nat : l = Len(s) /\ n = Len(text)  BY LenProperties
<1> DEFINE goal == Inserted(s, pos, text)
           a == SubSeq(s, 1, pos)  b == SubSeq(s, pos + 1, l)
<1>1. PICK c : Joins(c, a, text) /\ Joins(goal, c, b)
  <2>1. ~(pos >= Len(s)) /\ Len(s) = l  BY <1>0
  <2> HIDE DEF a, b
  <2>2. Inserted(s, pos, text) = SubSeq(s, 1, pos) \o text \o SubSeq(s, pos + 1, Len(s))
    BY <2>1, Zenon DEF Inserted
  <2> QED  BY <2>1, <2>2 DEF a, b, Joins
<1>2. a \in Seq(Words) /\ Len(a) = pos /\ \A i \in 1 .. pos : a[i] = s[i]
  BY UpTo
<1>3. /\ b \in Seq(Words) /\ Len(b) = l - pos
      /\ \A i \in 1 .. l - pos : b[i] = s[pos + i]
  BY <1>0, Beyond
<1> HIDE DEF a, b, goal
<1>5. /\ c \in Seq(Words) /\ Len(c) = pos + n
      /\ \A i \in 1 .. pos : c[i] = a[i]
      /\ \A i \in 1 .. n : c[pos + i] = text[i]
  BY <1>0, <1>1, <1>2, TwoParts
<1>6. l - pos \in Nat /\ pos + n \in Nat /\ pos + n + (l - pos) = l + n  BY <1>0
<1>7. /\ goal \in Seq(Words) /\ Len(goal) = pos + n + (l - pos)
      /\ \A i \in 1 .. pos + n : goal[i] = c[i]
      /\ \A i \in 1 .. l - pos : goal[pos + n + i] = b[i]
  <2>1. PICK p \in Nat, k \in Nat : p = pos + n /\ k = l - pos  BY <1>6
  <2>2. Len(c) = p /\ Len(b) = k  BY <1>3, <1>5, <2>1
  <2>3. c \in Seq(Words) /\ b \in Seq(Words) /\ Joins(goal, c, b)
    BY <1>1, <1>3, <1>5
  <2>4. /\ goal \in Seq(Words) /\ Len(goal) = p + k
        /\ \A i \in 1 .. p : goal[i] = c[i]
        /\ \A i \in 1 .. k : goal[p + i] = b[i]
    BY <2>2, <2>3, TwoParts, SMTT(30)
  <2> QED  BY <2>1, <2>4
<1>8. \A i \in 1 .. pos : goal[i] = s[i]
  <2>1. \A i \in 1 .. pos : i \in 1 .. pos + n  OBVIOUS
  <2> QED  BY <1>2, <1>5, <1>7, <2>1
<1>9. \A i \in 1 .. n : goal[pos + i] = text[i]
  <2>1. \A i \in 1 .. n : pos + i \in 1 .. pos + n  OBVIOUS
  <2> QED  BY <1>5, <1>7, <2>1
<1>10. \A i \in 1 .. l - pos : goal[pos + n + i] = s[pos + i]  BY <1>3, <1>7
<1> QED  BY <1>0, <1>6, <1>7, <1>8, <1>9, <1>10 DEF goal, InsertGoal

(* A text put over the text from pos on.                                   *)
OverGoal(g, s, pos, text, l, n) ==
    /\ g \in Seq(Words) /\ Len(g) = Larger(l, pos + n)
    /\ \A i \in 1 .. pos : g[i] = s[i]
    /\ \A i \in 1 .. n : g[pos + i] = text[i]
    /\ \A i \in pos + n + 1 .. l : g[i] = s[i]

LEMMA OverwrittenIs ==
    ASSUME NEW s \in Seq(Words), NEW text \in Seq(Words), NEW pos \in Nat, pos < Len(s)
    PROVE  OverGoal(Overwritten(s, pos, text), s, pos, text, Len(s), Len(text))
<1>0. PICK l \in Nat, n \in Nat : l = Len(s) /\ n = Len(text)  BY LenProperties
<1>11. PICK m \in Nat : m = pos + n  BY <1>0
<1>12. PICK k \in Nat : k = IF m <= l THEN l - m ELSE 0
  <2>1. CASE m <= l
    <3>1. l - m \in Nat  BY <2>1
    <3> QED  BY <2>1, <3>1
  <2>2. CASE ~(m <= l)  BY <2>2
  <2> QED  BY <2>1, <2>2
<1>1. m = pos + n /\ k = IF m <= l THEN l - m ELSE 0  BY <1>11, <1>12
<1> DEFINE goal == Overwritten(s, pos, text)
           a == SubSeq(s, 1, pos)  b == SubSeq(s, m + 1, l)
<1>2. PICK c : Joins(c, a, text) /\ Joins(goal, c, b)
  <2>1. Len(s) = l /\ pos + Len(text) + 1 = m + 1  BY <1>0, <1>1
  <2> QED  BY <2>1 DEF Joins, Overwritten
<1>3. a \in Seq(Words) /\ Len(a) = pos /\ \A i \in 1 .. pos : a[i] = s[i]
  BY UpTo
<1>4. /\ b \in Seq(Words) /\ Len(b) = k
      /\ \A i \in 1 .. k : b[i] = s[m + i]
  <2>1. CASE m <= l
    <3>1. k = l - m  BY <1>1, <2>1
    <3> QED  BY <1>0, <2>1, <3>1, Beyond
  <2>2. CASE ~(m <= l)
    <3>1. b = <<>> /\ k = 0  BY <1>1, <2>2, SubSeqEmpty
    <3>2. <<>> \in Seq(Words) /\ Len(<<>>) = 0  BY EmptySeq
    <3>3. \A i \in 1 .. k : FALSE  BY <3>1
    <3> HIDE DEF b
    <3> QED  BY <3>1, <3>2, <3>3
  <2> QED  BY <2>1, <2>2
<1> HIDE DEF a, b, goal
<1>5. /\ c \in Seq(Words) /\ Len(c) = m
      /\ \A i \in 1 .. pos : c[i] = a[i]
      /\ \A i \in 1 .. n : c[pos + i] = text[i]
  <2>1. /\ Len(a) = pos /\ Len(text) = n /\ m = pos + n
        /\ a \in Seq(Words) /\ text \in Seq(Words) /\ Joins(c, a, text)
    BY <1>0, <1>1, <1>2, <1>3
  <2> HIDE DEF a
  <2> QED  BY <2>1, TwoParts
<1>6. /\ goal \in Seq(Words) /\ Len(goal) = m + k
      /\ \A i \in 1 .. m : goal[i] = c[i]
      /\ \A i \in 1 .. k : goal[m + i] = b[i]
  BY <1>2, <1>4, <1>5, TwoParts
<1>7. m + k = Larger(l, pos + n)  BY <1>1 DEF Larger
<1>8. \A i \in 1 .. pos : goal[i] = s[i]
  <2>1. \A i \in 1 .. pos : i \in 1 .. m  BY <1>1
  <2> QED  BY <1>3, <1>5, <1>6, <2>1
<1>9. \A i \in 1 .. n : goal[pos + i] = text[i]
  <2>1. \A i \in 1 .. n : pos + i \in 1 .. m  BY <1>1
  <2> QED  BY <1>5, <1>6, <2>1
<1>10. \A i \in pos + n + 1 .. l : goal[i] = s[i]
  <2> TAKE i \in pos + n + 1 .. l
  <2>1. i - m \in 1 .. k /\ m + (i - m) = i  BY <1>1
  <2>2. goal[m + (i - m)] = b[i - m] /\ b[i - m] = s[m + (i - m)]  BY <1>4, <1>6, <2>1
  <2> QED  BY <2>1, <2>2
<1> QED  BY <1>0, <1>6, <1>7, <1>8, <1>9, <1>10 DEF goal, OverGoal

(* A deletion up to the end or beyond it, and one inside the text.         *)
CutGoal(g, s, p) ==
    /\ g \in Seq(Words) /\ Len(g) = p
    /\ \A i \in 1 .. p : g[i] = s[i]
DeleteGoal(g, s, p, n, l) ==
    /\ g \in Seq(Words) /\ Len(g) = l - n
    /\ \A i \in 1 .. p : g[i] = s[i]
    /\ \A i \in 1 .. l - p - n : g[p + i] = s[p + n + i]

LEMMA CutIs ==
    ASSUME NEW s \in Seq(Words), NEW l \in Nat, l = Len(s), NEW p \in Nat, p <= l,
           NEW n \in Nat, p + n >= l
    PROVE  CutGoal(Deleted(s, p, n), s, p)
<1> DEFINE goal == Deleted(s, p, n)  a == SubSeq(s, 1, p)
<1>1. a \in Seq(Words) /\ Len(a) = p /\ \A i \in 1 .. p : a[i] = s[i]  BY UpTo
<1>2. SubSeq(s, p + n + 1, l) = <<>>  BY SubSeqEmpty
<1>3. goal = a \o <<>>  BY <1>2 DEF Deleted
<1>4. goal = a  BY <1>1, <1>3, ConcatEmptySeq
<1> QED  BY <1>1, <1>4 DEF CutGoal

LEMMA DeletedIs ==
    ASSUME NEW s \in Seq(Words), NEW l \in Nat, l = Len(s), NEW p \in Nat,
           NEW n \in Nat, p + n <= l
    PROVE  DeleteGoal(Deleted(s, p, n), s, p, n, l)
<1> DEFINE goal == Deleted(s, p, n)
           a == SubSeq(s, 1, p)  b == SubSeq(s, p + n + 1, l)
<1>1. Joins(goal, a, b)  BY DEF Deleted, Joins
<1>2. a \in Seq(Words) /\ Len(a) = p /\ \A i \in 1 .. p : a[i] = s[i]  BY UpTo
<1>3. /\ b \in Seq(Words) /\ Len(b) = l - (p + n)
      /\ \A i \in 1 .. l - (p + n) : b[i] = s[p + n + i]
  <2>1. p + n \in Nat  OBVIOUS
  <2> QED  BY <2>1, Beyond
<1> HIDE DEF a, b, goal
<1>4. /\ l - (p + n) \in Nat /\ p + (l - (p + n)) = l - n
      /\ l - (p + n) = l - p - n
  OBVIOUS
<1>5. /\ goal \in Seq(Words) /\ Len(goal) = p + (l - (p + n))
      /\ \A i \in 1 .. p : goal[i] = a[i]
      /\ \A i \in 1 .. l - (p + n) : goal[p + i] = b[i]
  <2>1. PICK k \in Nat : k = l - (p + n)  BY <1>4
  <2>2. Len(b) = k  BY <1>3, <2>1
  <2>3. /\ a \in Seq(Words) /\ Len(a) = p /\ b \in Seq(Words) /\ Len(b) = k
        /\ Joins(goal, a, b)
    BY <1>1, <1>2, <1>3, <2>2
  <2>4. /\ goal \in Seq(Words) /\ Len(goal) = p + k
        /\ \A i \in 1 .. p : goal[i] = a[i]
        /\ \A i \in 1 .. k : goal[p + i] = b[i]
    BY <2>3, TwoParts
  <2> QED  BY <2>1, <2>4
<1> QED  BY <1>2, <1>3, <1>4, <1>5 DEF goal, DeleteGoal

-----------------------------------------------------------------------------
(* A command that has no call left has done what it means.                 *)
LEMMA PhaseIs ==
    ASSUME IInv
    PROVE  /\ Types
           /\ cmd.k = "w" => AtWrite
           /\ cmd.k = "i" => AtAppend \/ AtInsert
           /\ cmd.k = "d" => AtCut \/ AtDelete
<1>1. Types /\ Progress  BY DEF IInv
<1>2. AtIdle => cmd.k = "idle"  BY Records DEF AtIdle, Idle
<1>3. AtCat => cmd.k = "cat"  BY Records DEF AtCat
<1>4. AtWrite => cmd.k = "w"  BY Records DEF AtWrite
<1>5. AtAppend \/ AtInsert => cmd.k = "i"  BY Records DEF AtAppend, AtInsert
<1>6. AtCut \/ AtDelete => cmd.k = "d"  BY Records DEF AtCut, AtDelete
<1> QED  BY <1>1, <1>2, <1>3, <1>4, <1>5, <1>6 DEF Progress

(* The text of the file is t, of which the bytes are known.                *)
LEMMA SameText ==
    ASSUME Types, NEW t \in Seq(Words), NEW n \in Nat, n = Len(t), n <= saved,
           \A x \in 0 .. n - 1 : At(x) = t[x + 1]
    PROVE  IsPrefix(t, Text(saved)) /\ (n = saved => Text(saved) = t)
<1> DEFINE f == Text(saved)
<1>1. /\ f \in Seq(Words) /\ Len(f) = saved
      /\ \A x \in 0 .. saved - 1 : f[x + 1] = At(x)
  BY TextIs
<1> HIDE DEF f
<1>2. saved \in Nat  BY Typed
<1>3. \A i \in 1 .. n : f[i] = t[i]
  <2> TAKE i \in 1 .. n
  <2>1. i - 1 \in 0 .. saved - 1 /\ i - 1 \in 0 .. n - 1 /\ i - 1 + 1 = i  BY <1>2
  <2>2. f[i - 1 + 1] = At(i - 1)  BY <1>1, <2>1
  <2>3. At(i - 1) = t[i - 1 + 1]  BY <2>1
  <2> QED  BY <2>1, <2>2, <2>3
<1>4. IsPrefix(t, f)  BY <1>1, <1>3, PrefixIs
<1>5. n = saved => f = t  BY <1>1, <1>3, SeqEqual
<1> QED  BY <1>4, <1>5 DEF f

LEMMA ReplacesHolds == IInv => Replaces
<1> SUFFICES ASSUME IInv, cmd.k = "w", todo = <<>> PROVE Text(saved) = cmd.text
  BY DEF Replaces, Done
<1>1. Types /\ AtWrite  BY PhaseIs
<1>2. PICK text \in Lines : cmd.text = text  BY <1>1 DEF AtWrite
<1>3. PICK n \in Nat : n = Len(text)  BY LineIs
<1>4. cmd.len = n  BY <1>1, <1>2, <1>3, Records DEF AtWrite
<1>5. \A a, c, P : todo # <<a>> \o (IF P THEN <<c>> ELSE <<>>)
  <2> TAKE a, c, P
  <2>1. CASE P  BY <2>1, Joined, Lists
  <2>2. CASE ~P  BY <2>2, Joined, Lists
  <2> QED  BY <2>1, <2>2
<1>6. todo # <<Call("size", 0, cmd.len)>>  BY Lists
<1>7. Sizes(n) /\ Wrote(0, n)  BY <1>1, <1>4, <1>5, <1>6 DEF AtWrite
<1>8. saved = n /\ \A x \in 0 .. n - 1 : At(0 + x) = text[x + 1]
  BY <1>2, <1>7 DEF Sizes, Wrote
<1>9. \A x \in 0 .. n - 1 : At(x) = text[x + 1]
  <2>1. \A x \in 0 .. n - 1 : 0 + x = x  OBVIOUS
  <2> QED  BY <1>8, <2>1
<1>10. text \in Seq(Words)  BY LineIs
<1> QED  BY <1>1, <1>2, <1>3, <1>8, <1>9, <1>10, SameText

LEMMA InsertsHolds == IInv => Inserts
<1> DEFINE goal == Inserted(was, cmd.pos, cmd.text)
           over == Overwritten(was, cmd.pos, cmd.text)
<1> SUFFICES ASSUME IInv, cmd.k = "i", todo = <<>>
             PROVE  IF Room
                    THEN /\ IsPrefix(goal, Text(saved))
                         /\ cmd.pos >= Old \/ cmd.pos + cmd.len <= Old
                               => Text(saved) = goal
                         /\ cmd.pos < Old
                               => saved = Larger(Old, cmd.pos + cmd.len) + cmd.len
                    ELSE Text(saved) = IF cmd.pos >= Old \/ cmd.pos + cmd.len > Cap THEN was
                                       ELSE over
  BY DEF Inserts, Done, Old
<1>1. Types /\ (AtAppend \/ AtInsert)  BY PhaseIs
<1>2. PICK text \in Lines : cmd.text = text  BY <1>1 DEF AtAppend, AtInsert
<1>3. PICK n \in Nat : n = Len(text)  BY LineIs
<1>4. cmd.len = n  BY <1>1, <1>2, <1>3, Records DEF AtAppend, AtInsert
<1>5. PICK pos \in Nat : pos = cmd.pos  BY <1>1, CapIsNatural DEF AtAppend, AtInsert
<1>6. PICK old \in Nat : old = Old /\ old = Len(was)  BY <1>1, Typed DEF Old
<1>7. text \in Seq(Words) /\ was \in Seq(Words)  BY <1>1, LineIs DEF Types
<1>8. PICK s \in Seq(Words) : s = was  BY <1>7
<1>9. PICK g : g = goal /\ g = Inserted(s, pos, text)  BY <1>2, <1>5, <1>8
<1>13. PICK v : v = over /\ v = Overwritten(s, pos, text)  BY <1>2, <1>5, <1>8
<1> HIDE DEF goal, over
<1>14. Cap \in Nat /\ old <= Cap  BY <1>1, <1>6, CapIsNatural, Typed
<1>10. \A a, b, c : todo # <<a>> /\ todo # <<a, b>> /\ todo # <<a, b, c>>  BY Lists
<1>11. CASE AtAppend
  <2>8. PICK m \in Nat : m = Taken(old) /\ m = IF old + n <= Cap THEN n ELSE 0
    BY <1>4 DEF Taken
  <2>9. Sizes(old + m) /\ Wrote(old, m) /\ Kept(0, old) /\ pos >= old
    BY <1>4, <1>5, <1>6, <1>10, <1>11, <2>8 DEF AtAppend
  <2>10. Room <=> old + n <= Cap
    BY <1>4, <1>5, <1>6, <2>9 DEF Room, Larger
  <2>11. CASE ~Room
    <3>1. saved = old  BY <2>8, <2>9, <2>10, <2>11 DEF Sizes
    <3>2. \A x \in 0 .. old - 1 : At(x) = s[x + 1]  BY <1>8, <2>9 DEF Kept
    <3>3. old = Len(s)  BY <1>6, <1>8
    <3>4. Text(saved) = s  BY <1>1, <3>1, <3>2, <3>3, SameText
    <3> QED  BY <1>5, <1>6, <1>8, <2>9, <2>11, <3>4
  <2>12. CASE Room
    <3>1. Sizes(old + n) /\ Wrote(old, n) /\ Kept(0, old) /\ pos >= old
      BY <2>8, <2>9, <2>10, <2>12
    <3>2. /\ g \in Seq(Words) /\ Len(g) = old + n
          /\ \A i \in 1 .. old : g[i] = s[i]
          /\ \A i \in 1 .. n : g[old + i] = text[i]
      <4>1. old = Len(s) /\ pos >= old  BY <1>6, <1>8, <3>1
      <4>2. AppendGoal(g, s, text, old, n)
        BY <1>3, <1>7, <1>9, <4>1, AppendedIs
      <4> QED  BY <4>2 DEF AppendGoal
    <3>3. \A x \in 0 .. old - 1 : At(x) = s[x + 1]  BY <1>8, <3>1 DEF Kept
    <3>4. \A x \in 0 .. n - 1 : At(old + x) = text[x + 1]  BY <1>2, <3>1 DEF Wrote
    <3>5. \A x \in 0 .. old + n - 1 : At(x) = g[x + 1]
      <4> TAKE x \in 0 .. old + n - 1
      <4>1. CASE x < old
        <5>1. x \in 0 .. old - 1 /\ x + 1 \in 1 .. old  BY <4>1
        <5> QED  BY <3>2, <3>3, <5>1
      <4>2. CASE ~(x < old)
        <5>1. PICK y \in 0 .. n - 1 : x = old + y  BY <4>2
        <5>2. y + 1 \in 1 .. n /\ old + (y + 1) = x + 1  BY <5>1
        <5>4. g[old + (y + 1)] = text[y + 1]  BY <3>2, <5>2
        <5>3. g[x + 1] = text[y + 1]  BY <5>2, <5>4
        <5> QED  BY <3>4, <5>1, <5>3
      <4> QED  BY <4>1, <4>2
    <3>6. saved = old + n  BY <3>1 DEF Sizes
    <3>7. IsPrefix(g, Text(saved)) /\ Text(saved) = g
      BY <1>1, <3>2, <3>5, <3>6, SameText
    <3> QED  BY <1>5, <1>6, <1>9, <2>9, <2>12, <3>7
  <2> QED  BY <2>11, <2>12
<1>12. CASE AtInsert
  <2>11. PICK put \in Nat : put = Put /\ put = IF pos + n <= Cap THEN n ELSE 0
    BY <1>4, <1>5 DEF Put, Taken
  <2>7. PICK mid \in Nat : mid = Mid /\ mid = Larger(old, pos + put)
    BY <1>5, <1>6, <2>11 DEF Mid, Larger
  <2>12. pos < old /\ Kept(0, pos)  BY <1>5, <1>6, <1>12 DEF AtInsert
  <2>13. /\ Room <=> Fits
         /\ Fits => put = n
    <3>1. Room <=> Larger(old, pos + n) + n <= Cap
      BY <1>4, <1>5, <1>6, <2>12 DEF Room
    <3>2. Fits <=> mid + n <= Cap  BY <1>4, <2>7 DEF Fits
    <3> QED  BY <1>14, <2>7, <2>11, <2>12, <3>1, <3>2 DEF Larger
  <2>14. CASE ~Fits
    <3>1. Sizes(mid) /\ Wrote(pos, put) /\ Kept(pos + put, old)
      BY <1>4, <1>5, <1>6, <1>10, <1>12, <2>7, <2>11, <2>14 DEF AtInsert
    <3>2. \A x \in 0 .. pos - 1 : At(x) = s[x + 1]  BY <1>8, <2>12 DEF Kept
    <3>3. \A x \in pos + put .. old - 1 : At(x) = s[x + 1]  BY <1>8, <3>1 DEF Kept
    <3>4. old = Len(s) /\ saved = mid  BY <1>6, <1>8, <3>1 DEF Sizes
    <3>5. CASE pos + n > Cap
      <4>1. put = 0 /\ mid = old  BY <1>14, <2>7, <2>11, <2>12, <3>5 DEF Larger
      <4>2. \A x \in 0 .. old - 1 : At(x) = s[x + 1]  BY <3>2, <3>3, <4>1
      <4>3. Text(saved) = s  BY <1>1, <3>4, <4>1, <4>2, SameText
      <4> QED  BY <1>4, <1>5, <1>8, <2>13, <2>14, <3>5, <4>3
    <3>6. CASE ~(pos + n > Cap)
      <4>1. put = n /\ mid = Larger(old, pos + n)  BY <1>14, <2>7, <2>11, <3>6
      <4>2. OverGoal(v, s, pos, text, old, n)
        BY <1>3, <1>7, <1>13, <2>12, <3>4, OverwrittenIs
      <4>3. /\ v \in Seq(Words) /\ Len(v) = Larger(old, pos + n)
            /\ \A i \in 1 .. pos : v[i] = s[i]
            /\ \A i \in 1 .. n : v[pos + i] = text[i]
            /\ \A i \in pos + n + 1 .. old : v[i] = s[i]
        BY <4>2 DEF OverGoal
      <4>4. \A x \in 0 .. n - 1 : At(pos + x) = text[x + 1]
        BY <1>2, <3>1, <4>1 DEF Wrote
      <4>5. \A x \in 0 .. mid - 1 : At(x) = v[x + 1]
        <5> TAKE x \in 0 .. mid - 1
        <5>1. CASE x < pos
          <6>1. x \in 0 .. pos - 1 /\ x + 1 \in 1 .. pos  BY <5>1
          <6> QED  BY <3>2, <4>3, <6>1
        <5>2. CASE x >= pos /\ x < pos + n
          <6>1. PICK y \in 0 .. n - 1 : x = pos + y  BY <5>2
          <6>2. y + 1 \in 1 .. n /\ pos + (y + 1) = x + 1  BY <6>1
          <6>3. v[pos + (y + 1)] = text[y + 1]  BY <4>3, <6>2
          <6>4. v[x + 1] = text[y + 1]  BY <6>2, <6>3
          <6> QED  BY <4>4, <6>1, <6>4
        <5>3. CASE x >= pos + n
          <6>1. x < old  BY <4>1, <5>3 DEF Larger
          <6>2. x \in pos + put .. old - 1 /\ x + 1 \in pos + n + 1 .. old
            BY <4>1, <5>3, <6>1
          <6> QED  BY <3>3, <4>3, <6>2
        <5> QED  BY <5>1, <5>2, <5>3
      <4>6. mid = Len(v) /\ mid <= saved  BY <3>4, <4>1, <4>3
      <4>7. Text(saved) = v  BY <1>1, <3>4, <4>3, <4>5, <4>6, SameText
      <4> QED  BY <1>4, <1>5, <1>6, <1>13, <2>12, <2>13, <2>14, <3>6, <4>7
    <3> QED  BY <3>5, <3>6
  <2>15. CASE Fits
    <3>1. /\ Sizes(Mid + n) /\ Kept(0, pos) /\ Wrote(pos, n) /\ pos < old
          /\ Moved(pos + n, pos, old - pos)
      BY <1>4, <1>5, <1>6, <1>10, <1>12, <2>15 DEF AtInsert
    <3>2. /\ g \in Seq(Words) /\ Len(g) = old + n
          /\ \A i \in 1 .. pos : g[i] = s[i]
          /\ \A i \in 1 .. n : g[pos + i] = text[i]
          /\ \A i \in 1 .. old - pos : g[pos + n + i] = s[pos + i]
      <4>1. old = Len(s) /\ pos < old  BY <1>6, <1>8, <3>1
      <4>2. InsertGoal(g, s, pos, text, old, n)
        BY <1>3, <1>7, <1>9, <4>1, InsertedIs
      <4> QED  BY <4>2 DEF InsertGoal
    <3>3. \A x \in 0 .. pos - 1 : At(x) = s[x + 1]  BY <1>8, <3>1 DEF Kept
    <3>4. \A x \in 0 .. n - 1 : At(pos + x) = text[x + 1]  BY <1>2, <3>1 DEF Wrote
    <3>5. \A x \in 0 .. old - pos - 1 : At(pos + n + x) = s[pos + x + 1]
      BY <1>8, <3>1 DEF Moved
    <3>6. \A x \in 0 .. old + n - 1 : At(x) = g[x + 1]
      <4> TAKE x \in 0 .. old + n - 1
      <4>1. CASE x < pos
        <5>1. x \in 0 .. pos - 1 /\ x + 1 \in 1 .. pos  BY <4>1
        <5> QED  BY <3>2, <3>3, <5>1
      <4>2. CASE x >= pos /\ x < pos + n
        <5>1. PICK y \in 0 .. n - 1 : x = pos + y  BY <4>2
        <5>2. y + 1 \in 1 .. n /\ pos + (y + 1) = x + 1  BY <5>1
        <5>4. g[pos + (y + 1)] = text[y + 1]  BY <3>2, <5>2
        <5>3. g[x + 1] = text[y + 1]  BY <5>2, <5>4
        <5> QED  BY <3>4, <5>1, <5>3
      <4>3. CASE x >= pos + n
        <5>1. PICK y \in 0 .. old - pos - 1 : x = pos + n + y  BY <3>1, <4>3
        <5>2. /\ y + 1 \in 1 .. old - pos /\ pos + n + (y + 1) = x + 1
              /\ pos + (y + 1) = pos + y + 1
          BY <5>1
        <5>4. g[pos + n + (y + 1)] = s[pos + (y + 1)]  BY <3>2, <5>2
        <5>3. g[x + 1] = s[pos + y + 1]  BY <5>2, <5>4
        <5> QED  BY <3>5, <5>1, <5>3
      <4> QED  BY <4>1, <4>2, <4>3
    <3>8. saved = mid + n /\ old <= mid /\ (pos + n <= old => mid = old)
      <4>1. put = n /\ mid = Larger(old, pos + n)  BY <2>7, <2>13, <2>15
      <4>2. saved = mid + n  BY <2>7, <3>1 DEF Sizes
      <4> QED  BY <4>1, <4>2 DEF Larger
    <3>9. old + n <= saved /\ (pos + n <= old => old + n = saved)  BY <3>8
    <3>10. /\ IsPrefix(g, Text(saved))
           /\ old + n = saved => Text(saved) = g
      <4>1. PICK m \in Nat : m = old + n  OBVIOUS
      <4>2. /\ g \in Seq(Words) /\ m = Len(g) /\ m <= saved
            /\ \A x \in 0 .. m - 1 : At(x) = g[x + 1]
        BY <3>2, <3>6, <3>9, <4>1
      <4>3. /\ IsPrefix(g, Text(saved))
            /\ m = saved => Text(saved) = g
        BY <1>1, <4>2, SameText
      <4> QED  BY <4>1, <4>3
    <3>11. saved = Larger(Old, cmd.pos + cmd.len) + cmd.len
      <4>1. put = n /\ mid = Larger(old, pos + n)  BY <2>7, <2>13, <2>15
      <4> QED  BY <1>4, <1>5, <1>6, <3>8, <4>1
    <3>12. /\ IsPrefix(goal, Text(saved))
           /\ cmd.pos >= Old \/ cmd.pos + cmd.len <= Old => Text(saved) = goal
      BY <1>4, <1>5, <1>6, <1>9, <3>1, <3>9, <3>10
    <3>13. Room  BY <2>13, <2>15
    <3> QED  BY <3>11, <3>12, <3>13
  <2> QED  BY <2>14, <2>15
<1> QED  BY <1>1, <1>11, <1>12

LEMMA DeletesHolds == IInv => Deletes
<1> SUFFICES ASSUME IInv, cmd.k = "d", todo = <<>>,
                    cmd.pos <= Old, cmd.pos + cmd.len < W
             PROVE  Text(saved) = Deleted(was, cmd.pos, cmd.len)
  BY DEF Deletes, Done, Old
<1>1. Types /\ (AtCut \/ AtDelete)  BY PhaseIs
<1>2. PICK old \in Nat : old = Old /\ old = Len(was)  BY <1>1, Typed DEF Old
<1>3. PICK s \in Seq(Words) : s = was  BY <1>1 DEF Types
<1>4. cmd.pos \in Nat /\ cmd.len \in Nat
  BY <1>1, CapIsNatural DEF AtCut, AtDelete, Numbers
<1>5. PICK pos \in Nat, n \in Nat : pos = cmd.pos /\ n = cmd.len  BY <1>4
<1>6. PICK g : g = Deleted(was, cmd.pos, cmd.len) /\ g = Deleted(s, pos, n)
  BY <1>3, <1>5
<1>7. pos <= old /\ pos + n \in Nat /\ pos + n < W  BY <1>2, <1>5
<1>8. \A a, b, c : todo # <<a>> /\ todo # <<a, b>> /\ todo # <<a, b, c>>  BY Lists
<1>9. old = Len(s)  BY <1>2, <1>3
<1>10. CASE AtCut
  <2>1. Sizes(pos) /\ Kept(0, old)  BY <1>2, <1>5, <1>8, <1>10 DEF AtCut
  <2>2. pos + n >= old
    <3>1. (pos + n) % W = pos + n  BY <1>7, SmallMod
    <3>2. (pos + n) % W >= old  BY <1>2, <1>5, <1>10 DEF AtCut, End
    <3> QED  BY <3>1, <3>2
  <2>3. /\ g \in Seq(Words) /\ Len(g) = pos
        /\ \A i \in 1 .. pos : g[i] = s[i]
    <3>1. CutGoal(g, s, pos)  BY <1>6, <1>7, <1>9, <2>2, CutIs
    <3> QED  BY <3>1 DEF CutGoal
  <2>4. \A x \in 0 .. old - 1 : At(x) = s[x + 1]  BY <1>3, <2>1 DEF Kept
  <2>5. \A x \in 0 .. pos - 1 : At(x) = g[x + 1]
    <3> TAKE x \in 0 .. pos - 1
    <3>1. x \in 0 .. old - 1 /\ x + 1 \in 1 .. pos  BY <1>7
    <3> QED  BY <2>3, <2>4, <3>1
  <2>6. saved = pos  BY <2>1 DEF Sizes
  <2>7. Text(saved) = g  BY <1>1, <2>3, <2>5, <2>6, SameText
  <2> QED  BY <1>6, <2>7
<1>11. CASE AtDelete
  <2>1. /\ End = pos + n /\ Rest = old - pos - n /\ Rest \in Nat
        /\ (Then - cmd.len) % W = old - n /\ old - n \in Nat
    BY <1>1, <1>2, <1>5, <1>11, Straight
  <2>2. /\ Sizes(old - n) /\ Kept(0, pos) /\ Moved(pos, pos + n, old - pos - n)
    BY <1>2, <1>5, <1>7, <1>8, <1>11, <2>1 DEF AtDelete
  <2>3. pos + n <= old  BY <2>1
  <2>4. /\ g \in Seq(Words) /\ Len(g) = old - n
        /\ \A i \in 1 .. pos : g[i] = s[i]
        /\ \A i \in 1 .. old - pos - n : g[pos + i] = s[pos + n + i]
    <3>1. DeleteGoal(g, s, pos, n, old)  BY <1>6, <1>9, <2>3, DeletedIs
    <3> QED  BY <3>1 DEF DeleteGoal
  <2>5. \A x \in 0 .. pos - 1 : At(x) = s[x + 1]  BY <1>3, <2>2 DEF Kept
  <2>6. \A x \in 0 .. old - pos - n - 1 : At(pos + x) = s[pos + n + x + 1]
    BY <1>3, <2>2 DEF Moved
  <2>7. \A x \in 0 .. old - n - 1 : At(x) = g[x + 1]
    <3> TAKE x \in 0 .. old - n - 1
    <3>1. CASE x < pos
      <4>1. x \in 0 .. pos - 1 /\ x + 1 \in 1 .. pos  BY <3>1
      <4> QED  BY <2>4, <2>5, <4>1
    <3>2. CASE ~(x < pos)
      <4>1. PICK y \in 0 .. old - pos - n - 1 : x = pos + y  BY <2>3, <3>2
      <4>2. /\ y + 1 \in 1 .. old - pos - n /\ pos + (y + 1) = x + 1
            /\ pos + n + (y + 1) = pos + n + y + 1
        BY <4>1
      <4>3. g[pos + (y + 1)] = s[pos + n + (y + 1)]  BY <2>4, <4>2
      <4>4. g[x + 1] = s[pos + n + y + 1]  BY <4>2, <4>3
      <4> QED  BY <2>6, <4>1, <4>4
    <3> QED  BY <3>1, <3>2
  <2>8. saved = old - n  BY <2>2 DEF Sizes
  <2>9. Text(saved) = g
    <3>1. PICK m \in Nat : m = old - n  BY <2>1
    <3>2. m = Len(g) /\ m = saved  BY <2>4, <2>8, <3>1
    <3>3. \A x \in 0 .. m - 1 : At(x) = g[x + 1]  BY <2>7, <3>1
    <3>4. m <= saved  BY <3>2
    <3> QED  BY <1>1, <2>4, <3>2, <3>3, <3>4, SameText
  <2> QED  BY <1>6, <2>9
<1> QED  BY <1>1, <1>10, <1>11

(* For every size of a block and of the file, every text, position and     *)
(* length, and wherever the ends of an edit fall on blocks, the rounds of  *)
(* readi and writei that w, i and d make leave the file their reference    *)
(* definition gives; where writei refuses to let the file grow beyond its  *)
(* blocks (inode.c:88), i leaves just what Inserts says of that case.      *)
THEOREM EditedRight == Spec => []Edited
<1>1. IInv => Edited  BY ReplacesHolds, InsertsHolds, DeletesHolds DEF Edited
<1> QED  BY EditInvariance, <1>1, PTL

-----------------------------------------------------------------------------
(* What a server that dies in the middle of an edit leaves.                *)
(* A deletion that wraps makes the file longer, if it is carried out.      *)
LEMMA Wrapped ==
    ASSUME Types, AtDelete, cmd.pos <= Old, cmd.pos + cmd.len >= W
    PROVE  Then >= Old /\ (Then - cmd.len) % W >= Old
<1>1. Old \in Nat /\ Old <= Cap /\ W \in Nat /\ Cap \in Nat /\ 2 * Cap < W
  BY Typed, CapIsNatural
<1>2. PICK pos \in Nat, n \in Nat : pos = cmd.pos /\ n = cmd.len /\ n < W
  BY <1>1 DEF AtDelete, Numbers
<1>3. PICK old \in Nat : old = Old  BY <1>1
<1>4. PICK d \in Nat : d = pos + n - W /\ d < pos
  BY <1>1, <1>2
<1>5. End = d
  <2>1. d < W /\ pos + n = d + W  BY <1>1, <1>2, <1>3, <1>4
  <2>2. (d + W) % W = d  BY <1>1, <2>1
  <2> QED  BY <1>2, <2>1, <2>2 DEF End
<1>6. Then = pos + (old - d)
  <2>1. pos + (old - d) > old /\ ~(pos > old)  BY <1>2, <1>3, <1>4
  <2>2. Rest = old - d  BY <1>3, <1>5 DEF Rest
  <2> QED  BY <1>2, <1>3, <2>1, <2>2 DEF Then, Larger
<1>7. PICK a \in Nat : a = old + (pos - d) + (pos - d)  BY <1>4
<1>8. Then <= Cap  BY <1>1 DEF AtDelete
<1>9. a < W /\ Then - n = a - W
  <2>1. old + (pos - d) <= Cap /\ pos - d <= old  BY <1>2, <1>3, <1>4, <1>6, <1>8
  <2>2. a < W  BY <1>1, <1>3, <1>7, <2>1
  <2>3. pos + (old - d) - n = a - W  BY <1>1, <1>4, <1>7
  <2> QED  BY <1>6, <2>2, <2>3
<1>10. (Then - n) % W = a  BY <1>9, BelowMod
<1>11. Then >= old /\ a >= old  BY <1>4, <1>6, <1>7
<1> QED  BY <1>2, <1>3, <1>10, <1>11

(* In every phase of an i or a d, the bytes before the position are kept.  *)
LEMMA FrontKept ==
    ASSUME IInv, cmd.k \in {"i", "d"}, cmd.pos <= Old
    PROVE  cmd.pos \in Nat /\ cmd.pos <= saved /\ Kept(0, cmd.pos)
<1>1. Types /\ (AtAppend \/ AtInsert \/ AtCut \/ AtDelete)  BY PhaseIs
<1>2. PICK old \in Nat, now \in Nat : old = Old /\ now = saved  BY <1>1, Typed
<1>3. cmd.pos \in Nat
  BY <1>1, CapIsNatural DEF AtAppend, AtInsert, AtCut, AtDelete, Numbers
<1>4. PICK pos \in Nat : pos = cmd.pos /\ pos <= old  BY <1>2, <1>3
<1>5. Kept(0, old) => Kept(0, pos)  BY <1>4 DEF Kept
<1>6. CASE AtAppend
  <2>1. PICK n \in Nat : n = cmd.len
    <3>1. cmd.len = Len(cmd.text)  BY <1>6, Records DEF AtAppend
    <3> QED  BY <1>6, <3>1, LineIs DEF AtAppend
  <2>2. now = old \/ now = old + n
    BY <1>2, <1>6, <2>1 DEF AtAppend, Sizes, Taken
  <2> QED  BY <1>2, <1>4, <1>5, <1>6, <2>2 DEF AtAppend
<1>7. CASE AtInsert
  <2>1. PICK n \in Nat : n = cmd.len
    <3>1. cmd.len = Len(cmd.text)  BY <1>7, Records DEF AtInsert
    <3> QED  BY <1>7, <3>1, LineIs DEF AtInsert
  <2>4. Put \in Nat  BY <2>1 DEF Put, Taken
  <2>2. PICK mid \in Nat : mid = Mid /\ mid >= old
    BY <1>2, <1>4, <2>4 DEF Mid, Larger
  <2>3. now = old \/ now = mid \/ now = mid + n
    BY <1>2, <1>7, <2>1, <2>2 DEF AtInsert, Sizes
  <2> QED  BY <1>2, <1>4, <1>7, <2>2, <2>3 DEF AtInsert
<1>8. CASE AtCut
  <2>1. now = old \/ now = pos  BY <1>2, <1>4, <1>8 DEF AtCut, Sizes
  <2> QED  BY <1>2, <1>4, <1>5, <1>8, <2>1 DEF AtCut
<1>9. CASE AtDelete
  <2>1. pos <= Then /\ pos <= (Then - cmd.len) % W
    <3>1. CASE cmd.pos + cmd.len < W
      <4>1. PICK n \in Nat : n = cmd.len  BY <1>1, <1>9, <3>1, Straight
      <4>2. /\ End = pos + n /\ Then = old /\ (Then - cmd.len) % W = old - n
        BY <1>1, <1>2, <1>4, <1>9, <3>1, <4>1, Straight
      <4>3. End < old  BY <1>2, <1>9 DEF AtDelete
      <4> QED  BY <1>4, <4>2, <4>3
    <3>2. CASE cmd.pos + cmd.len >= W
      <4>1. Then >= old /\ (Then - cmd.len) % W >= old
        BY <1>1, <1>2, <1>9, <3>2, Wrapped
      <4>2. Then \in Int /\ (Then - cmd.len) % W \in Int
        <5>1. cmd.len \in Nat /\ W \in Nat \ {0}
          BY <1>9, FileEditAssumption, CapIsNatural DEF AtDelete, Numbers
        <5>2. End \in Int  BY <1>3, <5>1 DEF End
        <5>3. Then \in Int  BY <1>2, <1>3, <5>2 DEF Then, Rest, Larger
        <5> QED  BY <5>1, <5>3
      <4> QED  BY <1>2, <1>4, <4>1, <4>2
    <3> QED
      <4>1. cmd.len \in Nat /\ W \in Nat  BY <1>9, CapIsNatural DEF AtDelete, Numbers
      <4> QED  BY <1>3, <3>1, <3>2, <4>1
  <2>2. now = old \/ now = Then \/ now = (Then - cmd.len) % W
    BY <1>2, <1>9 DEF AtDelete, Sizes
  <2>3. Kept(0, pos)
    <3>1. Kept(0, old) \/ Kept(0, pos) \/ cmd.pos > Old
      BY <1>2, <1>4, <1>9 DEF AtDelete
    <3>2. cmd.pos > Old => Kept(0, old)  BY <1>2, <1>4
    <3> QED  BY <1>5, <3>1, <3>2
  <2> QED  BY <1>2, <1>4, <2>1, <2>2, <2>3
<1> QED  BY <1>1, <1>6, <1>7, <1>8, <1>9

LEMMA FrontSafe == IInv => BeforePosition
<1> SUFFICES ASSUME IInv, cmd.k \in {"i", "d"}, cmd.pos <= Old
             PROVE  IsPrefix(SubSeq(was, 1, cmd.pos), Text(saved))
  BY DEF BeforePosition, Old
<1>1. cmd.pos \in Nat /\ cmd.pos <= saved /\ Kept(0, cmd.pos)  BY FrontKept
<1>2. PICK pos \in Nat : pos = cmd.pos  BY <1>1
<1>3. Types  BY PhaseIs
<1>4. PICK s \in Seq(Words) : s = was  BY <1>3 DEF Types
<1>5. PICK t : t = SubSeq(s, 1, pos)  OBVIOUS
<1>6. pos <= Len(s)  BY <1>2, <1>4 DEF Old
<1>7. /\ t \in Seq(Words) /\ Len(t) = pos
      /\ \A i \in 1 .. pos : t[i] = s[i]
  BY <1>5, <1>6, UpTo
<1>8. \A x \in 0 .. pos - 1 : At(x) = t[x + 1]
  <2>1. \A x \in 0 .. pos - 1 : At(x) = s[x + 1]  BY <1>1, <1>2, <1>4 DEF Kept
  <2>2. \A x \in 0 .. pos - 1 : x + 1 \in 1 .. pos  OBVIOUS
  <2> QED  BY <1>7, <2>1, <2>2
<1>9. IsPrefix(t, Text(saved))
  <2>1. pos = Len(t) /\ pos <= saved  BY <1>1, <1>2, <1>7
  <2> QED  BY <1>3, <1>7, <1>8, <2>1, SameText
<1> QED  BY <1>2, <1>4, <1>5, <1>9

(* Whatever step of an edit the server dies after, the file still begins   *)
(* with the bytes before the position: the sizes that are saved on the way *)
(* never fall below it, and no round writes before it.                     *)
THEOREM FrontStays == Spec => []BeforePosition
BY EditInvariance, FrontSafe, PTL
=============================================================================
