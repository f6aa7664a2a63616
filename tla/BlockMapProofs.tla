--------------------------- MODULE BlockMapProofs ---------------------------
(* Proofs about BlockMap, for any number of direct addresses, any size of  *)
(* blocks and indirect blocks, any disk and any files.                     *)
EXTENDS BlockMap, SequenceTheorems, TLAPS

-----------------------------------------------------------------------------
(* The inductive invariant.                                                *)
Inodes == [type : {0, T_FILE}, links : UShort,
           size : 0 .. MaxSize, blocks : 0 .. MAXFILEB,
           addrs : [0 .. ND + 1 -> Blocks]]

MapKinds == {"put", "get", "recycle"}
Jobs == [k : MapKinds, n : 0 .. MAXFILEB - 1, m : {0}]
        \cup [k : {"free"}, n : Paths, m : {0}]
        \cup [k : {"iupdate"}, n : 0 .. MaxSize, m : 0 .. MAXFILEB]
        \cup [k : {"iclear", "enter", "unlink"}, n : {0}, m : {0}]

(* What the command holds in memory.  The inode's addresses on disk are    *)
(* those in memory, but for some that are not there yet.                   *)
Types ==
    /\ TypeOK
    /\ todo \in Seq(Jobs)
    /\ ip \in Inodes
    /\ file \in Files =>
         /\ ip.type = T_FILE /\ disk[file].type = T_FILE
         /\ \A k \in 0 .. ND + 1 : disk[file].addrs[k] \in {0, ip.addrs[k]}
    /\ \A f \in Files : disk[f].type = 0 => disk[f] = NoInode
    /\ 0 \in bits

(* allocate_block's block is marked, and there is a gap it is meant for.   *)
Meant ==
    /\ fresh \subseteq bits
    /\ \A b, c \in fresh : b = c
    /\ fresh # {} => Gap

(* The plan: a command that frees the tree does nothing else but clear the *)
(* inode and unlink it; every block that is allocated is in an inode that  *)
(* is written later.                                                       *)
FreeKinds == {"free", "iclear"}
Frees(s) == \E j \in DOMAIN s : s[j].k = "iclear"
Closed(s) ==
    \A i \in DOMAIN s : s[i].k \in {"put", "recycle"} =>
        \E j \in DOMAIN s : i < j /\ s[j].k = "iupdate"
Ordered(s) ==
    /\ \A i, j \in DOMAIN s : s[i].k \in FreeKinds => s[j].k \in FreeKinds \cup {"unlink"}
    /\ \A i, j \in DOMAIN s : s[i].k = "iclear" /\ i < j => s[j].k = "unlink"
    /\ \A i \in DOMAIN s : s[i].k = "free" => Frees(s)
    /\ \A i, j \in DOMAIN s :
           s[i].k = "free" /\ s[j].k = "free" /\ s[i].n = s[j].n => i = j
    /\ Closed(s)
Freeing == Frees(todo)
Planned == Ordered(todo) /\ (freed => Freeing)

(* The trees: the block that path p of file f leads to.                    *)
Ref(f, p) == Resolve(Now(f), p)
Sound == hurt \cap {"recycle", "torn"} = {}
Apart ==
    \A f, g \in Files : \A p, q \in Paths :
        Ref(f, p) # 0 /\ Ref(f, p) = Ref(g, q) => f = g /\ p = q
FreshApart == \A f \in Files : \A p \in Paths : Ref(f, p) \notin fresh
Marked ==
    \A f \in Files : \A p \in Paths :
        Ref(f, p) # 0 => Ref(f, p) \in bits \/ (freed /\ f = file)
Trunks == Apart /\ FreshApart /\ Marked

(* What the size of an inode says is there, and what the writes of the     *)
(* inode that are planned will say, once the blocks before them are put.   *)
Whole == hurt \subseteq {"crash"}
Needs(job) == IF job.k = "iupdate" THEN 0 .. job.m - 1
              ELSE IF job.k = "get" THEN {job.n} ELSE {}
PutBefore(s, j, k) == \E i \in DOMAIN s : i < j /\ s[i].k = "put" /\ s[i].n = k
Covered(S, s) ==
    \A j \in DOMAIN s : \A k \in Needs(s[j]) : k \in S \/ PutBefore(s, j, k)
Filling ==
    /\ \A f \in Files :
           /\ disk[f].size <= disk[f].blocks * B
           /\ \A k \in 0 .. disk[f].blocks - 1 : Resolve(disk[f], Path(k)) # 0
    /\ Covered({k \in 0 .. MAXFILEB - 1 : Resolve(ip, Path(k)) # 0}, todo)

(* The bitmap: on a disk that nothing has happened to, the marked blocks   *)
(* are the superblock, allocate_block's, and those in the trees, but for   *)
(* what the command has freed already.                                     *)
Pending(p) == \E j \in DOMAIN todo : todo[j].k = "free" /\ todo[j].n = p
Held(f, p) == f = file /\ Freeing => Pending(p)
Accounted ==
    /\ \A f \in Files : \A p \in Paths :
           Ref(f, p) # 0 /\ Held(f, p) => Ref(f, p) \in bits
    /\ \A b \in bits :
           \/ b = 0 \/ b \in fresh
           \/ \E f \in Files : \E p \in Paths : Ref(f, p) = b /\ Held(f, p)
    /\ file \in Files /\ ip.addrs # disk[file].addrs =>
           \E j \in DOMAIN todo : todo[j].k = "iupdate"

IInv ==
    /\ Types /\ Meant /\ Planned
    /\ Sound => Trunks
    /\ Whole => Filling
    /\ hurt = {} => Accounted

-----------------------------------------------------------------------------
(* Paths.  A leaf holds a block of text, an inner path an indirect block,  *)
(* and the paths below an inner one add a word to it.                      *)
Leaves == {<<k>> : k \in 0 .. ND - 1} \cup ({ND} \X Words)
          \cup ({ND + 1} \X Words \X Words)
Inner == {<<ND>>, <<ND + 1>>} \cup ({ND + 1} \X Words)

LEMMA SizesAreNatural == MAXFILEB \in Nat /\ APB * APB \in Nat /\ MAXFILEB * B \in Nat
<1>1. \A x, y \in Nat : x * y \in Nat  OBVIOUS
<1>2. APB * APB \in Nat  BY <1>1, BlockMapAssumption
<1>3. MAXFILEB \in Nat  BY <1>2, BlockMapAssumption DEF MAXFILEB
<1> QED  BY <1>1, <1>2, <1>3, BlockMapAssumption

(* Short sequences of numbers by their elements.                           *)
LEMMA OneIs ==
    ASSUME NEW s \in Seq(Nat), NEW k \in Nat, Len(s) = 1, s[1] = k
    PROVE  s = <<k>>
<1>1. <<k>> \in Seq(Nat) /\ Len(<<k>>) = 1 /\ \A i \in 1 .. 1 : s[i] = <<k>>[i]  OBVIOUS
<1> QED  BY <1>1, SeqEqual

LEMMA TwoAre ==
    ASSUME NEW s \in Seq(Nat), NEW k \in Nat, NEW w \in Nat,
           Len(s) = 2, s[1] = k, s[2] = w
    PROVE  s = <<k, w>>
<1>1. <<k, w>> \in Seq(Nat) /\ Len(<<k, w>>) = 2  OBVIOUS
<1>2. \A i \in 1 .. 2 : s[i] = <<k, w>>[i]  OBVIOUS
<1> QED  BY <1>1, <1>2, SeqEqual

LEMMA ThreeAre ==
    ASSUME NEW s \in Seq(Nat), NEW k \in Nat, NEW w \in Nat, NEW v \in Nat,
           Len(s) = 3, s[1] = k, s[2] = w, s[3] = v
    PROVE  s = <<k, w, v>>
<1>1. <<k, w, v>> \in Seq(Nat) /\ Len(<<k, w, v>>) = 3  OBVIOUS
<1>2. \A i \in 1 .. 3 : s[i] = <<k, w, v>>[i]  OBVIOUS
<1> QED  BY <1>1, <1>2, SeqEqual

LEMMA PathsGrow ==
    ASSUME NEW k \in Nat, NEW w \in Nat, NEW v \in Nat
    PROVE  Append(<<k>>, w) = <<k, w>> /\ Append(<<k, w>>, v) = <<k, w, v>>
<1>1. Append(<<k>>, w) = <<k, w>>
  <2> DEFINE s == Append(<<k>>, w)
  <2>1. s \in Seq(Nat) /\ Len(s) = 2 /\ s[1] = k /\ s[2] = w  OBVIOUS
  <2> QED  BY <2>1, TwoAre
<1>2. Append(<<k, w>>, v) = <<k, w, v>>
  <2> DEFINE s == Append(<<k, w>>, v)
  <2>1. s \in Seq(Nat) /\ Len(s) = 3 /\ s[1] = k /\ s[2] = w /\ s[3] = v  OBVIOUS
  <2> QED  BY <2>1, ThreeAre, ZenonT(60)
<1> QED  BY <1>1, <1>2

LEMMA PathsAreOfThreeKinds ==
    ASSUME NEW p \in Paths
    PROVE  \/ \E k \in 0 .. ND + 1 : p = <<k>>
           \/ \E k \in {ND, ND + 1}, w \in Words : p = <<k, w>>
           \/ \E w, v \in Words : p = <<ND + 1, w, v>>
BY DEF Paths

LEMMA LeavesAreOfThreeKinds ==
    ASSUME NEW p \in Leaves
    PROVE  \/ \E k \in 0 .. ND - 1 : p = <<k>>
           \/ \E w \in Words : p = <<ND, w>>
           \/ \E u, w \in Words : p = <<ND + 1, u, w>>
BY DEF Leaves

LEMMA LengthsDiffer ==
    ASSUME NEW k, NEW w, NEW v, NEW j, NEW x
    PROVE  <<k>> # <<j, x>> /\ <<k>> # <<j, x, v>> /\ <<k, w>> # <<j, x, v>>
OBVIOUS

LEMMA PathsAreApart ==
    /\ Leaves \subseteq Paths /\ Inner \subseteq Paths
    /\ Leaves \cap Inner = {}
<1>1. Inner \subseteq Paths  BY BlockMapAssumption DEF Inner, Paths
<1>2. Leaves \subseteq Paths  BY BlockMapAssumption DEF Leaves, Paths
<1>3. ASSUME NEW p \in Leaves, NEW q \in Inner PROVE p # q
  BY <1>3, BlockMapAssumption DEF Leaves, Inner
<1> QED  BY <1>1, <1>2, <1>3

LEMMA PathOfBlock ==
    ASSUME NEW n \in 0 .. MAXFILEB - 1
    PROVE  Path(n) \in Leaves
<1>1. CASE n < ND
  BY <1>1, SizesAreNatural, BlockMapAssumption DEF Path, Leaves
<1>2. CASE ~(n < ND) /\ n < ND + APB
  BY <1>2, BlockMapAssumption DEF Path, Leaves, Words
<1>3. CASE ~(n < ND) /\ ~(n < ND + APB)
  <2> DEFINE m == n - ND - APB
             a == m \div APB
  <2>1. m \in Nat /\ m < APB * APB
    BY <1>3, SizesAreNatural, BlockMapAssumption DEF MAXFILEB
  <2> HIDE DEF m
  <2>2. a \in Nat /\ m % APB \in Words /\ m = a * APB + (m % APB)
    BY <2>1, BlockMapAssumption DEF Words
  <2> HIDE DEF a
  <2>3. a < APB
    <3>1. SUFFICES ASSUME a >= APB PROVE FALSE  BY <2>2, BlockMapAssumption
    <3>2. \A x, y, z \in Nat : x >= y => x * z >= y * z  OBVIOUS
    <3>3. a * APB >= APB * APB  BY <3>1, <3>2, <2>2, BlockMapAssumption
    <3> QED  BY <3>3, <2>1, <2>2, BlockMapAssumption DEF Words
  <2>4. Path(n) = <<ND + 1, a, m % APB>>  BY <1>3, BlockMapAssumption DEF Path, m, a
  <2> QED  BY <2>2, <2>3, <2>4, BlockMapAssumption DEF Leaves, Words
<1> QED  BY <1>1, <1>2, <1>3, SizesAreNatural, BlockMapAssumption

(* Following a path of an inode with addresses a, on a disk with cells c.  *)
Deref(c, addr, word) == IF addr \in 1 .. NB THEN c[addr][word] ELSE 0
Walk(c, a, p) ==
    IF Len(p) = 1 THEN a[p[1]]
    ELSE IF Len(p) = 2 THEN Deref(c, a[p[1]], p[2])
         ELSE Deref(c, Deref(c, a[p[1]], p[2]), p[3])

LEMMA ResolveWalks ==
    ASSUME NEW i, NEW p
    PROVE  Resolve(i, p) = Walk(cells, i.addrs, p)
BY DEF Resolve, Walk, Follow, Deref

LEMMA WalkOne == ASSUME NEW c, NEW a, NEW k
                 PROVE  Walk(c, a, <<k>>) = a[k]
BY DEF Walk
LEMMA WalkTwo == ASSUME NEW c, NEW a, NEW k, NEW w
                 PROVE  Walk(c, a, <<k, w>>) = Deref(c, a[k], w)
BY DEF Walk
LEMMA WalkThree ==
    ASSUME NEW c, NEW a, NEW k, NEW w, NEW v
    PROVE  Walk(c, a, <<k, w, v>>) = Deref(c, Walk(c, a, <<k, w>>), v)
BY DEF Walk

(* A change of blocks that are not indirect blocks of a tree.              *)
LEMMA WalkSame ==
    ASSUME NEW c, NEW d, NEW a,
           \A q \in Inner : Walk(c, a, q) \in 1 .. NB => d[Walk(c, a, q)] = c[Walk(c, a, q)]
    PROVE  \A p \in Paths : Walk(d, a, p) = Walk(c, a, p)
<1> TAKE p \in Paths
<1>1. ASSUME NEW k \in {ND, ND + 1}, NEW w \in Words
      PROVE  Walk(d, a, <<k, w>>) = Walk(c, a, <<k, w>>)
  <2>1. <<k>> \in Inner  BY DEF Inner
  <2>2. Walk(c, a, <<k>>) = a[k]  BY WalkOne
  <2> QED  BY <2>1, <2>2, WalkTwo DEF Deref
<1>2. ASSUME NEW w \in Words, NEW v \in Words
      PROVE  Walk(d, a, <<ND + 1, w, v>>) = Walk(c, a, <<ND + 1, w, v>>)
  <2>1. <<ND + 1, w>> \in Inner  BY DEF Inner
  <2>2. Walk(d, a, <<ND + 1, w>>) = Walk(c, a, <<ND + 1, w>>)  BY <1>1
  <2> QED  BY <2>1, <2>2, WalkThree DEF Deref
<1> QED  BY <1>1, <1>2, PathsAreOfThreeKinds, WalkOne

(* A block that holds no addresses comes into an empty slot: that slot,    *)
(* and no other, leads somewhere it did not before.                        *)
LEMMA WalkRooted ==
    ASSUME NEW c, NEW a, NEW k \in 0 .. ND + 1, NEW b \in 1 .. NB,
           DOMAIN a = 0 .. ND + 1, a[k] = 0, c[b] = Filled(0)
    PROVE  \A p \in Paths :
               Walk(c, [a EXCEPT ![k] = b], p) = IF p = <<k>> THEN b ELSE Walk(c, a, p)
<1> DEFINE e == [a EXCEPT ![k] = b]
<1> TAKE p \in Paths
<1>1. e[k] = b /\ \A j \in 0 .. ND + 1 : j # k => e[j] = a[j]  OBVIOUS
<1>2. \A w \in Words : Deref(c, b, w) = 0 /\ Deref(c, 0, w) = 0
  BY DEF Deref, Filled, Words
<1> HIDE DEF e
<1>3. ASSUME NEW j \in 0 .. ND + 1
      PROVE  Walk(c, e, <<j>>) = IF j = k THEN b ELSE Walk(c, a, <<j>>)
  <2>1. Walk(c, e, <<j>>) = e[j]  BY WalkOne
  <2>2. Walk(c, a, <<j>>) = a[j]  BY WalkOne
  <2> QED  BY <1>1, <2>1, <2>2
<1>4. ASSUME NEW j \in {ND, ND + 1}, NEW w \in Words
      PROVE  Walk(c, e, <<j, w>>) = Walk(c, a, <<j, w>>)
  <2>1. j \in 0 .. ND + 1  BY BlockMapAssumption
  <2>2. Deref(c, e[j], w) = Deref(c, a[j], w)  BY <1>1, <1>2, <2>1
  <2>3. Walk(c, e, <<j, w>>) = Deref(c, e[j], w)  BY WalkTwo
  <2>4. Walk(c, a, <<j, w>>) = Deref(c, a[j], w)  BY DEF Walk
  <2> QED  BY <2>2, <2>3, <2>4
<1>5. ASSUME NEW w \in Words, NEW v \in Words
      PROVE  Walk(c, e, <<ND + 1, w, v>>) = Walk(c, a, <<ND + 1, w, v>>)
  <2>1. Walk(c, e, <<ND + 1, w>>) = Walk(c, a, <<ND + 1, w>>)  BY <1>4
  <2> QED  BY <2>1, WalkThree
<1> DEFINE Ok(q) == Walk(c, e, q) = IF q = <<k>> THEN b ELSE Walk(c, a, q)
<1>6. \A j \in 0 .. ND + 1 : Ok(<<j>>)
  <2> TAKE j \in 0 .. ND + 1
  <2>1. <<j>> = <<k>> <=> j = k  OBVIOUS
  <2> QED  BY <1>3, <2>1
<1>7. \A j \in {ND, ND + 1}, w \in Words : Ok(<<j, w>>)  BY <1>4, LengthsDiffer
<1>8. \A w, v \in Words : Ok(<<ND + 1, w, v>>)  BY <1>5, LengthsDiffer
<1>9. Ok(p)
  <2> HIDE DEF Ok
  <2> QED  BY <1>6, <1>7, <1>8, PathsAreOfThreeKinds
<1> QED  BY <1>9 DEF e

(* A word of an indirect block that only path q leads to.                  *)
OnlyAt(c, a, x, q) == \A r \in Inner : Walk(c, a, r) = x => r = q
Nowhere(c, a, b) == \A r \in Inner : Walk(c, a, r) # b
OneMore(c, d, a, m, b) ==
    \A p \in Paths : Walk(d, a, p) = IF p = m THEN b ELSE Walk(c, a, p)

LEMMA WalkLinkedTwo ==
    ASSUME NEW c \in [Blocks -> [0 .. APB - 1 -> 0 .. Super]], NEW a,
           NEW k \in {ND, ND + 1}, NEW w \in Words, NEW b \in 1 .. NB,
           NEW x \in 1 .. NB, a[k] = x, c[x][w] = 0, c[b] = Filled(0), b # x,
           OnlyAt(c, a, x, <<k>>), Nowhere(c, a, b)
    PROVE  OneMore(c, [c EXCEPT ![x][w] = b], a, <<k, w>>, b)
<1> DEFINE d == [c EXCEPT ![x][w] = b]
<1> SUFFICES ASSUME NEW p \in Paths
             PROVE  Walk(d, a, p) = IF p = <<k, w>> THEN b ELSE Walk(c, a, p)
  BY DEF OneMore
<1>0. /\ \A q \in Inner : Walk(c, a, q) = x => q = <<k>>
      /\ \A q \in Inner : Walk(c, a, q) # b
  BY DEF OnlyAt, Nowhere
<1>1. /\ \A y \in 1 .. NB : y # x => d[y] = c[y]
      /\ d[x][w] = b /\ \A v \in Words : v # w => d[x][v] = c[x][v]
  BY BlockMapAssumption DEF Blocks, Words
<1>2. \A v \in Words : Deref(c, 0, v) = 0 /\ Deref(d, b, v) = 0
  <2>1. d[b] = Filled(0)  BY <1>1
  <2> HIDE DEF d
  <2> QED  BY <2>1 DEF Deref, Filled, Words
<1> HIDE DEF d
<1>3. \A j : Walk(d, a, <<j>>) = Walk(c, a, <<j>>)  BY WalkOne, ZenonT(60)
<1>4. ASSUME NEW j \in {ND, ND + 1}, NEW v \in Words
      PROVE  Walk(d, a, <<j, v>>) = IF j = k /\ v = w THEN b ELSE Walk(c, a, <<j, v>>)
  <2>1. a[j] = x => j = k
    <3>1. <<j>> \in Inner  BY DEF Inner
    <3>2. Walk(c, a, <<j>>) = a[j]  BY WalkOne
    <3>3. a[j] = x => <<j>> = <<k>>  BY <1>0, <3>1, <3>2
    <3> QED  BY <3>3
  <2>2. CASE a[j] = x
    <3>1. j = k  BY <2>1, <2>2
    <3> QED  BY <1>1, <2>2, <3>1, WalkTwo DEF Deref
  <2>3. CASE a[j] # x
    <3>1. j # k  BY <2>3
    <3> QED  BY <1>1, <2>3, <3>1, WalkTwo DEF Deref
  <2> QED  BY <2>2, <2>3
<1>5. ASSUME NEW u \in Words, NEW v \in Words
      PROVE  Walk(d, a, <<ND + 1, u, v>>) = Walk(c, a, <<ND + 1, u, v>>)
  <2> DEFINE y == Walk(c, a, <<ND + 1, u>>)
  <2>1. Walk(c, a, <<ND + 1, u, v>>) = Deref(c, y, v)  BY WalkThree
  <2>2. Walk(d, a, <<ND + 1, u, v>>) = Deref(d, Walk(d, a, <<ND + 1, u>>), v)
    BY WalkThree
  <2>3. CASE ND + 1 = k /\ u = w
    <3>1. y = c[x][w]  BY <2>3, WalkTwo DEF Deref
    <3>2. Walk(d, a, <<ND + 1, u>>) = b  BY <1>4, <2>3
    <3> QED  BY <1>2, <2>1, <2>2, <3>1, <3>2
  <2>4. CASE ~(ND + 1 = k /\ u = w)
    <3>1. Walk(d, a, <<ND + 1, u>>) = y  BY <1>4, <2>4
    <3>2. <<ND + 1, u>> \in Inner  BY DEF Inner
    <3>3. <<ND + 1, u>> # <<k>>  OBVIOUS
    <3>4. y # x  BY <1>0, <3>2, <3>3
    <3> QED  BY <1>1, <2>1, <2>2, <3>1, <3>4 DEF Deref
  <2> QED  BY <2>3, <2>4
<1> DEFINE Ok(q) == Walk(d, a, q) = IF q = <<k, w>> THEN b ELSE Walk(c, a, q)
<1>6. \A j \in 0 .. ND + 1 : Ok(<<j>>)  BY <1>3, LengthsDiffer
<1>7. \A j \in {ND, ND + 1}, v \in Words : Ok(<<j, v>>)
  <2> TAKE j \in {ND, ND + 1}, v \in Words
  <2>1. <<j, v>> = <<k, w>> <=> j = k /\ v = w  OBVIOUS
  <2> QED  BY <1>4, <2>1
<1>8. \A u, v \in Words : Ok(<<ND + 1, u, v>>)  BY <1>5, LengthsDiffer
<1>9. Ok(p)
  <2> HIDE DEF Ok
  <2> QED  BY <1>6, <1>7, <1>8, PathsAreOfThreeKinds
<1> QED  BY <1>9 DEF d

LEMMA WalkLinkedThree ==
    ASSUME NEW c \in [Blocks -> [0 .. APB - 1 -> 0 .. Super]], NEW a,
           NEW u \in Words, NEW w \in Words, NEW b \in 1 .. NB,
           NEW x \in 1 .. NB, Walk(c, a, <<ND + 1, u>>) = x,
           c[x][w] = 0, c[b] = Filled(0), b # x,
           OnlyAt(c, a, x, <<ND + 1, u>>), Nowhere(c, a, b)
    PROVE  OneMore(c, [c EXCEPT ![x][w] = b], a, <<ND + 1, u, w>>, b)
<1> DEFINE d == [c EXCEPT ![x][w] = b]
<1> SUFFICES ASSUME NEW p \in Paths
             PROVE  Walk(d, a, p) = IF p = <<ND + 1, u, w>> THEN b ELSE Walk(c, a, p)
  BY DEF OneMore
<1>0. /\ \A q \in Inner : Walk(c, a, q) = x => q = <<ND + 1, u>>
      /\ \A q \in Inner : Walk(c, a, q) # b
  BY DEF OnlyAt, Nowhere
<1>1. /\ \A y \in 1 .. NB : y # x => d[y] = c[y]
      /\ d[x][w] = b /\ \A v \in Words : v # w => d[x][v] = c[x][v]
  BY BlockMapAssumption DEF Blocks, Words
<1> HIDE DEF d
<1>2. \A j : Walk(d, a, <<j>>) = Walk(c, a, <<j>>)  BY DEF Walk
<1>3. ASSUME NEW j \in {ND, ND + 1}, NEW v \in Words
      PROVE  Walk(d, a, <<j, v>>) = Walk(c, a, <<j, v>>)
  <2>1. <<j>> \in Inner  BY DEF Inner
  <2>2. Walk(c, a, <<j>>) = a[j]  BY WalkOne
  <2>3. <<j>> # <<ND + 1, u>>  BY LengthsDiffer
  <2>4. a[j] # x  BY <1>0, <2>1, <2>2, <2>3
  <2> QED  BY <1>1, <2>4, WalkTwo DEF Deref
<1>4. ASSUME NEW t \in Words, NEW v \in Words
      PROVE  Walk(d, a, <<ND + 1, t, v>>) =
                 IF t = u /\ v = w THEN b ELSE Walk(c, a, <<ND + 1, t, v>>)
  <2> DEFINE y == Walk(c, a, <<ND + 1, t>>)
  <2>1. Walk(c, a, <<ND + 1, t, v>>) = Deref(c, y, v)  BY WalkThree
  <2>2. Walk(d, a, <<ND + 1, t, v>>) = Deref(d, Walk(d, a, <<ND + 1, t>>), v)
    BY WalkThree
  <2>3. Walk(d, a, <<ND + 1, t>>) = y  BY <1>3
  <2>4. <<ND + 1, t>> \in Inner  BY DEF Inner
  <2>5. y = x <=> t = u
    <3>1. y = x => <<ND + 1, t>> = <<ND + 1, u>>  BY <1>0, <2>4
    <3>2. <<ND + 1, t>> = <<ND + 1, u>> => t = u  OBVIOUS
    <3> QED  BY <3>1, <3>2
  <2> HIDE DEF y
  <2> QED  BY <1>1, <2>1, <2>2, <2>3, <2>5 DEF Deref
<1> DEFINE Ok(q) == Walk(d, a, q) = IF q = <<ND + 1, u, w>> THEN b ELSE Walk(c, a, q)
<1>6. \A j \in 0 .. ND + 1 : Ok(<<j>>)  BY <1>2, LengthsDiffer
<1>7. \A j \in {ND, ND + 1}, v \in Words : Ok(<<j, v>>)  BY <1>3, LengthsDiffer
<1>8. \A t, v \in Words : Ok(<<ND + 1, t, v>>)
  <2> TAKE t \in Words, v \in Words
  <2>1. <<ND + 1, t, v>> = <<ND + 1, u, w>> <=> t = u /\ v = w  OBVIOUS
  <2> QED  BY <1>4, <2>1
<1>9. Ok(p)
  <2> HIDE DEF Ok
  <2> QED  BY <1>6, <1>7, <1>8, PathsAreOfThreeKinds
<1> QED  BY <1>9 DEF d

(* An inode some of whose addresses are missing leads to part of the tree. *)
LEMMA WalkPart ==
    ASSUME NEW c, NEW a, NEW e, \A k \in 0 .. ND + 1 : e[k] \in {0, a[k]}
    PROVE  \A p \in Paths :
               Walk(c, e, p) = IF e[p[1]] = 0 THEN 0 ELSE Walk(c, a, p)
<1> TAKE p \in Paths
<1>1. \A w : Deref(c, 0, w) = 0  BY DEF Deref
<1>2. ASSUME NEW k \in 0 .. ND + 1
      PROVE  Walk(c, e, <<k>>) = IF e[k] = 0 THEN 0 ELSE Walk(c, a, <<k>>)
  <2>1. Walk(c, e, <<k>>) = e[k]  BY WalkOne
  <2>2. Walk(c, a, <<k>>) = a[k]  BY WalkOne
  <2> QED  BY <2>1, <2>2
<1>3. ASSUME NEW k \in {ND, ND + 1}, NEW w
      PROVE  Walk(c, e, <<k, w>>) = IF e[k] = 0 THEN 0 ELSE Walk(c, a, <<k, w>>)
  <2>1. k \in 0 .. ND + 1  BY BlockMapAssumption
  <2>2. Walk(c, e, <<k, w>>) = Deref(c, e[k], w)  BY WalkTwo
  <2>3. Walk(c, a, <<k, w>>) = Deref(c, a[k], w)  BY WalkTwo
  <2> QED  BY <1>1, <2>1, <2>2, <2>3
<1>4. ASSUME NEW w, NEW v
      PROVE  Walk(c, e, <<ND + 1, w, v>>) =
                 IF e[ND + 1] = 0 THEN 0 ELSE Walk(c, a, <<ND + 1, w, v>>)
  <2>1. Walk(c, e, <<ND + 1, w, v>>) = Deref(c, Walk(c, e, <<ND + 1, w>>), v)
    BY WalkThree
  <2>2. Walk(c, a, <<ND + 1, w, v>>) = Deref(c, Walk(c, a, <<ND + 1, w>>), v)
    BY WalkThree
  <2> QED  BY <1>1, <1>3, <2>1, <2>2
<1> QED  BY <1>2, <1>3, <1>4, PathsAreOfThreeKinds

(* A block emptied of its addresses leads nowhere.                         *)
LEMMA WalkZeroed ==
    ASSUME NEW c \in [Blocks -> [0 .. APB - 1 -> 0 .. Super]], NEW a, NEW b,
           NEW p \in Paths, Walk(c, a, p) = 0
    PROVE  Walk([c EXCEPT ![b] = Filled(0)], a, p) = 0
<1> DEFINE d == [c EXCEPT ![b] = Filled(0)]
<1>1. \A x, w : Deref(c, 0, w) = 0 /\ Deref(d, 0, w) = 0  BY DEF Deref
<1>2. ASSUME NEW x, NEW w \in Words PROVE Deref(d, x, w) \in {0, Deref(c, x, w)}
  <2>1. CASE x = b /\ x \in 1 .. NB
    <3>1. d[x] = Filled(0)  BY <2>1, BlockMapAssumption DEF Blocks
    <3> QED  BY <3>1 DEF Deref, Filled, Words
  <2>2. CASE ~(x = b /\ x \in 1 .. NB)
    <3>1. x \in 1 .. NB => d[x] = c[x]  BY <2>2 DEF Blocks
    <3> QED  BY <3>1 DEF Deref
  <2> QED  BY <2>1, <2>2
<1> HIDE DEF d
<1>3. CASE \E k \in 0 .. ND + 1 : p = <<k>>
  <2> PICK k \in 0 .. ND + 1 : p = <<k>>  BY <1>3
  <2> QED  BY WalkOne DEF d
<1>4. CASE \E k \in {ND, ND + 1}, w \in Words : p = <<k, w>>
  <2> PICK k \in {ND, ND + 1}, w \in Words : p = <<k, w>>  BY <1>4
  <2>1. Walk(d, a, p) = Deref(d, a[k], w)  BY WalkTwo
  <2>2. Walk(c, a, p) = Deref(c, a[k], w)  BY WalkTwo
  <2> QED  BY <1>2, <2>1, <2>2 DEF d
<1>5. CASE \E w, v \in Words : p = <<ND + 1, w, v>>
  <2> PICK w \in Words, v \in Words : p = <<ND + 1, w, v>>  BY <1>5
  <2> DEFINE x == Walk(c, a, <<ND + 1, w>>)  y == Walk(d, a, <<ND + 1, w>>)
  <2>1. x = Deref(c, a[ND + 1], w)  BY WalkTwo
  <2>2. y = Deref(d, a[ND + 1], w)  BY WalkTwo
  <2>3. y \in {0, x}  BY <1>2, <2>1, <2>2
  <2>4. Walk(c, a, p) = Deref(c, x, v)  BY WalkThree
  <2>5. Walk(d, a, p) = Deref(d, y, v)  BY WalkThree
  <2> HIDE DEF x, y
  <2>6. Deref(d, y, v) \in {0, Deref(c, x, v)}  BY <1>1, <1>2, <2>3
  <2> QED  BY <2>4, <2>5, <2>6 DEF d
<1> QED  BY <1>3, <1>4, <1>5, PathsAreOfThreeKinds

-----------------------------------------------------------------------------
(* itrunc's rounds visit every path once.                                  *)
LEMMA Monotone == \A x, y, z \in Nat : x <= y => x * z <= y * z
OBVIOUS

LEMMA Rows ==
    ASSUME NEW n \in Nat \ {0}, NEW r \in Nat
    PROVE  /\ \A m \in Nat : m < r * n =>
                  m \div n \in 0 .. r - 1 /\ m % n \in 0 .. n - 1
                  /\ m = (m \div n) * n + (m % n)
           /\ \A a \in 0 .. r - 1, w \in 0 .. n - 1 :
                  /\ a * n + w \in Nat /\ a * n + w < r * n
                  /\ (a * n + w) \div n = a /\ (a * n + w) % n = w
<1>1. \A x, y \in Nat : x * y \in Nat  OBVIOUS
<1>2. \A x \in Nat : (x + 1) * n = x * n + n  OBVIOUS
<1>3. ASSUME NEW m \in Nat
      PROVE  m \div n \in Nat /\ m % n \in 0 .. n - 1 /\ m = (m \div n) * n + (m % n)
  OBVIOUS
<1>4. ASSUME NEW m \in Nat, m < r * n PROVE m \div n < r
  <2> DEFINE q == m \div n
  <2>1. q \in Nat /\ m % n \in 0 .. n - 1 /\ m = q * n + (m % n)  BY <1>3
  <2>2. SUFFICES ASSUME r <= q PROVE FALSE  BY <2>1
  <2> HIDE DEF q
  <2>3. r * n <= q * n  BY <2>1, <2>2, Monotone
  <2> QED  BY <1>1, <1>4, <2>1, <2>3
<1>5. ASSUME NEW a \in 0 .. r - 1, NEW w \in 0 .. n - 1
      PROVE  /\ a * n + w \in Nat /\ a * n + w < r * n
             /\ (a * n + w) \div n = a /\ (a * n + w) % n = w
  <2> DEFINE m == a * n + w  q == m \div n  s == m % n
  <2>1. a * n \in Nat /\ r * n \in Nat  BY <1>1
  <2>2. a * n + n <= r * n
    <3>1. (a + 1) * n <= r * n  BY Monotone
    <3> QED  BY <1>2, <3>1
  <2>3. m \in Nat /\ m < r * n  BY <2>1, <2>2
  <2>4. q \in Nat /\ s \in 0 .. n - 1 /\ a * n + w = q * n + s  BY <1>3, <2>3
  <2> HIDE DEF q, s
  <2>5. q * n \in Nat  BY <1>1, <2>4
  <2>6. ~(q < a)
    <3>1. SUFFICES ASSUME q + 1 <= a PROVE FALSE  BY <2>4
    <3>2. (q + 1) * n <= a * n  BY <2>4, <3>1, Monotone
    <3>3. q * n + n <= a * n  BY <1>2, <2>4, <3>2
    <3> QED  BY <2>1, <2>4, <2>5, <3>3
  <2>7. ~(a < q)
    <3>1. SUFFICES ASSUME a + 1 <= q PROVE FALSE  BY <2>4
    <3>2. (a + 1) * n <= q * n  BY <2>4, <3>1, Monotone
    <3>3. a * n + n <= q * n  BY <1>2, <3>2
    <3> QED  BY <2>1, <2>4, <2>5, <3>3
  <2>8. q = a  BY <2>4, <2>6, <2>7
  <2>9. s = w  BY <2>1, <2>4, <2>8
  <2> QED  BY <2>3, <2>8, <2>9 DEF q, s
<1>6. ASSUME NEW m \in Nat, m < r * n
      PROVE  m \div n \in 0 .. r - 1 /\ m % n \in 0 .. n - 1
             /\ m = (m \div n) * n + (m % n)
  BY <1>3, <1>4, <1>6
<1> QED  BY <1>5, <1>6

(* Where TruncOrder has which path.                                        *)
Row == APB + 1
First == ND + Row
Final == First + APB * Row + 1

LEMMA RoundsAre ==
    /\ TruncOrder \in Seq(Paths) /\ DOMAIN TruncOrder = 1 .. Final
    /\ \A i \in 1 .. ND : TruncOrder[i] = <<i - 1>>
    /\ \A w \in Words : TruncOrder[ND + 1 + w] = <<ND, w>>
    /\ TruncOrder[First] = <<ND>>
    /\ \A m \in 0 .. APB * Row - 1 :
           TruncOrder[First + 1 + m] =
               IF m % Row < APB THEN <<ND + 1, m \div Row, m % Row>>
               ELSE <<ND + 1, m \div Row>>
    /\ TruncOrder[Final] = <<ND + 1>>
<1> DEFINE S1 == [k \in 1 .. ND |-> <<k - 1>>]
<1>1. Row \in Nat \ {0} /\ APB * Row \in Nat
  <2>1. \A x, y \in Nat : x * y \in Nat  OBVIOUS
  <2> QED  BY <2>1, BlockMapAssumption DEF Row
<1>2. ASSUME NEW k \in Nat
      PROVE  /\ Under(<<k>>)[Row] = <<k>> /\ \A w \in Words : Under(<<k>>)[w + 1] = <<k, w>>
  <2>1. Under(<<k>>)[Row] = <<k>>  BY BlockMapAssumption DEF Under, Row
  <2>2. ASSUME NEW w \in Words PROVE Under(<<k>>)[w + 1] = <<k, w>>
    <3>1. w \in Nat /\ w + 1 \in 1 .. APB + 1 /\ w + 1 <= APB /\ (w + 1) - 1 = w
      BY BlockMapAssumption DEF Words
    <3>2. Under(<<k>>)[w + 1] = Append(<<k>>, (w + 1) - 1)  BY <3>1 DEF Under
    <3>3. Append(<<k>>, w) = <<k, w>>  BY <3>1, PathsGrow
    <3> QED  BY <3>1, <3>2, <3>3
  <2> QED  BY <2>1, <2>2
<1>3. ASSUME NEW k \in Nat, NEW a \in Words, NEW x \in 1 .. Row
      PROVE  Under(<<k, a>>)[x] = IF x <= APB THEN <<k, a, x - 1>> ELSE <<k, a>>
  <2>1. Under(<<k, a>>)[x] = IF x <= APB THEN Append(<<k, a>>, x - 1) ELSE <<k, a>>
    BY DEF Under, Row
  <2>2. a \in Nat /\ x - 1 \in Nat  BY BlockMapAssumption DEF Words, Row
  <2>3. Append(<<k, a>>, x - 1) = <<k, a, x - 1>>  BY <2>2, PathsGrow
  <2> QED  BY <2>1, <2>3
<1>4. \A m \in 0 .. APB * Row - 1 : m \div Row \in Words /\ m % Row \in 0 .. APB
  <2>1. \A m \in Nat : m < APB * Row => m \div Row \in 0 .. APB - 1 /\ m % Row \in 0 .. Row - 1
    BY <1>1, Rows, BlockMapAssumption
  <2>2. \A m \in 0 .. APB * Row - 1 : m \in Nat /\ m < APB * Row  BY <1>1
  <2>3. Row - 1 = APB  BY BlockMapAssumption DEF Row
  <2> HIDE DEF Row
  <2> QED  BY <2>1, <2>2, <2>3 DEF Words
<1>5. Under(<<ND>>) \in Seq(Paths) /\ Len(Under(<<ND>>)) = Row
  <2>1. \A x \in 1 .. Row : Under(<<ND>>)[x] \in Paths
    <3> TAKE x \in 1 .. Row
    <3>1. CASE x = Row  BY <1>2, <3>1, BlockMapAssumption DEF Paths
    <3>2. CASE x # Row
      <4>1. x - 1 \in Words /\ x = (x - 1) + 1  BY <3>2, BlockMapAssumption DEF Row, Words
      <4>2. Under(<<ND>>)[x] = <<ND, x - 1>>  BY <1>2, <4>1, BlockMapAssumption
      <4> QED  BY <4>1, <4>2 DEF Paths
    <3> QED  BY <3>1, <3>2
  <2>2. Under(<<ND>>) = [x \in 1 .. Row |-> Under(<<ND>>)[x]]  BY DEF Under, Row
  <2> HIDE DEF Row
  <2> QED  BY <1>1, <2>1, <2>2
<1>6. S1 \in Seq(Paths) /\ Len(S1) = ND /\ \A k \in 1 .. ND : S1[k] = <<k - 1>>
  BY BlockMapAssumption DEF Paths
<1>7. /\ Singles \in Seq(Paths) /\ Len(Singles) = First
      /\ \A i \in 1 .. ND : Singles[i] = <<i - 1>>
      /\ \A x \in 1 .. Row : Singles[ND + x] = Under(<<ND>>)[x]
  <2>1. Singles = S1 \o Under(<<ND>>)  BY DEF Singles
  <2>2. ND \in Nat /\ First = ND + Row  BY BlockMapAssumption DEF First
  <2> HIDE DEF S1, Row, First
  <2>3. /\ Singles \in Seq(Paths) /\ Len(Singles) = First
        /\ \A i \in 1 .. First :
               Singles[i] = IF i <= ND THEN S1[i] ELSE Under(<<ND>>)[i - ND]
    BY <1>5, <1>6, <2>1, <2>2, ConcatProperties
  <2>4. \A i \in 1 .. ND : i \in 1 .. First /\ i <= ND  BY <1>1, <2>2
  <2>5. \A x \in 1 .. Row : ND + x \in 1 .. First /\ ~(ND + x <= ND) /\ (ND + x) - ND = x
    BY <1>1, <2>2
  <2>6. \A i \in 1 .. ND : Singles[i] = <<i - 1>>  BY <1>6, <2>3, <2>4
  <2>7. \A x \in 1 .. Row : Singles[ND + x] = Under(<<ND>>)[x]
    <3> TAKE x \in 1 .. Row
    <3>1. Singles[ND + x] = Under(<<ND>>)[(ND + x) - ND]  BY <2>3, <2>5
    <3> QED  BY <2>5, <3>1
  <2> QED  BY <2>3, <2>6, <2>7
<1>8. /\ Doubles \in Seq(Paths) /\ Len(Doubles) = APB * Row
      /\ \A m \in 0 .. APB * Row - 1 :
             Doubles[m + 1] = IF m % Row < APB THEN <<ND + 1, m \div Row, m % Row>>
                              ELSE <<ND + 1, m \div Row>>
  <2> DEFINE D(j) == Under(<<ND + 1, (j - 1) \div Row>>)[1 + ((j - 1) % Row)]
             E(m) == IF m % Row < APB THEN <<ND + 1, m \div Row, m % Row>>
                     ELSE <<ND + 1, m \div Row>>
  <2>1. ASSUME NEW m \in 0 .. APB * Row - 1 PROVE D(m + 1) = E(m)
    <3>1. (m + 1) - 1 = m  OBVIOUS
    <3>2. m \div Row \in Words /\ m % Row \in 0 .. APB  BY <1>4
    <3>3. 1 + (m % Row) \in 1 .. Row /\ (1 + (m % Row)) - 1 = m % Row
      BY <3>2, BlockMapAssumption DEF Row
    <3>4. 1 + (m % Row) <= APB <=> m % Row < APB  BY <3>2, BlockMapAssumption
    <3> HIDE DEF Row
    <3> QED  BY <1>3, <3>1, <3>2, <3>3, <3>4, BlockMapAssumption
  <2>2. \A m \in 0 .. APB * Row - 1 : E(m) \in Paths
    <3> TAKE m \in 0 .. APB * Row - 1
    <3>1. m \div Row \in Words /\ m % Row \in 0 .. APB  BY <1>4
    <3>2. CASE m % Row < APB
      <4>1. m % Row \in Words  BY <3>1, <3>2, BlockMapAssumption DEF Words
      <4> QED  BY <3>1, <3>2, <4>1 DEF Paths
    <3>3. CASE ~(m % Row < APB)  BY <3>1, <3>3 DEF Paths
    <3> QED  BY <3>2, <3>3
  <2>3. Doubles = [j \in 1 .. APB * Row |-> D(j)]  BY DEF Doubles, Row
  <2> HIDE DEF Row, D, E
  <2>4. \A j \in 1 .. APB * Row : D(j) \in Paths
    <3> TAKE j \in 1 .. APB * Row
    <3>1. j - 1 \in 0 .. APB * Row - 1 /\ (j - 1) + 1 = j  BY <1>1
    <3>2. D((j - 1) + 1) = E(j - 1)  BY <2>1, <3>1
    <3> QED  BY <2>2, <3>1, <3>2
  <2>5. \A m \in 0 .. APB * Row - 1 : m + 1 \in 1 .. APB * Row  BY <1>1
  <2>6. \A m \in 0 .. APB * Row - 1 : Doubles[m + 1] = E(m)  BY <2>1, <2>3, <2>5
  <2>7. Doubles \in Seq(Paths) /\ Len(Doubles) = APB * Row  BY <1>1, <2>3, <2>4
  <2> QED  BY <2>6, <2>7 DEF E
<1>9. TruncOrder = Append(Singles \o Doubles, <<ND + 1>>)  BY DEF TruncOrder
<1>10. <<ND + 1>> \in Paths  BY BlockMapAssumption DEF Paths
<1>11. First \in Nat /\ Final = First + APB * Row + 1  BY <1>1, BlockMapAssumption DEF First, Final
<1> DEFINE T == Singles \o Doubles
<1>12. /\ T \in Seq(Paths) /\ Len(T) = First + APB * Row
       /\ \A i \in 1 .. First : T[i] = Singles[i]
       /\ \A m \in 0 .. APB * Row - 1 : T[First + 1 + m] = Doubles[m + 1]
  <2> HIDE DEF Row, First
  <2>1. /\ T \in Seq(Paths) /\ Len(T) = First + APB * Row
        /\ \A i \in 1 .. First + APB * Row :
               T[i] = IF i <= First THEN Singles[i] ELSE Doubles[i - First]
    <3>1. Singles \in Seq(Paths) /\ Len(Singles) = First  BY <1>7
    <3>2. Doubles \in Seq(Paths) /\ Len(Doubles) = APB * Row  BY <1>8
    <3>3. /\ T \in Seq(Paths) /\ Len(T) = Len(Singles) + Len(Doubles)
          /\ \A i \in 1 .. Len(Singles) + Len(Doubles) :
                 T[i] = IF i <= Len(Singles) THEN Singles[i] ELSE Doubles[i - Len(Singles)]
      BY <3>1, <3>2, ConcatProperties
    <3> HIDE DEF T
    <3> QED  BY <3>1, <3>2, <3>3
  <2> HIDE DEF T
  <2>2. \A i \in 1 .. First : T[i] = Singles[i]
    <3>1. \A i \in 1 .. First : i \in 1 .. First + APB * Row  BY <1>1, <1>11
    <3> QED  BY <2>1, <3>1
  <2>3. \A m \in 0 .. APB * Row - 1 : T[First + 1 + m] = Doubles[m + 1]
    <3> TAKE m \in 0 .. APB * Row - 1
    <3>1. /\ First + 1 + m \in 1 .. First + APB * Row /\ ~(First + 1 + m <= First)
          /\ (First + 1 + m) - First = m + 1
      BY <1>1, <1>11
    <3>2. T[First + 1 + m] = Doubles[(First + 1 + m) - First]  BY <2>1, <3>1
    <3> QED  BY <3>1, <3>2
  <2> QED  BY <2>1, <2>2, <2>3
<1>13. /\ TruncOrder \in Seq(Paths) /\ DOMAIN TruncOrder = 1 .. Final
       /\ \A i \in 1 .. Final - 1 : TruncOrder[i] = T[i]
       /\ TruncOrder[Final] = <<ND + 1>>
  <2> HIDE DEF Row, First, Final, T
  <2>1. TruncOrder = Append(T, <<ND + 1>>)  BY <1>9 DEF T
  <2> QED  BY <1>1, <1>10, <1>11, <1>12, <2>1
<1>14. \A i \in 1 .. ND : TruncOrder[i] = <<i - 1>>
  <2>1. \A i \in 1 .. ND : i \in 1 .. First /\ i \in 1 .. Final - 1
    <3> HIDE DEF Row
    <3> QED  BY <1>1, <1>11, BlockMapAssumption DEF First
  <2> HIDE DEF Row, First, Final, T
  <2> QED  BY <1>7, <1>12, <1>13, <2>1
<1>15. \A x \in 1 .. Row : TruncOrder[ND + x] = Under(<<ND>>)[x]
  <2>1. \A x \in 1 .. Row : ND + x \in 1 .. First /\ ND + x \in 1 .. Final - 1
    <3> HIDE DEF Row
    <3> QED  BY <1>1, <1>11, BlockMapAssumption DEF First
  <2> HIDE DEF Row, First, Final, T
  <2> QED  BY <1>7, <1>12, <1>13, <2>1
<1>16. \A w \in Words : TruncOrder[ND + 1 + w] = <<ND, w>>
  <2> TAKE w \in Words
  <2>1. w + 1 \in 1 .. Row /\ ND + 1 + w = ND + (w + 1)  BY BlockMapAssumption DEF Row, Words
  <2> HIDE DEF Row
  <2> QED  BY <1>2, <1>15, <2>1, BlockMapAssumption
<1>17. TruncOrder[First] = <<ND>>
  <2>1. Row \in 1 .. Row  BY <1>1
  <2> HIDE DEF Row
  <2> QED  BY <1>2, <1>15, <2>1, BlockMapAssumption DEF First
<1>18. \A m \in 0 .. APB * Row - 1 : TruncOrder[First + 1 + m] = Doubles[m + 1]
  <2>1. \A m \in 0 .. APB * Row - 1 : First + 1 + m \in 1 .. Final - 1
    <3> HIDE DEF Row, First
    <3> QED  BY <1>1, <1>11
  <2> HIDE DEF Row, First, Final, T
  <2> QED  BY <1>12, <1>13, <2>1
<1> HIDE DEF Row, First, Final
<1> QED  BY <1>8, <1>13, <1>14, <1>16, <1>17, <1>18

Round(p) ==
    IF Len(p) = 1 THEN (IF p[1] < ND THEN p[1] + 1 ELSE IF p[1] = ND THEN First ELSE Final)
    ELSE IF Len(p) = 2 THEN (IF p[1] = ND THEN ND + 1 + p[2]
                             ELSE First + 1 + (p[2] * Row + APB))
         ELSE First + 1 + (p[2] * Row + p[3])

LEMMA EachPathOnce ==
    /\ \A i, j \in 1 .. Final : TruncOrder[i] = TruncOrder[j] => i = j
    /\ \A p \in Paths : \E i \in 1 .. Final : TruncOrder[i] = p
<1>1. Row \in Nat \ {0} /\ APB * Row \in Nat /\ Row - 1 = APB
  <2>1. \A x, y \in Nat : x * y \in Nat  OBVIOUS
  <2> QED  BY <2>1, BlockMapAssumption DEF Row
<1>2. First = ND + Row /\ Final = First + APB * Row + 1  BY DEF First, Final
<1>3. ASSUME NEW m \in 0 .. APB * Row - 1
      PROVE  m \div Row \in Words /\ m % Row \in 0 .. APB /\ m = (m \div Row) * Row + (m % Row)
  <2>1. m \in Nat /\ m < APB * Row  BY <1>1
  <2>2. m \div Row \in 0 .. APB - 1 /\ m % Row \in 0 .. Row - 1
        /\ m = (m \div Row) * Row + (m % Row)
    BY <1>1, <2>1, Rows, BlockMapAssumption
  <2> QED  BY <1>1, <2>2 DEF Words
<1>4. ASSUME NEW a \in Words, NEW w \in 0 .. APB
      PROVE  /\ a * Row + w \in 0 .. APB * Row - 1
             /\ (a * Row + w) \div Row = a /\ (a * Row + w) % Row = w
  <2>1. a \in 0 .. APB - 1 /\ w \in 0 .. Row - 1  BY <1>1 DEF Words
  <2>2. /\ a * Row + w \in Nat /\ a * Row + w < APB * Row
        /\ (a * Row + w) \div Row = a /\ (a * Row + w) % Row = w
    BY <1>1, <2>1, Rows, BlockMapAssumption
  <2> DEFINE m == a * Row + w
  <2>3. m \in Nat /\ m < APB * Row  BY <2>2
  <2> HIDE DEF m
  <2>4. m \in 0 .. APB * Row - 1  BY <1>1, <2>3
  <2> QED  BY <2>2, <2>4 DEF m
<1>5. ASSUME NEW i \in 1 .. Final PROVE Round(TruncOrder[i]) = i
  <2>1. CASE i \in 1 .. ND
    <3>1. TruncOrder[i] = <<i - 1>>  BY <2>1, RoundsAre
    <3>2. i - 1 < ND /\ (i - 1) + 1 = i  BY <2>1, BlockMapAssumption
    <3> QED  BY <3>1, <3>2 DEF Round
  <2>2. CASE i \in ND + 1 .. ND + APB
    <3>1. i - ND - 1 \in Words /\ ND + 1 + (i - ND - 1) = i  BY <2>2, BlockMapAssumption DEF Words
    <3>2. TruncOrder[i] = <<ND, i - ND - 1>>  BY <3>1, RoundsAre
    <3> QED  BY <3>1, <3>2 DEF Round
  <2>3. CASE i = First
    <3>1. TruncOrder[i] = <<ND>>  BY <2>3, RoundsAre
    <3> QED  BY <2>3, <3>1, BlockMapAssumption DEF Round
  <2>4. CASE i \in First + 1 .. Final - 1
    <3> DEFINE m == i - First - 1
    <3>1. m \in 0 .. APB * Row - 1 /\ First + 1 + m = i  BY <1>1, <1>2, <2>4, BlockMapAssumption
    <3> DEFINE a == m \div Row  w == m % Row
    <3>2. a \in Words /\ w \in 0 .. APB /\ m = a * Row + w  BY <1>3, <3>1
    <3>3. TruncOrder[i] = IF w < APB THEN <<ND + 1, a, w>> ELSE <<ND + 1, a>>
      BY <3>1, RoundsAre
    <3> HIDE DEF m, a, w
    <3>4. CASE w < APB
      <4>1. Round(<<ND + 1, a, w>>) = First + 1 + (a * Row + w)  BY DEF Round
      <4> QED  BY <3>1, <3>2, <3>3, <3>4, <4>1
    <3>5. CASE ~(w < APB)
      <4>1. w = APB  BY <3>2, <3>5, BlockMapAssumption
      <4>2. Round(<<ND + 1, a>>) = First + 1 + (a * Row + APB)  BY BlockMapAssumption DEF Round
      <4> QED  BY <3>1, <3>2, <3>3, <3>5, <4>1, <4>2
    <3> QED  BY <3>4, <3>5
  <2>5. CASE i = Final
    <3>1. TruncOrder[i] = <<ND + 1>>  BY <2>5, RoundsAre
    <3> QED  BY <2>5, <3>1, BlockMapAssumption DEF Round
  <2>6. First = ND + APB + 1  BY BlockMapAssumption DEF First, Row
  <2> QED  BY <1>1, <1>2, <2>1, <2>2, <2>3, <2>4, <2>5, <2>6, BlockMapAssumption
<1>6. ASSUME NEW p \in Paths PROVE \E i \in 1 .. Final : TruncOrder[i] = p
  <2>1. ASSUME NEW k \in 0 .. ND + 1, p = <<k>> PROVE \E i \in 1 .. Final : TruncOrder[i] = p
    <3>1. CASE k < ND
      <4>1. k + 1 \in 1 .. ND /\ (k + 1) - 1 = k  BY <3>1, BlockMapAssumption
      <4>2. k + 1 \in 1 .. Final  BY <1>1, <1>2, <4>1, BlockMapAssumption
      <4>3. TruncOrder[k + 1] = <<(k + 1) - 1>>  BY <4>1, RoundsAre
      <4> QED  BY <2>1, <4>1, <4>2, <4>3
    <3>2. CASE k = ND
      <4>1. First \in 1 .. Final  BY <1>1, <1>2, BlockMapAssumption
      <4>2. TruncOrder[First] = <<ND>>  BY RoundsAre
      <4> QED  BY <2>1, <3>2, <4>1, <4>2
    <3>3. CASE k = ND + 1
      <4>1. Final \in 1 .. Final  BY <1>1, <1>2, BlockMapAssumption
      <4>2. TruncOrder[Final] = <<ND + 1>>  BY RoundsAre
      <4> QED  BY <2>1, <3>3, <4>1, <4>2
    <3> QED  BY <3>1, <3>2, <3>3, BlockMapAssumption
  <2>2. ASSUME NEW a \in Words, NEW w \in 0 .. APB,
               p = IF w < APB THEN <<ND + 1, a, w>> ELSE <<ND + 1, a>>
        PROVE  \E i \in 1 .. Final : TruncOrder[i] = p
    <3> DEFINE m == a * Row + w
    <3>1. m \in 0 .. APB * Row - 1 /\ m \div Row = a /\ m % Row = w  BY <1>4
    <3> HIDE DEF m
    <3>2. TruncOrder[First + 1 + m] = p  BY <2>2, <3>1, RoundsAre
    <3>3. First + 1 + m \in 1 .. Final  BY <1>1, <1>2, <3>1, BlockMapAssumption
    <3> QED  BY <3>2, <3>3
  <2>3. ASSUME NEW w \in Words, p = <<ND, w>> PROVE \E i \in 1 .. Final : TruncOrder[i] = p
    <3>1. TruncOrder[ND + 1 + w] = <<ND, w>>  BY RoundsAre
    <3>2. ND + 1 + w \in 1 .. Final
      <4> HIDE DEF Row
      <4>1. w \in Nat /\ w < Row  BY BlockMapAssumption DEF Words, Row
      <4> QED  BY <1>1, <1>2, <4>1, BlockMapAssumption
    <3> QED  BY <2>3, <3>1, <3>2
  <2>4. ASSUME NEW a \in Words, p = <<ND + 1, a>> PROVE \E i \in 1 .. Final : TruncOrder[i] = p
    <3>1. APB \in 0 .. APB /\ ~(APB < APB)  BY BlockMapAssumption
    <3> QED  BY <2>2, <2>4, <3>1
  <2>5. ASSUME NEW a \in Words, NEW w \in Words, p = <<ND + 1, a, w>>
        PROVE  \E i \in 1 .. Final : TruncOrder[i] = p
    <3>1. w \in 0 .. APB /\ w < APB  BY BlockMapAssumption DEF Words
    <3> QED  BY <2>2, <2>5, <3>1
  <2> QED  BY <2>1, <2>3, <2>4, <2>5, PathsAreOfThreeKinds
<1>7. \A i, j \in 1 .. Final : TruncOrder[i] = TruncOrder[j] => i = j
  <2> TAKE i, j \in 1 .. Final
  <2>1. Round(TruncOrder[i]) = i /\ Round(TruncOrder[j]) = j  BY <1>5
  <2> QED  BY <2>1
<1> QED  BY <1>6, <1>7

-----------------------------------------------------------------------------
(* imapblock: the first part of the path that leads nowhere.               *)
LEMMA PartsOfPaths ==
    /\ \A k \in Nat : SubSeq(<<k>>, 1, 1) = <<k>>
    /\ \A k, w \in Nat : SubSeq(<<k, w>>, 1, 1) = <<k>> /\ SubSeq(<<k, w>>, 1, 2) = <<k, w>>
    /\ \A k, w, v \in Nat :
           /\ SubSeq(<<k, w, v>>, 1, 1) = <<k>>
           /\ SubSeq(<<k, w, v>>, 1, 2) = <<k, w>>
           /\ SubSeq(<<k, w, v>>, 1, 3) = <<k, w, v>>
<1>1. ASSUME NEW s \in Seq(Nat), NEW d \in 1 .. Len(s)
      PROVE  /\ SubSeq(s, 1, d) \in Seq(Nat) /\ Len(SubSeq(s, 1, d)) = d
             /\ \A i \in 1 .. d : SubSeq(s, 1, d)[i] = s[i]
  OBVIOUS
<1>2. ASSUME NEW s \in Seq(Nat), NEW k \in Nat, Len(s) >= 1, s[1] = k
      PROVE  SubSeq(s, 1, 1) = <<k>>
  <2> DEFINE t == SubSeq(s, 1, 1)
  <2>1. t \in Seq(Nat) /\ Len(t) = 1 /\ t[1] = k  BY <1>1, <1>2
  <2> HIDE DEF t
  <2>2. t = <<k>>  BY <2>1, OneIs
  <2> QED  BY <2>2 DEF t
<1>3. ASSUME NEW s \in Seq(Nat), NEW k \in Nat, NEW w \in Nat,
             Len(s) >= 2, s[1] = k, s[2] = w
      PROVE  SubSeq(s, 1, 2) = <<k, w>>
  <2> DEFINE t == SubSeq(s, 1, 2)
  <2>1. t \in Seq(Nat) /\ Len(t) = 2 /\ t[1] = k /\ t[2] = w  BY <1>1, <1>3
  <2> HIDE DEF t
  <2>2. t = <<k, w>>  BY <2>1, TwoAre
  <2> QED  BY <2>2 DEF t
<1>4. ASSUME NEW s \in Seq(Nat), NEW k \in Nat, NEW w \in Nat, NEW v \in Nat,
             Len(s) >= 3, s[1] = k, s[2] = w, s[3] = v
      PROVE  SubSeq(s, 1, 3) = <<k, w, v>>
  <2> DEFINE t == SubSeq(s, 1, 3)
  <2>1. t \in Seq(Nat) /\ Len(t) = 3 /\ t[1] = k /\ t[2] = w /\ t[3] = v  BY <1>1, <1>4
  <2> HIDE DEF t
  <2>2. t = <<k, w, v>>  BY <2>1, ThreeAre
  <2> QED  BY <2>2 DEF t
<1>5. ASSUME NEW k \in Nat PROVE SubSeq(<<k>>, 1, 1) = <<k>>
  <2>1. <<k>> \in Seq(Nat) /\ Len(<<k>>) >= 1 /\ <<k>>[1] = k  OBVIOUS
  <2> QED  BY <1>2, <2>1
<1>6. ASSUME NEW k \in Nat, NEW w \in Nat
      PROVE  SubSeq(<<k, w>>, 1, 1) = <<k>> /\ SubSeq(<<k, w>>, 1, 2) = <<k, w>>
  <2> DEFINE s == <<k, w>>
  <2>1. s \in Seq(Nat) /\ Len(s) >= 1 /\ Len(s) >= 2 /\ s[1] = k /\ s[2] = w  OBVIOUS
  <2> HIDE DEF s
  <2>2. SubSeq(s, 1, 1) = <<k>>  BY <1>2, <2>1
  <2>3. SubSeq(s, 1, 2) = <<k, w>>  BY <1>3, <2>1
  <2> QED  BY <2>2, <2>3 DEF s
<1>7. ASSUME NEW k \in Nat, NEW w \in Nat, NEW v \in Nat
      PROVE  /\ SubSeq(<<k, w, v>>, 1, 1) = <<k>>
             /\ SubSeq(<<k, w, v>>, 1, 2) = <<k, w>>
             /\ SubSeq(<<k, w, v>>, 1, 3) = <<k, w, v>>
  <2> DEFINE s == <<k, w, v>>
  <2>1. s \in Seq(Nat) /\ Len(s) >= 1 /\ Len(s) >= 2 /\ Len(s) >= 3
        /\ s[1] = k /\ s[2] = w /\ s[3] = v
    OBVIOUS
  <2> HIDE DEF s
  <2>2. SubSeq(s, 1, 1) = <<k>>  BY <1>2, <2>1
  <2>3. SubSeq(s, 1, 2) = <<k, w>>  BY <1>3, <2>1
  <2>4. SubSeq(s, 1, 3) = <<k, w, v>>  BY <1>4, <2>1
  <2> QED  BY <2>2, <2>3, <2>4 DEF s
<1> QED  BY <1>5, <1>6, <1>7

(* The three places where a block can be missing.                          *)
MissingRoot(k) == missing = <<k>> /\ ip.addrs[k] = 0 /\ Len(missing) = 1
MissingBelow(q, w, p) ==
    /\ missing = p /\ Len(missing) > 1 /\ Front(missing) = q /\ Last(missing) = w
    /\ Resolve(ip, q) # 0 /\ Resolve(ip, p) = 0

LEMMA MissingPart ==
    ASSUME path \in Leaves, Resolve(ip, path) = 0
    PROVE  \/ \E k \in 0 .. ND + 1 : MissingRoot(k)
           \/ \E k \in {ND, ND + 1}, w \in Words : MissingBelow(<<k>>, w, <<k, w>>)
           \/ \E u, w \in Words : MissingBelow(<<ND + 1, u>>, w, <<ND + 1, u, w>>)
<1> DEFINE C == {SubSeq(path, 1, d) : d \in 1 .. Len(path)}
           Gone(p) == Resolve(ip, p) = 0 /\ (Len(p) > 1 => Resolve(ip, Front(p)) # 0)
<1>1. missing = CHOOSE p \in C : Gone(p)  BY DEF missing
<1>2. ASSUME NEW k \in Nat PROVE Resolve(ip, <<k>>) = ip.addrs[k]
  BY DEF Resolve
<1>3. ASSUME NEW k \in Nat, NEW w \in Nat
      PROVE  Len(<<k, w>>) = 2 /\ Front(<<k, w>>) = <<k>> /\ Last(<<k, w>>) = w
  <2>1. SubSeq(<<k, w>>, 1, 1) = <<k>>  BY PartsOfPaths
  <2> QED  BY <2>1 DEF Front, Last
<1>4. ASSUME NEW k \in Nat, NEW w \in Nat, NEW v \in Nat
      PROVE  Len(<<k, w, v>>) = 3 /\ Front(<<k, w, v>>) = <<k, w>> /\ Last(<<k, w, v>>) = v
  <2>1. SubSeq(<<k, w, v>>, 1, 2) = <<k, w>>  BY PartsOfPaths
  <2> QED  BY <2>1 DEF Front, Last
<1>5. Words \subseteq Nat  BY BlockMapAssumption DEF Words
<1>6. CASE \E k \in 0 .. ND - 1 : path = <<k>>
  <2> PICK k \in 0 .. ND - 1 : path = <<k>>  BY <1>6
  <2>1. C = {<<k>>}
    <3>1. k \in Nat /\ Len(<<k>>) = 1  BY BlockMapAssumption
    <3>2. SubSeq(<<k>>, 1, 1) = <<k>>  BY <3>1, PartsOfPaths
    <3> QED  BY <3>1, <3>2
  <2>2. Gone(<<k>>)  OBVIOUS
  <2> HIDE DEF C, Gone
  <2>3. missing = <<k>>  BY <1>1, <2>1, <2>2
  <2>4. ip.addrs[k] = 0  BY <1>2, <2>2, BlockMapAssumption DEF Gone
  <2> QED  BY <2>3, <2>4, BlockMapAssumption DEF MissingRoot
<1>7. CASE \E w \in Words : path = <<ND, w>>
  <2> PICK w \in Words : path = <<ND, w>>  BY <1>7
  <2>1. ND \in Nat /\ w \in Nat /\ ND \in 0 .. ND + 1  BY <1>5, BlockMapAssumption
  <2>2. C = {<<ND>>, <<ND, w>>}
    <3>1. SubSeq(<<ND, w>>, 1, 1) = <<ND>> /\ SubSeq(<<ND, w>>, 1, 2) = <<ND, w>>
      BY <2>1, PartsOfPaths
    <3>2. Len(path) = 2 /\ 1 .. 2 = {1, 2}  OBVIOUS
    <3> QED  BY <3>1, <3>2
  <2>3. Gone(<<ND>>) <=> Resolve(ip, <<ND>>) = 0  OBVIOUS
  <2>4. Gone(<<ND, w>>) <=> Resolve(ip, <<ND>>) # 0
    <3>1. Len(<<ND, w>>) = 2 /\ Front(<<ND, w>>) = <<ND>>  BY <1>3, <2>1
    <3> QED  BY <3>1
  <2> HIDE DEF C, Gone
  <2>5. missing \in C /\ Gone(missing)  BY <1>1, <2>2, <2>3, <2>4
  <2>6. CASE missing = <<ND>>
    <3>1. ip.addrs[ND] = 0  BY <1>2, <2>1, <2>3, <2>5, <2>6
    <3>2. Len(missing) = 1  BY <2>6
    <3> QED  BY <2>1, <2>6, <3>1, <3>2 DEF MissingRoot
  <2>7. CASE missing = <<ND, w>>
    <3>1. MissingBelow(<<ND>>, w, <<ND, w>>)
      BY <1>3, <2>1, <2>4, <2>5, <2>7 DEF MissingBelow
    <3> QED  BY <3>1
  <2> QED  BY <2>2, <2>5, <2>6, <2>7
<1>8. CASE \E u, w \in Words : path = <<ND + 1, u, w>>
  <2> PICK u \in Words, w \in Words : path = <<ND + 1, u, w>>  BY <1>8
  <2> DEFINE k == ND + 1
  <2>1. k \in Nat /\ u \in Nat /\ w \in Nat /\ k \in 0 .. ND + 1  BY <1>5, BlockMapAssumption
  <2>2. C = {<<k>>, <<k, u>>, <<k, u, w>>}
    <3>1. /\ SubSeq(<<k, u, w>>, 1, 1) = <<k>> /\ SubSeq(<<k, u, w>>, 1, 2) = <<k, u>>
          /\ SubSeq(<<k, u, w>>, 1, 3) = <<k, u, w>>
      BY <2>1, PartsOfPaths
    <3>2. Len(path) = 3 /\ 1 .. 3 = {1, 2, 3}  OBVIOUS
    <3> QED  BY <3>1, <3>2
  <2>3. Gone(<<k>>) <=> Resolve(ip, <<k>>) = 0  OBVIOUS
  <2>4. Gone(<<k, u>>) <=> Resolve(ip, <<k, u>>) = 0 /\ Resolve(ip, <<k>>) # 0
    <3>1. Len(<<k, u>>) = 2 /\ Front(<<k, u>>) = <<k>>  BY <1>3, <2>1
    <3> QED  BY <3>1
  <2>5. Gone(<<k, u, w>>) <=> Resolve(ip, <<k, u>>) # 0
    <3>1. Len(<<k, u, w>>) = 3 /\ Front(<<k, u, w>>) = <<k, u>>  BY <1>4, <2>1
    <3> QED  BY <3>1
  <2> HIDE DEF C, Gone
  <2>6. missing \in C /\ Gone(missing)  BY <1>1, <2>2, <2>3, <2>4, <2>5
  <2>7. CASE missing = <<k>>
    <3>1. ip.addrs[k] = 0  BY <1>2, <2>1, <2>3, <2>6, <2>7
    <3>2. Len(missing) = 1  BY <2>7
    <3> QED  BY <2>1, <2>7, <3>1, <3>2 DEF MissingRoot
  <2>8. CASE missing = <<k, u>>
    <3>1. MissingBelow(<<k>>, u, <<k, u>>)
      BY <1>3, <2>1, <2>4, <2>6, <2>8 DEF MissingBelow
    <3> QED  BY <3>1
  <2>9. CASE missing = <<k, u, w>>
    <3>1. MissingBelow(<<k, u>>, w, <<k, u, w>>)
      BY <1>4, <2>1, <2>5, <2>6, <2>9 DEF MissingBelow
    <3> QED  BY <3>1
  <2> QED  BY <2>2, <2>6, <2>7, <2>8, <2>9
<1> QED  BY <1>6, <1>7, <1>8, LeavesAreOfThreeKinds

-----------------------------------------------------------------------------
(* Plans.  Those of w, i, d and cat are put together from reads, writes of *)
(* blocks and writes of the inode.                                         *)
WriteKinds == MapKinds \cup {"iupdate"}
Writing(s) == s \in Seq(Jobs) /\ (\A i \in DOMAIN s : s[i].k \in WriteKinds) /\ Closed(s)
Puts(s) == {s[i].n : i \in {j \in DOMAIN s : s[j].k = "put"}}

LEMMA JobFields ==
    ASSUME NEW j \in Jobs
    PROVE  /\ j.k \in WriteKinds \cup FreeKinds \cup {"enter", "unlink"}
           /\ j.k \in MapKinds => j.n \in 0 .. MAXFILEB - 1
           /\ j.k = "free" => j.n \in Paths
           /\ j.k = "iupdate" => j.n \in 0 .. MaxSize /\ j.m \in 0 .. MAXFILEB
BY DEF Jobs, WriteKinds, MapKinds, FreeKinds

LEMMA Kinds ==
    ASSUME NEW n, NEW m, NEW k
    PROVE  /\ Job(k, n, m).k = k /\ Job(k, n, m).n = n /\ Job(k, n, m).m = m
           /\ k \in MapKinds /\ n \in 0 .. MAXFILEB - 1 => Job(k, n, 0) \in Jobs
           /\ n \in Paths => Job("free", n, 0) \in Jobs
           /\ n \in 0 .. MaxSize /\ m \in 0 .. MAXFILEB => Job("iupdate", n, m) \in Jobs
           /\ \A e \in {"iclear", "enter", "unlink"} : Job(e, 0, 0) \in Jobs
BY DEF Job, Jobs

LEMMA Joined ==
    ASSUME NEW s \in Seq(Jobs), NEW t \in Seq(Jobs)
    PROVE  /\ s \o t \in Seq(Jobs) /\ DOMAIN (s \o t) = 1 .. Len(s) + Len(t)
           /\ \A i \in DOMAIN s : i \in DOMAIN (s \o t) /\ (s \o t)[i] = s[i]
           /\ \A j \in DOMAIN t :
                  /\ Len(s) + j \in DOMAIN (s \o t) /\ (s \o t)[Len(s) + j] = t[j]
           /\ \A i \in DOMAIN (s \o t) :
                  i \in DOMAIN s \/ \E j \in DOMAIN t : i = Len(s) + j
           /\ \A i \in DOMAIN s, j \in DOMAIN t : i < Len(s) + j
           /\ \A i, j \in DOMAIN t : i < j <=> Len(s) + i < Len(s) + j
           /\ DOMAIN s = 1 .. Len(s) /\ DOMAIN t = 1 .. Len(t) /\ Len(s) \in Nat /\ Len(t) \in Nat
<1>1. Len(s) \in Nat /\ Len(t) \in Nat /\ DOMAIN s = 1 .. Len(s) /\ DOMAIN t = 1 .. Len(t)
  OBVIOUS
<1>2. /\ s \o t \in Seq(Jobs) /\ Len(s \o t) = Len(s) + Len(t)
      /\ \A i \in 1 .. Len(s) + Len(t) :
             (s \o t)[i] = IF i <= Len(s) THEN s[i] ELSE t[i - Len(s)]
  BY ConcatProperties
<1>3. DOMAIN (s \o t) = 1 .. Len(s) + Len(t)  BY <1>2
<1> DEFINE u == s \o t  a == Len(s)  b == Len(t)
<1>4. /\ a \in Nat /\ b \in Nat /\ DOMAIN s = 1 .. a /\ DOMAIN t = 1 .. b /\ DOMAIN u = 1 .. a + b
      /\ \A i \in 1 .. a + b : u[i] = IF i <= a THEN s[i] ELSE t[i - a]
  BY <1>1, <1>2, <1>3
<1> HIDE DEF u, a, b
<1>5. \A i \in DOMAIN s : i \in DOMAIN u /\ u[i] = s[i]  BY <1>4
<1>6. \A j \in DOMAIN t : a + j \in DOMAIN u /\ u[a + j] = t[j]
  <2> TAKE j \in DOMAIN t
  <2>1. a + j \in 1 .. a + b /\ ~(a + j <= a) /\ (a + j) - a = j  BY <1>4
  <2>2. u[a + j] = t[(a + j) - a]  BY <1>4, <2>1
  <2> QED  BY <1>4, <2>1, <2>2
<1>7. ASSUME NEW i \in DOMAIN u PROVE i \in DOMAIN s \/ \E j \in DOMAIN t : i = a + j
  <2>1. CASE i <= a  BY <1>4, <2>1
  <2>2. CASE ~(i <= a)
    <3>1. i - a \in DOMAIN t /\ i = a + (i - a)  BY <1>4, <2>2
    <3> QED  BY <3>1
  <2> QED  BY <2>1, <2>2
<1>8. /\ \A i \in DOMAIN s, j \in DOMAIN t : i < a + j
      /\ \A i, j \in DOMAIN t : i < j <=> a + i < a + j
  BY <1>4
<1> QED  BY <1>1, <1>2, <1>3, <1>5, <1>6, <1>7, <1>8 DEF u, a, b

LEMMA WritingJoins ==
    ASSUME NEW s, NEW t, Writing(s), Writing(t)
    PROVE  Writing(s \o t)
<1> DEFINE u == s \o t
<1>1. s \in Seq(Jobs) /\ t \in Seq(Jobs)  BY DEF Writing
<1>2. u \in Seq(Jobs)  BY <1>1, Joined
<1>3. ASSUME NEW i \in DOMAIN u
      PROVE  /\ u[i].k \in WriteKinds
             /\ u[i].k \in {"put", "recycle"} =>
                    \E j \in DOMAIN u : i < j /\ u[j].k = "iupdate"
  <2>1. CASE i \in DOMAIN s
    <3>1. u[i] = s[i]  BY <1>1, <2>1, Joined
    <3>2. s[i].k \in {"put", "recycle"} => \E j \in DOMAIN s : i < j /\ s[j].k = "iupdate"
      BY <2>1 DEF Writing, Closed
    <3>3. \A j \in DOMAIN s : j \in DOMAIN u /\ u[j] = s[j]  BY <1>1, Joined
    <3> HIDE DEF u
    <3> QED  BY <2>1, <3>1, <3>2, <3>3 DEF Writing
  <2>2. CASE \E j \in DOMAIN t : i = Len(s) + j
    <3> PICK j \in DOMAIN t : i = Len(s) + j  BY <2>2
    <3>1. u[i] = t[j]  BY <1>1, Joined
    <3>2. t[j].k \in {"put", "recycle"} => \E x \in DOMAIN t : j < x /\ t[x].k = "iupdate"
      BY DEF Writing, Closed
    <3>3. \A x \in DOMAIN t : /\ Len(s) + x \in DOMAIN u /\ u[Len(s) + x] = t[x]
                              /\ j < x => i < Len(s) + x
      BY <1>1, Joined
    <3> HIDE DEF u
    <3> QED  BY <3>1, <3>2, <3>3 DEF Writing
  <2> QED  BY <1>1, <2>1, <2>2, Joined
<1> QED  BY <1>2, <1>3 DEF Writing, Closed

LEMMA CoveredJoins ==
    ASSUME NEW S, NEW s \in Seq(Jobs), NEW t \in Seq(Jobs),
           Covered(S, s), Covered(S \cup Puts(s), t)
    PROVE  /\ Covered(S, s \o t)
           /\ Puts(s) \cup Puts(t) \subseteq Puts(s \o t)
<1> DEFINE u == s \o t
<1>1. /\ \A i \in DOMAIN s : i \in DOMAIN u /\ u[i] = s[i]
      /\ \A j \in DOMAIN t : Len(s) + j \in DOMAIN u /\ u[Len(s) + j] = t[j]
      /\ \A i \in DOMAIN u : i \in DOMAIN s \/ \E j \in DOMAIN t : i = Len(s) + j
      /\ \A i \in DOMAIN s, j \in DOMAIN t : i < Len(s) + j
      /\ \A i, j \in DOMAIN t : i < j <=> Len(s) + i < Len(s) + j
  BY Joined
<1> HIDE DEF u
<1>2. ASSUME NEW i \in DOMAIN u, NEW k \in Needs(u[i]) PROVE k \in S \/ PutBefore(u, i, k)
  <2>1. CASE i \in DOMAIN s
    <3>1. k \in S \/ PutBefore(s, i, k)  BY <1>1, <2>1 DEF Covered
    <3> QED  BY <1>1, <3>1 DEF PutBefore
  <2>2. CASE \E j \in DOMAIN t : i = Len(s) + j
    <3> PICK j \in DOMAIN t : i = Len(s) + j  BY <2>2
    <3>1. k \in Needs(t[j])  BY <1>1
    <3>2. k \in S \/ k \in Puts(s) \/ PutBefore(t, j, k)  BY <3>1 DEF Covered
    <3>3. k \in Puts(s) => PutBefore(u, i, k)  BY <1>1 DEF Puts, PutBefore
    <3>4. PutBefore(t, j, k) => PutBefore(u, i, k)
      <4>1. SUFFICES ASSUME NEW x \in DOMAIN t, x < j, t[x].k = "put", t[x].n = k
                     PROVE  PutBefore(u, i, k)
        BY DEF PutBefore
      <4>2. Len(s) + x \in DOMAIN u /\ Len(s) + x < i /\ u[Len(s) + x] = t[x]  BY <1>1, <4>1
      <4> QED  BY <4>1, <4>2 DEF PutBefore
    <3> QED  BY <3>2, <3>3, <3>4
  <2> QED  BY <1>1, <2>1, <2>2
<1>3. Puts(s) \cup Puts(t) \subseteq Puts(u)
  <2>1. \A j \in DOMAIN t : t[j].k = "put" =>
            \E i \in DOMAIN u : u[i].k = "put" /\ u[i].n = t[j].n
    BY <1>1
  <2> QED  BY <1>1, <2>1 DEF Puts
<1> QED  BY <1>2, <1>3 DEF Covered, u

(* Bytes and the blocks they are in.                                       *)
LEMMA InBlock ==
    ASSUME NEW x \in Nat, NEW m \in Nat
    PROVE  x \div B \in Nat /\ (x < m * B <=> x \div B < m)
<1>1. \A y, z \in Nat : y * z \in Nat  OBVIOUS
<1>2. x \div B \in Nat /\ x % B \in 0 .. B - 1 /\ x = (x \div B) * B + (x % B)
  BY BlockMapAssumption
<1>3. x < m * B => x \div B < m
  <2>1. x < m * B => x \div B \in 0 .. m - 1  BY Rows, BlockMapAssumption
  <2> QED  BY <2>1
<1>4. ASSUME x \div B < m PROVE x < m * B
  <2> DEFINE q == x \div B  r == x % B
  <2>1. q \in Nat /\ r \in 0 .. B - 1 /\ x = q * B + r /\ q + 1 <= m  BY <1>2, <1>4
  <2> HIDE DEF q, r
  <2>2. (q + 1) * B <= m * B  BY <2>1, Monotone, BlockMapAssumption
  <2>3. (q + 1) * B = q * B + B /\ q * B \in Nat /\ m * B \in Nat
    BY <1>1, <2>1, BlockMapAssumption
  <2> QED  BY <2>1, <2>2, <2>3, BlockMapAssumption
<1> QED  BY <1>2, <1>3, <1>4

LEMMA BlocksInOrder ==
    ASSUME NEW x \in Nat, NEW y \in Nat, x <= y
    PROVE  x \div B <= y \div B
<1>1. y \div B \in Nat /\ (y \div B) + 1 \in Nat  BY InBlock
<1>2. y < ((y \div B) + 1) * B  BY <1>1, InBlock
<1> DEFINE m == (y \div B) + 1
<1>3. m \in Nat /\ m * B \in Nat
  <2>1. \A a, b \in Nat : a * b \in Nat  OBVIOUS
  <2> QED  BY <1>1, <2>1, BlockMapAssumption
<1>4. x < m * B
  <2> HIDE DEF m
  <2> QED  BY <1>2, <1>3 DEF m
<1>5. x \div B < m  BY <1>3, <1>4, InBlock
<1>6. x \div B \in Nat  BY <1>1, InBlock
<1> QED  BY <1>1, <1>5, <1>6

Numbers(s) == {s[j].n : j \in DOMAIN s}
LEMMA TouchPlan ==
    ASSUME NEW k \in MapKinds, NEW off \in Nat, NEW n \in Nat,
           off + n <= MAXFILEB * B
    PROVE  /\ Touch(k, off, n) \in Seq(Jobs)
           /\ \A j \in DOMAIN Touch(k, off, n) :
                  /\ Touch(k, off, n)[j].k = k
                  /\ n # 0 /\ Touch(k, off, n)[j].n \in (off \div B) .. ((off + n - 1) \div B)
           /\ n # 0 => Numbers(Touch(k, off, n)) = (off \div B) .. ((off + n - 1) \div B)
<1>1. CASE n = 0
  <2>1. Touch(k, off, n) = <<>>  BY <1>1 DEF Touch
  <2>2. <<>> \in Seq(Jobs) /\ DOMAIN <<>> = {}  OBVIOUS
  <2> QED  BY <1>1, <2>1, <2>2
<1>2. CASE n # 0
  <2> DEFINE a == off \div B  z == (off + n - 1) \div B  T == Touch(k, off, n)
  <2>1. off + n - 1 \in Nat /\ off <= off + n - 1  BY <1>2
  <2>2. a \in Nat /\ z \in Nat /\ a <= z  BY <2>1, InBlock, BlocksInOrder
  <2>3. z < MAXFILEB
    <3>1. MAXFILEB \in Nat /\ MAXFILEB * B \in Nat  BY SizesAreNatural
    <3>2. off + n - 1 < MAXFILEB * B  BY <2>1, <3>1
    <3> QED  BY <2>1, <3>1, <3>2, InBlock
  <2>4. T = [j \in 1 .. z - a + 1 |-> Job(k, a + j - 1, 0)]
    <3>1. Touch(k, off, n) = [j \in 1 .. z - a + 1 |-> Job(k, off \div B + j - 1, 0)]
      BY <1>2 DEF Touch
    <3> QED  BY <3>1
  <2> HIDE DEF a, z, T
  <2>5. \A j \in 1 .. z - a + 1 : a + j - 1 \in a .. z /\ a + j - 1 \in 0 .. MAXFILEB - 1
    BY <2>2, <2>3, SizesAreNatural
  <2>6. \A j \in 1 .. z - a + 1 :
            Job(k, a + j - 1, 0) \in Jobs /\ T[j].k = k /\ T[j].n = a + j - 1
    BY <2>4, <2>5, Kinds
  <2>7. T \in Seq(Jobs) /\ DOMAIN T = 1 .. z - a + 1
    <3> DEFINE N == z - a + 1
    <3>1. N \in Nat  BY <2>2
    <3>2. T \in [1 .. N -> Jobs]  BY <2>4, <2>6
    <3> HIDE DEF N
    <3>3. T \in Seq(Jobs) /\ DOMAIN T = 1 .. N  BY <3>1, <3>2
    <3> QED  BY <3>3 DEF N
  <2>8. \A b \in a .. z : b - a + 1 \in 1 .. z - a + 1 /\ a + (b - a + 1) - 1 = b  BY <2>2
  <2>9. \A b \in a .. z : \E j \in DOMAIN T : T[j].n = b
    <3> TAKE b \in a .. z
    <3>1. T[b - a + 1].n = b /\ b - a + 1 \in DOMAIN T  BY <2>6, <2>7, <2>8
    <3> QED  BY <3>1
  <2>10. \A j \in DOMAIN T : T[j].k = k /\ T[j].n \in a .. z  BY <2>5, <2>6, <2>7
  <2>11. Numbers(T) = a .. z  BY <2>9, <2>10 DEF Numbers
  <2> QED  BY <1>2, <2>7, <2>10, <2>11 DEF a, z, T
<1> QED  BY <1>1, <1>2

LEMMA UpdatePlan ==
    ASSUME NEW i, i.size \in 0 .. MaxSize, i.blocks \in 0 .. MAXFILEB
    PROVE  /\ Writing(iupdate(i)) /\ Puts(iupdate(i)) = {}
           /\ \E j \in DOMAIN iupdate(i) : iupdate(i)[j].k = "iupdate"
           /\ \A S : 0 .. i.blocks - 1 \subseteq S => Covered(S, iupdate(i))
<1> DEFINE u == iupdate(i)
<1>1. u = <<Job("iupdate", i.size, i.blocks)>>  BY DEF iupdate
<1>2. Job("iupdate", i.size, i.blocks) \in Jobs /\ u[1].k = "iupdate" /\ u[1].m = i.blocks
  BY <1>1, Kinds
<1>3. u \in Seq(Jobs) /\ DOMAIN u = {1}
  <2>1. Len(u) = 1 /\ 1 .. 1 = {1}  BY <1>1
  <2> QED  BY <1>1, <1>2, <2>1
<1> HIDE DEF u
<1>4. Writing(u)  BY <1>2, <1>3 DEF Writing, Closed, WriteKinds
<1>5. Puts(u) = {}
  <2>1. {j \in DOMAIN u : u[j].k = "put"} = {}  BY <1>2, <1>3
  <2> QED  BY <2>1 DEF Puts
<1>6. ASSUME NEW S, 0 .. i.blocks - 1 \subseteq S PROVE Covered(S, u)
  BY <1>2, <1>3, <1>6 DEF Covered, Needs
<1>7. \E j \in DOMAIN u : u[j].k = "iupdate"  BY <1>2, <1>3
<1> QED  BY <1>4, <1>5, <1>6, <1>7 DEF u

LEMMA InodeFields ==
    ASSUME NEW i \in Inodes
    PROVE  /\ i.type \in {0, T_FILE} /\ i.links \in UShort
           /\ i.size \in 0 .. MaxSize /\ i.blocks \in 0 .. MAXFILEB
           /\ i.addrs \in [0 .. ND + 1 -> Blocks]
BY DEF Inodes

LEMMA LinksWrap == \A l \in UShort : (l + 65535) % 65536 \in UShort
<1>1. PICK n \in Nat : n = 65535  OBVIOUS
<1>2. UShort = 0 .. n  BY <1>1 DEF UShort
<1>3. \A y \in Int : 0 <= y /\ y <= n => y \in UShort  BY <1>2
<1>4. \A l \in UShort : l \in Nat  BY <1>2
<1>5. \A x \in Nat : x % 65536 \in Int /\ 0 <= x % 65536 /\ x % 65536 <= n
  BY <1>1
<1>6. ASSUME NEW l \in UShort PROVE (l + 65535) % 65536 \in UShort
  <2>1. PICK x \in Nat : x = l + 65535  BY <1>4
  <2>2. PICK y \in Int : y = x % 65536 /\ 0 <= y /\ y <= n  BY <1>5
  <2>3. y \in UShort  BY <1>3, <2>2
  <2> QED  BY <2>1, <2>2, <2>3
<1> QED  BY <1>6

LEMMA InodeResized ==
    ASSUME NEW i \in Inodes, NEW n \in 0 .. MaxSize, NEW m \in 0 .. MAXFILEB
    PROVE  LET j == [i EXCEPT !.size = n, !.blocks = m]
           IN j \in Inodes /\ j.size = n /\ j.blocks = m
              /\ j.addrs = i.addrs /\ j.type = i.type /\ j.links = i.links
BY DEF Inodes

LEMMA EmptyPlan == Writing(<<>>) /\ Puts(<<>>) = {} /\ \A S : Covered(S, <<>>)
BY DEF Writing, Closed, Puts, Covered

LEMMA BlocksThenInode ==
    ASSUME NEW s \in Seq(Jobs), \A i \in DOMAIN s : s[i].k \in MapKinds,
           NEW t, Writing(t), \E j \in DOMAIN t : t[j].k = "iupdate"
    PROVE  Writing(s \o t)
<1> DEFINE u == s \o t
<1>1. t \in Seq(Jobs)  BY DEF Writing
<1>2. /\ \A i \in DOMAIN s : i \in DOMAIN u /\ u[i] = s[i]
      /\ \A j \in DOMAIN t : Len(s) + j \in DOMAIN u /\ u[Len(s) + j] = t[j]
      /\ \A i \in DOMAIN u : i \in DOMAIN s \/ \E j \in DOMAIN t : i = Len(s) + j
      /\ \A i \in DOMAIN s, j \in DOMAIN t : i < Len(s) + j
      /\ \A i, j \in DOMAIN t : i < j <=> Len(s) + i < Len(s) + j
      /\ u \in Seq(Jobs)
  BY <1>1, Joined
<1> HIDE DEF u
<1>3. ASSUME NEW i \in DOMAIN u
      PROVE  /\ u[i].k \in WriteKinds
             /\ u[i].k \in {"put", "recycle"} =>
                    \E j \in DOMAIN u : i < j /\ u[j].k = "iupdate"
  <2>1. CASE i \in DOMAIN s
    <3> PICK x \in DOMAIN t : t[x].k = "iupdate"  OBVIOUS
    <3>1. Len(s) + x \in DOMAIN u /\ i < Len(s) + x /\ u[Len(s) + x].k = "iupdate"
      BY <1>2, <2>1
    <3> QED  BY <1>2, <2>1, <3>1 DEF WriteKinds
  <2>2. CASE \E j \in DOMAIN t : i = Len(s) + j
    <3> PICK j \in DOMAIN t : i = Len(s) + j  BY <2>2
    <3>1. t[j].k \in {"put", "recycle"} => \E x \in DOMAIN t : j < x /\ t[x].k = "iupdate"
      BY DEF Writing, Closed
    <3> QED  BY <1>2, <3>1 DEF Writing
  <2> QED  BY <1>2, <2>1, <2>2
<1> QED  BY <1>2, <1>3 DEF Writing, Closed, u

(* readi.                                                                  *)
LEMMA ReadiPlan ==
    ASSUME NEW i \in Inodes, NEW off \in Nat, NEW n \in Nat
    PROVE  /\ Writing(readi(i, off, n)) /\ Puts(readi(i, off, n)) = {}
           /\ \A S : 0 .. i.blocks - 1 \subseteq S /\ i.size <= i.blocks * B =>
                  Covered(S, readi(i, off, n))
<1> DEFINE end == Smaller(Smaller(off + n, i.size), MAXFILEB * B)
           T == Touch("get", off, end - off)
<1>1. i.size \in Nat /\ i.blocks \in Nat /\ MAXFILEB * B \in Nat
  BY SizesAreNatural, BlockMapAssumption DEF Inodes
<1>2. end \in Nat /\ end <= MAXFILEB * B /\ end <= i.size  BY <1>1 DEF Smaller
<1>3. readi(i, off, n) = IF off > end THEN <<>> ELSE T  BY DEF readi
<1>4. CASE off > end  BY <1>3, <1>4, EmptyPlan
<1>5. CASE ~(off > end)
  <2>1. end - off \in Nat /\ off + (end - off) = end  BY <1>2, <1>5
  <2> HIDE DEF end
  <2>2. /\ T \in Seq(Jobs)
        /\ \A j \in DOMAIN T : T[j].k = "get" /\ end - off # 0
               /\ T[j].n \in (off \div B) .. ((off + (end - off) - 1) \div B)
    <3>1. "get" \in MapKinds /\ off + (end - off) <= MAXFILEB * B
      BY <1>2, <2>1 DEF MapKinds
    <3>2. T \in Seq(Jobs)  BY <2>1, <3>1, TouchPlan
    <3>3. \A j \in DOMAIN T : T[j].k = "get" /\ end - off # 0
              /\ T[j].n \in (off \div B) .. ((off + (end - off) - 1) \div B)
      BY <2>1, <3>1, TouchPlan
    <3> QED  BY <3>2, <3>3
  <2> HIDE DEF T
  <2>3. Writing(T) /\ Puts(T) = {}
    <3>1. {j \in DOMAIN T : T[j].k = "put"} = {}  BY <2>2
    <3> QED  BY <2>2, <3>1 DEF Writing, Closed, Puts, WriteKinds, MapKinds
  <2>4. ASSUME NEW S, 0 .. i.blocks - 1 \subseteq S, i.size <= i.blocks * B,
               NEW j \in DOMAIN T
        PROVE  T[j].n \in S
    <3>1. end - off # 0 /\ T[j].n \in (off \div B) .. ((end - 1) \div B)
      BY <1>2, <2>1, <2>2
    <3>2. end - 1 \in Nat /\ i.blocks * B \in Nat
      <4>1. \A x, y \in Nat : x * y \in Nat  OBVIOUS
      <4> QED  BY <1>1, <1>2, <2>1, <3>1, <4>1, BlockMapAssumption
    <3>3. end - 1 < i.blocks * B  BY <1>1, <1>2, <2>4, <3>2
    <3>4. (end - 1) \div B \in Nat /\ (end - 1) \div B < i.blocks  BY <1>1, <3>2, <3>3, InBlock
    <3>5. off \div B \in Nat  BY InBlock, <1>1
    <3>6. T[j].n \in 0 .. i.blocks - 1  BY <1>1, <3>1, <3>4, <3>5
    <3> QED  BY <2>4, <3>6
  <2>5. \A S : 0 .. i.blocks - 1 \subseteq S /\ i.size <= i.blocks * B => Covered(S, T)
    BY <2>2, <2>4 DEF Covered, Needs
  <2> QED  BY <1>3, <1>5, <2>3, <2>5
<1> QED  BY <1>4, <1>5

(* writei.                                                                 *)
LEMMA WriteiPlan ==
    ASSUME NEW i \in Inodes, NEW off \in Nat, NEW n \in Nat, off + n <= MaxSize
    PROVE  /\ Grown(i, off, n) \in Inodes /\ i.size <= Grown(i, off, n).size
           /\ Writing(writei(i, off, n))
           /\ \A S : 0 .. i.blocks - 1 \subseteq S /\ i.size <= i.blocks * B =>
                  /\ Covered(S, writei(i, off, n))
                  /\ 0 .. Grown(i, off, n).blocks - 1 \subseteq S \cup Puts(writei(i, off, n))
                  /\ Grown(i, off, n).size <= Grown(i, off, n).blocks * B
<1> DEFINE g == Grown(i, off, n)  T == Touch("put", off, n)  W == writei(i, off, n)
           z == (off + n - 1) \div B
<1>1. /\ i.size \in 0 .. MaxSize /\ i.blocks \in 0 .. MAXFILEB /\ i.size \in Nat /\ i.blocks \in Nat
      /\ MAXFILEB \in Nat /\ MAXFILEB * B \in Nat
  BY SizesAreNatural, BlockMapAssumption DEF Inodes
<1>2. \A x, y \in Nat : x * y \in Nat  OBVIOUS
<1>3. CASE Refused(i, off, n)
  <2>1. g = i /\ W = <<>>  BY <1>3 DEF Grown, writei
  <2> HIDE DEF g, W
  <2> QED  BY <2>1, EmptyPlan, <1>1 DEF g, W
<1>4. CASE ~Refused(i, off, n)
  <2>1. off <= i.size /\ off + n <= MAXFILEB * B  BY <1>1, <1>4 DEF Refused
  <2>2. W = T \o iupdate(g)  BY <1>4 DEF writei
  <2>3. /\ T \in Seq(Jobs)
        /\ \A j \in DOMAIN T : T[j].k = "put" /\ n # 0 /\ T[j].n \in (off \div B) .. z
        /\ n # 0 => Numbers(T) = (off \div B) .. z
    <3>1. "put" \in MapKinds /\ off + n <= MAXFILEB * B  BY <2>1 DEF MapKinds
    <3>2. T \in Seq(Jobs)  BY <3>1, TouchPlan
    <3>3. \A j \in DOMAIN T : T[j].k = "put" /\ n # 0 /\ T[j].n \in (off \div B) .. z
      BY <3>1, TouchPlan
    <3>4. n # 0 => Numbers(T) = (off \div B) .. z
      BY <3>1, TouchPlan
    <3> QED  BY <3>2, <3>3, <3>4
  <2>4. n # 0 => off + n - 1 \in Nat /\ z \in Nat /\ z < MAXFILEB /\ off + n <= (z + 1) * B
    <3>1. SUFFICES ASSUME n # 0
                   PROVE  off + n - 1 \in Nat /\ z \in Nat /\ z < MAXFILEB /\ off + n <= (z + 1) * B
      OBVIOUS
    <3>2. off + n - 1 \in Nat /\ off + n - 1 < MAXFILEB * B  BY <1>1, <2>1, <3>1
    <3>3. z \in Nat /\ z < MAXFILEB  BY <1>1, <3>2, InBlock
    <3>4. z + 1 \in Nat /\ z < z + 1  BY <3>3
    <3>5. off + n - 1 < (z + 1) * B  BY <3>2, <3>3, <3>4, InBlock
    <3>6. (z + 1) * B \in Nat  BY <1>2, <3>4, BlockMapAssumption
    <3> HIDE DEF z
    <3> QED  BY <3>2, <3>3, <3>5, <3>6
  <2>5. /\ g \in Inodes /\ i.size <= g.size /\ i.blocks <= g.blocks
        /\ g = i \/ (n # 0 /\ g.size = off + n /\ g.blocks = Larger(1 + z, i.blocks))
    <3>1. CASE n = 0 \/ off + n <= i.size
      <4>1. g = i  BY <3>1 DEF Grown
      <4> QED  BY <1>1, <4>1
    <3>2. CASE ~(n = 0 \/ off + n <= i.size)
      <4>1. g = [i EXCEPT !.size = off + n, !.blocks = Larger(1 + z, @)]
        BY <1>4, <3>2 DEF Grown
      <4>2. 1 + z \in 0 .. MAXFILEB  BY <1>1, <2>4, <3>2
      <4>3. Larger(1 + z, i.blocks) \in 0 .. MAXFILEB /\ i.blocks <= Larger(1 + z, i.blocks)
        BY <1>1, <4>2 DEF Larger
      <4>4. off + n \in 0 .. MaxSize /\ i.size <= off + n
        BY <1>1, <3>2, BlockMapAssumption
      <4> HIDE DEF g, z
      <4>5. g \in Inodes /\ g.size = off + n /\ g.blocks = Larger(1 + z, i.blocks)
        BY <4>1, <4>3, <4>4, InodeResized, ZenonT(60)
      <4> QED  BY <3>2, <4>3, <4>4, <4>5
    <3> QED  BY <3>1, <3>2
  <2>6. g.size \in 0 .. MaxSize /\ g.blocks \in 0 .. MAXFILEB
    <3>1. g \in Inodes  BY <2>5
    <3> HIDE DEF g
    <3> QED  BY <3>1, InodeFields
  <2> HIDE DEF g, T, z
  <2>7. /\ Writing(iupdate(g)) /\ Puts(iupdate(g)) = {}
        /\ \E j \in DOMAIN iupdate(g) : iupdate(g)[j].k = "iupdate"
        /\ \A S : 0 .. g.blocks - 1 \subseteq S => Covered(S, iupdate(g))
    BY <2>6, UpdatePlan
  <2>8. Writing(T \o iupdate(g))
    <3>1. \A j \in DOMAIN T : T[j].k \in MapKinds  BY <2>3 DEF MapKinds
    <3> QED  BY <2>3, <2>7, <3>1, BlocksThenInode
  <2>9. ASSUME NEW S, 0 .. i.blocks - 1 \subseteq S, i.size <= i.blocks * B
        PROVE  /\ Covered(S, T \o iupdate(g))
               /\ 0 .. g.blocks - 1 \subseteq S \cup Puts(T \o iupdate(g))
               /\ g.size <= g.blocks * B
    <3>1. Covered(S, T)  BY <2>3 DEF Covered, Needs
    <3>2. 0 .. g.blocks - 1 \subseteq S \cup Puts(T)
      <4>1. SUFFICES ASSUME NEW b \in 0 .. g.blocks - 1, b \notin 0 .. i.blocks - 1
                     PROVE  b \in Puts(T)
        BY <2>9
      <4>2. n # 0 /\ g.blocks = Larger(1 + z, i.blocks) /\ b >= i.blocks /\ b \in Nat
        BY <1>1, <2>5, <2>6, <4>1
      <4>3. b <= z  BY <1>1, <2>4, <4>1, <4>2 DEF Larger
      <4>4. off \div B \in Nat /\ off \div B <= b
        <5>1. off <= i.blocks * B  BY <1>1, <1>2, <2>1, <2>9, BlockMapAssumption
        <5>2. i.blocks * B < (i.blocks + 1) * B
          <6>1. (i.blocks + 1) * B = i.blocks * B + B  BY <1>1, BlockMapAssumption
          <6>2. i.blocks * B \in Nat  BY <1>1, <1>2, BlockMapAssumption
          <6> QED  BY <6>1, <6>2, BlockMapAssumption
        <5>3. i.blocks + 1 \in Nat /\ i.blocks * B \in Nat /\ (i.blocks + 1) * B \in Nat
          BY <1>1, <1>2, BlockMapAssumption
        <5>4. off < (i.blocks + 1) * B  BY <5>1, <5>2, <5>3
        <5>5. off \div B \in Nat /\ off \div B < i.blocks + 1  BY <5>3, <5>4, InBlock
        <5> QED  BY <1>1, <4>2, <5>5
      <4>5. PICK j \in DOMAIN T : T[j].n = b
        <5>1. b \in (off \div B) .. z  BY <2>4, <4>2, <4>3, <4>4
        <5> QED  BY <2>3, <4>2, <5>1 DEF Numbers
      <4> QED  BY <2>3, <4>5 DEF Puts
    <3>3. T \in Seq(Jobs) /\ iupdate(g) \in Seq(Jobs)  BY <2>3, <2>7 DEF Writing
    <3>4. Covered(S \cup Puts(T), iupdate(g))  BY <2>7, <3>2
    <3>5. Covered(S, T \o iupdate(g)) /\ Puts(T) \subseteq Puts(T \o iupdate(g))
      BY <3>1, <3>3, <3>4, CoveredJoins
    <3>6. g.size <= g.blocks * B
      <4>1. CASE g = i  BY <2>9, <4>1
      <4>2. CASE n # 0 /\ g.size = off + n /\ g.blocks = Larger(1 + z, i.blocks)
        <5>1. z + 1 \in Nat /\ g.blocks \in Nat /\ z + 1 <= g.blocks
          BY <1>1, <2>4, <2>6, <4>2 DEF Larger
        <5>2. (z + 1) * B <= g.blocks * B  BY <5>1, Monotone, BlockMapAssumption
        <5>3. (z + 1) * B \in Nat /\ g.blocks * B \in Nat  BY <1>2, <5>1, BlockMapAssumption
        <5> QED  BY <2>4, <4>2, <5>2, <5>3
      <4> QED  BY <2>5, <4>1, <4>2
    <3> QED  BY <3>2, <3>5, <3>6
  <2> QED  BY <2>2, <2>5, <2>8, <2>9 DEF g
<1> QED  BY <1>3, <1>4

(* itest.                                                                  *)
LEMMA ItestPlan ==
    ASSUME NEW i \in Inodes
    PROVE  /\ Writing(itest(i))
           /\ \A S : 0 .. i.blocks - 1 \subseteq S => Covered(S, itest(i))
<1> DEFINE t == true_blocks(i)  last == i.blocks - 1
           R == [j \in 1 .. last - t |-> Job("recycle", last - j + 1, 0)]
           e == [i EXCEPT !.blocks = t]
<1>1. i.size \in 0 .. MaxSize /\ i.blocks \in 0 .. MAXFILEB /\ MAXFILEB \in Nat
  BY SizesAreNatural, InodeFields
<1>2. t \in Nat /\ t >= 1
  <2>1. CASE i.size = 0
    <3>1. MAXUINT \div B \in Nat  BY InBlock, BlockMapAssumption
    <3> QED  BY <2>1, <3>1 DEF true_blocks
  <2>2. CASE i.size # 0
    <3>1. i.size - 1 \in Nat  BY <1>1, <2>2, BlockMapAssumption
    <3>2. (i.size - 1) \div B \in Nat  BY <3>1, InBlock
    <3> QED  BY <2>2, <3>2 DEF true_blocks
  <2> QED  BY <2>1, <2>2
<1>3. CASE t > i.blocks \div 2
  <2>1. itest(i) = <<>>  BY <1>3 DEF itest
  <2> QED  BY <2>1, EmptyPlan
<1>4. CASE ~(t > i.blocks \div 2)
  <2>1. itest(i) = R \o iupdate(e)  BY <1>4 DEF itest
  <2> HIDE DEF t
  <2>2. t <= i.blocks /\ last - t \in Nat /\ i.blocks \in Nat
    <3>1. i.blocks \in Nat /\ i.blocks \div 2 \in Nat /\ 2 * (i.blocks \div 2) <= i.blocks
      BY <1>1
    <3> QED  BY <1>2, <1>4, <3>1
  <2>3. t \in 0 .. MAXFILEB  BY <1>1, <1>2, <2>2
  <2>4. e \in Inodes /\ e.size \in 0 .. MaxSize /\ e.blocks \in 0 .. MAXFILEB /\ e.blocks = t
    BY <2>3 DEF Inodes
  <2>5. /\ Writing(iupdate(e))
        /\ \E j \in DOMAIN iupdate(e) : iupdate(e)[j].k = "iupdate"
        /\ \A S : 0 .. t - 1 \subseteq S => Covered(S, iupdate(e))
    BY <2>4, UpdatePlan
  <2>6. R \in Seq(Jobs) /\ \A j \in DOMAIN R : R[j].k = "recycle"
    <3> DEFINE N == last - t
    <3>1. \A j \in 1 .. N : last - j + 1 \in 0 .. MAXFILEB - 1  BY <1>1, <1>2, <2>2
    <3>2. "recycle" \in MapKinds  BY DEF MapKinds
    <3>3. \A j \in 1 .. N : Job("recycle", last - j + 1, 0) \in Jobs
              /\ Job("recycle", last - j + 1, 0).k = "recycle"
      BY <3>1, <3>2, Kinds
    <3>4. N \in Nat  BY <2>2
    <3> HIDE DEF N, last
    <3>5. R \in [1 .. N -> Jobs] /\ \A j \in 1 .. N : R[j].k = "recycle"  BY <3>3 DEF N
    <3> HIDE DEF R
    <3> QED  BY <3>4, <3>5
  <2> HIDE DEF R, e
  <2>7. Writing(R \o iupdate(e))
    <3>1. \A j \in DOMAIN R : R[j].k \in MapKinds  BY <2>6 DEF MapKinds
    <3> QED  BY <2>5, <2>6, <3>1, BlocksThenInode
  <2>8. ASSUME NEW S, 0 .. i.blocks - 1 \subseteq S PROVE Covered(S, R \o iupdate(e))
    <3>1. Covered(S, R)  BY <2>6 DEF Covered, Needs
    <3>2. 0 .. t - 1 \subseteq S \cup Puts(R)  BY <1>2, <2>2, <2>8
    <3>3. Covered(S \cup Puts(R), iupdate(e))  BY <2>5, <3>2
    <3>4. iupdate(e) \in Seq(Jobs)  BY <2>5 DEF Writing
    <3> QED  BY <2>6, <3>1, <3>3, <3>4, CoveredJoins
  <2> QED  BY <2>1, <2>7, <2>8
<1> QED  BY <1>3, <1>4

(* The plan of each command on an inode that it finds on the disk.         *)
SizeFits(i) == i.size <= i.blocks * B
PlanHolds(i, s) ==
    /\ Writing(s)
    /\ \A S : 0 .. i.blocks - 1 \subseteq S /\ SizeFits(i) => Covered(S, s)

LEMMA PlanJoins ==
    ASSUME NEW i, NEW s, NEW g, NEW t, PlanHolds(i, s), PlanHolds(g, t),
           \A S : 0 .. i.blocks - 1 \subseteq S /\ SizeFits(i) =>
               0 .. g.blocks - 1 \subseteq S \cup Puts(s) /\ SizeFits(g)
    PROVE  PlanHolds(i, s \o t)
<1>1. Writing(s \o t)  BY WritingJoins DEF PlanHolds
<1>2. ASSUME NEW S, 0 .. i.blocks - 1 \subseteq S, SizeFits(i) PROVE Covered(S, s \o t)
  <2>1. Covered(S, s)  BY <1>2 DEF PlanHolds
  <2>2. 0 .. g.blocks - 1 \subseteq S \cup Puts(s) /\ SizeFits(g)  BY <1>2
  <2>3. Covered(S \cup Puts(s), t)  BY <2>2 DEF PlanHolds
  <2>4. s \in Seq(Jobs) /\ t \in Seq(Jobs)  BY DEF PlanHolds, Writing
  <2> QED  BY <2>1, <2>3, <2>4, CoveredJoins
<1> QED  BY <1>1, <1>2 DEF PlanHolds

LEMMA CutPlan ==
    ASSUME NEW i \in Inodes
    PROVE  /\ Writing(iupdate(i) \o itest(i))
           /\ \A S : 0 .. i.blocks - 1 \subseteq S => Covered(S, iupdate(i) \o itest(i))
<1>1. i.size \in 0 .. MaxSize /\ i.blocks \in 0 .. MAXFILEB  BY InodeFields
<1>2. /\ Writing(iupdate(i))
      /\ \A S : 0 .. i.blocks - 1 \subseteq S => Covered(S, iupdate(i))
  BY <1>1, UpdatePlan
<1>3. /\ Writing(itest(i))
      /\ \A S : 0 .. i.blocks - 1 \subseteq S => Covered(S, itest(i))
  BY ItestPlan
<1>4. Writing(iupdate(i) \o itest(i))  BY <1>2, <1>3, WritingJoins
<1>5. ASSUME NEW S, 0 .. i.blocks - 1 \subseteq S PROVE Covered(S, iupdate(i) \o itest(i))
  <2>1. Covered(S, iupdate(i))  BY <1>2, <1>5
  <2>2. 0 .. i.blocks - 1 \subseteq S \cup Puts(iupdate(i))  BY <1>5
  <2>3. Covered(S \cup Puts(iupdate(i)), itest(i))  BY <1>3, <2>2
  <2>4. iupdate(i) \in Seq(Jobs) /\ itest(i) \in Seq(Jobs)  BY <1>2, <1>3 DEF Writing
  <2> QED  BY <2>1, <2>3, <2>4, CoveredJoins
<1> QED  BY <1>4, <1>5

LEMMA ReadHolds ==
    ASSUME NEW i \in Inodes, NEW off \in Nat, NEW n \in Nat
    PROVE  PlanHolds(i, readi(i, off, n))
BY ReadiPlan DEF PlanHolds, SizeFits

LEMMA WriteHolds ==
    ASSUME NEW i \in Inodes, NEW off \in Nat, NEW n \in Nat, off + n <= MaxSize
    PROVE  /\ PlanHolds(i, writei(i, off, n))
           /\ \A S : 0 .. i.blocks - 1 \subseteq S /\ SizeFits(i) =>
                  /\ 0 .. Grown(i, off, n).blocks - 1 \subseteq S \cup Puts(writei(i, off, n))
                  /\ SizeFits(Grown(i, off, n))
BY WriteiPlan DEF PlanHolds, SizeFits

LEMMA ReadFirst ==
    ASSUME NEW i \in Inodes, NEW off \in Nat, NEW n \in Nat, NEW t, PlanHolds(i, t)
    PROVE  PlanHolds(i, readi(i, off, n) \o t)
<1>1. PlanHolds(i, readi(i, off, n))  BY ReadHolds
<1>2. \A S : 0 .. i.blocks - 1 \subseteq S /\ SizeFits(i) =>
          0 .. i.blocks - 1 \subseteq S \cup Puts(readi(i, off, n)) /\ SizeFits(i)
  OBVIOUS
<1> QED  BY <1>1, <1>2, PlanJoins

LEMMA PlanOf_w ==
    ASSUME NEW i \in Inodes, NEW len \in Nat, len <= MaxSize
    PROVE  LET cut == [Grown(i, 0, len) EXCEPT !.size = len]
           IN PlanHolds(i, writei(i, 0, len)
                           \o (IF len < i.size THEN iupdate(cut) \o itest(cut) ELSE <<>>))
<1> DEFINE g == Grown(i, 0, len)  cut == [g EXCEPT !.size = len]
           t == IF len < i.size THEN iupdate(cut) \o itest(cut) ELSE <<>>
<1>1. 0 \in Nat /\ 0 + len <= MaxSize  OBVIOUS
<1>2. g \in Inodes  BY <1>1, WriteiPlan
<1>3. cut \in Inodes /\ cut.blocks = g.blocks
  <2> HIDE DEF g
  <2>1. len \in 0 .. MaxSize  BY BlockMapAssumption
  <2> QED  BY <1>2, <2>1 DEF Inodes
<1> HIDE DEF cut
<1>4. Writing(t) /\ \A S : 0 .. g.blocks - 1 \subseteq S => Covered(S, t)
  <2>1. CASE len < i.size
    <3>1. t = iupdate(cut) \o itest(cut)  BY <2>1
    <3> HIDE DEF t, g
    <3> QED  BY <1>3, <3>1, CutPlan
  <2>2. CASE ~(len < i.size)
    <3>1. t = <<>>  BY <2>2
    <3> HIDE DEF t, g
    <3> QED  BY <3>1, EmptyPlan
  <2> QED  BY <2>1, <2>2
<1>5. PlanHolds(g, t)
  <2> HIDE DEF g, t
  <2> QED  BY <1>4 DEF PlanHolds
<1>6. /\ PlanHolds(i, writei(i, 0, len))
      /\ \A S : 0 .. i.blocks - 1 \subseteq S /\ SizeFits(i) =>
             0 .. g.blocks - 1 \subseteq S \cup Puts(writei(i, 0, len)) /\ SizeFits(g)
  BY <1>1, WriteHolds
<1>7. PlanHolds(i, writei(i, 0, len) \o t)
  <2> HIDE DEF g, t
  <2> QED  BY <1>5, <1>6, PlanJoins
<1> QED  BY <1>7 DEF cut

LEMMA PlanOf_i ==
    ASSUME NEW i \in Inodes, NEW pos \in Nat, NEW len \in Nat
    PROVE  LET g == Grown(i, pos, len)
           IN /\ i.size + len <= MaxSize => PlanHolds(i, writei(i, i.size, len))
              /\ pos < i.size /\ g.size + len <= MaxSize =>
                     PlanHolds(i, readi(i, pos, i.size - pos) \o writei(i, pos, len)
                                  \o writei(g, pos + len, g.size - pos))
<1> DEFINE g == Grown(i, pos, len)  r == readi(i, pos, i.size - pos)
           w == writei(i, pos, len)  v == writei(g, pos + len, g.size - pos)
<1>1. i.size \in 0 .. MaxSize /\ i.size \in Nat  BY InodeFields, BlockMapAssumption
<1>2. i.size + len <= MaxSize => PlanHolds(i, writei(i, i.size, len))
  BY <1>1, WriteHolds
<1>3. ASSUME pos < i.size, g.size + len <= MaxSize PROVE PlanHolds(i, (r \o w) \o v)
  <2>1. i.size <= g.size /\ g.size \in Nat
    <3>1. CASE Refused(i, pos, len) \/ len = 0 \/ pos + len <= i.size
      BY <1>1, <3>1 DEF Grown
    <3>2. CASE ~(Refused(i, pos, len) \/ len = 0 \/ pos + len <= i.size)
      <4>1. g.size = pos + len  BY <3>2 DEF Grown, Inodes
      <4> HIDE DEF g
      <4> QED  BY <1>1, <3>2, <4>1
    <3> QED  BY <3>1, <3>2
  <2>2. pos + len <= MaxSize  BY <1>1, <1>3, <2>1, BlockMapAssumption
  <2>3. /\ g \in Inodes /\ PlanHolds(i, w)
        /\ \A S : 0 .. i.blocks - 1 \subseteq S /\ SizeFits(i) =>
               0 .. g.blocks - 1 \subseteq S \cup Puts(w) /\ SizeFits(g)
    BY <2>2, WriteiPlan, WriteHolds
  <2> HIDE DEF g, w
  <2>4. PlanHolds(i, r \o w)  BY <1>1, <1>3, <2>3, ReadFirst
  <2>5. r \in Seq(Jobs) /\ w \in Seq(Jobs)
    <3>1. PlanHolds(i, r)  BY <1>1, <1>3, ReadHolds
    <3> QED  BY <2>3, <3>1 DEF PlanHolds, Writing
  <2>6. \A S : 0 .. i.blocks - 1 \subseteq S /\ SizeFits(i) =>
            0 .. g.blocks - 1 \subseteq S \cup Puts(r \o w) /\ SizeFits(g)
    <3>1. Puts(w) \subseteq Puts(r \o w)
      <4>1. \A j \in DOMAIN w : Len(r) + j \in DOMAIN (r \o w) /\ (r \o w)[Len(r) + j] = w[j]
        BY <2>5, Joined
      <4> HIDE DEF r
      <4> QED  BY <4>1 DEF Puts
    <3> QED  BY <2>3, <3>1
  <2>7. PlanHolds(g, v)
    <3>1. pos + len \in Nat /\ g.size - pos \in Nat /\ (pos + len) + (g.size - pos) <= MaxSize
      BY <1>1, <1>3, <2>1, BlockMapAssumption
    <3> QED  BY <2>3, <3>1, WriteHolds
  <2> HIDE DEF r, v
  <2> QED  BY <2>4, <2>6, <2>7, PlanJoins
<1> QED  BY <1>2, <1>3

LEMMA PlanOf_d ==
    ASSUME NEW i \in Inodes, NEW pos \in Nat, NEW end \in Nat, NEW z \in 0 .. MaxSize
    PROVE  LET copylen == i.size - end
               g == Grown(i, pos, copylen)
               cut == [g EXCEPT !.size = z]
           IN /\ pos <= MaxSize => PlanHolds(i, iupdate([i EXCEPT !.size = pos]))
              /\ end < i.size /\ g.size <= MaxSize =>
                     PlanHolds(i, readi(i, end, copylen) \o writei(i, pos, copylen)
                                  \o iupdate(cut) \o itest(cut))
<1> DEFINE copylen == i.size - end  g == Grown(i, pos, copylen)
           cut == [g EXCEPT !.size = z]
           r == readi(i, end, copylen)  w == writei(i, pos, copylen)
<1>1. i.size \in 0 .. MaxSize /\ i.size \in Nat  BY InodeFields, BlockMapAssumption
<1>2. ASSUME pos <= MaxSize PROVE PlanHolds(i, iupdate([i EXCEPT !.size = pos]))
  <2> DEFINE e == [i EXCEPT !.size = pos]
  <2>1. pos \in 0 .. MaxSize  BY <1>2, BlockMapAssumption
  <2>2. e.size \in 0 .. MaxSize /\ e.blocks \in 0 .. MAXFILEB /\ e.blocks = i.blocks
    BY <2>1 DEF Inodes
  <2> HIDE DEF e
  <2>3. Writing(iupdate(e)) /\ \A S : 0 .. i.blocks - 1 \subseteq S => Covered(S, iupdate(e))
    BY <2>2, UpdatePlan
  <2> QED  BY <2>3 DEF PlanHolds, e
<1>3. ASSUME end < i.size, g.size <= MaxSize
      PROVE  PlanHolds(i, ((r \o w) \o iupdate(cut)) \o itest(cut))
  <2>1. copylen \in Nat  BY <1>1, <1>3
  <2>2. /\ g \in Inodes /\ PlanHolds(i, w)
        /\ \A S : 0 .. i.blocks - 1 \subseteq S /\ SizeFits(i) =>
               0 .. g.blocks - 1 \subseteq S \cup Puts(w) /\ SizeFits(g)
    <3>1. CASE Refused(i, pos, copylen)
      <4>1. g = i /\ w = <<>>  BY <3>1 DEF Grown, writei
      <4> HIDE DEF g, w
      <4>2. PlanHolds(i, <<>>)  BY EmptyPlan DEF PlanHolds
      <4> QED  BY <4>1, <4>2
    <3>2. CASE ~Refused(i, pos, copylen)
      <4>1. pos + copylen <= MaxSize
        <5>1. CASE copylen = 0 \/ pos + copylen <= i.size
          <6>1. pos <= i.size  BY <1>1, <3>2 DEF Refused
          <6> QED  BY <1>1, <2>1, <5>1, <6>1, BlockMapAssumption
        <5>2. CASE ~(copylen = 0 \/ pos + copylen <= i.size)
          <6>1. g.size = pos + copylen  BY <3>2, <5>2 DEF Grown, Inodes
          <6> QED  BY <1>3, <6>1
        <5> QED  BY <5>1, <5>2
      <4> HIDE DEF copylen
      <4> QED  BY <2>1, <4>1, WriteiPlan, WriteHolds
    <3> QED  BY <3>1, <3>2
  <2> HIDE DEF g, w
  <2>3. cut \in Inodes /\ cut.blocks = g.blocks  BY <2>2 DEF Inodes
  <2> HIDE DEF cut
  <2>4. PlanHolds(i, r \o w)  BY <2>1, <2>2, ReadFirst
  <2>5. r \in Seq(Jobs) /\ w \in Seq(Jobs)
    <3>1. PlanHolds(i, r)  BY <2>1, ReadHolds
    <3> QED  BY <2>2, <3>1 DEF PlanHolds, Writing
  <2>6. \A S : 0 .. i.blocks - 1 \subseteq S /\ SizeFits(i) =>
            0 .. g.blocks - 1 \subseteq S \cup Puts(r \o w) /\ SizeFits(g)
    <3>1. Puts(w) \subseteq Puts(r \o w)
      <4>1. \A j \in DOMAIN w : Len(r) + j \in DOMAIN (r \o w) /\ (r \o w)[Len(r) + j] = w[j]
        BY <2>5, Joined
      <4> HIDE DEF r
      <4> QED  BY <4>1 DEF Puts
    <3> QED  BY <2>2, <3>1
  <2>7. PlanHolds(g, iupdate(cut) \o itest(cut))
    <3>1. Writing(iupdate(cut) \o itest(cut))  BY <2>3, CutPlan
    <3>2. \A S : 0 .. g.blocks - 1 \subseteq S => Covered(S, iupdate(cut) \o itest(cut))
      BY <2>3, CutPlan
    <3> QED  BY <3>1, <3>2 DEF PlanHolds
  <2> DEFINE s == r \o w
  <2>8. PlanHolds(i, s \o (iupdate(cut) \o itest(cut)))
    <3> HIDE DEF s
    <3> QED  BY <2>4, <2>6, <2>7, PlanJoins DEF s
  <2>9. s \in Seq(Jobs) /\ iupdate(cut) \in Seq(Jobs) /\ itest(cut) \in Seq(Jobs)
    <3>1. cut.size \in 0 .. MaxSize /\ cut.blocks \in 0 .. MAXFILEB  BY <2>3, InodeFields
    <3>2. Writing(iupdate(cut)) /\ Writing(itest(cut))  BY <2>3, <3>1, UpdatePlan, ItestPlan
    <3> QED  BY <2>4, <3>2 DEF PlanHolds, Writing
  <2> HIDE DEF s
  <2>10. (s \o iupdate(cut)) \o itest(cut) = s \o (iupdate(cut) \o itest(cut))
    BY <2>9, ConcatAssociative
  <2> QED  BY <2>8, <2>10 DEF s
<1> QED  BY <1>2, <1>3 DEF copylen, g, cut

LEMMA WritingIsOrdered ==
    ASSUME NEW s, Writing(s)
    PROVE  s \in Seq(Jobs) /\ Ordered(s) /\ ~Frees(s)
BY DEF Writing, Ordered, Frees, WriteKinds, MapKinds, FreeKinds

(* The plans of mk and rm: for a file that has or keeps a link, ...        *)
LEMMA EntryPlan ==
    ASSUME NEW i \in Inodes, NEW k \in {"enter", "unlink"}
    PROVE  LET u == iupdate(i) \o <<Job(k, 0, 0)>>
           IN /\ u \in Seq(Jobs) /\ Ordered(u) /\ ~Frees(u)
              /\ \A S : 0 .. i.blocks - 1 \subseteq S => Covered(S, u)
<1> DEFINE a == Job("iupdate", i.size, i.blocks)  b == Job(k, 0, 0)
           u == iupdate(i) \o <<Job(k, 0, 0)>>
<1>1. a \in Jobs /\ b \in Jobs /\ a.k = "iupdate" /\ a.m = i.blocks /\ b.k = k
  BY InodeFields, Kinds
<1>2. iupdate(i) = <<a>>  BY DEF iupdate
<1> HIDE DEF a, b
<1>3. u = <<a>> \o <<b>>  BY <1>2 DEF b
<1> HIDE DEF u
<1>4. u \in Seq(Jobs) /\ DOMAIN u = 1 .. 2 /\ u[1] = a /\ u[2] = b  BY <1>1, <1>3
<1>5. Ordered(u) /\ ~Frees(u)
  BY <1>1, <1>4 DEF Ordered, Closed, Frees, FreeKinds
<1>6. \A S : 0 .. i.blocks - 1 \subseteq S => Covered(S, u)
  BY <1>1, <1>4 DEF Covered, Needs
<1> QED  BY <1>4, <1>5, <1>6 DEF u

(* ... and for one that loses its last link.                               *)
Sweeping(s) == \A p \in Paths : \E j \in DOMAIN s : s[j].k = "free" /\ s[j].n = p
LEMMA TruncPlan ==
    LET u == itrunc \o <<Job("unlink", 0, 0)>>
    IN u \in Seq(Jobs) /\ Ordered(u) /\ Sweeping(u) /\ \A S : Covered(S, u)
<1> DEFINE R == [j \in DOMAIN TruncOrder |-> Job("free", TruncOrder[j], 0)]
           a == Job("iclear", 0, 0)  b == Job("unlink", 0, 0)
           u == (R \o <<a>>) \o <<b>>
<1>1. a \in Jobs /\ b \in Jobs /\ a.k = "iclear" /\ b.k = "unlink"  BY Kinds
<1>2. Final \in Nat /\ DOMAIN TruncOrder = 1 .. Final
  <2>1. Row \in Nat /\ APB * Row \in Nat
    <3>1. \A x, y \in Nat : x * y \in Nat  OBVIOUS
    <3> QED  BY <3>1, BlockMapAssumption DEF Row
  <2>2. Final \in Nat  BY <2>1, BlockMapAssumption DEF Final, First
  <2>3. DOMAIN TruncOrder = 1 .. Final  BY RoundsAre
  <2> QED  BY <2>2, <2>3
<1>3. \A j \in 1 .. Final : TruncOrder[j] \in Paths
  <2>1. TruncOrder \in Seq(Paths)  BY RoundsAre
  <2> QED  BY <1>2, <2>1
<1>4. \A j \in 1 .. Final : Job("free", TruncOrder[j], 0) \in Jobs
  BY <1>3, Kinds
<1>5. R \in Seq(Jobs) /\ Len(R) = Final /\ \A j \in 1 .. Final : R[j] = Job("free", TruncOrder[j], 0)
  <2>1. R = [j \in 1 .. Final |-> Job("free", TruncOrder[j], 0)]  BY <1>2
  <2> HIDE DEF R
  <2> QED  BY <1>2, <1>4, <2>1
<1>6. \A j \in 1 .. Final : R[j].k = "free" /\ R[j].n = TruncOrder[j]
  BY <1>5, Kinds
<1> HIDE DEF R, a, b
<1>7. /\ u \in Seq(Jobs) /\ DOMAIN u = 1 .. Final + 2
      /\ \A j \in 1 .. Final : u[j] = R[j]
      /\ u[Final + 1] = a /\ u[Final + 2] = b
  BY <1>1, <1>2, <1>5
<1>8. u = itrunc \o <<Job("unlink", 0, 0)>>  BY DEF itrunc, R, a, b
<1> HIDE DEF u
<1>9. \A j \in DOMAIN u : j \in 1 .. Final \/ j = Final + 1 \/ j = Final + 2
  BY <1>2, <1>7
<1>10. Ordered(u)
  <2>1. \A j \in DOMAIN u : /\ u[j].k \in {"free", "iclear", "unlink"}
                            /\ u[j].k = "free" <=> j \in 1 .. Final
                            /\ u[j].k = "iclear" <=> j = Final + 1
                            /\ j > Final + 1 => u[j].k = "unlink"
    BY <1>1, <1>2, <1>6, <1>7, <1>9
  <2>2. Frees(u)  BY <1>1, <1>2, <1>7 DEF Frees
  <2>3. \A i, j \in DOMAIN u :
           u[i].k = "free" /\ u[j].k = "free" /\ u[i].n = u[j].n => i = j
    BY <2>1, <1>6, <1>7, EachPathOnce
  <2>4. \A i, j \in DOMAIN u : u[i].k = "iclear" /\ i < j => u[j].k = "unlink"
    BY <2>1, <1>2, <1>7
  <2> QED  BY <2>1, <2>2, <2>3, <2>4 DEF Ordered, Closed, FreeKinds
<1>11. Sweeping(u)
  <2> SUFFICES ASSUME NEW p \in Paths PROVE \E j \in DOMAIN u : u[j].k = "free" /\ u[j].n = p
    BY DEF Sweeping
  <2>1. PICK j \in 1 .. Final : TruncOrder[j] = p  BY EachPathOnce
  <2> QED  BY <1>2, <1>6, <1>7, <2>1
<1>12. \A S : Covered(S, u)
  <2>1. \A j \in DOMAIN u : Needs(u[j]) = {}
    BY <1>1, <1>6, <1>7, <1>9 DEF Needs
  <2> QED  BY <2>1 DEF Covered
<1> QED  BY <1>7, <1>8, <1>10, <1>11, <1>12

(* What is left of a plan after its first job.                             *)
LEMMA Rest ==
    ASSUME NEW s \in Seq(Jobs), s # <<>>
    PROVE  /\ 1 \in DOMAIN s /\ Head(s) = s[1] /\ Head(s) \in Jobs /\ Tail(s) \in Seq(Jobs)
           /\ \A j \in DOMAIN Tail(s) : j \in Nat \ {0} /\ j + 1 \in DOMAIN s /\ Tail(s)[j] = s[j + 1]
           /\ \A j \in DOMAIN s : j = 1 \/ (j - 1 \in DOMAIN Tail(s) /\ j \in Nat \ {0}
                                            /\ Tail(s)[j - 1] = s[j])
<1>1. /\ Len(s) \in Nat \ {0} /\ DOMAIN s = 1 .. Len(s) /\ Head(s) = s[1]
      /\ Head(s) \in Jobs /\ Tail(s) \in Seq(Jobs)
      /\ Len(Tail(s)) = Len(s) - 1 /\ DOMAIN Tail(s) = 1 .. Len(s) - 1
  BY EmptySeq, HeadTailProperties
<1>2. \A i \in 1 .. Len(s) - 1 : Tail(s)[i] = s[i + 1]  BY <1>1, HeadTailProperties
<1>3. \A j \in DOMAIN Tail(s) : j \in Nat \ {0} /\ j + 1 \in DOMAIN s /\ Tail(s)[j] = s[j + 1]
  BY <1>1, <1>2
<1>4. ASSUME NEW j \in DOMAIN s, j # 1
      PROVE  j - 1 \in DOMAIN Tail(s) /\ j \in Nat \ {0} /\ Tail(s)[j - 1] = s[j]
  <2>1. j - 1 \in 1 .. Len(s) - 1 /\ (j - 1) + 1 = j  BY <1>1, <1>4
  <2> QED  BY <1>1, <1>2, <2>1
<1> QED  BY <1>1, <1>3, <1>4

LEMMA RestOrdered ==
    ASSUME NEW s \in Seq(Jobs), s # <<>>, Ordered(s)
    PROVE  /\ Ordered(Tail(s))
           /\ Head(s).k # "iclear" => (Frees(Tail(s)) <=> Frees(s))
           /\ Head(s).k = "iclear" => \A j \in DOMAIN Tail(s) : Tail(s)[j].k = "unlink"
           /\ Head(s).k \in FreeKinds => \A j \in DOMAIN s : s[j].k \in FreeKinds \cup {"unlink"}
<1> DEFINE t == Tail(s)
<1>1. /\ 1 \in DOMAIN s /\ Head(s) = s[1]
      /\ \A j \in DOMAIN t : j \in Nat \ {0} /\ j + 1 \in DOMAIN s /\ t[j] = s[j + 1]
      /\ \A j \in DOMAIN s : j = 1 \/ (j - 1 \in DOMAIN t /\ j \in Nat \ {0} /\ t[j - 1] = s[j])
  BY Rest
<1> HIDE DEF t
<1>2. ASSUME NEW i \in DOMAIN t, NEW j \in DOMAIN t
      PROVE  /\ t[i].k \in FreeKinds => t[j].k \in FreeKinds \cup {"unlink"}
             /\ t[i].k = "iclear" /\ i < j => t[j].k = "unlink"
             /\ t[i].k = "free" /\ t[j].k = "free" /\ t[i].n = t[j].n => i = j
  <2>1. i \in Nat /\ j \in Nat /\ i + 1 \in DOMAIN s /\ j + 1 \in DOMAIN s
        /\ t[i] = s[i + 1] /\ t[j] = s[j + 1] /\ (i < j <=> i + 1 < j + 1)
        /\ (i + 1 = j + 1 => i = j)
    BY <1>1
  <2> QED  BY <2>1 DEF Ordered
<1>3. Closed(t)
  <2> SUFFICES ASSUME NEW i \in DOMAIN t, t[i].k \in {"put", "recycle"}
               PROVE  \E j \in DOMAIN t : i < j /\ t[j].k = "iupdate"
    BY DEF Closed
  <2>1. i \in Nat \ {0} /\ i + 1 \in DOMAIN s /\ t[i] = s[i + 1]  BY <1>1
  <2>2. PICK j \in DOMAIN s : i + 1 < j /\ s[j].k = "iupdate"
    BY <2>1 DEF Ordered, Closed
  <2>3. j # 1  BY <2>1, <2>2
  <2>4. j - 1 \in DOMAIN t /\ j \in Nat /\ t[j - 1] = s[j]  BY <1>1, <2>3
  <2>5. i < j - 1  BY <2>1, <2>2, <2>4
  <2> QED  BY <2>2, <2>4, <2>5
<1>4. ASSUME s[1].k # "iclear" PROVE Frees(t) <=> Frees(s)
  BY <1>1, <1>4 DEF Frees
<1>5. ASSUME s[1].k = "iclear" PROVE \A j \in DOMAIN t : t[j].k = "unlink"
  <2> TAKE j \in DOMAIN t
  <2>1. j + 1 \in DOMAIN s /\ t[j] = s[j + 1] /\ 1 < j + 1  BY <1>1
  <2> QED  BY <1>1, <1>5, <2>1 DEF Ordered
<1>6. \A i \in DOMAIN t : t[i].k = "free" => Frees(t)
  <2> TAKE i \in DOMAIN t
  <2> HAVE t[i].k = "free"
  <2>1. s[1].k # "iclear"  BY <1>5
  <2>2. Frees(s)  BY <1>1 DEF Ordered
  <2> QED  BY <1>4, <2>1, <2>2
<1>7. Ordered(t)  BY <1>2, <1>3, <1>6 DEF Ordered
<1>8. s[1].k \in FreeKinds => \A j \in DOMAIN s : s[j].k \in FreeKinds \cup {"unlink"}
  BY <1>1 DEF Ordered
<1> QED  BY <1>1, <1>4, <1>5, <1>7, <1>8 DEF t

LEMMA RestCovered ==
    ASSUME NEW s \in Seq(Jobs), s # <<>>, NEW S, NEW T, S \subseteq T, Covered(S, s),
           Head(s).k = "put" => Head(s).n \in T
    PROVE  Covered(T, Tail(s))
<1> DEFINE t == Tail(s)
<1>1. /\ 1 \in DOMAIN s /\ Head(s) = s[1]
      /\ \A j \in DOMAIN t : j \in Nat \ {0} /\ j + 1 \in DOMAIN s /\ t[j] = s[j + 1]
      /\ \A j \in DOMAIN s : j = 1 \/ (j - 1 \in DOMAIN t /\ j \in Nat \ {0} /\ t[j - 1] = s[j])
  BY Rest
<1> HIDE DEF t
<1> SUFFICES ASSUME NEW j \in DOMAIN t, NEW k \in Needs(t[j])
             PROVE  k \in T \/ PutBefore(t, j, k)
  BY DEF Covered, t
<1>2. j \in Nat \ {0} /\ j + 1 \in DOMAIN s /\ t[j] = s[j + 1]  BY <1>1
<1>3. k \in S \/ PutBefore(s, j + 1, k)  BY <1>2 DEF Covered
<1>4. CASE k \in S  BY <1>4
<1>5. CASE PutBefore(s, j + 1, k)
  <2> PICK i \in DOMAIN s : i < j + 1 /\ s[i].k = "put" /\ s[i].n = k
    BY <1>5 DEF PutBefore
  <2>1. CASE i = 1  BY <1>1, <2>1
  <2>2. CASE i # 1
    <3>1. i - 1 \in DOMAIN t /\ t[i - 1] = s[i] /\ i \in Nat  BY <1>1, <2>2
    <3>2. i - 1 < j  BY <1>2, <3>1
    <3> QED  BY <3>1, <3>2 DEF PutBefore
  <2> QED  BY <2>1, <2>2
<1> QED  BY <1>3, <1>4, <1>5

-----------------------------------------------------------------------------
(* What every command but mk begins with.                                  *)
Planful(f, i, s) ==
    /\ i \in Inodes /\ i.type = T_FILE /\ i.addrs = disk[f].addrs
    /\ s \in Seq(Jobs) /\ Ordered(s)
    /\ Frees(s) => Sweeping(s)
    /\ \A S : 0 .. disk[f].blocks - 1 \subseteq S /\ SizeFits(disk[f]) => Covered(S, s)
Opens == \E f \in names : \E i, s : Open(f, i, s) /\ Planful(f, i, s)
Commands ==
    \/ \E f \in Files : cmd_cat(f) \/ cmd_rm(f)
    \/ \E f \in Files, len \in 0 .. B : cmd_w(f, len)
    \/ \E f \in Files, pos \in 0 .. MaxSize, len \in 0 .. B : cmd_i(f, pos, len)
    \/ \E f \in Files, pos, len \in 0 .. MAXUINT : cmd_d(f, pos, len)

LEMMA InodesOnDisk ==
    ASSUME Types, NEW f \in Files
    PROVE  disk[f] \in Inodes /\ (f \in names => disk[f].type = T_FILE)
BY DEF Types, TypeOK, Inodes

LEMMA OpensAsPlanned ==
    ASSUME Types, NEW f \in Files, NEW s, PlanHolds(disk[f], s), Open(f, disk[f], s)
    PROVE  Opens
<1>1. s \in Seq(Jobs) /\ Ordered(s) /\ ~Frees(s)  BY WritingIsOrdered DEF PlanHolds
<1>2. f \in names  BY DEF Open
<1>3. disk[f] \in Inodes /\ disk[f].type = T_FILE  BY <1>2, InodesOnDisk
<1>4. Planful(f, disk[f], s)  BY <1>1, <1>3 DEF Planful, PlanHolds
<1> QED  BY <1>2, <1>4 DEF Opens

LEMMA CommandsOpen ==
    ASSUME Types, Commands
    PROVE  Opens
<1> USE BlockMapAssumption
<1>1. ASSUME NEW f \in Files, cmd_cat(f) PROVE Opens
  <2> DEFINE s == readi(disk[f], 0, disk[f].size)
  <2>1. Open(f, disk[f], s)  BY <1>1 DEF cmd_cat
  <2>2. disk[f] \in Inodes /\ disk[f].size \in Nat  BY InodesOnDisk, InodeFields
  <2>3. PlanHolds(disk[f], s)  BY <2>2, ReadHolds
  <2> QED  BY <2>1, <2>3, OpensAsPlanned
<1>2. ASSUME NEW f \in Files, NEW len \in 0 .. B, cmd_w(f, len) PROVE Opens
  <2> DEFINE cut == [Grown(disk[f], 0, len) EXCEPT !.size = len]
             s == writei(disk[f], 0, len)
                  \o (IF len < disk[f].size THEN iupdate(cut) \o itest(cut) ELSE <<>>)
  <2>1. Open(f, disk[f], s) /\ len <= MaxSize  BY <1>2 DEF cmd_w
  <2>2. disk[f] \in Inodes /\ len \in Nat  BY InodesOnDisk
  <2>3. PlanHolds(disk[f], s)  BY <2>1, <2>2, PlanOf_w, Zenon
  <2> QED  BY <2>1, <2>3, OpensAsPlanned
<1>3. ASSUME NEW f \in Files, NEW pos \in 0 .. MaxSize, NEW len \in 0 .. B, cmd_i(f, pos, len)
      PROVE  Opens
  <2>1. disk[f] \in Inodes /\ disk[f].size \in Nat  BY InodesOnDisk, InodeFields
  <2>2. CASE pos >= disk[f].size
    <3>1. Open(f, disk[f], writei(disk[f], disk[f].size, len)) /\ disk[f].size + len <= MaxSize
      BY <1>3, <2>2 DEF cmd_i
    <3>2. PlanHolds(disk[f], writei(disk[f], disk[f].size, len))
      BY <2>1, <3>1, PlanOf_i
    <3> QED  BY <3>1, <3>2, OpensAsPlanned
  <2>3. CASE ~(pos >= disk[f].size)
    <3> DEFINE g == Grown(disk[f], pos, len)
               s == readi(disk[f], pos, disk[f].size - pos) \o writei(disk[f], pos, len)
                    \o writei(g, pos + len, g.size - pos)
    <3>1. Open(f, disk[f], s) /\ g.size + len <= MaxSize  BY <1>3, <2>3 DEF cmd_i
    <3>2. pos < disk[f].size  BY <2>1, <2>3
    <3>3. PlanHolds(disk[f], s)  BY <2>1, <3>1, <3>2, PlanOf_i
    <3> HIDE DEF s
    <3> QED  BY <3>1, <3>3, OpensAsPlanned
  <2> QED  BY <2>2, <2>3
<1>4. ASSUME NEW f \in Files, NEW pos \in 0 .. MAXUINT, NEW len \in 0 .. MAXUINT, cmd_d(f, pos, len)
      PROVE  Opens
  <2> DEFINE end == Wrapped(pos + len)
             copylen == disk[f].size - end
             g == Grown(disk[f], pos, copylen)
             z == Wrapped(g.size - len)
             cut == [g EXCEPT !.size = z]
             s == readi(disk[f], end, copylen) \o writei(disk[f], pos, copylen)
                  \o iupdate(cut) \o itest(cut)
             t == iupdate([disk[f] EXCEPT !.size = pos])
  <2>1. disk[f] \in Inodes /\ disk[f].size \in Nat  BY InodesOnDisk, InodeFields
  <2>2. pos \in Nat /\ len \in Nat /\ end \in Nat  BY DEF Wrapped
  <2>3. CASE end >= disk[f].size
    <3>1. Open(f, disk[f], t) /\ pos <= MaxSize  BY <1>4, <2>3 DEF cmd_d
    <3> HIDE DEF end
    <3>2. PlanHolds(disk[f], t)
      <4>1. 0 \in 0 .. MaxSize  OBVIOUS
      <4> QED  BY <2>1, <2>2, <3>1, <4>1, PlanOf_d, Zenon
    <3> HIDE DEF t
    <3> QED  BY <3>1, <3>2, OpensAsPlanned
  <2>4. CASE ~(end >= disk[f].size)
    <3>1. Open(f, disk[f], s) /\ g.size <= MaxSize /\ cut.size <= MaxSize
      BY <1>4, <2>4 DEF cmd_d
    <3>2. end < disk[f].size /\ copylen \in Nat  BY <2>1, <2>2, <2>4
    <3>3. g.size \in Int /\ cut.size = z
      <4>1. g = disk[f] \/ g = [disk[f] EXCEPT !.size = pos + copylen,
                 !.blocks = Larger(1 + (pos + copylen - 1) \div B, @)]
        BY DEF Grown
      <4> HIDE DEF copylen, z
      <4>2. DOMAIN g = DOMAIN disk[f] /\ (g.size = disk[f].size \/ g.size = pos + copylen)
        BY <2>1, <4>1 DEF Inodes
      <4> HIDE DEF g
      <4> QED  BY <2>1, <2>2, <3>2, <4>2 DEF Inodes
    <3>4. z \in 0 .. MaxSize
      <4> HIDE DEF g, cut
      <4>1. z \in Nat  BY <3>3 DEF Wrapped
      <4> HIDE DEF z
      <4> QED  BY <3>1, <3>3, <4>1
    <3> HIDE DEF z, end
    <3>5. PlanHolds(disk[f], s)  BY <2>1, <2>2, <3>1, <3>2, <3>4, PlanOf_d, Zenon
    <3> HIDE DEF s
    <3> QED  BY <3>1, <3>5, OpensAsPlanned
  <2> QED  BY <2>3, <2>4
<1>5. ASSUME NEW f \in Files, cmd_rm(f) PROVE Opens
  <2> DEFINE i == [disk[f] EXCEPT !.links = (@ + 65535) % 65536]
             s == (IF i.links = 0 THEN itrunc ELSE iupdate(i)) \o <<Job("unlink", 0, 0)>>
  <2>1. Open(f, i, s)  BY <1>5 DEF cmd_rm
  <2>2. f \in names  BY <2>1 DEF Open
  <2>3. disk[f] \in Inodes /\ disk[f].type = T_FILE  BY <2>2, InodesOnDisk
  <2>4. /\ i \in Inodes /\ i.type = T_FILE /\ i.addrs = disk[f].addrs
        /\ i.blocks = disk[f].blocks /\ i.size = disk[f].size
    <3>1. (disk[f].links + 65535) % 65536 \in UShort  BY <2>3, LinksWrap, InodeFields
    <3> DEFINE l == (disk[f].links + 65535) % 65536
    <3>2. i = [disk[f] EXCEPT !.links = l]  OBVIOUS
    <3> HIDE DEF i, l
    <3>3. l \in UShort  BY <3>1 DEF l
    <3> QED  BY <2>3, <3>2, <3>3 DEF Inodes
  <2>5. CASE i.links = 0
    <3> HIDE DEF i
    <3>1. s = itrunc \o <<Job("unlink", 0, 0)>>  BY <2>5
    <3> HIDE DEF s
    <3>2. s \in Seq(Jobs) /\ Ordered(s) /\ Sweeping(s) /\ \A S : Covered(S, s)
      BY <3>1, TruncPlan, Zenon
    <3>3. Planful(f, i, s)  BY <2>4, <3>2 DEF Planful
    <3> QED  BY <2>1, <2>2, <3>3 DEF Opens
  <2>6. CASE i.links # 0
    <3>1. s = iupdate(i) \o <<Job("unlink", 0, 0)>>  BY <2>6
    <3> HIDE DEF i
    <3>2. /\ s \in Seq(Jobs) /\ Ordered(s) /\ ~Frees(s)
          /\ \A S : 0 .. i.blocks - 1 \subseteq S => Covered(S, s)
      BY <2>4, <3>1, EntryPlan
    <3> HIDE DEF s
    <3>3. Planful(f, i, s)  BY <2>4, <3>2 DEF Planful
    <3> QED  BY <2>1, <2>2, <3>3 DEF Opens
  <2> QED  BY <2>5, <2>6
<1> QED  BY <1>1, <1>2, <1>3, <1>4, <1>5 DEF Commands

-----------------------------------------------------------------------------
(* The steps, with the commands that open a file taken together.           *)
LEMMA StepsAre ==
    ASSUME Types, [Next]_vars
    PROVE  \/ \E f \in Files : cmd_mk(f)
           \/ Opens
           \/ Mark \/ ZeroRoot \/ ZeroChild \/ LinkChild \/ Full
           \/ Put \/ Get \/ Recycle \/ FreeBlock \/ Update \/ Clear
           \/ Enter \/ Unlink
           \/ Finish \/ Crash
           \/ UNCHANGED vars
<1>1. CASE Commands  BY <1>1, CommandsOpen
<1>2. CASE ~Commands  BY <1>2 DEF Next, Commands
<1> QED  BY <1>1, <1>2

(* While there is something to do, a command is in progress.               *)
LEMMA Working ==
    ASSUME Types, todo # <<>>
    PROVE  /\ file \in Files /\ Head(todo) \in Jobs /\ Tail(todo) \in Seq(Jobs)
           /\ ip.type = T_FILE /\ disk[file] \in Inodes /\ disk[file].type = T_FILE
           /\ \A k \in 0 .. ND + 1 : disk[file].addrs[k] \in {0, ip.addrs[k]}
<1>1. file # None /\ file \in Files \cup {None} /\ todo \in Seq(Jobs)  BY DEF Types, TypeOK
<1>2. file \in Files  BY <1>1
<1> QED  BY <1>1, <1>2, HeadTailProperties, InodesOnDisk DEF Types

LEMMA MappedPath ==
    ASSUME Types, Mapping
    PROVE  /\ todo # <<>> /\ Head(todo).k \in MapKinds
           /\ Head(todo).n \in 0 .. MAXFILEB - 1 /\ path \in Leaves /\ path \in Paths
<1>1. todo # <<>> /\ Head(todo).k \in MapKinds  BY DEF Mapping, Doing, MapKinds
<1>2. Head(todo).n \in 0 .. MAXFILEB - 1  BY <1>1, Working, JobFields
<1>3. path \in Leaves  BY <1>2, PathOfBlock DEF path
<1> QED  BY <1>1, <1>2, <1>3, PathsAreApart

(* Where there is a gap, the part of the path that is missing begins in    *)
(* one of three places.                                                    *)
LEMMA GapIs ==
    ASSUME Types, Gap
    PROVE  \/ \E k \in 0 .. ND + 1 : MissingRoot(k)
           \/ \E k \in {ND, ND + 1}, w \in Words : MissingBelow(<<k>>, w, <<k, w>>)
           \/ \E u, w \in Words : MissingBelow(<<ND + 1, u>>, w, <<ND + 1, u, w>>)
<1>1. path \in Leaves /\ Resolve(ip, path) = 0  BY MappedPath DEF Gap
<1> QED  BY <1>1, MissingPart

LEMMA FreshIs ==
    ASSUME Types
    PROVE  \A b \in fresh : b \in 1 .. NB
BY BlockMapAssumption DEF Types, TypeOK, Blocks

LEMMA CellsAre ==
    ASSUME Types
    PROVE  /\ cells \in [Blocks -> [0 .. APB - 1 -> 0 .. Super]]
           /\ \A b : \A t \in 0 .. Super :
                  [cells EXCEPT ![b] = Filled(t)] \in [Blocks -> [0 .. APB - 1 -> 0 .. Super]]
           /\ \A x : \A w : \A b \in Blocks :
                  [cells EXCEPT ![x][w] = b] \in [Blocks -> [0 .. APB - 1 -> 0 .. Super]]
<1>1. cells \in [Blocks -> [0 .. APB - 1 -> 0 .. Super]]  BY DEF Types, TypeOK
<1>2. \A t \in 0 .. Super : Filled(t) \in [0 .. APB - 1 -> 0 .. Super]  BY DEF Filled
<1>3. Blocks \subseteq 0 .. Super  BY BlockMapAssumption DEF Blocks, Super
<1>4. ASSUME NEW b, NEW t \in 0 .. Super
      PROVE  [cells EXCEPT ![b] = Filled(t)] \in [Blocks -> [0 .. APB - 1 -> 0 .. Super]]
  BY <1>1, <1>2
<1>5. ASSUME NEW x, NEW w, NEW b \in Blocks
      PROVE  [cells EXCEPT ![x][w] = b] \in [Blocks -> [0 .. APB - 1 -> 0 .. Super]]
  <2>1. CASE x \in Blocks
    <3>1. [cells[x] EXCEPT ![w] = b] \in [0 .. APB - 1 -> 0 .. Super]  BY <1>1, <1>3, <2>1
    <3> QED  BY <1>1, <3>1
  <2>2. CASE x \notin Blocks
    <3>1. [cells EXCEPT ![x][w] = b] = cells  BY <1>1, <2>2
    <3> QED  BY <1>1, <3>1
  <2> QED  BY <2>1, <2>2
<1> QED  BY <1>1, <1>4, <1>5

LEMMA InodeWritten ==
    ASSUME Types, NEW f \in Files, NEW i \in Inodes, i.type = T_FILE
    PROVE  LET d == [disk EXCEPT ![f] = i]
           IN /\ d \in [Files -> Inodes] /\ d[f] = i
              /\ \A g \in Files : g # f => d[g] = disk[g]
              /\ names \subseteq {g \in Files : d[g].type = T_FILE}
              /\ \A g \in Files : d[g].type = 0 => d[g] = NoInode
<1>1. disk \in [Files -> Inodes] /\ names \subseteq {g \in Files : disk[g].type = T_FILE}
      /\ \A g \in Files : disk[g].type = 0 => disk[g] = NoInode
  BY DEF Types, TypeOK, Inodes
<1> QED  BY <1>1 DEF T_FILE

-----------------------------------------------------------------------------
(* At the start.                                                           *)
LEMMA NoInodeIs ==
    /\ NoInode \in Inodes /\ NoInode.type = 0 /\ NoInode.links = 0
    /\ NoInode.size = 0 /\ NoInode.blocks = 0
    /\ \A k \in 0 .. ND + 1 : NoInode.addrs[k] = 0
    /\ [NoInode EXCEPT !.type = T_FILE, !.links = 1] \in Inodes
    /\ [NoInode EXCEPT !.type = T_FILE] \in Inodes
    /\ \A l \in UShort : [NoInode EXCEPT !.type = T_FILE, !.links = l] \in Inodes
<1>1. 0 \in UShort /\ 1 \in UShort  BY DEF UShort
<1>2. 0 \in 0 .. MaxSize /\ 0 \in 0 .. MAXFILEB /\ 0 \in Blocks
  BY SizesAreNatural, BlockMapAssumption DEF Blocks
<1>3. [w \in 0 .. ND + 1 |-> 0] \in [0 .. ND + 1 -> Blocks]  BY <1>2
<1> QED  BY <1>1, <1>2, <1>3 DEF NoInode, Inodes, T_FILE

LEMMA NoInodeLeadsNowhere ==
    ASSUME NEW i, \A k \in 0 .. ND + 1 : i.addrs[k] = 0
    PROVE  \A p \in Paths : Resolve(i, p) = 0
<1> TAKE p \in Paths
<1>1. \A k \in 0 .. ND + 1 : i.addrs[k] \in {0, i.addrs[k]}  OBVIOUS
<1>2. Walk(cells, i.addrs, p) = IF i.addrs[p[1]] = 0 THEN 0 ELSE Walk(cells, i.addrs, p)
  BY <1>1, WalkPart
<1>3. p[1] \in 0 .. ND + 1
  BY PathsAreOfThreeKinds, BlockMapAssumption
<1> QED  BY <1>2, <1>3, ResolveWalks

(* What mk begins with.                                                    *)
MkPlan(s) == s \in Seq(Jobs) /\ Ordered(s) /\ ~Frees(s) /\ \A S : Covered(S, s)
MkStarts(f, i, l, s) ==
    /\ i \in Inodes /\ l \in Inodes
    /\ i.type = T_FILE /\ l.type = T_FILE /\ i.size = 0 /\ i.blocks = 0
    /\ i.addrs = NoInode.addrs /\ l.addrs = NoInode.addrs
    /\ file = None /\ todo = <<>> /\ disk[f] = NoInode /\ MkPlan(s)
    /\ disk' = [disk EXCEPT ![f] = i] /\ file' = f /\ ip' = l /\ todo' = s
    /\ UNCHANGED <<bits, cells, names, fresh, freed, hurt>>
LEMMA MkIs ==
    ASSUME Types, NEW f \in Files, cmd_mk(f)
    PROVE  \E i, l, s : MkStarts(f, i, l, s)
<1>1. PICK i \in Inodes : i = [NoInode EXCEPT !.type = T_FILE]  BY NoInodeIs
<1>2. PICK l \in Inodes : l = [NoInode EXCEPT !.type = T_FILE, !.links = 1]  BY NoInodeIs
<1>3. l = [i EXCEPT !.links = 1]  BY <1>1, <1>2
<1>4. i.type = T_FILE /\ i.size = 0 /\ i.blocks = 0 /\ i.addrs = NoInode.addrs
  BY <1>1 DEF NoInode
<1>5. l.type = T_FILE /\ l.addrs = NoInode.addrs
  BY <1>2 DEF NoInode
<1>6. PICK s : s = iupdate(i) \o <<Job("enter", 0, 0)>>  OBVIOUS
<1>7. MkPlan(s)
  <2>1. /\ s \in Seq(Jobs) /\ Ordered(s) /\ ~Frees(s)
        /\ \A S : 0 .. i.blocks - 1 \subseteq S => Covered(S, s)
    BY <1>4, <1>6, EntryPlan, Zenon
  <2>2. 0 .. i.blocks - 1 = {}  BY <1>4
  <2> QED  BY <2>1, <2>2 DEF MkPlan
<1>8. /\ file = None /\ disk[f].type = 0
      /\ disk' = [disk EXCEPT ![f] = i] /\ file' = f /\ ip' = l /\ todo' = s
      /\ UNCHANGED <<bits, cells, names, fresh, freed, hurt>>
  BY <1>1, <1>3, <1>6, Zenon DEF cmd_mk
<1>9. todo = <<>> /\ disk[f] = NoInode  BY <1>8 DEF Types, TypeOK
<1>10. MkStarts(f, i, l, s)  BY <1>4, <1>5, <1>7, <1>8, <1>9 DEF MkStarts
<1> QED  BY <1>4, <1>5, <1>10

LEMMA InitHolds == Init => IInv
<1> SUFFICES ASSUME Init PROVE IInv  OBVIOUS
<1> USE DEF Init
<1>1. Types
  <2>1. cells \in [Blocks -> [0 .. APB - 1 -> 0 .. Super]]
    BY BlockMapAssumption DEF Filled, Super
  <2>2. disk \in [Files -> Inodes] /\ ip \in Inodes  BY NoInodeIs
  <2>3. bits \subseteq Blocks /\ 0 \in bits  BY BlockMapAssumption DEF Blocks
  <2>4. TypeOK  BY <2>1, <2>2, <2>3 DEF TypeOK, Inodes
  <2>5. todo \in Seq(Jobs)  OBVIOUS
  <2>6. file \notin Files  BY BlockMapAssumption
  <2> QED  BY <2>2, <2>3, <2>4, <2>5, <2>6 DEF Types
<1>2. Meant  BY DEF Meant
<1>3. Planned  BY DEF Planned, Ordered, Closed
<1>4. \A f \in Files : \A p \in Paths : Ref(f, p) = 0
  <2>1. \A f \in Files : Now(f) = NoInode  BY DEF Now
  <2>2. \A p \in Paths : Resolve(NoInode, p) = 0  BY NoInodeIs, NoInodeLeadsNowhere
  <2> QED  BY <2>1, <2>2 DEF Ref
<1>5. Trunks  BY <1>4 DEF Trunks, Apart, FreshApart, Marked
<1>6. Filling
  <2>1. \A f \in Files : disk[f].size = 0 /\ disk[f].blocks = 0  BY NoInodeIs
  <2>2. 0 <= 0 * B /\ 0 .. 0 - 1 = {}  BY BlockMapAssumption
  <2>3. Covered({k \in 0 .. MAXFILEB - 1 : Resolve(ip, Path(k)) # 0}, todo)  BY DEF Covered
  <2> QED  BY <2>1, <2>2, <2>3 DEF Filling
<1>7. Accounted
  <2>1. file \notin Files  BY BlockMapAssumption
  <2> QED  BY <1>4, <2>1 DEF Accounted
<1> QED  BY <1>1, <1>2, <1>3, <1>5, <1>6, <1>7 DEF IInv

(* Types.                                                                  *)
LEMMA TypesStep ==
    ASSUME Types, Meant, [Next]_vars
    PROVE  Types'
<1>1. /\ bits \subseteq Blocks /\ 0 \in bits
      /\ cells \in [Blocks -> [0 .. APB - 1 -> 0 .. Super]]
      /\ disk \in [Files -> Inodes] /\ names \subseteq {f \in Files : disk[f].type = T_FILE}
      /\ \A f \in Files : disk[f].type = 0 => disk[f] = NoInode
      /\ file \in Files \cup {None} /\ fresh \subseteq Blocks \ {0}
      /\ file = None => ip = NoInode /\ todo = <<>> /\ fresh = {}
      /\ freed \in BOOLEAN /\ hurt \subseteq Harms /\ todo \in Seq(Jobs) /\ ip \in Inodes
  BY DEF Types, TypeOK, Inodes
<1> DEFINE Held2 ==
        file \in Files =>
            /\ ip.type = T_FILE /\ disk[file].type = T_FILE
            /\ \A k \in 0 .. ND + 1 : disk[file].addrs[k] \in {0, ip.addrs[k]}
<1>2. Held2  BY DEF Types
<1>3. ASSUME /\ bits' \subseteq Blocks /\ 0 \in bits'
             /\ cells' \in [Blocks -> [0 .. APB - 1 -> 0 .. Super]]
             /\ disk' \in [Files -> Inodes] /\ names' \subseteq {f \in Files : disk'[f].type = T_FILE}
             /\ \A f \in Files : disk'[f].type = 0 => disk'[f] = NoInode
             /\ file' \in Files \cup {None} /\ fresh' \subseteq Blocks \ {0}
             /\ file' = None => ip' = NoInode /\ todo' = <<>> /\ fresh' = {}
             /\ freed' \in BOOLEAN /\ hurt' \subseteq Harms /\ todo' \in Seq(Jobs) /\ ip' \in Inodes
             /\ Held2'
      PROVE  Types'
  BY <1>3 DEF Types, TypeOK, Inodes
<1> HIDE DEF Held2
<1> USE <1>1
<1>4. todo # <<>> => file \in Files /\ file # None /\ Tail(todo) \in Seq(Jobs)
  BY Working, BlockMapAssumption
<1>5. hurt \cup {"recycle"} \subseteq Harms /\ hurt \cup {"full"} \subseteq Harms
      /\ hurt \cup {"hole"} \subseteq Harms
  BY DEF Harms
<1>6. \A b \in fresh : b \in Blocks  OBVIOUS
<1>7. 0 \in 0 .. Super /\ Text \in 0 .. Super /\ Super \in 0 .. Super
  BY BlockMapAssumption DEF Super, Text
<1>8. ASSUME todo # <<>>, todo' = Tail(todo), UNCHANGED <<disk, names, file, ip, fresh, freed>>,
             bits' \subseteq Blocks, 0 \in bits', hurt' \subseteq Harms,
             cells' \in [Blocks -> [0 .. APB - 1 -> 0 .. Super]]
      PROVE  Types'
  <2>1. Held2'  BY <1>2, <1>8 DEF Held2
  <2> QED  BY <1>3, <1>4, <1>8, <2>1
<1>9. ASSUME UNCHANGED <<disk, names, file, ip, todo, freed, hurt>>, file # None,
             bits' \subseteq Blocks, 0 \in bits', fresh' \subseteq Blocks \ {0},
             cells' \in [Blocks -> [0 .. APB - 1 -> 0 .. Super]]
      PROVE  Types'
  <2>1. Held2'  BY <1>2, <1>9 DEF Held2
  <2> QED  BY <1>3, <1>9, <2>1
<1>10. ASSUME todo # <<>>, todo' = Tail(todo), UNCHANGED <<bits, cells, file, fresh>>,
              ip' \in Inodes, ip'.type = T_FILE, disk' = [disk EXCEPT ![file] = ip'],
              names' \subseteq names, freed' \in BOOLEAN, hurt' \subseteq Harms
       PROVE  Types'
  <2>1. file \in Files /\ file # None  BY <1>4, <1>10
  <2> PICK i \in Inodes : i = ip'  BY <1>10
  <2>2. i.type = T_FILE /\ disk' = [disk EXCEPT ![file] = i]  BY <1>10
  <2>3. /\ disk' \in [Files -> Inodes] /\ disk'[file] = i
        /\ names \subseteq {g \in Files : disk'[g].type = T_FILE}
        /\ \A g \in Files : disk'[g].type = 0 => disk'[g] = NoInode
    BY <2>1, <2>2, InodeWritten
  <2>4. Held2'  BY <1>10, <2>2, <2>3 DEF Held2
  <2> QED  BY <1>3, <1>4, <1>10, <2>1, <2>3, <2>4
<1>11. ASSUME UNCHANGED <<bits, cells, disk, names, file, ip, todo, fresh, freed, hurt>>
       PROVE  Types'
  <2>1. Held2'  BY <1>2, <1>11 DEF Held2
  <2> QED  BY <1>3, <1>11, <2>1
<1>12. ASSUME NEW f \in Files, cmd_mk(f) PROVE Types'
  <2> PICK i, l, s : MkStarts(f, i, l, s)  BY <1>12, MkIs
  <2> USE DEF MkStarts
  <2>1. /\ disk' \in [Files -> Inodes] /\ disk'[f] = i
        /\ names \subseteq {g \in Files : disk'[g].type = T_FILE}
        /\ \A g \in Files : disk'[g].type = 0 => disk'[g] = NoInode
    BY InodeWritten, ZenonT(60)
  <2>2. Held2'  BY <2>1 DEF Held2
  <2>3. todo' \in Seq(Jobs) /\ file' # None  BY BlockMapAssumption DEF MkPlan
  <2> QED  BY <1>3, <2>1, <2>2, <2>3
<1>13. CASE Opens
  <2> PICK f, i, s : f \in names /\ Open(f, i, s) /\ Planful(f, i, s)  BY <1>13 DEF Opens
  <2>1. /\ file' = f /\ ip' = i /\ todo' = s /\ f \in Files /\ disk[f].type = T_FILE
        /\ UNCHANGED <<bits, cells, disk, names, fresh, freed, hurt>>
    BY DEF Open
  <2>2. i \in Inodes /\ i.type = T_FILE /\ i.addrs = disk[f].addrs /\ s \in Seq(Jobs)
    BY DEF Planful
  <2>3. f # None  BY <2>1, BlockMapAssumption
  <2>4. Held2'  BY <2>1, <2>2 DEF Held2
  <2> QED  BY <1>3, <2>1, <2>2, <2>3, <2>4
<1>14. CASE Mark
  <2>1. todo # <<>>  BY <1>14 DEF Mark, Gap, Mapping, Doing
  <2> PICK b \in Free : bits' = bits \cup {b} /\ fresh' = {b}  BY <1>14 DEF Mark
  <2>2. b \in Blocks /\ b # 0  BY DEF Free
  <2> QED  BY <1>4, <1>9, <1>14, <2>1, <2>2 DEF Mark
<1>15. CASE ZeroRoot
  <2>1. todo # <<>> /\ Gap  BY <1>15 DEF ZeroRoot, Gap, Mapping, Doing
  <2>2. PICK k \in 0 .. ND + 1 : missing = <<k>> /\ ip.addrs[k] = 0
    <3>1. Len(missing) = 1  BY <1>15 DEF ZeroRoot
    <3>2. PICK k \in 0 .. ND + 1 : MissingRoot(k)  BY <2>1, <3>1, GapIs DEF MissingBelow
    <3> QED  BY <3>2 DEF MissingRoot
  <2>3. PICK b \in fresh : cells' = [cells EXCEPT ![b] = Filled(0)]
                           /\ ip' = [ip EXCEPT !.addrs[k] = b]
    BY <1>15, <2>2 DEF ZeroRoot
  <2>4. UNCHANGED <<bits, disk, names, file, todo, freed, hurt>> /\ fresh' = {}
    BY <1>15 DEF ZeroRoot
  <2>5. cells' \in [Blocks -> [0 .. APB - 1 -> 0 .. Super]]  BY <1>7, <2>3, CellsAre
  <2>6. ip' \in Inodes /\ ip'.type = ip.type
    <3>1. ip.addrs \in [0 .. ND + 1 -> Blocks] /\ b \in Blocks  BY InodeFields
    <3>2. [ip.addrs EXCEPT ![k] = b] \in [0 .. ND + 1 -> Blocks]  BY <3>1
    <3> QED  BY <2>3, <3>2 DEF Inodes
  <2>7. \A j \in 0 .. ND + 1 : j # k => ip'.addrs[j] = ip.addrs[j]
    BY <2>3 DEF Inodes
  <2>8. Held2'  BY <1>2, <2>2, <2>4, <2>6, <2>7 DEF Held2
  <2> QED  BY <1>3, <1>4, <2>1, <2>4, <2>5, <2>6, <2>8
<1>16. CASE ZeroChild
  <2>1. todo # <<>>  BY <1>16 DEF ZeroChild, Gap, Mapping, Doing
  <2>2. cells' \in [Blocks -> [0 .. APB - 1 -> 0 .. Super]]
    <3> PICK b \in fresh : cells' = [cells EXCEPT ![b] = Filled(0)]
      BY <1>16 DEF ZeroChild
    <3> QED  BY <1>7, CellsAre
  <2> QED  BY <1>4, <1>9, <1>16, <2>1, <2>2 DEF ZeroChild
<1>17. CASE LinkChild
  <2>1. todo # <<>>  BY <1>17 DEF LinkChild, Gap, Mapping, Doing
  <2>2. cells' \in [Blocks -> [0 .. APB - 1 -> 0 .. Super]]
    <3> PICK b \in fresh : cells' = [cells EXCEPT ![Resolve(ip, Front(missing))][Last(missing)] = b]
      BY <1>17 DEF LinkChild
    <3>1. \E x, w : cells' = [cells EXCEPT ![x][w] = b]  OBVIOUS
    <3> QED  BY <1>6, <3>1, CellsAre
  <2> QED  BY <1>4, <1>9, <1>17, <2>1, <2>2 DEF LinkChild
<1>18. CASE Full
  <2>1. todo # <<>>  BY <1>18 DEF Full, Gap, Mapping, Doing
  <2>2. cells' \in [Blocks -> [0 .. APB - 1 -> 0 .. Super]]
    BY <1>7, <1>18, CellsAre DEF Full
  <2> QED  BY <1>5, <1>8, <1>18, <2>1, <2>2 DEF Full
<1>19. CASE Put
  <2>1. cells' \in [Blocks -> [0 .. APB - 1 -> 0 .. Super]]
    BY <1>7, <1>19, CellsAre DEF Put
  <2> QED  BY <1>8, <1>19, <2>1 DEF Put, Doing
<1>20. CASE Get  BY <1>8, <1>20 DEF Get, Doing
<1>21. CASE Recycle  BY <1>5, <1>8, <1>21 DEF Recycle, Doing
<1>22. CASE FreeBlock
  <2>1. todo # <<>> /\ bits' \subseteq Blocks /\ 0 \in bits' /\ freed' \in BOOLEAN
    BY <1>22 DEF FreeBlock, Doing
  <2>2. Held2'  BY <1>2, <1>22 DEF Held2, FreeBlock
  <2> QED  BY <1>3, <1>4, <1>22, <2>1, <2>2 DEF FreeBlock
<1>23. CASE Update
  <2>1. todo # <<>> /\ Head(todo).k = "iupdate" /\ Head(todo) \in Jobs
    BY <1>23, Working DEF Update, Doing
  <2>2. Head(todo).n \in 0 .. MaxSize /\ Head(todo).m \in 0 .. MAXFILEB  BY <2>1, JobFields
  <2>3. ip' = [ip EXCEPT !.size = Head(todo).n, !.blocks = Head(todo).m]
    BY <1>23 DEF Update
  <2>4. ip' \in Inodes /\ ip'.type = ip.type
    <3> PICK n \in 0 .. MaxSize, m \in 0 .. MAXFILEB : n = Head(todo).n /\ m = Head(todo).m
      BY <2>2
    <3>1. ip' = [ip EXCEPT !.size = n, !.blocks = m]  BY <2>3
    <3>2. ip \in Inodes  OBVIOUS
    <3> HIDE <1>1
    <3> QED  BY <3>1, <3>2 DEF Inodes
  <2>5. ip.type = T_FILE  BY <2>1, Working
  <2>6. disk' = [disk EXCEPT ![file] = ip'] /\ hurt' \subseteq Harms /\ todo' = Tail(todo)
        /\ UNCHANGED <<bits, cells, names, file, fresh, freed>>
    BY <1>5, <1>23 DEF Update
  <2> QED  BY <1>10, <2>1, <2>4, <2>5, <2>6
<1>24. CASE Clear
  <2>1. todo # <<>>  BY <1>24 DEF Clear, Doing
  <2>2. ip' = [NoInode EXCEPT !.type = T_FILE, !.links = ip.links]  BY <1>24 DEF Clear
  <2>3. ip.links \in UShort  BY InodeFields
  <2>4. ip' \in Inodes /\ ip'.type = T_FILE
    BY <2>2, <2>3, NoInodeIs DEF NoInode
  <2> QED  BY <1>10, <1>24, <2>1, <2>4 DEF Clear
<1>25. CASE Unlink \/ Enter
  <2>1. todo # <<>> /\ names' \subseteq names \cup {file}
    BY <1>25 DEF Unlink, Enter, Doing
  <2>2. Held2'  BY <1>2, <1>25 DEF Held2, Unlink, Enter
  <2>3. names' \subseteq {f \in Files : disk[f].type = T_FILE}  BY <1>1, <2>1, Working
  <2> QED  BY <1>3, <1>4, <1>25, <2>1, <2>2, <2>3 DEF Unlink, Enter
<1>26. CASE Finish
  <2>1. cells' \in [Blocks -> [0 .. APB - 1 -> 0 .. Super]]
    BY <1>7, <1>26, CellsAre DEF Finish
  <2>2. Held2'  BY <1>26, BlockMapAssumption DEF Held2, Finish
  <2>3. ~Gap  BY <1>26 DEF Finish, Gap, Mapping, Doing
  <2>4. fresh = {}  BY <2>3 DEF Meant
  <2> QED  BY <1>3, <1>26, <2>1, <2>2, <2>4, NoInodeIs DEF Finish
<1>27. CASE Crash
  <2>1. Held2'  BY <1>27, BlockMapAssumption DEF Held2, Crash
  <2>2. hurt' \subseteq Harms
    <3>1. CASE freed
      <4>1. hurt' = hurt \cup {"crash"} \cup {"torn"}  BY <1>27, <3>1 DEF Crash
      <4> QED  BY <4>1 DEF Harms
    <3>2. CASE ~freed
      <4>1. hurt' = hurt \cup {"crash"} \cup {}  BY <1>27, <3>2 DEF Crash
      <4> QED  BY <4>1 DEF Harms
    <3> QED  BY <3>1, <3>2
  <2>3. ip' = NoInode /\ todo' = <<>> /\ fresh' = {} /\ freed' = FALSE /\ file' = None
        /\ UNCHANGED <<bits, cells, disk, names>>
    BY <1>27 DEF Crash
  <2>4. <<>> \in Seq(Jobs)  BY EmptySeq
  <2>5. NoInode \in Inodes  BY NoInodeIs, Zenon
  <2>6. todo' \in Seq(Jobs) /\ ip' \in Inodes  BY <2>3, <2>4, <2>5
  <2> QED  BY <1>3, <2>1, <2>2, <2>3, <2>6
<1>28. CASE UNCHANGED vars  BY <1>11, <1>28 DEF vars
<1> QED
  BY <1>12, <1>13, <1>14, <1>15, <1>16, <1>17, <1>18, <1>19, <1>20, <1>21, <1>22, <1>23,
     <1>24, <1>25, <1>26, <1>27, <1>28, StepsAre

(* allocate_block's block keeps the gap it was taken for, until it fills   *)
(* it.                                                                     *)
LEMMA MeantStep ==
    ASSUME Types, Meant, [Next]_vars
    PROVE  Meant'
<1> USE DEF Meant
<1>1. fresh \subseteq bits /\ (\A b, c \in fresh : b = c) /\ (fresh # {} => Gap)
  OBVIOUS
<1>2. fresh' = {} => Meant'  OBVIOUS
<1>3. ASSUME file = None PROVE fresh = {}  BY <1>3 DEF Types, TypeOK
<1>4. ASSUME NEW f \in Files, cmd_mk(f) PROVE Meant'
  BY <1>2, <1>3, <1>4, MkIs DEF MkStarts
<1>5. CASE Opens  BY <1>2, <1>3, <1>5 DEF Opens, Open
<1>6. CASE Mark
  <2> PICK b \in Free : bits' = bits \cup {b} /\ fresh' = {b}  BY <1>6 DEF Mark
  <2>1. Gap /\ ip' = ip /\ todo' = todo /\ cells' = cells  BY <1>6 DEF Mark
  <2>2. Gap'  BY <2>1 DEF Gap, Mapping, Doing, path, Resolve, Follow
  <2> QED  BY <2>2
<1>7. CASE ZeroRoot  BY <1>2, <1>7 DEF ZeroRoot
<1>8. CASE ZeroChild
  <2>1. Gap /\ ip' = ip /\ todo' = todo /\ fresh' = fresh /\ bits' = bits
    BY <1>8 DEF ZeroChild
  <2> PICK b \in fresh : cells' = [cells EXCEPT ![b] = Filled(0)]  BY <1>8 DEF ZeroChild
  <2>2. path \in Paths  BY <2>1, MappedPath DEF Gap
  <2>3. Walk(cells, ip.addrs, path) = 0  BY <2>1, ResolveWalks DEF Gap
  <2>4. Walk([cells EXCEPT ![b] = Filled(0)], ip.addrs, path) = 0
    <3>1. cells \in [Blocks -> [0 .. APB - 1 -> 0 .. Super]]  BY CellsAre
    <3>2. \A c \in [Blocks -> [0 .. APB - 1 -> 0 .. Super]] : \A p \in Paths :
             Walk(c, ip.addrs, p) = 0 => Walk([c EXCEPT ![b] = Filled(0)], ip.addrs, p) = 0
      BY WalkZeroed
    <3> QED  BY <2>2, <2>3, <3>1, <3>2
  <2>5. Walk(cells', ip.addrs, path) = 0  BY <2>4
  <2>6. Resolve(ip, path)' = Walk(cells', ip'.addrs, path')
    BY DEF Resolve, Walk, Follow, Deref
  <2>7. path' = path  BY <2>1 DEF path
  <2>8. Resolve(ip, path)' = 0  BY <2>1, <2>5, <2>6, <2>7
  <2>9. Gap'  BY <2>1, <2>8 DEF Gap, Mapping, Doing
  <2> QED  BY <2>1, <2>9
<1>9. CASE LinkChild  BY <1>2, <1>9 DEF LinkChild
<1>10. CASE Full  BY <1>2, <1>10 DEF Full
<1>11. ASSUME ~Gap, fresh' = fresh PROVE Meant'  BY <1>2, <1>11
<1>12. CASE Put  BY <1>11, <1>12 DEF Put, Gap
<1>13. CASE Get  BY <1>11, <1>13 DEF Get, Gap
<1>14. CASE Recycle  BY <1>11, <1>14 DEF Recycle, Gap
<1>15. ASSUME todo = <<>> \/ Head(todo).k \notin MapKinds PROVE ~Gap
  BY <1>15 DEF Gap, Mapping, Doing, MapKinds
<1>16. CASE FreeBlock  BY <1>11, <1>15, <1>16 DEF FreeBlock, Doing, MapKinds
<1>17. CASE Update  BY <1>11, <1>15, <1>17 DEF Update, Doing, MapKinds
<1>18. CASE Clear  BY <1>11, <1>15, <1>18 DEF Clear, Doing, MapKinds
<1>19. CASE Unlink \/ Enter  BY <1>11, <1>15, <1>19 DEF Unlink, Enter, Doing, MapKinds
<1>20. CASE Finish  BY <1>11, <1>15, <1>20 DEF Finish
<1>21. CASE Crash  BY <1>2, <1>21 DEF Crash
<1>22. CASE UNCHANGED vars
  <2>1. Gap' = Gap  BY <1>22 DEF vars, Gap, Mapping, Doing, path, Resolve, Follow
  <2> QED  BY <1>22, <2>1 DEF vars
<1> QED
  BY <1>4, <1>5, <1>6, <1>7, <1>8, <1>9, <1>10, <1>12, <1>13, <1>14, <1>16, <1>17, <1>18,
     <1>19, <1>20, <1>21, <1>22, StepsAre

(* What is left of a plan is a plan.                                       *)
LEMMA PlannedStep ==
    ASSUME Types, Planned, [Next]_vars
    PROVE  Planned'
<1>1. todo \in Seq(Jobs) /\ Ordered(todo) /\ (freed => Frees(todo)) /\ freed \in BOOLEAN
  BY DEF Types, TypeOK, Planned, Freeing
<1>2. ASSUME Ordered(todo'), freed' => Frees(todo') PROVE Planned'
  BY <1>2 DEF Planned, Freeing
<1>3. ASSUME todo' = todo, freed' = freed PROVE Planned'  BY <1>1, <1>2, <1>3
<1>4. ASSUME todo # <<>>, todo' = Tail(todo), freed' = freed, Head(todo).k # "iclear"
      PROVE  Planned'
  <2>1. Ordered(Tail(todo)) /\ (Frees(Tail(todo)) <=> Frees(todo))  BY <1>1, <1>4, RestOrdered
  <2> QED  BY <1>1, <1>2, <1>4, <2>1
<1>5. ASSUME NEW f \in Files, cmd_mk(f) PROVE Planned'
  <2>1. PICK i, l, s : MkStarts(f, i, l, s)  BY <1>5, MkIs
  <2>2. ~freed  BY <1>1, <2>1 DEF MkStarts, Frees
  <2> QED  BY <1>2, <2>1, <2>2 DEF MkStarts, MkPlan
<1>6. CASE Opens
  <2> PICK f, i, s : f \in names /\ Open(f, i, s) /\ Planful(f, i, s)  BY <1>6 DEF Opens
  <2>1. Ordered(todo') /\ freed' = freed /\ file = None  BY DEF Open, Planful
  <2>2. todo = <<>>  BY <2>1 DEF Types, TypeOK
  <2>3. ~freed  BY <1>1, <2>2 DEF Frees
  <2> QED  BY <1>2, <2>1, <2>3
<1>7. CASE Mark  BY <1>3, <1>7 DEF Mark
<1>8. CASE ZeroRoot  BY <1>3, <1>8 DEF ZeroRoot
<1>9. CASE ZeroChild  BY <1>3, <1>9 DEF ZeroChild
<1>10. CASE LinkChild  BY <1>3, <1>10 DEF LinkChild
<1>11. CASE Full  BY <1>4, <1>11 DEF Full, Gap, Mapping, Doing
<1>12. CASE Put  BY <1>4, <1>12 DEF Put, Doing
<1>13. CASE Get  BY <1>4, <1>13 DEF Get, Doing
<1>14. CASE Recycle  BY <1>4, <1>14 DEF Recycle, Doing
<1>15. CASE FreeBlock
  <2>1. todo # <<>> /\ Head(todo).k = "free" /\ todo' = Tail(todo)
    BY <1>15 DEF FreeBlock, Doing
  <2>2. 1 \in DOMAIN todo /\ todo[1].k = "free"  BY <1>1, <2>1, Rest
  <2>3. Frees(todo)  BY <1>1, <2>2 DEF Ordered
  <2>4. Ordered(Tail(todo)) /\ Frees(Tail(todo))  BY <1>1, <2>1, <2>3, RestOrdered
  <2> QED  BY <1>2, <2>1, <2>4
<1>16. CASE Update  BY <1>4, <1>16 DEF Update, Doing
<1>17. CASE Clear
  <2>1. todo # <<>> /\ todo' = Tail(todo) /\ freed' = FALSE  BY <1>17 DEF Clear, Doing
  <2>2. Ordered(Tail(todo))  BY <1>1, <2>1, RestOrdered
  <2> QED  BY <1>2, <2>1, <2>2
<1>18. CASE Unlink \/ Enter  BY <1>4, <1>18 DEF Unlink, Enter, Doing
<1>19. CASE Finish  BY <1>3, <1>19 DEF Finish
<1>20. CASE Crash
  <2>1. todo' = <<>> /\ freed' = FALSE  BY <1>20 DEF Crash
  <2>2. Ordered(<<>>)  BY DEF Ordered, Closed
  <2> QED  BY <1>2, <2>1, <2>2
<1>21. CASE UNCHANGED vars  BY <1>3, <1>21 DEF vars
<1> QED
  BY <1>5, <1>6, <1>7, <1>8, <1>9, <1>10, <1>11, <1>12, <1>13, <1>14, <1>15, <1>16, <1>17,
     <1>18, <1>19, <1>20, <1>21, StepsAre

(* The superblock: the only block that is written at an address nobody     *)
(* looked up is block 0, when the disk is full.                            *)
LEMMA SuperblockStep ==
    ASSUME Types, SuperblockKept, [Next]_vars
    PROVE  SuperblockKept'
<1>1. /\ cells \in [Blocks -> [0 .. APB - 1 -> 0 .. Super]] /\ 0 \in Blocks
      /\ \A b \in fresh : b # 0
  BY FreshIs, CellsAre, BlockMapAssumption DEF Blocks
<1>2. ASSUME cells'[0] = cells[0], hurt \subseteq hurt', file # None => file' # None
      PROVE  SuperblockKept'
  BY <1>2 DEF SuperblockKept
<1>3. \A b : \A t : b # 0 => [cells EXCEPT ![b] = Filled(t)][0] = cells[0]
  BY <1>1
<1>4. \A x : \A w : \A b : x # 0 => [cells EXCEPT ![x][w] = b][0] = cells[0]
  BY <1>1
<1>5. todo # <<>> => file # None  BY DEF Types, TypeOK
<1>6. ASSUME NEW f \in Files, cmd_mk(f) PROVE SuperblockKept'
  BY <1>2, <1>6, MkIs DEF MkStarts
<1>7. CASE Opens
  <2>1. cells' = cells /\ cells[0] = Filled(Super)  BY <1>7 DEF Opens, Open, checkFmt
  <2> QED  BY <2>1 DEF SuperblockKept
<1>8. CASE Mark  BY <1>2, <1>8 DEF Mark
<1>9. CASE ZeroRoot
  <2> PICK b \in fresh : cells' = [cells EXCEPT ![b] = Filled(0)]  BY <1>9 DEF ZeroRoot
  <2>1. cells'[0] = cells[0]  BY <1>1, <1>3
  <2> QED  BY <1>2, <1>9, <2>1 DEF ZeroRoot
<1>10. CASE ZeroChild
  <2> PICK b \in fresh : cells' = [cells EXCEPT ![b] = Filled(0)]  BY <1>10 DEF ZeroChild
  <2>1. cells'[0] = cells[0]  BY <1>1, <1>3
  <2> QED  BY <1>2, <1>10, <2>1 DEF ZeroChild
<1>11. CASE LinkChild
  <2> PICK x, w : x = Resolve(ip, Front(missing)) /\ w = Last(missing)  OBVIOUS
  <2> PICK b : cells' = [cells EXCEPT ![x][w] = b]  BY <1>11 DEF LinkChild
  <2>1. Gap /\ Len(missing) > 1  BY <1>11 DEF LinkChild
  <2>2. x # 0
    <3>1. \A k : ~MissingRoot(k)  BY <2>1 DEF MissingRoot
    <3>2. \E q, w2, p : MissingBelow(q, w2, p)  BY <2>1, <3>1, GapIs
    <3> QED  BY <3>2 DEF MissingBelow
  <2>3. cells'[0] = cells[0]  BY <1>4, <2>2
  <2> QED  BY <1>2, <1>11, <2>3 DEF LinkChild
<1>12. CASE Full
  <2>1. "full" \in hurt' /\ file' = file /\ todo # <<>>
    BY <1>12 DEF Full, Gap, Mapping, Doing
  <2> QED  BY <1>5, <2>1 DEF SuperblockKept
<1>13. CASE Put
  <2> PICK b : b = Resolve(ip, path)  OBVIOUS
  <2>1. b # 0 /\ cells' = [cells EXCEPT ![b] = Filled(Text)]  BY <1>13 DEF Put
  <2>2. cells'[0] = cells[0]  BY <1>3, <2>1
  <2> QED  BY <1>2, <1>13, <2>2 DEF Put
<1>14. CASE Get  BY <1>2, <1>14 DEF Get
<1>15. CASE Recycle  BY <1>2, <1>15 DEF Recycle
<1>16. CASE FreeBlock  BY <1>2, <1>16 DEF FreeBlock
<1>17. CASE Update
  <2>1. cells' = cells /\ file' = file /\ hurt \subseteq hurt'  BY <1>17 DEF Update
  <2> QED  BY <1>2, <2>1
<1>18. CASE Clear  BY <1>2, <1>18 DEF Clear
<1>19. CASE Unlink \/ Enter  BY <1>2, <1>19 DEF Unlink, Enter
<1>20. CASE Finish
  <2>1. cells'[0] = Filled(Super)  BY <1>1, <1>20 DEF Finish
  <2> QED  BY <2>1 DEF SuperblockKept
<1>21. CASE Crash
  <2>1. cells' = cells /\ "crash" \in hurt' /\ hurt \subseteq hurt'  BY <1>21 DEF Crash
  <2> QED  BY <2>1 DEF SuperblockKept
<1>22. CASE UNCHANGED vars  BY <1>2, <1>22 DEF vars
<1> QED
  BY <1>6, <1>7, <1>8, <1>9, <1>10, <1>11, <1>12, <1>13, <1>14, <1>15, <1>16, <1>17, <1>18,
     <1>19, <1>20, <1>21, <1>22, StepsAre

-----------------------------------------------------------------------------
(* What each step does to the trees.                                       *)
LEMMA RefIs ==
    ASSUME NEW f, NEW p
    PROVE  /\ Ref(f, p) = Walk(cells, Now(f).addrs, p)
           /\ Ref(f, p)' = Walk(cells', (Now(f)').addrs, p)
BY DEF Ref, Now, Resolve, Walk, Follow, Deref

LEMMA DiskIs ==
    ASSUME NEW f, NEW p
    PROVE  /\ Resolve(disk[f], p) = Walk(cells, disk[f].addrs, p)
           /\ Resolve(disk[f], p)' = Walk(cells', (disk[f]').addrs, p)
BY DEF Resolve, Walk, Follow, Deref

(* The blocks that change are no indirect blocks.                          *)
LEMMA RefsSame ==
    ASSUME NEW d,
           \A f \in Files : \A q \in Inner : Ref(f, q) \in 1 .. NB => d[Ref(f, q)] = cells[Ref(f, q)]
    PROVE  \A f \in Files : \A p \in Paths : Walk(d, Now(f).addrs, p) = Ref(f, p)
<1> TAKE f \in Files
<1>1. \A q \in Inner : Walk(cells, Now(f).addrs, q) \in 1 .. NB =>
          d[Walk(cells, Now(f).addrs, q)] = cells[Walk(cells, Now(f).addrs, q)]
  BY RefIs
<1>2. \A p \in Paths : Walk(d, Now(f).addrs, p) = Walk(cells, Now(f).addrs, p)
  BY <1>1, WalkSame
<1> QED  BY <1>2, RefIs

(* What is on disk of the tree that is in memory.                          *)
LEMMA DiskPart ==
    ASSUME Types, NEW f \in Files, NEW c
    PROVE  \A p \in Paths :
               Walk(c, disk[f].addrs, p) =
                   IF disk[f].addrs[p[1]] = 0 THEN 0 ELSE Walk(c, Now(f).addrs, p)
<1>1. \A k \in 0 .. ND + 1 : disk[f].addrs[k] \in {0, Now(f).addrs[k]}
  BY DEF Now, Types
<1> QED  BY <1>1, WalkPart

LEMMA TreesKept ==
    ASSUME Types, Apart, FreshApart,
           \/ \E f \in Files : cmd_mk(f)
           \/ Opens \/ Mark \/ ZeroChild \/ Full \/ Put \/ Get \/ Recycle \/ FreeBlock
           \/ Update \/ Enter \/ Unlink
    PROVE  \A f \in Files : \A p \in Paths : Ref(f, p)' = Ref(f, p)
<1> DEFINE Same == \A f \in Files : \A p \in Paths : Ref(f, p)' = Ref(f, p)
<1>1. ASSUME \A f \in Files : (Now(f)').addrs = Now(f).addrs,
             \A f \in Files : \A q \in Inner :
                 Ref(f, q) \in 1 .. NB => cells'[Ref(f, q)] = cells[Ref(f, q)]
      PROVE  Same
  <2> PICK d : d = cells'  OBVIOUS
  <2>1. \A f \in Files : \A p \in Paths : Walk(d, Now(f).addrs, p) = Ref(f, p)
    BY <1>1, RefsSame
  <2> QED  BY <1>1, <2>1, RefIs
<1>2. ASSUME cells' = cells, \A f \in Files : (Now(f)').addrs = Now(f).addrs PROVE Same
  BY <1>1, <1>2
<1>3. ASSUME file' = file, ip' = ip, disk' = disk
      PROVE  \A f \in Files : (Now(f)').addrs = Now(f).addrs
  BY <1>3 DEF Now
<1>4. ASSUME NEW f \in Files, cmd_mk(f) PROVE Same
  <2>1. PICK i, l, s : MkStarts(f, i, l, s)  BY <1>4, MkIs
  <2>2. disk \in [Files -> Inodes] /\ \A g \in Files : g # file
    BY <2>1, BlockMapAssumption DEF MkStarts, Types, TypeOK, Inodes
  <2>3. ASSUME NEW g \in Files PROVE (Now(g)').addrs = Now(g).addrs
    <3>1. CASE g = f  BY <2>1, <2>2, <3>1 DEF MkStarts, Now
    <3>2. CASE g # f  BY <2>1, <2>2, <3>2 DEF MkStarts, Now
    <3> QED  BY <3>1, <3>2
  <2> QED  BY <1>2, <2>1, <2>3 DEF MkStarts
<1>5. CASE Opens
  <2> PICK f, i, s : f \in names /\ Open(f, i, s) /\ Planful(f, i, s)  BY <1>5 DEF Opens
  <2>1. file = None /\ file' = f /\ ip' = i /\ disk' = disk /\ cells' = cells
        /\ i.addrs = disk[f].addrs
    BY DEF Open, Planful
  <2>2. \A g \in Files : (Now(g)').addrs = Now(g).addrs
    BY <2>1, BlockMapAssumption DEF Now
  <2> QED  BY <1>2, <2>1, <2>2
<1>6. CASE Mark  BY <1>2, <1>3, <1>6 DEF Mark
<1>7. CASE ZeroChild
  <2>1. file' = file /\ ip' = ip /\ disk' = disk  BY <1>7 DEF ZeroChild
  <2> PICK b \in fresh : cells' = [cells EXCEPT ![b] = Filled(0)]  BY <1>7 DEF ZeroChild
  <2>2. ASSUME NEW f \in Files, NEW q \in Inner, Ref(f, q) \in 1 .. NB
        PROVE  cells'[Ref(f, q)] = cells[Ref(f, q)]
    <3>1. Ref(f, q) # b  BY PathsAreApart DEF FreshApart
    <3>2. Ref(f, q) \in Blocks /\ DOMAIN cells = Blocks  BY <2>2, CellsAre DEF Blocks
    <3> QED  BY <3>1, <3>2
  <2> QED  BY <1>1, <1>3, <2>1, <2>2
<1>8. CASE Full
  <2>1. file' = file /\ ip' = ip /\ disk' = disk  BY <1>8 DEF Full
  <2>2. cells' = cells \/ cells' = [cells EXCEPT ![0] = Filled(Text)]  BY <1>8 DEF Full
  <2>3. \A x \in 1 .. NB : x \in Blocks /\ x # 0  BY DEF Blocks
  <2>4. \A x \in 1 .. NB : cells'[x] = cells[x]  BY <2>2, <2>3, CellsAre
  <2> QED  BY <1>1, <1>3, <2>1, <2>4
<1>9. CASE Put
  <2> PICK x : x = Resolve(ip, path)  OBVIOUS
  <2>1. file' = file /\ ip' = ip /\ disk' = disk /\ x # 0 /\ Mapping
        /\ cells' = [cells EXCEPT ![x] = Filled(Text)]
    BY <1>9 DEF Put, Mapping
  <2>2. todo # <<>> /\ path \in Leaves  BY <2>1, MappedPath
  <2>3. file \in Files /\ path \in Paths  BY <2>2, Working, PathsAreApart
  <2>4. Ref(file, path) = x  BY DEF Ref, Now
  <2>5. ASSUME NEW f \in Files, NEW q \in Inner, Ref(f, q) \in 1 .. NB
        PROVE  cells'[Ref(f, q)] = cells[Ref(f, q)]
    <3>1. q \in Paths /\ q # path  BY <2>2, PathsAreApart
    <3>2. Ref(f, q) # x  BY <2>1, <2>3, <2>4, <3>1 DEF Apart
    <3>3. Ref(f, q) \in Blocks /\ DOMAIN cells = Blocks  BY <2>5, CellsAre DEF Blocks
    <3> QED  BY <2>1, <3>2, <3>3
  <2> QED  BY <1>1, <1>3, <2>1, <2>5
<1>10. CASE Get  BY <1>2, <1>3, <1>10 DEF Get
<1>11. CASE Recycle  BY <1>2, <1>3, <1>11 DEF Recycle
<1>12. CASE FreeBlock  BY <1>2, <1>3, <1>12 DEF FreeBlock
<1>13. CASE Update
  <2>1. file' = file /\ cells' = cells /\ disk' = [disk EXCEPT ![file] = ip']
        /\ ip' = [ip EXCEPT !.size = Head(todo).n, !.blocks = Head(todo).m]
    BY <1>13 DEF Update
  <2>2. (ip').addrs = ip.addrs  BY <2>1 DEF Types, Inodes
  <2>3. \A g \in Files : g # file => disk'[g] = disk[g]  BY <2>1 DEF Types, TypeOK
  <2>4. \A g \in Files : (Now(g)').addrs = Now(g).addrs  BY <2>1, <2>2, <2>3 DEF Now
  <2> QED  BY <1>2, <2>1, <2>4
<1>14. CASE Unlink \/ Enter  BY <1>2, <1>3, <1>14 DEF Unlink, Enter
<1> QED
  BY <1>4, <1>5, <1>6, <1>7, <1>8, <1>9, <1>10, <1>11, <1>12, <1>13, <1>14

LEMMA TreeGone ==
    ASSUME Types, Clear
    PROVE  \A f \in Files : \A p \in Paths : Ref(f, p)' = IF f = file THEN 0 ELSE Ref(f, p)
<1>1. /\ file' = file /\ cells' = cells
      /\ ip' = [NoInode EXCEPT !.type = T_FILE, !.links = ip.links]
      /\ disk' = [disk EXCEPT ![file] = ip']
  BY DEF Clear
<1> PICK i : i = ip'  OBVIOUS
<1>2. \A k \in 0 .. ND + 1 : i.addrs[k] = 0  BY <1>1 DEF NoInode
<1>3. \A p \in Paths : \A k \in 0 .. ND + 1 : i.addrs[k] \in {0, i.addrs[k]}  OBVIOUS
<1>4. \A p \in Paths : p[1] \in 0 .. ND + 1  BY PathsAreOfThreeKinds, BlockMapAssumption
<1>5. \A p \in Paths : Walk(cells, i.addrs, p) = 0
  BY <1>2, NoInodeLeadsNowhere, ResolveWalks
<1> TAKE f \in Files
<1> TAKE p \in Paths
<1>6. CASE f = file
  <2>1. Now(f)' = i  BY <1>1, <1>6 DEF Now
  <2>2. Ref(f, p)' = 0  BY <1>1, <1>5, <2>1, RefIs
  <2> QED  BY <1>6, <2>2
<1>7. CASE f # file
  <2>1. Now(f)' = Now(f)  BY <1>1, <1>7 DEF Now, Types, TypeOK
  <2>2. Ref(f, p)' = Ref(f, p)  BY <1>1, <2>1, RefIs
  <2> QED  BY <1>7, <2>2
<1> QED  BY <1>6, <1>7

(* When the command is over, in one way or another, what is on disk of     *)
(* its tree is what is left of it.                                         *)
LEMMA TreesLeft ==
    ASSUME Types, Finish \/ Crash
    PROVE  /\ \A f \in Files : \A p \in Paths :
                  Ref(f, p)' \in {0, Ref(f, p)} /\ (f # file => Ref(f, p)' = Ref(f, p))
           /\ file \in Files /\ ip.addrs = disk[file].addrs =>
                  \A f \in Files : \A p \in Paths : Ref(f, p)' = Ref(f, p)
<1>1. file' = None /\ disk' = disk /\ (cells' = cells \/ cells' = [cells EXCEPT ![0] = Filled(Super)])
  BY DEF Finish, Crash
<1>2. \A x \in 1 .. NB : x \in Blocks /\ x # 0  BY DEF Blocks
<1>3. \A x \in 1 .. NB : cells'[x] = cells[x]  BY <1>1, <1>2, CellsAre
<1> PICK d : d = cells'  OBVIOUS
<1>4. \A f \in Files : \A p \in Paths : Walk(d, Now(f).addrs, p) = Ref(f, p)
  BY <1>3, RefsSame
<1>5. \A f \in Files : Now(f)' = disk[f]  BY <1>1, BlockMapAssumption DEF Now
<1>6. \A f \in Files : \A p \in Paths : Ref(f, p)' = Walk(d, disk[f].addrs, p)
  BY <1>1, <1>5, RefIs
<1>7. \A f \in Files : \A p \in Paths : Walk(d, disk[f].addrs, p) \in {0, Walk(d, Now(f).addrs, p)}
  BY DiskPart
<1>8. \A f \in Files : f # file => disk[f] = Now(f)  BY DEF Now
<1>9. ASSUME file \in Files, ip.addrs = disk[file].addrs, NEW f \in Files, NEW p \in Paths
      PROVE  Ref(f, p)' = Ref(f, p)
  <2>1. Now(f).addrs = disk[f].addrs  BY <1>9 DEF Now
  <2> QED  BY <1>4, <1>6, <2>1
<1> QED  BY <1>4, <1>6, <1>7, <1>8, <1>9

LEMMA TreeGrows ==
    ASSUME Types, Trunks, ~freed, ZeroRoot \/ LinkChild
    PROVE  \E b \in fresh, m \in Paths :
               /\ Ref(file, m) = 0
               /\ \A f \in Files : \A p \in Paths :
                      Ref(f, p)' = IF f = file /\ p = m THEN b ELSE Ref(f, p)
<1> PICK h : h = file  OBVIOUS
<1> DEFINE Grows(b, m) ==
        /\ Ref(h, m) = 0
        /\ \A f \in Files : \A p \in Paths :
               Ref(f, p)' = IF f = h /\ p = m THEN b ELSE Ref(f, p)
<1> SUFFICES \E b \in fresh, m \in Paths : Grows(b, m)  OBVIOUS
<1> HIDE DEF Grows
<1>1. Gap /\ todo # <<>>  BY DEF ZeroRoot, LinkChild, Gap, Mapping, Doing
<1>2. h \in Files /\ Now(h) = ip  BY <1>1, Working DEF Now
<1>3. \A p : Ref(h, p) = Resolve(ip, p) /\ Ref(h, p) = Walk(cells, ip.addrs, p)
  BY <1>2, RefIs DEF Ref
<1>4. /\ \A f \in Files : \A q \in Inner : \A b \in fresh : Ref(f, q) # b
      /\ \A b \in fresh : b \in 1 .. NB
  BY PathsAreApart, FreshIs DEF Trunks, FreshApart
<1>5. /\ \A f \in Files : f # h => Now(f)' = Now(f)
      /\ Now(h)' = ip'
  BY DEF ZeroRoot, LinkChild, Now
<1>6. cells \in [Blocks -> [0 .. APB - 1 -> 0 .. Super]] /\ (\A x \in 1 .. NB : x \in Blocks)
  BY CellsAre DEF Blocks
<1>7. CASE ZeroRoot
  <2>1. Len(missing) = 1  BY <1>7 DEF ZeroRoot
  <2>2. \A q, w, p : ~MissingBelow(q, w, p)  BY <2>1 DEF MissingBelow
  <2>3. PICK k \in 0 .. ND + 1 : MissingRoot(k)  BY <1>1, <2>2, GapIs
  <2>4. missing[1] = k /\ ip.addrs[k] = 0  BY <2>3 DEF MissingRoot
  <2>5. PICK b \in fresh : /\ cells' = [cells EXCEPT ![b] = Filled(0)]
                           /\ ip' = [ip EXCEPT !.addrs[k] = b]
    BY <1>7, <2>4 DEF ZeroRoot
  <2> PICK d : d = [cells EXCEPT ![b] = Filled(0)]  OBVIOUS
  <2>6. d[b] = Filled(0) /\ \A x \in 1 .. NB : x # b => d[x] = cells[x]
    BY <1>4, <1>6
  <2>7. \A f \in Files : \A p \in Paths : Walk(d, Now(f).addrs, p) = Ref(f, p)
    BY <1>4, <2>6, RefsSame
  <2>8. DOMAIN ip.addrs = 0 .. ND + 1 /\ (ip').addrs = [ip.addrs EXCEPT ![k] = b]
    BY <2>5 DEF Types, Inodes
  <2>9. \A p \in Paths : Walk(d, [ip.addrs EXCEPT ![k] = b], p) =
                             IF p = <<k>> THEN b ELSE Walk(d, ip.addrs, p)
    <3> PICK a : a = ip.addrs  OBVIOUS
    <3>1. DOMAIN a = 0 .. ND + 1 /\ a[k] = 0 /\ b \in 1 .. NB  BY <1>4, <2>4, <2>8
    <3>2. \A c : c[b] = Filled(0) =>
              \A p \in Paths : Walk(c, [a EXCEPT ![k] = b], p) =
                                     IF p = <<k>> THEN b ELSE Walk(c, a, p)
      BY <3>1, WalkRooted
    <3> QED  BY <2>6, <3>2
  <2>10. \A p \in Paths : Ref(h, p)' = IF p = <<k>> THEN b ELSE Ref(h, p)
    <3> TAKE p \in Paths
    <3>1. Ref(h, p)' = Walk(d, [ip.addrs EXCEPT ![k] = b], p)
      <4>1. cells' = d /\ (Now(h)').addrs = (ip').addrs  BY <1>5, <2>5
      <4>2. Ref(h, p)' = Walk(d, (ip').addrs, p)  BY <4>1, RefIs
      <4> QED  BY <2>8, <4>2
    <3>2. Ref(h, p) = Walk(d, ip.addrs, p)  BY <1>2, <2>7
    <3> QED  BY <2>9, <3>1, <3>2
  <2>11. \A f \in Files : f # h => \A p \in Paths : Ref(f, p)' = Ref(f, p)
    BY <1>5, <2>5, <2>7, RefIs, ZenonT(60)
  <2>12. Ref(h, <<k>>) = 0  BY <1>3, <2>4, WalkOne
  <2>13. <<k>> \in Paths  BY DEF Paths
  <2>14. Grows(b, <<k>>)  BY <2>10, <2>11, <2>12 DEF Grows
  <2> QED  BY <2>13, <2>14 DEF Grows
<1>8. ASSUME LinkChild, NEW q \in Inner, NEW w \in Words, NEW m \in Paths, MissingBelow(q, w, m),
             \A b \in fresh : \A x \in 1 .. NB :
                 /\ Walk(cells, ip.addrs, q) = x /\ cells[b] = Filled(0) /\ b # x
                 /\ OnlyAt(cells, ip.addrs, x, q) /\ Nowhere(cells, ip.addrs, b)
                 => OneMore(cells, [cells EXCEPT ![x][w] = b], ip.addrs, m, b)
      PROVE  \E b \in fresh : Grows(b, m)
  <2>1. q \in Paths  BY PathsAreApart
  <2>2. PICK x : x = Resolve(ip, q)  OBVIOUS
  <2>3. x # 0 /\ Resolve(ip, m) = 0 /\ Front(missing) = q /\ Last(missing) = w
    BY <1>8, <2>2 DEF MissingBelow
  <2>4. PICK b \in fresh : cells[b] = Filled(0) /\ cells' = [cells EXCEPT ![x][w] = b]
    BY <1>8, <2>2, <2>3 DEF LinkChild
  <2>5. x \in 1 .. NB
    <3>1. Ref(h, q) = x  BY <1>3, <2>2
    <3>2. x \in bits  BY <1>2, <2>1, <2>3, <3>1 DEF Trunks, Marked
    <3> QED  BY <2>3, <3>2, BlockMapAssumption DEF Types, TypeOK, Blocks
  <2>6. b # x  BY <1>2, <1>3, <1>4, <2>2
  <2>7. \A r \in Inner : Walk(cells, ip.addrs, r) = x => r = q
    <3>1. \A r \in Inner : Ref(h, r) = x => r = q
      BY <1>2, <1>3, <2>1, <2>2, <2>3, PathsAreApart DEF Trunks, Apart
    <3> QED  BY <1>3, <3>1
  <2>8. \A r \in Inner : Walk(cells, ip.addrs, r) # b  BY <1>2, <1>3, <1>4
  <2>9. \A p \in Paths : Walk(cells', ip.addrs, p) = IF p = m THEN b ELSE Walk(cells, ip.addrs, p)
    <3> DEFINE d == [cells EXCEPT ![x][w] = b]
    <3>1. Walk(cells, ip.addrs, q) = x  BY <1>3, <2>2
    <3>2. OnlyAt(cells, ip.addrs, x, q) /\ Nowhere(cells, ip.addrs, b)
      BY <2>7, <2>8 DEF OnlyAt, Nowhere
    <3>3. OneMore(cells, d, ip.addrs, m, b)
      BY <1>8, <2>4, <2>5, <2>6, <3>1, <3>2, Zenon
    <3>4. cells' = d  BY <2>4
    <3> HIDE DEF d
    <3> QED  BY <3>3, <3>4 DEF OneMore
  <2>10. ip' = ip  BY <1>8 DEF LinkChild
  <2>11. \A p \in Paths : Ref(h, p)' = IF p = m THEN b ELSE Ref(h, p)
    BY <1>3, <1>5, <2>9, <2>10, RefIs
  <2>12. \A y \in 1 .. NB : y # x => cells'[y] = cells[y]  BY <1>6, <2>4
  <2>13. ASSUME NEW f \in Files, f # h PROVE \A p \in Paths : Ref(f, p)' = Ref(f, p)
    <3> PICK d : d = cells'  OBVIOUS
    <3>1. \A r \in Inner : Ref(f, r) # x
      BY <1>2, <1>3, <2>1, <2>2, <2>3, <2>13, PathsAreApart DEF Trunks, Apart
    <3>2. \A r \in Inner : Walk(cells, Now(f).addrs, r) \in 1 .. NB =>
              d[Walk(cells, Now(f).addrs, r)] = cells[Walk(cells, Now(f).addrs, r)]
      BY <2>12, <3>1, RefIs
    <3>3. \A p \in Paths : Walk(d, Now(f).addrs, p) = Walk(cells, Now(f).addrs, p)
      BY <3>2, WalkSame
    <3> QED  BY <1>5, <2>13, <3>3, RefIs
  <2>14. Ref(h, m) = 0  BY <1>3, <2>3
  <2> QED  BY <2>11, <2>13, <2>14 DEF Grows
<1>9. CASE LinkChild
  <2>1. Len(missing) > 1  BY <1>9 DEF LinkChild
  <2>2. ASSUME NEW k, MissingRoot(k) PROVE FALSE
    <3>1. Len(missing) = 1  BY <2>2 DEF MissingRoot
    <3> QED  BY <2>1, <3>1
  <2>3. CASE \E k \in {ND, ND + 1}, w \in Words : MissingBelow(<<k>>, w, <<k, w>>)
    <3> PICK k \in {ND, ND + 1}, w \in Words : MissingBelow(<<k>>, w, <<k, w>>)  BY <2>3
    <3>1. <<k>> \in Inner /\ <<k, w>> \in Paths  BY DEF Inner, Paths
    <3>2. Walk(cells, ip.addrs, <<k>>) = ip.addrs[k]  BY WalkOne
    <3>3. Walk(cells, ip.addrs, <<k, w>>) = Deref(cells, ip.addrs[k], w)  BY WalkTwo
    <3>4. Deref(cells, ip.addrs[k], w) = 0  BY <1>3, <3>3 DEF MissingBelow
    <3> PICK a : a = ip.addrs  OBVIOUS
    <3>5. ASSUME NEW b \in fresh, NEW x \in 1 .. NB,
                 Walk(cells, a, <<k>>) = x, cells[b] = Filled(0), b # x,
                 OnlyAt(cells, a, x, <<k>>), Nowhere(cells, a, b)
          PROVE  OneMore(cells, [cells EXCEPT ![x][w] = b], a, <<k, w>>, b)
      <4>1. b \in 1 .. NB /\ a[k] = x /\ cells[x][w] = 0  BY <1>4, <3>2, <3>4, <3>5 DEF Deref
      <4> QED  BY <1>6, <3>5, <4>1, WalkLinkedTwo
    <3> QED  BY <1>8, <1>9, <3>1, <3>5 DEF Grows
  <2>4. CASE \E u, w \in Words : MissingBelow(<<ND + 1, u>>, w, <<ND + 1, u, w>>)
    <3> PICK u \in Words, w \in Words : MissingBelow(<<ND + 1, u>>, w, <<ND + 1, u, w>>)  BY <2>4
    <3>1. <<ND + 1, u>> \in Inner /\ <<ND + 1, u, w>> \in Paths  BY DEF Inner, Paths
    <3>2. Walk(cells, ip.addrs, <<ND + 1, u, w>>) = Deref(cells, Walk(cells, ip.addrs, <<ND + 1, u>>), w)
      BY WalkThree
    <3>3. Deref(cells, Walk(cells, ip.addrs, <<ND + 1, u>>), w) = 0
      BY <1>3, <3>2 DEF MissingBelow
    <3> PICK a : a = ip.addrs  OBVIOUS
    <3>4. ASSUME NEW b \in fresh, NEW x \in 1 .. NB,
                 Walk(cells, a, <<ND + 1, u>>) = x, cells[b] = Filled(0), b # x,
                 OnlyAt(cells, a, x, <<ND + 1, u>>), Nowhere(cells, a, b)
          PROVE  OneMore(cells, [cells EXCEPT ![x][w] = b], a, <<ND + 1, u, w>>, b)
      <4>1. b \in 1 .. NB /\ cells[x][w] = 0  BY <1>4, <3>3, <3>4 DEF Deref
      <4> QED  BY <1>6, <3>4, <4>1, WalkLinkedThree
    <3> QED  BY <1>8, <1>9, <3>1, <3>4 DEF Grows
  <2> QED  BY <1>1, <2>2, <2>3, <2>4, GapIs
<1> QED  BY <1>7, <1>9

(* A command that allocates, reads or writes blocks frees nothing with     *)
(* itrunc.                                                                 *)
LEMMA MappingKeepsTree ==
    ASSUME Types, Planned, todo = <<>> \/ Head(todo).k \in WriteKinds
    PROVE  ~Freeing /\ ~freed
<1>1. todo \in Seq(Jobs) /\ Ordered(todo) /\ (freed => Freeing)  BY DEF Types, Planned
<1>2. CASE todo = <<>>  BY <1>1, <1>2 DEF Freeing, Frees
<1>3. CASE todo # <<>>
  <2>1. 1 \in DOMAIN todo /\ todo[1].k \in WriteKinds  BY <1>1, <1>3, Rest
  <2>2. todo[1].k \notin FreeKinds \cup {"unlink"}
    BY <2>1 DEF WriteKinds, MapKinds, FreeKinds
  <2>3. \A j \in DOMAIN todo : todo[j].k \notin FreeKinds  BY <1>1, <2>1, <2>2 DEF Ordered
  <2>4. ~Freeing  BY <2>3 DEF Freeing, Frees, FreeKinds
  <2> QED  BY <1>1, <2>4
<1> QED  BY <1>2, <1>3

(* What has happened to the disk is not forgotten.                         *)
LEMMA HarmStays ==
    ASSUME Types, [Next]_vars
    PROVE  hurt \subseteq hurt'
<1>1. \A f \in Files : cmd_mk(f) => hurt' = hurt  BY MkIs DEF MkStarts
<1>2. Opens => hurt' = hurt  BY DEF Opens, Open
<1> QED
  BY <1>1, <1>2, StepsAre
  DEF Mark, ZeroRoot, ZeroChild, LinkChild, Full, Put, Get, Recycle, FreeBlock, Update,
      Clear, Enter, Unlink, Finish, Crash, vars

LEMMA TrunksStep ==
    ASSUME Types, Meant, Planned, Sound => Trunks, [Next]_vars, Sound'
    PROVE  Trunks'
<1>1. hurt \subseteq hurt'  BY HarmStays
<1>2. Apart /\ FreshApart /\ Marked  BY <1>1 DEF Sound, Trunks
<1>3. \A b \in fresh : b # 0 /\ b \in bits  BY FreshIs DEF Meant
(* The trees are what they were, or less.                                  *)
<1>4. ASSUME \A f \in Files : \A p \in Paths : Ref(f, p)' \in {0, Ref(f, p)},
             \A b \in fresh' : b # 0 /\ \A f \in Files : \A p \in Paths : Ref(f, p) # b,
             \A f \in Files : \A p \in Paths :
                 Ref(f, p)' # 0 => Ref(f, p) \in bits' \/ (freed' /\ f = file')
      PROVE  Trunks'
  <2>1. Apart'  BY <1>2, <1>4 DEF Apart
  <2>2. FreshApart'  BY <1>4 DEF FreshApart
  <2>3. Marked'  BY <1>4 DEF Marked
  <2> QED  BY <2>1, <2>2, <2>3 DEF Trunks
<1>5. ASSUME \A f \in Files : \A p \in Paths : Ref(f, p)' \in {0, Ref(f, p)},
             fresh' \subseteq fresh, bits \subseteq bits', file' = file, freed' = freed
      PROVE  Trunks'
  BY <1>2, <1>3, <1>4, <1>5 DEF FreshApart, Marked
<1>6. ASSUME \/ \E f \in Files : cmd_mk(f)
             \/ Opens \/ Mark \/ ZeroChild \/ Full \/ Put \/ Get \/ Recycle \/ FreeBlock
             \/ Update \/ Enter \/ Unlink
      PROVE  \A f \in Files : \A p \in Paths : Ref(f, p)' = Ref(f, p)
  BY <1>2, <1>6, TreesKept
<1>7. ASSUME ~freed PROVE \A f \in Files : \A p \in Paths : Ref(f, p) # 0 => Ref(f, p) \in bits
  BY <1>2, <1>7 DEF Marked
<1>8. Mapping \/ todo = <<>> => ~freed
  BY MappingKeepsTree DEF Mapping, Doing, WriteKinds, MapKinds
<1>9. CASE \E f \in Files : cmd_mk(f)
  <2>1. UNCHANGED <<fresh, bits, freed>> /\ todo = <<>>  BY <1>9, MkIs DEF MkStarts
  <2>2. ~freed  BY <1>8, <2>1
  <2> QED  BY <1>2, <1>3, <1>4, <1>6, <1>7, <1>9, <2>1, <2>2 DEF FreshApart
<1>10. CASE Opens
  <2>1. UNCHANGED <<fresh, bits, freed>> /\ file = None  BY <1>10 DEF Opens, Open
  <2>2. ~freed  BY <1>8, <2>1 DEF Types, TypeOK
  <2> QED  BY <1>2, <1>3, <1>4, <1>6, <1>7, <1>10, <2>1, <2>2 DEF FreshApart
<1>11. CASE Mark
  <2>1. PICK b \in Free : bits' = bits \cup {b} /\ fresh' = {b}  BY <1>11 DEF Mark
  <2>2. ~freed  BY <1>8, <1>11 DEF Mark, Gap
  <2>3. b \notin bits /\ b # 0  BY DEF Free, Types
  <2>4. \A f \in Files : \A p \in Paths : Ref(f, p) # b  BY <1>7, <2>2, <2>3
  <2> QED  BY <1>4, <1>6, <1>7, <1>11, <2>1, <2>2, <2>3, <2>4
<1>12. CASE ZeroRoot \/ LinkChild
  <2>1. fresh' = {} /\ bits' = bits  BY <1>12 DEF ZeroRoot, LinkChild
  <2>2. ~freed  BY <1>8, <1>12 DEF ZeroRoot, LinkChild, Gap
  <2> PICK h : h = file  OBVIOUS
  <2>3. PICK b \in fresh, m \in Paths :
               \A f \in Files : \A p \in Paths :
                   Ref(f, p)' = IF f = h /\ p = m THEN b ELSE Ref(f, p)
    BY <1>2, <1>12, <2>2, TreeGrows DEF Trunks
  <2>4. b \in bits /\ b # 0 /\ \A f \in Files : \A p \in Paths : Ref(f, p) # b
    BY <1>2, <1>3 DEF FreshApart
  <2>5. Apart'
    <3> SUFFICES ASSUME NEW f \in Files, NEW g \in Files, NEW p \in Paths, NEW q \in Paths,
                        Ref(f, p)' # 0, Ref(f, p)' = Ref(g, q)'
                 PROVE  f = g /\ p = q
      BY DEF Apart
    <3>1. CASE f = h /\ p = m
      <4>1. Ref(g, q)' = b  BY <2>3, <3>1
      <4> QED  BY <2>3, <2>4, <3>1, <4>1
    <3>2. CASE ~(f = h /\ p = m)
      <4>1. Ref(f, p)' = Ref(f, p)  BY <2>3, <3>2
      <4>2. Ref(g, q)' = Ref(g, q)  BY <2>3, <2>4, <4>1
      <4> QED  BY <1>2, <4>1, <4>2 DEF Apart
    <3> QED  BY <3>1, <3>2
  <2>6. FreshApart'  BY <2>1 DEF FreshApart
  <2>7. Marked'  BY <1>7, <2>1, <2>2, <2>3, <2>4 DEF Marked
  <2> QED  BY <2>5, <2>6, <2>7 DEF Trunks
<1>13. CASE ZeroChild
  <2>1. UNCHANGED <<fresh, bits, file, freed>>  BY <1>13 DEF ZeroChild
  <2> QED  BY <1>5, <1>6, <1>13, <2>1
<1>14. CASE Full
  <2>1. UNCHANGED <<fresh, bits, file, freed>>  BY <1>14 DEF Full
  <2> QED  BY <1>5, <1>6, <1>14, <2>1
<1>15. CASE Put \/ Get
  <2>1. UNCHANGED <<fresh, bits, file, freed>>  BY <1>15 DEF Put, Get
  <2> QED  BY <1>5, <1>6, <1>15, <2>1
<1>16. CASE Recycle  BY <1>16 DEF Recycle, Sound
<1>17. CASE FreeBlock
  <2> PICK b : b = Resolve(ip, Head(todo).n)  OBVIOUS
  <2>1. /\ Head(todo).k = "free" /\ todo # <<>> /\ UNCHANGED <<fresh, file>>
        /\ IF b = 0 THEN UNCHANGED <<bits, freed>> ELSE bits' = bits \ {b} /\ freed' = TRUE
    BY <1>17 DEF FreeBlock, Doing
  <2>2. CASE b = 0  BY <1>5, <1>6, <1>17, <2>1, <2>2
  <2>3. CASE b # 0
    <3> PICK h : h = file  OBVIOUS
    <3> PICK n : n = Head(todo).n  OBVIOUS
    <3>1. h \in Files /\ n \in Paths  BY <2>1, Working, JobFields
    <3>2. Ref(h, n) = b  BY DEF Ref, Now
    <3>3. \A f \in Files : \A p \in Paths : Ref(f, p) = b => f = h
      BY <1>2, <2>3, <3>1, <3>2 DEF Apart
    <3>4. bits' = bits \ {b} /\ freed' = TRUE /\ file' = h  BY <2>1, <2>3
    <3>5. \A f \in Files : \A p \in Paths :
              Ref(f, p) # 0 => Ref(f, p) \in bits' \/ (freed' /\ f = file')
      BY <1>2, <3>3, <3>4 DEF Marked
    <3> QED  BY <1>2, <1>3, <1>4, <1>6, <1>17, <2>1, <3>5 DEF FreshApart
  <2> QED  BY <2>2, <2>3
<1>18. CASE Update
  <2>1. UNCHANGED <<fresh, bits, file, freed>>  BY <1>18 DEF Update
  <2> QED  BY <1>5, <1>6, <1>18, <2>1
<1>19. CASE Unlink \/ Enter
  <2>1. UNCHANGED <<fresh, bits, file, freed>>  BY <1>19 DEF Unlink, Enter
  <2> QED  BY <1>5, <1>6, <1>19, <2>1
<1>20. CASE Clear
  <2>1. UNCHANGED <<fresh, bits>>  BY <1>20 DEF Clear
  <2> PICK h : h = file  OBVIOUS
  <2>2. \A f \in Files : \A p \in Paths : Ref(f, p)' = IF f = h THEN 0 ELSE Ref(f, p)
    BY <1>20, TreeGone
  <2>3. \A f \in Files : \A p \in Paths : Ref(f, p)' # 0 => Ref(f, p) \in bits'
    BY <1>2, <2>1, <2>2 DEF Marked
  <2> QED  BY <1>2, <1>3, <1>4, <2>1, <2>2, <2>3 DEF FreshApart
<1>21. CASE Finish \/ Crash
  <2>1. fresh' \subseteq fresh /\ bits' = bits  BY <1>21 DEF Finish, Crash
  <2>2. ~freed
    <3>1. CASE Finish  BY <1>8, <3>1 DEF Finish
    <3>2. CASE Crash /\ freed
      <4>1. "torn" \in hurt'  BY <3>2 DEF Crash
      <4> QED  BY <4>1 DEF Sound
    <3> QED  BY <1>21, <3>1, <3>2
  <2>3. \A f \in Files : \A p \in Paths : Ref(f, p)' \in {0, Ref(f, p)}
    BY <1>21, TreesLeft
  <2>4. \A f \in Files : \A p \in Paths : Ref(f, p)' # 0 => Ref(f, p) \in bits'
    BY <1>7, <2>1, <2>2, <2>3
  <2> QED  BY <1>2, <1>3, <1>4, <2>1, <2>3, <2>4 DEF FreshApart
<1>22. CASE UNCHANGED vars
  <2>1. UNCHANGED <<bits, cells, disk, file, ip, fresh, freed>>  BY <1>22 DEF vars
  <2>2. \A f \in Files : Now(f)' = Now(f)  BY <2>1 DEF Now
  <2>3. \A f \in Files : \A p \in Paths : Ref(f, p)' = Ref(f, p)  BY <2>1, <2>2, RefIs
  <2> QED  BY <1>5, <2>1, <2>3
<1> QED
  BY <1>9, <1>10, <1>11, <1>12, <1>13, <1>14, <1>15, <1>16, <1>17, <1>18, <1>19, <1>20,
     <1>21, <1>22, StepsAre

(* The blocks of the file that are mapped, and what is on disk of a tree.  *)
InMemory == {k \in 0 .. MAXFILEB - 1 : Resolve(ip, Path(k)) # 0}
OnDisk(f) ==
    /\ disk[f].size <= disk[f].blocks * B
    /\ \A k \in 0 .. disk[f].blocks - 1 : Resolve(disk[f], Path(k)) # 0
DiskRef(f, p) == IF disk[f].addrs[p[1]] = 0 THEN 0 ELSE Ref(f, p)

LEMMA DiskRefs ==
    Types => \A f \in Files : \A p \in Paths : Resolve(disk[f], p) = DiskRef(f, p)
<1> SUFFICES ASSUME Types, NEW f \in Files, NEW p \in Paths
             PROVE  Resolve(disk[f], p) = DiskRef(f, p)
  OBVIOUS
<1>1. Walk(cells, disk[f].addrs, p) =
          IF disk[f].addrs[p[1]] = 0 THEN 0 ELSE Walk(cells, Now(f).addrs, p)
  BY DiskPart
<1> QED  BY <1>1, RefIs, DiskIs DEF DiskRef

LEMMA DiskRefsAfter ==
    (Types => \A f \in Files : \A p \in Paths : Resolve(disk[f], p) = DiskRef(f, p))'
BY DiskRefs, PTL

LEMMA BlocksHavePaths ==
    ASSUME Types, NEW f \in Files, NEW k \in 0 .. disk[f].blocks - 1
    PROVE  k \in 0 .. MAXFILEB - 1 /\ Path(k) \in Paths
<1>1. disk[f].blocks \in 0 .. MAXFILEB  BY InodesOnDisk, InodeFields
<1>2. k \in 0 .. MAXFILEB - 1  BY <1>1, SizesAreNatural
<1> QED  BY <1>2, PathOfBlock, PathsAreApart

LEMMA CoveredMore ==
    ASSUME NEW S, NEW T, S \subseteq T, NEW s, Covered(S, s)
    PROVE  Covered(T, s)
BY DEF Covered

LEMMA FillingStep ==
    ASSUME Types, Types', Meant, Planned, Trunks, Filling, [Next]_vars, Whole'
    PROVE  Filling'
<1>1. Apart /\ FreshApart /\ (\A b \in fresh : b # 0)  BY FreshIs DEF Trunks
<1>2. (\A f \in Files : OnDisk(f)) /\ Covered(InMemory, todo)
  BY DEF Filling, OnDisk, InMemory
<1>3. ASSUME \A f \in Files : OnDisk(f)', Covered(InMemory', todo')
      PROVE  Filling'
  BY <1>3 DEF Filling, OnDisk, InMemory
(* An inode on disk that is not written keeps its blocks.                  *)
<1>4. ASSUME NEW f \in Files, (disk[f])' = disk[f],
             \A p \in Paths : Ref(f, p) # 0 => Ref(f, p)' # 0
      PROVE  OnDisk(f)'
  <2>1. disk[f].size <= disk[f].blocks * B
        /\ \A k \in 0 .. disk[f].blocks - 1 : Resolve(disk[f], Path(k)) # 0
    BY <1>2 DEF OnDisk
  <2>2. \A p \in Paths : Resolve(disk[f], p) # 0 => Resolve(disk[f], p)' # 0
    BY <1>4, DiskRefs, DiskRefsAfter DEF DiskRef
  <2>3. \A k \in 0 .. disk[f].blocks - 1 : Resolve(disk[f], Path(k))' # 0
    BY <2>1, <2>2, BlocksHavePaths
  <2> QED  BY <1>4, <2>1, <2>3 DEF OnDisk
(* A block of the file that is in memory stays mapped.                     *)
<1>5. ASSUME file \in Files, file' = file,
             \A f \in Files : \A p \in Paths : Ref(f, p) # 0 => Ref(f, p)' # 0
      PROVE  InMemory \subseteq InMemory'
  <2> PICK h : h = file  OBVIOUS
  <2>1. ASSUME NEW k \in 0 .. MAXFILEB - 1, Resolve(ip, Path(k)) # 0
        PROVE  Resolve(ip, Path(k))' # 0
    <3>1. Path(k) \in Paths  BY PathOfBlock, PathsAreApart
    <3>2. Resolve(ip, Path(k)) = Ref(h, Path(k))  BY DEF Ref, Now
    <3>3. Resolve(ip, Path(k))' = Ref(h, Path(k))'  BY <1>5 DEF Ref, Now
    <3> QED  BY <1>5, <2>1, <3>1, <3>2, <3>3
  <2> QED  BY <2>1 DEF InMemory
<1>6. ASSUME disk' = disk, file' = file, todo' = todo, todo # <<>>,
             \A f \in Files : \A p \in Paths : Ref(f, p) # 0 => Ref(f, p)' # 0
      PROVE  Filling'
  <2>1. \A f \in Files : OnDisk(f)'  BY <1>4, <1>6
  <2>2. InMemory \subseteq InMemory'  BY <1>5, <1>6, Working
  <2> QED  BY <1>2, <1>3, <1>6, <2>1, <2>2, CoveredMore
<1>7. ASSUME \/ \E f \in Files : cmd_mk(f)
             \/ Opens \/ Mark \/ ZeroChild \/ Full \/ Put \/ Get \/ Recycle \/ FreeBlock
             \/ Update \/ Enter \/ Unlink
      PROVE  \A f \in Files : \A p \in Paths : Ref(f, p) # 0 => Ref(f, p)' # 0
  BY <1>1, <1>7, TreesKept
<1>8. ASSUME disk' = disk, file' = file, todo' = Tail(todo), todo # <<>>,
             Head(todo).k = "put" => Head(todo).n \in InMemory,
             \A f \in Files : \A p \in Paths : Ref(f, p) # 0 => Ref(f, p)' # 0
      PROVE  Filling'
  <2>1. \A f \in Files : OnDisk(f)'  BY <1>4, <1>8
  <2>2. InMemory \subseteq InMemory'  BY <1>5, <1>8, Working
  <2>3. todo \in Seq(Jobs)  BY DEF Types
  <2>4. Covered(InMemory', Tail(todo))  BY <1>2, <1>8, <2>2, <2>3, RestCovered
  <2> QED  BY <1>3, <1>8, <2>1, <2>4
<1>9. \A S : Covered(S, <<>>)  BY DEF Covered
<1>10. ASSUME NEW f \in Files, (disk[f])'.size = 0, (disk[f])'.blocks = 0 PROVE OnDisk(f)'
  <2>1. 0 <= 0 * B /\ 0 .. 0 - 1 = {}  BY BlockMapAssumption
  <2> QED  BY <1>10, <2>1 DEF OnDisk
<1>11. ASSUME NEW f \in Files, cmd_mk(f) PROVE Filling'
  <2>1. PICK i, l, s : MkStarts(f, i, l, s)  BY <1>11, MkIs
  <2>2. disk \in [Files -> Inodes]  BY DEF Types, TypeOK, Inodes
  <2>3. \A g \in Files : g # f => (disk[g])' = disk[g]  BY <2>1, <2>2 DEF MkStarts
  <2>4. (disk[f])'.size = 0 /\ (disk[f])'.blocks = 0  BY <2>1, <2>2 DEF MkStarts
  <2>5. \A g \in Files : OnDisk(g)'  BY <1>4, <1>7, <1>10, <1>11, <2>3, <2>4
  <2>6. Covered(InMemory', todo')  BY <2>1 DEF MkStarts, MkPlan
  <2> QED  BY <1>3, <2>5, <2>6
<1>12. CASE Opens
  <2> PICK f, i, s : f \in names /\ Open(f, i, s) /\ Planful(f, i, s)  BY <1>12 DEF Opens
  <2>1. f \in Files /\ disk' = disk /\ ip' = i /\ todo' = s /\ cells' = cells
        /\ i.addrs = disk[f].addrs
    BY DEF Open, Planful, Types, TypeOK
  <2>2. \A g \in Files : OnDisk(g)'  BY <1>4, <1>7, <1>12, <2>1
  <2>3. 0 .. disk[f].blocks - 1 \subseteq InMemory'
    <3> SUFFICES ASSUME NEW k \in 0 .. disk[f].blocks - 1 PROVE k \in InMemory'
      OBVIOUS
    <3>1. k \in 0 .. MAXFILEB - 1  BY <2>1, BlocksHavePaths
    <3>2. Resolve(disk[f], Path(k)) # 0  BY <1>2, <2>1 DEF OnDisk
    <3>3. Resolve(ip, Path(k))' = Resolve(disk[f], Path(k))
      BY <2>1 DEF Resolve, Follow
    <3> QED  BY <3>1, <3>2, <3>3 DEF InMemory
  <2>4. SizeFits(disk[f])  BY <1>2, <2>1 DEF OnDisk, SizeFits
  <2>5. Covered(InMemory', s)  BY <2>3, <2>4 DEF Planful
  <2> QED  BY <1>3, <2>1, <2>2, <2>5
<1>13. CASE Mark
  BY <1>6, <1>7, <1>13 DEF Mark, Gap, Mapping, Doing
<1>14. CASE ZeroRoot \/ LinkChild
  <2>1. disk' = disk /\ file' = file /\ todo' = todo /\ Mapping /\ todo # <<>>
    BY <1>14 DEF ZeroRoot, LinkChild, Gap, Mapping, Doing
  <2>2. ~freed  BY <2>1, MappingKeepsTree DEF Mapping, Doing, WriteKinds, MapKinds
  <2> PICK h : h = file  OBVIOUS
  <2>3. PICK b \in fresh, m \in Paths :
               \A f \in Files : \A p \in Paths :
                   Ref(f, p)' = IF f = h /\ p = m THEN b ELSE Ref(f, p)
    BY <1>14, <2>2, TreeGrows
  <2>4. \A f \in Files : \A p \in Paths : Ref(f, p) # 0 => Ref(f, p)' # 0
    BY <1>1, <2>3
  <2> QED  BY <1>6, <2>1, <2>4
<1>15. CASE ZeroChild
  BY <1>6, <1>7, <1>15 DEF ZeroChild, Gap, Mapping, Doing
<1>16. CASE Full \/ Recycle
  BY <1>16 DEF Full, Recycle, Whole
<1>17. CASE Put
  <2>1. Mapping /\ Resolve(ip, path) # 0  BY <1>17 DEF Put, Mapping
  <2>2. Head(todo).n \in InMemory  BY <2>1, MappedPath DEF InMemory, path
  <2> QED  BY <1>7, <1>8, <1>17, <2>2 DEF Put, Doing
<1>18. CASE Get  BY <1>7, <1>8, <1>18 DEF Get, Doing
<1>19. CASE FreeBlock  BY <1>7, <1>8, <1>19 DEF FreeBlock, Doing
<1>20. CASE Unlink \/ Enter  BY <1>7, <1>8, <1>20 DEF Unlink, Enter, Doing
<1>21. CASE Update
  <2>1. /\ todo # <<>> /\ Head(todo).k = "iupdate" /\ todo' = Tail(todo)
        /\ cells' = cells /\ file' = file /\ disk' = [disk EXCEPT ![file] = ip']
        /\ ip' = [ip EXCEPT !.size = Head(todo).n, !.blocks = Head(todo).m]
    BY <1>21 DEF Update, Doing
  <2>2. todo \in Seq(Jobs) /\ disk \in [Files -> Inodes] /\ ip \in Inodes
    BY DEF Types, TypeOK, Inodes
  <2>3. file \in Files  BY <2>1, Working
  <2>4. (ip').addrs = ip.addrs /\ (ip').size = Head(todo).n /\ (ip').blocks = Head(todo).m
    BY <2>1, <2>2 DEF Inodes
  <2>5. \A f \in Files : f # file => (disk[f])' = disk[f]  BY <2>1, <2>2
  <2> PICK h : h = file  OBVIOUS
  <2>6. (disk[h])' = ip' /\ h \in Files  BY <2>1, <2>2, <2>3
  <2>7. (ip').size <= (ip').blocks * B
    <3>1. CASE (ip').size > (ip').blocks * B
      <4>1. "hole" \in hurt'  BY <1>21, <2>1, <3>1 DEF Update
      <4> QED  BY <4>1 DEF Whole
    <3>2. (ip').size \in Nat /\ (ip').blocks * B \in Nat
      <4>1. Head(todo).n \in Nat /\ Head(todo).m \in Nat
        BY <2>1, Working, JobFields, SizesAreNatural, BlockMapAssumption
      <4>2. \A x, y \in Nat : x * y \in Nat  OBVIOUS
      <4> QED  BY <2>4, <4>1, <4>2, BlockMapAssumption
    <3> QED  BY <3>1, <3>2
  <2>8. \A p : Resolve(ip, p)' = Resolve(ip, p)  BY <2>1, <2>4 DEF Resolve, Follow
  <2>9. InMemory' = InMemory  BY <2>8 DEF InMemory
  <2>10. 0 .. (ip').blocks - 1 \subseteq InMemory
    <3> SUFFICES ASSUME NEW k \in 0 .. (ip').blocks - 1 PROVE k \in InMemory
      OBVIOUS
    <3>1. 1 \in DOMAIN todo /\ todo[1] = Head(todo)
          /\ \A j \in DOMAIN todo : j \in Nat \ {0}
      BY <2>1, <2>2, Rest
    <3>2. k \in Needs(todo[1])  BY <2>1, <2>4, <3>1 DEF Needs
    <3>3. k \in InMemory \/ PutBefore(todo, 1, k)  BY <1>2, <3>1, <3>2 DEF Covered
    <3>4. ~PutBefore(todo, 1, k)  BY <3>1 DEF PutBefore
    <3> QED  BY <3>3, <3>4
  <2>11. OnDisk(h)'
    <3>1. \A k \in 0 .. (ip').blocks - 1 : Resolve(ip, Path(k))' # 0
      BY <2>8, <2>10 DEF InMemory
    <3>2. \A p : Resolve(disk[h], p)' = Resolve(ip, p)'  BY <2>6 DEF Resolve, Follow
    <3> QED  BY <2>6, <2>7, <3>1, <3>2 DEF OnDisk
  <2>12. \A f \in Files : OnDisk(f)'  BY <1>4, <1>7, <1>21, <2>5, <2>11
  <2>13. Covered(InMemory, Tail(todo))  BY <1>2, <2>1, <2>2, RestCovered
  <2> QED  BY <1>3, <2>1, <2>9, <2>12, <2>13
<1>22. CASE Clear
  <2>1. /\ todo # <<>> /\ Head(todo).k = "iclear" /\ todo' = Tail(todo) /\ file' = file
        /\ disk' = [disk EXCEPT ![file] = ip']
        /\ ip' = [NoInode EXCEPT !.type = T_FILE, !.links = ip.links]
    BY <1>22 DEF Clear, Doing
  <2>2. todo \in Seq(Jobs) /\ disk \in [Files -> Inodes] /\ Ordered(todo) /\ file \in Files
    BY <2>1, Working DEF Types, TypeOK, Inodes, Planned
  <2> PICK h : h = file  OBVIOUS
  <2>3. (disk[h])'.size = 0 /\ (disk[h])'.blocks = 0
    <3>1. (ip').size = 0 /\ (ip').blocks = 0  BY <2>1 DEF NoInode
    <3>2. disk'[h] = ip'  BY <2>1, <2>2
    <3> QED  BY <3>1, <3>2
  <2>4. ASSUME NEW f \in Files, f # h PROVE OnDisk(f)'
    <3>1. (disk[f])' = disk[f]  BY <2>1, <2>2, <2>4
    <3>2. \A p \in Paths : Ref(f, p)' = Ref(f, p)  BY <1>22, <2>4, TreeGone
    <3> QED  BY <1>4, <3>1, <3>2
  <2>5. \A f \in Files : OnDisk(f)'  BY <1>10, <2>2, <2>3, <2>4
  <2>6. \A j \in DOMAIN Tail(todo) : Tail(todo)[j].k = "unlink"  BY <2>1, <2>2, RestOrdered
  <2>7. \A S : Covered(S, Tail(todo))  BY <2>6 DEF Covered, Needs
  <2> QED  BY <1>3, <2>1, <2>5, <2>7
<1>23. CASE Finish \/ Crash
  <2>1. disk' = disk /\ todo' = <<>> /\ (cells' = cells \/ cells' = [cells EXCEPT ![0] = Filled(Super)])
    BY <1>23 DEF Finish, Crash
  <2>2. \A x \in 1 .. NB : x \in Blocks /\ x # 0  BY DEF Blocks
  <2>3. \A x \in 1 .. NB : cells'[x] = cells[x]  BY <2>1, <2>2, CellsAre
  <2>4. ASSUME NEW f \in Files PROVE OnDisk(f)'
    <3> PICK d, a : d = cells' /\ a = disk[f].addrs  OBVIOUS
    <3>1. \A p \in Paths : Walk(d, a, p) = Walk(cells, a, p)  BY <2>3, WalkSame
    <3>2. \A p \in Paths : Resolve(disk[f], p)' = Resolve(disk[f], p)
      <4> TAKE p \in Paths
      <4>1. Resolve(disk[f], p)' = Walk(cells', disk'[f].addrs, p)
        BY DEF Resolve, Walk, Follow, Deref
      <4>2. Resolve(disk[f], p)' = Walk(d, a, p)  BY <2>1, <4>1
      <4>3. Resolve(disk[f], p) = Walk(cells, a, p)  BY DiskIs
      <4> QED  BY <3>1, <4>2, <4>3
    <3>3. \A k \in 0 .. disk[f].blocks - 1 : Resolve(disk[f], Path(k))' # 0
      BY <1>2, <3>2, BlocksHavePaths DEF OnDisk
    <3> QED  BY <1>2, <2>1, <3>3 DEF OnDisk
  <2> QED  BY <1>3, <1>9, <2>1, <2>4
<1>24. CASE UNCHANGED vars
  <2>1. UNCHANGED <<cells, disk, ip, todo>>  BY <1>24 DEF vars
  <2> QED  BY <2>1 DEF Filling, Resolve, Follow
<1> QED
  BY <1>11, <1>12, <1>13, <1>14, <1>15, <1>16, <1>17, <1>18, <1>19, <1>20, <1>21, <1>22,
     <1>23, <1>24, StepsAre

(* What is marked in the bitmap, on a disk that nothing has happened to.   *)
Saved == file \in Files /\ ip.addrs # disk[file].addrs =>
             \E j \in DOMAIN todo : todo[j].k = "iupdate"

LEMMA SavedStill ==
    ASSUME Types, Saved, todo # <<>>, todo' = Tail(todo), Head(todo).k # "iupdate",
           UNCHANGED <<file, ip, disk>>
    PROVE  Saved'
<1>1. todo \in Seq(Jobs)  BY DEF Types
<1>2. SUFFICES ASSUME NEW j \in DOMAIN todo, todo[j].k = "iupdate"
               PROVE  \E i \in DOMAIN Tail(todo) : Tail(todo)[i].k = "iupdate"
  BY DEF Saved
<1>3. todo[1] = Head(todo)  BY <1>1, Rest
<1>4. j # 1  BY <1>2, <1>3
<1>5. j - 1 \in DOMAIN Tail(todo) /\ Tail(todo)[j - 1] = todo[j]  BY <1>1, <1>4, Rest
<1> QED  BY <1>2, <1>5

LEMMA PendingAfter ==
    ASSUME Types, Planned, todo # <<>>, todo' = Tail(todo)
    PROVE  /\ Head(todo).k # "free" => \A p : Pending(p)' <=> Pending(p)
           /\ Head(todo).k = "free" => \A p : Pending(p)' <=> Pending(p) /\ p # Head(todo).n
<1> PICK s : s = todo  OBVIOUS
<1> PICK t : t = Tail(todo)  OBVIOUS
<1>1. /\ 1 \in DOMAIN s /\ Head(s) = s[1]
      /\ \A j \in DOMAIN t : j \in Nat \ {0} /\ j + 1 \in DOMAIN s /\ t[j] = s[j + 1]
      /\ \A j \in DOMAIN s : j = 1 \/ (j - 1 \in DOMAIN t /\ j \in Nat \ {0} /\ t[j - 1] = s[j])
  <2>1. s \in Seq(Jobs) /\ s # <<>> /\ t = Tail(s)  BY DEF Types
  <2> QED  BY <2>1, Rest
<1>2. \A p : Pending(p) <=> \E j \in DOMAIN s : s[j].k = "free" /\ s[j].n = p
  BY DEF Pending
<1>3. \A p : Pending(p)' <=> \E j \in DOMAIN t : t[j].k = "free" /\ t[j].n = p
  BY DEF Pending
<1>4. ASSUME NEW p, NEW j \in DOMAIN t, t[j].k = "free", t[j].n = p
      PROVE  Pending(p) /\ (s[1].k = "free" => p # s[1].n)
  <2>1. j \in Nat \ {0} /\ j + 1 \in DOMAIN s /\ s[j + 1].k = "free" /\ s[j + 1].n = p
    BY <1>1, <1>4
  <2>2. Pending(p)  BY <1>2, <2>1
  <2>3. Ordered(s)  BY DEF Planned
  <2>4. s[1].k = "free" /\ p = s[1].n => 1 = j + 1  BY <1>1, <2>1, <2>3 DEF Ordered
  <2> QED  BY <2>1, <2>2, <2>4
<1>5. ASSUME NEW p, NEW j \in DOMAIN s, s[j].k = "free", s[j].n = p,
             s[1].k = "free" => p # s[1].n
      PROVE  Pending(p)'
  <2>1. j # 1  BY <1>5
  <2>2. j - 1 \in DOMAIN t /\ t[j - 1] = s[j]  BY <1>1, <2>1
  <2> QED  BY <1>3, <1>5, <2>2
<1> QED  BY <1>1, <1>2, <1>3, <1>4, <1>5

LEMMA AccountedStep ==
    ASSUME Types, Meant, Planned, Planned', Trunks, Filling, Accounted, [Next]_vars, hurt' = {}
    PROVE  Accounted'
<1>1. Apart /\ FreshApart  BY DEF Trunks
<1>2. /\ \A f \in Files : \A p \in Paths : Ref(f, p) # 0 /\ Held(f, p) => Ref(f, p) \in bits
      /\ \A b \in bits :
             \/ b = 0 \/ b \in fresh
             \/ \E f \in Files : \E p \in Paths : Ref(f, p) = b /\ Held(f, p)
      /\ Saved
  BY DEF Accounted, Saved
<1>3. ASSUME \A f \in Files : \A p \in Paths : Ref(f, p)' # 0 /\ Held(f, p)' => Ref(f, p)' \in bits',
             \A b \in bits' :
                 \/ b = 0 \/ b \in fresh'
                 \/ \E f \in Files : \E p \in Paths : Ref(f, p)' = b /\ Held(f, p)',
             Saved'
      PROVE  Accounted'
  BY <1>3 DEF Accounted, Saved
<1>4. ASSUME \A f \in Files : \A p \in Paths : Ref(f, p)' = Ref(f, p),
             \A f \in Files : \A p \in Paths : Held(f, p)' <=> Held(f, p),
             fresh' = fresh, bits' = bits, Saved'
      PROVE  Accounted'
  BY <1>2, <1>3, <1>4
<1>5. ASSUME \/ \E f \in Files : cmd_mk(f)
             \/ Opens \/ Mark \/ ZeroChild \/ Full \/ Put \/ Get \/ Recycle \/ FreeBlock
             \/ Update \/ Enter \/ Unlink
      PROVE  \A f \in Files : \A p \in Paths : Ref(f, p)' = Ref(f, p)
  BY <1>1, <1>5, TreesKept
<1>6. ~Freeing => \A f, p : Held(f, p)  BY DEF Held
<1>7. ~Freeing' => \A f, p : Held(f, p)'  BY DEF Held
<1>8. file' \notin Files => Saved'  BY DEF Saved
<1>9. todo \in Seq(Jobs) /\ Ordered(todo)  BY DEF Types, Planned
<1>10. ASSUME todo # <<>>, todo' = Tail(todo), file' = file,
              Head(todo).k # "free", Head(todo).k # "iclear"
       PROVE  \A f, p : Held(f, p)' <=> Held(f, p)
  <2>1. Freeing' <=> Freeing  BY <1>9, <1>10, RestOrdered DEF Freeing
  <2>2. \A p : Pending(p)' <=> Pending(p)  BY <1>10, PendingAfter
  <2> QED  BY <1>10, <2>1, <2>2 DEF Held
<1>11. ASSUME todo' = todo, file' = file PROVE \A f, p : Held(f, p)' <=> Held(f, p)
  BY <1>11 DEF Held, Freeing, Pending
<1>12. ASSUME NEW f \in Files, cmd_mk(f) PROVE Accounted'
  <2>1. PICK i, l, s : MkStarts(f, i, l, s)  BY <1>12, MkIs
  <2>2. UNCHANGED <<bits, fresh>> /\ ~Freeing /\ ~Freeing'
    BY <2>1 DEF MkStarts, MkPlan, Freeing, Frees
  <2>3. (disk[f])' = i
    <3>1. disk \in [Files -> Inodes]  BY DEF Types, TypeOK, Inodes
    <3> QED  BY <2>1, <3>1 DEF MkStarts
  <2>4. Saved'  BY <2>1, <2>3 DEF MkStarts, Saved
  <2> QED  BY <1>4, <1>5, <1>6, <1>7, <1>12, <2>2, <2>4
<1>13. CASE Opens
  <2> PICK f, i, s : f \in names /\ Open(f, i, s) /\ Planful(f, i, s)  BY <1>13 DEF Opens
  <2>1. /\ UNCHANGED <<bits, fresh, disk>> /\ file = None /\ file' = f /\ ip' = i /\ todo' = s
        /\ i.addrs = disk[f].addrs /\ (Frees(s) => Sweeping(s))
    BY DEF Open, Planful
  <2>2. \A g \in Files : \A p \in Paths : Held(g, p)
    BY <2>1, BlockMapAssumption DEF Held
  <2>3. Freeing' => \A p \in Paths : Pending(p)'  BY <2>1 DEF Freeing, Sweeping, Pending
  <2>4. \A g \in Files : \A p \in Paths : Held(g, p)'  BY <2>3 DEF Held
  <2>5. Saved'  BY <2>1 DEF Saved
  <2> QED  BY <1>4, <1>5, <1>13, <2>1, <2>2, <2>4, <2>5
<1>14. CASE Mark
  <2>1. PICK b \in Free : bits' = bits \cup {b} /\ fresh' = {b}  BY <1>14 DEF Mark
  <2>2. fresh = {} /\ UNCHANGED <<todo, file, ip, disk>>  BY <1>14 DEF Mark
  <2>3. Saved'  BY <1>2, <2>2 DEF Saved
  <2> QED  BY <1>2, <1>3, <1>5, <1>11, <1>14, <2>1, <2>2, <2>3
<1>15. CASE ZeroRoot \/ LinkChild
  <2>1. /\ fresh' = {} /\ UNCHANGED <<bits, todo, file, disk>>
        /\ Mapping /\ Gap /\ todo # <<>> /\ Head(todo).k \in MapKinds
    BY <1>15, MappedPath DEF ZeroRoot, LinkChild, Gap, Mapping
  <2>2. ~freed /\ ~Freeing  BY <2>1, MappingKeepsTree DEF WriteKinds
  <2>3. ~Freeing'  BY <2>1, <2>2 DEF Freeing
  <2> PICK h : h = file  OBVIOUS
  <2>4. PICK b \in fresh, m \in Paths :
               /\ Ref(h, m) = 0
               /\ \A f \in Files : \A p \in Paths :
                      Ref(f, p)' = IF f = h /\ p = m THEN b ELSE Ref(f, p)
    BY <1>15, <2>2, TreeGrows
  <2>5. b \in bits /\ h \in Files /\ \A x \in fresh : x = b  BY <2>1, Working DEF Meant
  <2>6. \A f \in Files : \A p \in Paths : Ref(f, p)' # 0 => Ref(f, p)' \in bits'
    BY <1>2, <1>6, <2>1, <2>2, <2>4, <2>5
  <2>7. ASSUME NEW x \in bits', x # 0 PROVE \E f \in Files : \E p \in Paths : Ref(f, p)' = x
    <3>1. CASE x \in fresh  BY <2>4, <2>5, <3>1
    <3>2. CASE x \notin fresh
      <4>1. PICK f \in Files, p \in Paths : Ref(f, p) = x  BY <1>2, <2>1, <2>7, <3>2
      <4>2. ~(f = h /\ p = m)  BY <2>4, <2>7, <4>1
      <4>3. Ref(f, p)' = x  BY <2>4, <4>1, <4>2
      <4> QED  BY <4>3
    <3> QED  BY <3>1, <3>2
  <2>8. \E j \in DOMAIN todo : todo[j].k = "iupdate"
    <3>1. 1 \in DOMAIN todo /\ todo[1] = Head(todo) /\ \A j \in DOMAIN todo : j \in Nat \ {0}
      BY <1>9, <2>1, Rest
    <3>2. CASE Head(todo).k \in {"put", "recycle"}
      BY <1>9, <3>1, <3>2 DEF Ordered, Closed
    <3>3. CASE Head(todo).k = "get"
      <4>1. Head(todo).n \in Needs(todo[1])  BY <3>1, <3>3 DEF Needs
      <4>2. ~PutBefore(todo, 1, Head(todo).n)  BY <3>1 DEF PutBefore
      <4>3. Resolve(ip, Path(Head(todo).n)) # 0
        BY <3>1, <4>1, <4>2 DEF Filling, Covered
      <4> QED  BY <2>1, <4>3 DEF Gap, path
    <3> QED  BY <2>1, <3>2, <3>3 DEF MapKinds
  <2>9. Saved'  BY <2>1, <2>8 DEF Saved
  <2> QED  BY <1>3, <1>7, <2>3, <2>6, <2>7, <2>9
<1>16. CASE ZeroChild
  <2>1. UNCHANGED <<bits, fresh, todo, file, ip, disk>>  BY <1>16 DEF ZeroChild
  <2>2. Saved'  BY <1>2, <2>1 DEF Saved
  <2> QED  BY <1>4, <1>5, <1>11, <1>16, <2>1, <2>2
<1>17. CASE Full \/ Recycle \/ Crash  BY <1>17 DEF Full, Recycle, Crash
<1>18. CASE Put \/ Get \/ Enter \/ Unlink
  <2>1. /\ todo # <<>> /\ todo' = Tail(todo) /\ Head(todo).k \in {"put", "get", "enter", "unlink"}
        /\ UNCHANGED <<bits, fresh, file, ip, disk>>
    BY <1>18 DEF Put, Get, Enter, Unlink, Doing
  <2>2. Saved'  BY <1>2, <2>1, SavedStill
  <2> QED  BY <1>4, <1>5, <1>10, <1>18, <2>1, <2>2
<1>19. CASE Update
  <2>1. /\ todo # <<>> /\ todo' = Tail(todo) /\ Head(todo).k = "iupdate"
        /\ UNCHANGED <<bits, fresh, file>> /\ disk' = [disk EXCEPT ![file] = ip']
    BY <1>19 DEF Update, Doing
  <2>2. Saved'  BY <2>1 DEF Saved, Types, TypeOK
  <2> QED  BY <1>4, <1>5, <1>10, <1>19, <2>1, <2>2
<1>20. CASE FreeBlock
  <2> PICK h, n, b : h = file /\ n = Head(todo).n /\ b = Resolve(ip, n)  OBVIOUS
  <2>1. /\ todo # <<>> /\ todo' = Tail(todo) /\ Head(todo).k = "free"
        /\ UNCHANGED <<fresh, file, ip, disk>>
        /\ bits' = IF b = 0 THEN bits ELSE bits \ {b}
    BY <1>20 DEF FreeBlock, Doing
  <2>2. h \in Files /\ n \in Paths /\ Ref(h, n) = b
    BY <2>1, Working, JobFields DEF Ref, Now
  <2>3. Freeing' /\ Freeing
    <3>1. 1 \in DOMAIN todo /\ todo[1] = Head(todo)  BY <1>9, <2>1, Rest
    <3>2. Freeing  BY <1>9, <2>1, <3>1 DEF Ordered, Freeing
    <3>3. Freeing'  BY <1>9, <2>1, <3>2, RestOrdered DEF Freeing
    <3> QED  BY <3>2, <3>3
  <2>4. \A p : Pending(p)' <=> Pending(p) /\ p # n  BY <2>1, PendingAfter
  <2>5. \A f, p : Held(f, p)' <=> Held(f, p) /\ ~(f = h /\ p = n)
    BY <2>1, <2>3, <2>4 DEF Held
  <2>6. \A f \in Files : \A p \in Paths : Ref(f, p)' = Ref(f, p)  BY <1>5, <1>20
  <2>7. \A f \in Files : \A p \in Paths : Ref(f, p)' # 0 /\ Held(f, p)' => Ref(f, p)' \in bits'
    <3> SUFFICES ASSUME NEW f \in Files, NEW p \in Paths, Ref(f, p) # 0, Held(f, p),
                        ~(f = h /\ p = n)
                 PROVE  Ref(f, p) \in bits'
      BY <2>5, <2>6
    <3>1. Ref(f, p) \in bits  BY <1>2
    <3>2. Ref(f, p) # b  BY <1>1, <2>2 DEF Apart
    <3> QED  BY <2>1, <3>1, <3>2
  <2>8. ASSUME NEW x \in bits', x # 0, x \notin fresh'
        PROVE  \E f \in Files : \E p \in Paths : Ref(f, p)' = x /\ Held(f, p)'
    <3>1. x \in bits /\ x \notin fresh  BY <2>1, <2>8
    <3>2. PICK f \in Files, p \in Paths : Ref(f, p) = x /\ Held(f, p)  BY <1>2, <2>8, <3>1
    <3>3. ~(f = h /\ p = n)
      <4>1. x # b  BY <2>1, <2>8
      <4> QED  BY <2>2, <3>2, <4>1
    <3>4. Ref(f, p)' = x /\ Held(f, p)'  BY <2>5, <2>6, <3>2, <3>3
    <3> QED  BY <3>4
  <2>9. Saved'  BY <1>2, <2>1, SavedStill
  <2> QED  BY <1>3, <2>7, <2>8, <2>9
<1>21. CASE Clear
  <2> PICK h : h = file  OBVIOUS
  <2>1. /\ todo # <<>> /\ Head(todo).k = "iclear" /\ UNCHANGED <<bits, fresh, file>>
        /\ disk' = [disk EXCEPT ![file] = ip']
    BY <1>21 DEF Clear, Doing
  <2>2. 1 \in DOMAIN todo /\ todo[1] = Head(todo) /\ \A j \in DOMAIN todo : j = 1 \/ 1 < j
    <3>1. 1 \in DOMAIN todo /\ todo[1] = Head(todo) /\ \A j \in DOMAIN todo : j = 1 \/ j \in Nat \ {0}
      BY <1>9, <2>1, Rest
    <3> QED  BY <3>1
  <2>3. Freeing  BY <2>1, <2>2 DEF Freeing, Frees
  <2>4. \A j \in DOMAIN todo : todo[j].k # "free"
    BY <1>9, <2>1, <2>2 DEF Ordered
  <2>5. \A p : ~Held(h, p)  BY <2>3, <2>4 DEF Held, Pending
  <2>6. \A f, p : f # h => Held(f, p) /\ Held(f, p)'  BY <2>1 DEF Held
  <2>7. \A f \in Files : \A p \in Paths : Ref(f, p)' = IF f = h THEN 0 ELSE Ref(f, p)
    BY <1>21, TreeGone
  <2>8. Saved'  BY <2>1 DEF Saved, Types, TypeOK
  <2>9. \A f \in Files : \A p \in Paths : Ref(f, p)' # 0 => Ref(f, p)' \in bits'
    BY <1>2, <2>1, <2>6, <2>7
  <2>10. ASSUME NEW x \in bits', x # 0, x \notin fresh'
         PROVE  \E f \in Files : \E p \in Paths : Ref(f, p)' = x /\ Held(f, p)'
    <3>1. PICK f \in Files, p \in Paths : Ref(f, p) = x /\ Held(f, p)  BY <1>2, <2>1, <2>10
    <3>2. f # h  BY <2>5, <3>1
    <3>3. Ref(f, p)' = x /\ Held(f, p)'  BY <2>6, <2>7, <3>1, <3>2
    <3> QED  BY <3>3
  <2> QED  BY <1>3, <2>8, <2>9, <2>10
<1>22. CASE Finish
  <2>1. /\ file # None /\ todo = <<>> /\ todo' = todo /\ file' = None
        /\ UNCHANGED <<bits, fresh>>
    BY <1>22 DEF Finish
  <2>2. file \in Files  BY <2>1 DEF Types, TypeOK
  <2>3. ip.addrs = disk[file].addrs  BY <1>2, <2>1, <2>2 DEF Saved
  <2>4. \A f \in Files : \A p \in Paths : Ref(f, p)' = Ref(f, p)
    BY <1>22, <2>2, <2>3, TreesLeft
  <2>5. ~Freeing /\ ~Freeing'  BY <2>1 DEF Freeing, Frees
  <2>6. Saved'  BY <1>8, <2>1, BlockMapAssumption
  <2> QED  BY <1>4, <1>6, <1>7, <2>1, <2>4, <2>5, <2>6
<1>23. CASE UNCHANGED vars
  <2>1. UNCHANGED <<bits, cells, disk, file, ip, todo, fresh>>  BY <1>23 DEF vars
  <2>2. \A f \in Files : Now(f)' = Now(f)  BY <2>1 DEF Now
  <2>3. \A f \in Files : \A p \in Paths : Ref(f, p)' = Ref(f, p)  BY <2>1, <2>2, RefIs
  <2>4. Saved'  BY <1>2, <2>1 DEF Saved
  <2> QED  BY <1>4, <1>11, <2>1, <2>3, <2>4
<1> QED
  BY <1>12, <1>13, <1>14, <1>15, <1>16, <1>17, <1>18, <1>19, <1>20, <1>21, <1>22, <1>23,
     StepsAre

-----------------------------------------------------------------------------
(* The theorems.                                                           *)

LEMMA WholeIsSound ==
    /\ hurt = {} => Whole
    /\ Whole => Sound
BY DEF Whole, Sound

LEMMA StepKeepsIInv == IInv /\ [Next]_vars => IInv'
<1> SUFFICES ASSUME IInv, [Next]_vars PROVE IInv'  OBVIOUS
<1>1. /\ Types /\ Meant /\ Planned
      /\ Sound => Trunks
      /\ Whole => Filling
      /\ hurt = {} => Accounted
  BY DEF IInv
<1>2. Types'  BY <1>1, TypesStep
<1>3. Meant'  BY <1>1, MeantStep
<1>4. Planned'  BY <1>1, PlannedStep
<1>5. hurt \subseteq hurt'  BY <1>1, HarmStays
<1>6. Sound' => Trunks'  BY <1>1, TrunksStep
<1>7. Whole' => Filling'
  <2>1. Whole' => Whole  BY <1>5 DEF Whole
  <2>2. ASSUME Whole' PROVE Trunks /\ Filling  BY <1>1, <2>1, <2>2, WholeIsSound
  <2> QED  BY <1>1, <1>2, <2>2, FillingStep
<1>8. hurt' = {} => Accounted'
  <2>1. hurt' = {} => hurt = {}  BY <1>5
  <2>2. ASSUME hurt' = {} PROVE Trunks /\ Filling /\ Accounted
    BY <1>1, <2>1, <2>2, WholeIsSound
  <2> QED  BY <1>1, <1>4, <2>2, AccountedStep
<1> QED  BY <1>2, <1>3, <1>4, <1>6, <1>7, <1>8 DEF IInv

(* Every state of the file commands keeps the inductive invariant: what is *)
(* in memory is what was planned, and the trees, the sizes and the bitmap  *)
(* agree as far as what has happened to the disk allows.                   *)
THEOREM MapInvariance == Spec => []IInv
<1>1. Init => IInv  BY InitHolds
<1>2. IInv /\ [Next]_vars => IInv'  BY StepKeepsIInv
<1> QED  BY <1>1, <1>2, PTL DEF Spec

(* The superblock is overwritten only by a command that found the disk     *)
(* full, and is back when that command ends, whatever the disk and the     *)
(* files (allocate_block's 0, save_user's write).                          *)
THEOREM SuperblockComesBack == Spec => []SuperblockKept
<1>1. Init => SuperblockKept
  BY BlockMapAssumption DEF Init, SuperblockKept, Blocks
<1>2. IInv /\ SuperblockKept /\ [Next]_vars => SuperblockKept'
  BY SuperblockStep DEF IInv
<1> QED  BY <1>1, <1>2, MapInvariance, PTL DEF Spec

(* As long as itest has freed nothing and no crash has cut itrunc short,   *)
(* the trees of the inodes are disjoint and in marked blocks, whatever is  *)
(* being allocated or freed (imapblock, itrunc).                           *)
THEOREM TreesAreExclusive == Spec => []Exclusive
<1>1. IInv => Exclusive
  <2> SUFFICES ASSUME Apart, FreshApart, Marked
               PROVE  /\ Unshared
                      /\ \A f \in Files : RefsOf(Now(f)) \subseteq bits \/ (freed /\ f = file)
    BY DEF IInv, Sound, Trunks, Exclusive
  <2>1. ASSUME NEW s \in Slots
        PROVE  /\ s[1] \in Files /\ s[2] \in Paths /\ s = <<s[1], s[2]>>
               /\ Trees[s] = Ref(s[1], s[2]) /\ Ref(s[1], s[2]) # 0
    BY <2>1 DEF Slots, Mapped, Trees, Ref
  <2>2. DOMAIN Trees = Slots  BY DEF Trees
  <2>3. IsInjective(Trees)
    <3> SUFFICES ASSUME NEW s \in Slots, NEW t \in Slots, Trees[s] = Trees[t] PROVE s = t
      BY <2>2 DEF IsInjective
    <3>1. s[1] = t[1] /\ s[2] = t[2]  BY <2>1 DEF Apart
    <3>2. s = <<s[1], s[2]>> /\ t = <<t[1], t[2]>>  BY <2>1
    <3> QED  BY <3>1, <3>2
  <2>4. Range(Trees) \cap fresh = {}  BY <2>1, <2>2 DEF Range, FreshApart
  <2>5. \A f \in Files : RefsOf(Now(f)) \subseteq bits \/ (freed /\ f = file)
    BY DEF Marked, RefsOf, Mapped, Ref
  <2> QED  BY <2>3, <2>4, <2>5 DEF Unshared
<1> QED  BY <1>1, MapInvariance, PTL

(* However often the server has died, a block below the size of an inode   *)
(* on disk is mapped there (writei puts the blocks before it writes the    *)
(* inode), unless something else than a crash has happened to the disk.    *)
THEOREM SizesAreFilled == Spec => []NoHoles
<1>1. IInv => NoHoles
  <2> SUFFICES ASSUME Types, Filling, NEW f \in Files, NEW k \in 0 .. MAXFILEB - 1,
                      k * B < disk[f].size
               PROVE  Resolve(disk[f], Path(k)) # 0
    BY DEF IInv, Whole, NoHoles
  <2>1. /\ disk[f].size <= disk[f].blocks * B
        /\ \A j \in 0 .. disk[f].blocks - 1 : Resolve(disk[f], Path(j)) # 0
    BY DEF Filling
  <2>2. disk[f].size \in Nat /\ disk[f].blocks \in Nat /\ k \in Nat /\ B \in Nat
    BY InodesOnDisk, InodeFields, SizesAreNatural, BlockMapAssumption
  <2>3. k < disk[f].blocks
    <3>0. \A x, y \in Nat : x * y \in Nat  OBVIOUS
    <3>1. k * B \in Nat /\ disk[f].blocks * B \in Nat  BY <2>2, <3>0
    <3>2. \A x, y, z \in Nat : x < y /\ y <= z => ~(z <= x)  OBVIOUS
    <3>3. disk[f].size \in Nat /\ k * B < disk[f].size  BY <2>2
    <3>4. ~(disk[f].blocks * B <= k * B)  BY <2>1, <3>1, <3>2, <3>3
    <3>5. disk[f].blocks <= k => disk[f].blocks * B <= k * B  BY <2>2, Monotone
    <3>6. ~(disk[f].blocks <= k)  BY <3>4, <3>5
    <3> QED  BY <2>2, <3>6
  <2> QED  BY <2>1, <2>2, <2>3
<1> QED  BY <1>1, MapInvariance, PTL

(* On a disk that nothing has happened to, the bitmap says exactly which   *)
(* blocks are referred to whenever no command is in progress: the commands *)
(* neither lose a block nor free one in use.                               *)
THEOREM BitmapFollowsTrees == Spec => []Exact
<1>1. IInv => Exact
  <2>1. IInv => TypeOK  BY DEF IInv, Types
  <2>2. ASSUME Types, Accounted, file = None
        PROVE  bits = {0} \cup UNION {RefsOf(disk[f]) : f \in Files}
    <3>1. todo = <<>> /\ fresh = {} /\ 0 \in bits  BY <2>2 DEF Types, TypeOK
    <3>2. ~Freeing  BY <3>1 DEF Freeing, Frees
    <3>3. \A f \in Files : f # file  BY <2>2, BlockMapAssumption
    <3>4. \A f \in Files : \A p \in Paths : Ref(f, p) = Resolve(disk[f], p) /\ Held(f, p)
      BY <3>2, <3>3 DEF Ref, Now, Held
    <3>5. \A x : x \in UNION {RefsOf(disk[f]) : f \in Files} <=>
                 \E f \in Files : \E p \in Paths : Ref(f, p) = x /\ x # 0
      BY <3>4 DEF RefsOf, Mapped
    <3>6. /\ \A f \in Files : \A p \in Paths : Ref(f, p) # 0 => Ref(f, p) \in bits
          /\ \A b \in bits : b = 0 \/ \E f \in Files : \E p \in Paths : Ref(f, p) = b
      BY <2>2, <3>1, <3>4 DEF Accounted
    <3> DEFINE U == UNION {RefsOf(disk[f]) : f \in Files}
    <3>7. \A x : x \in U <=> \E f \in Files : \E p \in Paths : Ref(f, p) = x /\ x # 0
      BY <3>5
    <3> HIDE DEF U
    <3>8. \A x \in bits : x = 0 \/ x \in U  BY <3>6, <3>7
    <3>9. \A x \in U : x \in bits  BY <3>6, <3>7
    <3>10. bits = {0} \cup U  BY <3>1, <3>8, <3>9
    <3> QED  BY <3>10 DEF U
  <2> QED  BY <2>1, <2>2 DEF IInv, Exact
<1> QED  BY <1>1, MapInvariance, PTL
=============================================================================
