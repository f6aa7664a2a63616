-------------------------- MODULE BlockAllocProofs --------------------------
(* Proofs about BlockAlloc, for every geometry and every disk size that    *)
(* SizeAssumption admits: the bitmap protects the blocks in use, and the   *)
(* allocator refines Allocator.tla.                                        *)
EXTENDS BlockAlloc, TLAPS

-----------------------------------------------------------------------------
(* Arithmetic of the bitmap: which bitmap block holds the bit of a block.  *)

(* Integer division by BPB is monotonic, and adding BPB adds one.          *)
LEMMA DivMono ==
    ASSUME NEW a \in Nat, NEW b \in Nat, a <= b
    PROVE  a \div BPB \in Nat /\ b \div BPB \in Nat /\ a \div BPB <= b \div BPB
  BY GeometryAssumption

LEMMA DivStep ==
    ASSUME NEW a \in Nat
    PROVE  (a + BPB) \div BPB = a \div BPB + 1
  BY GeometryAssumption

(* The loop over the first n bits reaches the bitmap block of each, and    *)
(* never goes beyond the n \div BPB + 1 blocks the layout reserves.        *)
LEMMA GroupsBound ==
    ASSUME NEW n \in Nat
    PROVE  /\ Groups(n) \in Nat
           /\ Groups(n) <= n \div BPB + 1
           /\ \A b \in Nat : b < n => GroupOf(b) \in Nat /\ GroupOf(b) < Groups(n)
  <1>1. n + BPB - 1 \in Nat /\ n + BPB \in Nat /\ n + BPB - 1 <= n + BPB
    BY GeometryAssumption
  <1>2. Groups(n) \in Nat /\ Groups(n) <= (n + BPB) \div BPB
    BY <1>1, DivMono DEF Groups
  <1>3. ASSUME NEW b \in Nat, b < n
        PROVE  GroupOf(b) \in Nat /\ GroupOf(b) < Groups(n)
    <2>1. b + BPB \in Nat /\ b + BPB <= n + BPB - 1
      BY <1>3, GeometryAssumption
    <2>2. (b + BPB) \div BPB <= Groups(n)
      BY <1>1, <2>1, DivMono DEF Groups
    <2>3. b \div BPB \in Nat
      BY DivMono
    <2> QED  BY <1>2, <2>2, <2>3, DivStep DEF GroupOf
  <1> QED  BY <1>2, <1>3, DivStep

(* What the proofs below need to know of the layout: the bits of the disk  *)
(* lie in bitmap blocks, and those come before the first data block.       *)
LEMMA LayoutFacts ==
    /\ Meta(Size) \subseteq Nat /\ 0 \in Meta(Size)
    /\ nmeta(Size) \in Nat
    /\ 0 < Groups(nmeta(Size)) /\ Groups(nmeta(Size)) \in Nat
    /\ 0 < Groups(Size) /\ Groups(Size) \in Nat
    /\ \A b \in Nat : GroupOf(b) \in Nat
    /\ \A b \in Meta(Size) : GroupOf(b) < Groups(nmeta(Size))
    /\ \A b \in Meta(Size) : GroupOf(b) < Groups(Size)
    /\ \A b \in Nat : GroupOf(b) < Groups(Size) => BBLOCK(b) \in Meta(Size)
  <1>1. NBBLOCK(Size) \in Nat /\ NBBLOCK(Size) = Size \div BPB + 1
    BY SizeAssumption, DivMono DEF NBBLOCK
  <1>2. NIBLOCK(Size) \in Nat /\ NIBLOCK(Size) > 0
    <2>1. NINODE(Size) \in Nat
      BY SizeAssumption DEF NINODE
    <2> QED  BY <2>1, GeometryAssumption DEF NIBLOCK
  <1>3. nmeta(Size) \in Nat /\ 0 < nmeta(Size) /\ NBBLOCK(Size) < nmeta(Size)
    BY <1>1, <1>2 DEF nmeta
  <1>4. Meta(Size) = {b \in Nat : b < nmeta(Size)}
    BY <1>3 DEF Meta
  <1>5. \A b \in Nat : GroupOf(b) \in Nat
    BY DivMono DEF GroupOf
  <1>6. \A b \in Meta(Size) : GroupOf(b) < Groups(nmeta(Size))
    BY <1>3, <1>4, GroupsBound
  <1>7. \A b \in Meta(Size) : GroupOf(b) < Groups(Size)
    BY <1>3, <1>4, SizeAssumption, GroupsBound
  <1>8. Groups(Size) \in Nat /\ Groups(nmeta(Size)) \in Nat
    BY <1>3, SizeAssumption, GroupsBound
  <1>9. \A b \in Nat : GroupOf(b) < Groups(Size) => BBLOCK(b) \in Meta(Size)
    <2>1. Groups(Size) <= NBBLOCK(Size)
      BY <1>1, SizeAssumption, GroupsBound
    <2> QED  BY <1>1, <1>3, <1>4, <1>5, <1>8, <2>1 DEF BBLOCK, bmapstart
  <1> QED  BY <1>3, <1>4, <1>5, <1>6, <1>7, <1>8, <1>9

(* What is reserved is among the blocks format() marks, because the inodes *)
(* that are Apart lie before nmeta; and the scan looks at the whole disk.  *)
LEMMA ReservedIsMeta ==
    /\ Reserved(Size) \subseteq Meta(Size)
    /\ 0 .. Size - 1 \subseteq Scanned(Size)
    /\ Scanned(Size) \subseteq Nat /\ Size \in Nat
  <1>1. NBBLOCK(Size) \in Nat
    BY SizeAssumption, DivMono DEF NBBLOCK
  <1>2. NINODE(Size) \in Nat
    BY SizeAssumption DEF NINODE
  <1>3. NIBLOCK(Size) \in Nat
    BY <1>2, GeometryAssumption DEF NIBLOCK
  <1>4. ASSUME NEW b \in 0 .. Size - 1
        PROVE  b \in Nat /\ BBLOCK(b) \in Meta(Size)
    BY SizeAssumption, LayoutFacts, GroupsBound
  <1>5. ASSUME NEW i \in Apart(Size)
        PROVE  IBLOCK(i, Size) \in Meta(Size)
    <2>1. i \in Nat /\ i \div IPB < NBBLOCK(Size)
      BY <1>2 DEF Apart
    <2>2. i \div IPB \in Nat
      BY <2>1, GeometryAssumption
    <2>3. IBLOCK(i, Size) \in Nat /\ IBLOCK(i, Size) < nmeta(Size)
      BY <1>1, <1>3, <2>1, <2>2 DEF IBLOCK, inodestart, nmeta
    <2> QED  BY <2>3, LayoutFacts DEF Meta
  <1>6. Reserved(Size) \subseteq Meta(Size)
    BY <1>4, <1>5, LayoutFacts DEF Reserved
  <1>7. ASSUME NEW b \in 0 .. Size - 1
        PROVE  b \in Scanned(Size)
    <2>1. b \in Nat /\ b < Size /\ b \in 0 .. Size + BPB - 1
      BY SizeAssumption, GeometryAssumption
    <2>2. b % BPB <= b
      BY <2>1, GeometryAssumption
    <2>3. b % BPB < Size
      BY <2>1, <2>2, SizeAssumption, GeometryAssumption
    <2>4. GroupOf(b) < Groups(Size)
      BY <2>1, SizeAssumption, GroupsBound
    <2> QED  BY <2>1, <2>3, <2>4 DEF Scanned
  <1>8. Scanned(Size) \subseteq Nat
    BY SizeAssumption, GeometryAssumption DEF Scanned
  <1> QED  BY <1>6, <1>7, <1>8, SizeAssumption

-----------------------------------------------------------------------------
(* The inductive invariant.  A format keeps no promise until its last      *)
(* write, so what it has done so far (Progress) must be enough to restore  *)
(* the promise at that write; and a block whose bit is set but which is    *)
(* not yet zeroed belongs to nobody, so NoLeak must count it (Pending).    *)

Formatting == op.k \in {"zero", "inodes", "mark"}

Unformatted == ~torn /\ ~magic => held = {} /\ bits = {} /\ op.k = "idle"
Stopped == ~up => op.k = "idle"
Owned == ~torn /\ magic => Meta(Size) \subseteq bits /\ held \subseteq bits \ Meta(Size)
Granting ==
    op.k = "clear" =>
        /\ op.n \in Scanned(Size)
        /\ ~torn => magic /\ op.n \in bits /\ op.n \notin held \cup Meta(Size)
        /\ ~torn /\ op.n >= Size => 0 .. Size - 1 \subseteq bits
Exact == magic /\ ~torn /\ ~lost => bits = Meta(Size) \cup held \cup Pending
Progress ==
    /\ Formatting => torn /\ magic /\ sbmagic /\ held = {}
    /\ op.k = "zero" => op.n < Groups(Size) /\ \A b \in bits : op.n <= GroupOf(b)
    /\ op.k = "inodes" => bits = {}
    /\ op.k = "mark" => /\ op.n < Groups(nmeta(Size))
                       /\ bits = {b \in Meta(Size) : GroupOf(b) < op.n}

IInv ==
    /\ TypeOK
    /\ Unformatted /\ Stopped /\ MagicAgrees
    /\ Owned /\ Granting /\ Exact /\ Progress

LEMMA InitIInv == Init => IInv
  <1> SUFFICES ASSUME Init
               PROVE  IInv
    OBVIOUS
  <1>1. op = Idle /\ op.k = "idle" /\ op \in [k : Kinds, n : Nat]
    BY DEF Init, Idle, Kinds
  <1>2. TypeOK
    BY <1>1 DEF Init, TypeOK
  <1>3. Unformatted /\ Stopped /\ MagicAgrees
    BY <1>1 DEF Init, Unformatted, Stopped, MagicAgrees
  <1>4. Owned /\ Granting /\ Exact /\ Progress
    BY <1>1 DEF Init, Owned, Granting, Exact, Progress, Formatting
  <1> QED  BY <1>2, <1>3, <1>4 DEF IInv

-----------------------------------------------------------------------------
(* One lemma per action.                                                   *)

LEMMA AllocateIInv == IInv /\ allocate_block => IInv'
  <1> SUFFICES ASSUME IInv, allocate_block
               PROVE  IInv'
    OBVIOUS
  <1> USE DEF IInv, TypeOK, Running
  <1>1. PICK b \in Free : /\ bits' = bits \cup {b} /\ op' = At("clear", b)
                          /\ \A c \in Free : b <= c
    BY DEF allocate_block, FirstFree
  <1>2. b \in Nat /\ GroupOf(b) < Groups(Size) /\ b \in Scanned(Size) /\ b \notin bits
    BY <1>1, SizeAssumption, GeometryAssumption DEF Free, Scanned
  <1>3. op.k = "idle" /\ op'.k = "clear" /\ op'.n = b
    BY <1>1 DEF At, allocate_block
  <1>4. UNCHANGED <<magic, sbmagic, up, held, torn, lost>> /\ up /\ sbmagic
    BY DEF allocate_block
  <1>5. ~torn => magic
    BY <1>4 DEF MagicAgrees
  <1>6. TypeOK'
    BY <1>1, <1>2, <1>4 DEF At, Kinds
  <1>7. Unformatted' /\ Stopped' /\ MagicAgrees'
    BY <1>4, <1>5 DEF Unformatted, Stopped, MagicAgrees
  <1>10. ASSUME b >= Size
         PROVE  0 .. Size - 1 \subseteq bits
    <2> SUFFICES ASSUME NEW c \in 0 .. Size - 1, c \notin bits
                 PROVE  FALSE
      OBVIOUS
    <2>1. c \in Free
      BY ReservedIsMeta DEF Free
    <2>2. b <= c
      BY <1>1, <2>1
    <2> QED  BY <1>2, <1>10, <2>2, ReservedIsMeta
  <1>8. Owned' /\ Granting'
    BY <1>1, <1>2, <1>3, <1>4, <1>5, <1>10 DEF Owned, Granting
  <1>9. Exact' /\ Progress'
    BY <1>1, <1>3, <1>4 DEF Exact, Progress, Pending, Formatting
  <1> QED  BY <1>6, <1>7, <1>8, <1>9

LEMMA ClearIInv == IInv /\ ClearBlock => IInv'
  <1> SUFFICES ASSUME IInv, ClearBlock
               PROVE  IInv'
    OBVIOUS
  <1> USE DEF IInv, TypeOK, Running
  <1>1. /\ op.k = "clear" /\ op' = Idle /\ op'.k = "idle"
        /\ held' = held \cup {op.n}
        /\ magic' = (magic /\ op.n # 0) /\ bits' = {x \in bits : BBLOCK(x) # op.n}
        /\ up /\ UNCHANGED <<sbmagic, up, torn, lost>>
    BY DEF ClearBlock, zero_block, BitmapAfterZero, Idle
  <1>2. op.n \in Scanned(Size)
    BY <1>1 DEF Granting
  <1>3. ASSUME ~torn
        PROVE  magic' = magic /\ bits' = bits
    <2>1. op.n \notin Meta(Size)
      BY <1>1, <1>3 DEF Granting
    <2> QED  BY <1>1, <2>1, LayoutFacts
  <1>4. TypeOK'
    BY <1>1, <1>2 DEF Idle, Kinds
  <1>5. Unformatted' /\ Stopped' /\ MagicAgrees'
    BY <1>1, <1>3 DEF Unformatted, Stopped, MagicAgrees, Granting
  <1>6. Owned' /\ Granting'
    BY <1>1, <1>3 DEF Owned, Granting
  <1>7. Exact' /\ Progress'
    BY <1>1, <1>3 DEF Exact, Progress, Pending, Formatting
  <1> QED  BY <1>4, <1>5, <1>6, <1>7

LEMMA FreeIInv == ASSUME NEW b \in held \cup Free
                  PROVE  IInv /\ free_block(b) => IInv'
  <1> SUFFICES ASSUME IInv, free_block(b)
               PROVE  IInv'
    OBVIOUS
  <1> USE DEF IInv, TypeOK, Running
  <1>1. /\ op.k = "idle" /\ bits' = bits \ {b} /\ held' = held \ {b}
        /\ UNCHANGED <<magic, sbmagic, up, op, torn, lost>>
    BY DEF free_block
  <1>2. TypeOK' /\ Unformatted' /\ Stopped' /\ MagicAgrees'
    BY <1>1 DEF Unformatted, Stopped, MagicAgrees
  <1>3. Owned' /\ Granting'
    BY <1>1 DEF Owned, Granting, Free
  <1>4. Exact' /\ Progress'
    BY <1>1 DEF Exact, Owned, Progress, Pending, Formatting, Free
  <1> QED  BY <1>2, <1>3, <1>4

LEMMA FormatIInv == IInv /\ format => IInv'
  <1> SUFFICES ASSUME IInv, format
               PROVE  IInv'
    OBVIOUS
  <1> USE DEF IInv, TypeOK, Running
  <1>1. op'.k = "zero" /\ op'.n = 0 /\ op' \in [k : Kinds, n : Nat]
    BY DEF format, At, Kinds
  <1>2. /\ magic' = TRUE /\ sbmagic' = TRUE /\ held' = {} /\ torn' = TRUE
        /\ lost' = FALSE /\ up /\ UNCHANGED <<bits, up>>
    BY DEF format
  <1>3. TypeOK' /\ Unformatted' /\ Stopped' /\ MagicAgrees'
    BY <1>1, <1>2 DEF Unformatted, Stopped, MagicAgrees
  <1>4. Owned' /\ Granting' /\ Exact'
    BY <1>1, <1>2 DEF Owned, Granting, Exact
  <1>5. Progress'
    BY <1>1, <1>2, LayoutFacts DEF Progress, Formatting
  <1> QED  BY <1>3, <1>4, <1>5

LEMMA ZeroBitmapIInv == IInv /\ ZeroBitmap => IInv'
  <1> SUFFICES ASSUME IInv, ZeroBitmap
               PROVE  IInv'
    OBVIOUS
  <1> USE DEF IInv, TypeOK, Running
  <1>1. op.k = "zero" /\ torn /\ up /\ held = {} /\ magic /\ sbmagic /\ op.n \in Nat
    BY DEF ZeroBitmap, Progress, Formatting
  <1>2. UNCHANGED <<magic, sbmagic, up, held, torn, lost>>
    BY DEF ZeroBitmap
  <1>3. bits' = {x \in bits : GroupOf(x) # op.n}
    <2>1. bits' = {x \in bits : GroupOf(x) + 1 # op.n + 1}
      BY DEF ZeroBitmap, BitmapAfterZero, BBLOCK, bmapstart
    <2>2. \A x \in bits : GroupOf(x) \in Nat
      BY LayoutFacts
    <2>3. \A x \in bits : GroupOf(x) + 1 # op.n + 1 <=> GroupOf(x) # op.n
      BY <1>1, <2>2
    <2> QED  BY <2>1, <2>3
  <1>4. \A x \in bits' : x \in Nat /\ GroupOf(x) < Groups(Size) /\ op.n + 1 <= GroupOf(x)
    BY <1>1, <1>3, LayoutFacts DEF Progress
  <1>5. CASE op.n + 1 < Groups(Size)
    <2>1. op'.k = "zero" /\ op'.n = op.n + 1 /\ op' \in [k : Kinds, n : Nat]
      BY <1>1, <1>5 DEF ZeroBitmap, At, Kinds
    <2> QED  BY <1>1, <1>2, <1>3, <1>4, <1>5, <2>1
             DEF Unformatted, Stopped, MagicAgrees, Owned, Granting, Exact, Progress, Formatting
  <1>6. CASE ~(op.n + 1 < Groups(Size))
    <2>1. op'.k = "inodes" /\ op' \in [k : Kinds, n : Nat]
      BY <1>6 DEF ZeroBitmap, At, Kinds
    <2>2. bits' = {}
      BY <1>1, <1>4, <1>6, LayoutFacts
    <2> QED  BY <1>1, <1>2, <2>1, <2>2
             DEF Unformatted, Stopped, MagicAgrees, Owned, Granting, Exact, Progress, Formatting
  <1> QED  BY <1>5, <1>6

LEMMA ZeroInodesIInv == IInv /\ ZeroInodes => IInv'
  <1> SUFFICES ASSUME IInv, ZeroInodes
               PROVE  IInv'
    OBVIOUS
  <1> USE DEF IInv, TypeOK, Running
  <1>1. op.k = "inodes" /\ torn /\ up /\ held = {} /\ magic /\ sbmagic /\ bits = {}
    BY DEF ZeroInodes, Progress, Formatting
  <1>2. UNCHANGED <<magic, sbmagic, up, held, torn, lost>> /\ bits' = {}
    BY <1>1 DEF ZeroInodes
  <1>3. op'.k = "mark" /\ op'.n = 0 /\ op' \in [k : Kinds, n : Nat]
    BY DEF ZeroInodes, At, Kinds
  <1>4. {b \in Meta(Size) : GroupOf(b) < 0} = {}
    BY LayoutFacts
  <1> QED  BY <1>1, <1>2, <1>3, <1>4, LayoutFacts
           DEF Unformatted, Stopped, MagicAgrees, Owned, Granting, Exact, Progress, Formatting

LEMMA MarkMetaIInv == IInv /\ MarkMeta => IInv'
  <1> SUFFICES ASSUME IInv, MarkMeta
               PROVE  IInv'
    OBVIOUS
  <1> USE DEF IInv, TypeOK, Running
  <1>1. /\ op.k = "mark" /\ torn /\ up /\ held = {} /\ magic /\ sbmagic /\ op.n \in Nat
        /\ op.n < Groups(nmeta(Size)) /\ bits = {b \in Meta(Size) : GroupOf(b) < op.n}
    BY DEF MarkMeta, Progress, Formatting
  <1>2. UNCHANGED <<magic, sbmagic, up, held, lost>>
    BY DEF MarkMeta
  <1>3. bits' = {b \in Meta(Size) : GroupOf(b) < op.n + 1}
    <2>1. bits' = {x \in bits : GroupOf(x) # op.n} \cup {b \in Meta(Size) : GroupOf(b) = op.n}
      BY DEF MarkMeta, Marked
    <2> QED  BY <1>1, <2>1, LayoutFacts
  <1>4. bits' \in SUBSET Nat /\ \A b \in bits' : GroupOf(b) < Groups(Size)
    BY <1>3, LayoutFacts
  <1>5. CASE op.n + 1 = Groups(nmeta(Size))
    <2>1. torn' = FALSE /\ op' = Idle /\ op'.k = "idle" /\ op' \in [k : Kinds, n : Nat]
      BY <1>5 DEF MarkMeta, Idle, Kinds
    <2>2. bits' = Meta(Size)
      BY <1>3, <1>5, LayoutFacts
    <2> QED  BY <1>1, <1>2, <1>4, <2>1, <2>2
             DEF Unformatted, Stopped, MagicAgrees, Owned, Granting, Exact, Pending,
                 Progress, Formatting
  <1>6. CASE op.n + 1 # Groups(nmeta(Size))
    <2>1. op'.k = "mark" /\ op'.n = op.n + 1 /\ op' \in [k : Kinds, n : Nat]
      BY <1>1, <1>6 DEF MarkMeta, At, Kinds
    <2>3. torn' = TRUE
      BY <1>6, Zenon DEF MarkMeta
    <2>2. op'.n < Groups(nmeta(Size))
      BY <1>1, <1>6, <2>1, LayoutFacts
    <2> QED  BY <1>1, <1>2, <1>3, <1>4, <2>1, <2>2, <2>3
             DEF Unformatted, Stopped, MagicAgrees, Owned, Granting, Exact, Progress, Formatting
  <1> QED  BY <1>5, <1>6

(* Writing sb back, dying and reading sb again touch neither the bitmap    *)
(* nor the progress of an operation that goes on.                          *)
LEMMA SuperblockIInv == IInv /\ (SaveSuperblock \/ Crash \/ sbinit) => IInv'
  <1> SUFFICES ASSUME IInv, SaveSuperblock \/ Crash \/ sbinit
               PROVE  IInv'
    OBVIOUS
  <1> USE DEF IInv, TypeOK, Running, Unformatted, Stopped, MagicAgrees, Owned,
              Granting, Exact, Pending, Progress, Formatting, Idle, Kinds
  <1>1. CASE SaveSuperblock
    BY <1>1 DEF SaveSuperblock
  <1>2. CASE Crash
    BY <1>2 DEF Crash
  <1>3. CASE sbinit
    BY <1>3 DEF sbinit
  <1> QED  BY <1>1, <1>2, <1>3

(* Every state of the allocator keeps the inductive invariant, whichever   *)
(* write of allocate_block, free_block or format a crash falls on.         *)
THEOREM Invariance == Spec => []IInv
  <1>1. IInv /\ [Next]_vars => IInv'
    <2> SUFFICES ASSUME IInv, [Next]_vars
                 PROVE  IInv'
      OBVIOUS
    <2>1. CASE UNCHANGED vars
      BY <2>1 DEF vars, IInv, TypeOK, Unformatted, Stopped, MagicAgrees, Owned,
                  Granting, Exact, Progress, Formatting, Pending
    <2>2. CASE Next
      BY <2>2, AllocateIInv, ClearIInv, FreeIInv, FormatIInv, ZeroBitmapIInv,
         ZeroInodesIInv, MarkMetaIInv, SuperblockIInv DEF Next
    <2> QED  BY <2>1, <2>2
  <1> QED  BY <1>1, InitIInv, PTL DEF Spec

(* Every variable keeps its type: in particular no bit is ever set that    *)
(* the bitmap has no room for.                                             *)
THEOREM TypeCorrect == Spec => []TypeOK
  <1>1. IInv => TypeOK
    BY DEF IInv
  <1> QED  BY <1>1, Invariance, PTL

(* A block in use is marked on disk whatever write the server dies after,  *)
(* so allocate_block cannot grant it a second time.                        *)
THEOREM UsedBlocksAreMarked == Spec => []HeldIsMarked
  <1>1. IInv => HeldIsMarked
    BY DEF IInv, HeldIsMarked, Owned, Unformatted
  <1> QED  BY <1>1, Invariance, PTL

(* The block being zeroed is nobody's, is not reserved (superblock, bitmap *)
(* and the inodes that are Apart; not the later inodes), and is off the    *)
(* disk only when the bitmap shows no free block on it.                    *)
THEOREM GrantsAreFresh == Spec => []GrantIsFresh
  <1>1. IInv => GrantIsFresh
    BY ReservedIsMeta DEF IInv, GrantIsFresh, Granting
  <1> QED  BY <1>1, Invariance, PTL

(* What is Reserved stays marked on a formatted disk.                      *)
THEOREM ReservedIsMarked == Spec => []MetaIsMarked
  <1>1. IInv => MetaIsMarked
    BY ReservedIsMeta DEF IInv, MetaIsMarked, Owned
  <1> QED  BY <1>1, Invariance, PTL

(* What files own and what is Reserved is marked at every moment.          *)
THEOREM InUseMarked == Spec => []InUseIsMarked
  <1>1. HeldIsMarked /\ MetaIsMarked => InUseIsMarked
    BY DEF InUseIsMarked
  <1> QED  BY <1>1, UsedBlocksAreMarked, ReservedIsMarked, PTL

(* Between operations, and without a crash, the bitmap is exactly what     *)
(* format() marked and the blocks in use, whatever is freed twice.         *)
THEOREM BitmapIsExact == Spec => []NoLeak
  <1>1. IInv => NoLeak
    BY DEF IInv, NoLeak, Exact, Pending, Idle
  <1> QED  BY <1>1, Invariance, PTL

(* sb.magic and the disk agree, so no superblock write undoes a format.    *)
THEOREM SuperblockAgrees == Spec => []MagicAgrees
  <1>1. IInv => MagicAgrees
    BY DEF IInv
  <1> QED  BY <1>1, Invariance, PTL

-----------------------------------------------------------------------------
(* The allocator refines the promise of Allocator.tla: zeroing the new     *)
(* block is the Grant, free_block the Release (a stutter for a block that  *)
(* is free already), the last write of a format is Ready, and where the    *)
(* promise does not hold afterwards the step is a Lapse.                   *)

Sound == magic /\ ~torn

LEMMA SoundSteps ==
    ASSUME IInv, Next, Sound, Sound'
    PROVE  [Abstract!Next]_(Abstract!vars)
  <1> DEFINE free == Grantable \ (bits \ Pending)
  <1> USE DEF Abstract!Next, Abstract!vars, Running, Sound, IInv
  <1>1. CASE allocate_block
    <2>1. PICK b : /\ b \notin bits /\ op.k = "idle" /\ op'.k = "clear" /\ op'.n = b
                   /\ bits' = bits \cup {b} /\ UNCHANGED <<magic, held, torn>>
      BY <1>1 DEF allocate_block, Free, At
    <2>2. free' = free
      BY <2>1 DEF Pending, Grantable
    <2> QED  BY <2>1, <2>2
  <1>2. CASE ClearBlock
    <2>1. /\ op.k = "clear" /\ op'.k = "idle" /\ held' = held \cup {op.n}
          /\ bits' = {x \in bits : BBLOCK(x) # op.n}
      BY <1>2 DEF ClearBlock, zero_block, BitmapAfterZero, Idle
    <2>2. /\ op.n \in Scanned(Size) /\ op.n \notin Meta(Size) /\ op.n \in bits
          /\ op.n >= Size => 0 .. Size - 1 \subseteq bits
      BY <2>1 DEF Granting
    <2>3. bits' = bits
      BY <2>1, <2>2, LayoutFacts DEF TypeOK
    <2>4. free' = free \ {op.n} /\ op.n \in free
      BY <2>1, <2>2, <2>3 DEF Pending, Grantable
    <2>5. op.n \notin 0 .. Size - 1 => free \cap (0 .. Size - 1) = {}
      <3>1. op.n \notin 0 .. Size - 1 => op.n >= Size
        BY <2>2, ReservedIsMeta
      <3> QED  BY <2>1, <2>2, <3>1 DEF Pending
    <2>6. Abstract!Grant(op.n)
      BY <2>1, <2>4, <2>5 DEF Abstract!Grant
    <2> QED  BY <2>4, <2>6
  <1>3. CASE \E b \in held \cup Free : free_block(b)
    <2>1. PICK b \in held \cup Free : free_block(b)
      BY <1>3
    <2>2. /\ op.k = "idle" /\ op' = op /\ bits' = bits \ {b} /\ held' = held \ {b}
          /\ UNCHANGED <<magic, torn>>
      BY <2>1 DEF free_block
    <2>3. held \subseteq bits \ Meta(Size) /\ held \subseteq Scanned(Size)
      BY DEF Owned, TypeOK
    <2>4. CASE b \in held
      <3>1. free' = free \cup {b}
        BY <2>2, <2>3, <2>4 DEF Pending, Grantable
      <3>2. Abstract!Release(b)
        BY <2>2, <2>4, <3>1 DEF Abstract!Release
      <3> QED  BY <2>4, <3>2
    <2>5. CASE b \notin held
      <3>1. b \notin bits
        BY <2>5 DEF Free
      <3> QED  BY <2>2, <2>5, <3>1 DEF Pending, Grantable
    <2> QED  BY <2>4, <2>5
  <1>4. CASE format
    BY <1>4 DEF format
  <1>5. CASE ZeroBitmap \/ ZeroInodes \/ MarkMeta
    BY <1>5 DEF ZeroBitmap, ZeroInodes, MarkMeta, Progress, Formatting
  <1>6. CASE SaveSuperblock \/ sbinit
    BY <1>6 DEF SaveSuperblock, sbinit, Pending, Grantable
  <1>7. CASE Crash
    <2>1. /\ bits' = bits /\ op'.k = "idle" /\ held' \in SUBSET held
          /\ UNCHANGED <<magic, torn>>
      BY <1>7 DEF Crash, Idle
    <2>2. free' \in SUBSET free
      BY <2>1 DEF Pending, Grantable
    <2> QED  BY <2>1, <2>2 DEF Abstract!Lose
  <1> QED  BY <1>1, <1>2, <1>3, <1>4, <1>5, <1>6, <1>7 DEF Next

(* The promise is made nowhere but at the last write of a format.          *)
LEMMA ReadySteps ==
    ASSUME IInv, Next, ~Sound, Sound'
    PROVE  Abstract!Ready
  <1> USE DEF Running, Sound, IInv
  <1>1. MarkMeta
    <2>1. CASE allocate_block \/ ClearBlock \/ \E b \in held \cup Free : free_block(b)
      <3>1. UNCHANGED torn /\ (magic' => magic)
        BY <2>1 DEF allocate_block, ClearBlock, zero_block, free_block
      <3> QED  BY <3>1
    <2>2. CASE format \/ ZeroBitmap \/ ZeroInodes \/ Crash \/ sbinit
      BY <2>2 DEF format, ZeroBitmap, ZeroInodes, Crash, sbinit
    <2>3. CASE SaveSuperblock
      BY <2>3 DEF SaveSuperblock, MagicAgrees
    <2> QED  BY <2>1, <2>2, <2>3 DEF Next
  <1>2. op.k = "mark" /\ torn /\ held = {} /\ ~torn'
    BY <1>1 DEF MarkMeta, Progress, Formatting
  <1>3. op.n + 1 = Groups(nmeta(Size))
    BY <1>1, <1>2, Zenon DEF MarkMeta
  <1>4. bits' = Meta(Size)
    <2>1. /\ bits = {b \in Meta(Size) : GroupOf(b) < op.n} /\ op.n \in Nat
      BY <1>2 DEF Progress, TypeOK
    <2>2. bits' = {x \in bits : GroupOf(x) # op.n} \cup {b \in Meta(Size) : GroupOf(b) = op.n}
      BY <1>1 DEF MarkMeta, Marked
    <2>3. bits' = {b \in Meta(Size) : GroupOf(b) < op.n + 1}
      BY <2>1, <2>2, LayoutFacts
    <2> QED  BY <1>3, <2>3, LayoutFacts
  <1>5. op'.k = "idle" /\ held' = {}
    BY <1>1, <1>2, <1>3 DEF MarkMeta, Idle
  <1>6. (Grantable \ (bits \ Pending))' = Grantable
    BY <1>4, <1>5 DEF Pending, Grantable
  <1> QED  BY <1>5, <1>6 DEF Abstract!Ready

LEMMA StepRefines == IInv /\ Next => [Abstract!Next]_(Abstract!vars)
  <1> SUFFICES ASSUME IInv, Next
               PROVE  [Abstract!Next]_(Abstract!vars)
    OBVIOUS
  <1>1. CASE ~Sound'
    BY <1>1 DEF Sound, Abstract!Next, Abstract!Lapse
  <1>2. CASE ~Sound /\ Sound'
    BY <1>2, ReadySteps DEF Abstract!Next
  <1>3. CASE Sound /\ Sound'
    BY <1>3, SoundSteps
  <1> QED  BY <1>1, <1>2, <1>3

(* block.c and format, with their writes and crashes, do what Allocator    *)
(* promises: each step is one of its steps or a stutter.                   *)
THEOREM Refinement == Spec => Promise
  <1>1. Init => Abstract!Init
    BY DEF Init, Abstract!Init
  <1>2. IInv /\ [Next]_vars => [Abstract!Next]_(Abstract!vars)
    BY StepRefines DEF vars, Abstract!vars, Pending, Grantable
  <1> QED  BY <1>1, <1>2, Invariance, PTL DEF Spec, Promise, Abstract!Spec
=============================================================================
