----------------------------- MODULE BlockAlloc -----------------------------
(* block.c's allocator and fs.c's format(), one step per write to the disk *)
(* server, so that the file server can die between any two of them.  All   *)
(* of this runs under the server's mutex: one operation at a time.  The    *)
(* callers (inode.c) are abstracted to `held', the blocks they own.        *)
EXTENDS Layout

CONSTANT Size   \* blocks of the disk, the value format() gives sb.size

ASSUME SizeAssumption == Size \in Nat /\ nmeta(Size) <= Size

VARIABLES
    magic,      \* on disk: block 0 carries MAGIC
    bits,       \* on disk: the blocks whose bit is set in the bitmap
    sbmagic,    \* in memory: sb.magic = MAGIC
    up,         \* the file server is running
    op,         \* the operation in progress, and how far it has come
    held,       \* ghost: the blocks callers own
    torn,       \* history: a format began and has not been completed
    lost        \* history: a crash since the last complete format

vars == <<magic, bits, sbmagic, up, op, held, torn, lost>>

Idle == [k |-> "idle", n |-> 0]
At(k, n) == [k |-> k, n |-> n]

Kinds == {"idle", "zero", "inodes", "mark", "clear"}

TypeOK ==
    /\ magic \in BOOLEAN /\ sbmagic \in BOOLEAN
    /\ up \in BOOLEAN /\ torn \in BOOLEAN /\ lost \in BOOLEAN
    /\ bits \in SUBSET Nat
    /\ \A b \in bits : GroupOf(b) < Groups(Size)
    /\ op \in [k : Kinds, n : Nat]
    /\ held \in SUBSET Scanned(Size)

Init ==
    /\ magic = FALSE /\ sbmagic = FALSE
    /\ bits = {} /\ held = {}
    /\ up = TRUE /\ op = Idle
    /\ torn = FALSE /\ lost = FALSE

-----------------------------------------------------------------------------
(* zero_block: what a block of zeroes written to b does to the superblock  *)
(* and to the bitmap.                                                      *)
BitmapAfterZero(b) == {x \in bits : BBLOCK(x) # b}

zero_block(b) ==
    /\ magic' = (magic /\ b # 0)
    /\ bits' = BitmapAfterZero(b)

(* allocate_block: the first clear bit is set and the bitmap block written *)
(* back; the block itself is zeroed by the next write.  With no clear bit  *)
(* the code returns 0 and changes nothing.                                 *)
(* Mutant: the bits read are not looked at.                                *)
Free_Unread == Scanned(Size)
Free == Scanned(Size) \ bits

Running(k) == up /\ op.k = k

FirstFree(b) == b \in Free /\ \A c \in Free : b <= c

(* Mutant: the bitmap block is not written back.                           *)
allocate_block_NoWrite ==
    /\ Running("idle") /\ sbmagic
    /\ \E b \in Free : FirstFree(b) /\ op' = At("clear", b)
    /\ UNCHANGED <<magic, bits, sbmagic, up, held, torn, lost>>

allocate_block ==
    /\ Running("idle") /\ sbmagic
    /\ \E b \in Free :
         /\ FirstFree(b)
         /\ bits' = bits \cup {b}
         /\ op' = At("clear", b)
    /\ UNCHANGED <<magic, sbmagic, up, held, torn, lost>>

ClearBlock ==
    /\ Running("clear")
    /\ zero_block(op.n)
    /\ held' = held \cup {op.n}
    /\ op' = Idle
    /\ UNCHANGED <<sbmagic, up, torn, lost>>

(* free_block: also of a block that is free already, where the code warns  *)
(* and clears the bit once more (itest leaves addresses of freed blocks).  *)
(* Mutant: the bit is turned over, not cleared.                            *)
free_block_Toggle(b) ==
    /\ Running("idle") /\ sbmagic
    /\ bits' = IF b \in bits THEN bits \ {b} ELSE bits \cup {b}
    /\ held' = held \ {b}
    /\ UNCHANGED <<magic, sbmagic, up, op, torn, lost>>

free_block(b) ==
    /\ Running("idle") /\ sbmagic
    /\ bits' = bits \ {b}
    /\ held' = held \ {b}
    /\ UNCHANGED <<magic, sbmagic, up, op, torn, lost>>

-----------------------------------------------------------------------------
(* format(): the superblock is written first, then the bitmap is zeroed,   *)
(* the inode table is zeroed, and the metadata is marked in the bitmap.    *)
format ==
    /\ Running("idle")
    /\ magic' = TRUE /\ sbmagic' = TRUE
    /\ op' = At("zero", 0)
    /\ held' = {} /\ torn' = TRUE /\ lost' = FALSE
    /\ UNCHANGED <<bits, up>>

ZeroBitmap ==
    /\ Running("zero")
    /\ bits' = BitmapAfterZero(op.n + bmapstart)
    /\ op' = IF op.n + 1 < Groups(Size) THEN At("zero", op.n + 1)
                                        ELSE At("inodes", 0)
    /\ UNCHANGED <<magic, sbmagic, up, held, torn, lost>>

(* The writes that zero the inode table, in one step: nothing modelled     *)
(* here depends on how many of them were done.                             *)
ZeroInodes ==
    /\ Running("inodes")
    /\ bits' = {x \in bits : BBLOCK(x) \notin InodeTable(Size)}
    /\ op' = At("mark", 0)
    /\ UNCHANGED <<magic, sbmagic, up, held, torn, lost>>

(* Mutant: one metadata block is forgotten, `if (i + j < nmeta - 1)'.      *)
Marked_Short(g) == {b \in 0 .. nmeta(Size) - 2 : GroupOf(b) = g}
Marked(g) == {b \in Meta(Size) : GroupOf(b) = g}

MarkMeta ==
    /\ Running("mark")
    /\ bits' = {x \in bits : GroupOf(x) # op.n} \cup Marked(op.n)
    /\ LET last == op.n + 1 = Groups(nmeta(Size)) IN
         /\ op' = IF last THEN Idle ELSE At("mark", op.n + 1)
         /\ torn' = ~last
    /\ UNCHANGED <<magic, sbmagic, up, held, lost>>

-----------------------------------------------------------------------------
(* save_user: every command ends by rewriting block 0 from sb.             *)
SaveSuperblock ==
    /\ Running("idle")
    /\ magic' = sbmagic
    /\ UNCHANGED <<bits, sbmagic, up, op, held, torn, lost>>

(* The server dies; the blocks only memory knew of have no owner any more. *)
Crash ==
    /\ up
    /\ up' = FALSE /\ op' = Idle /\ lost' = TRUE
    /\ held' \in SUBSET held
    /\ UNCHANGED <<magic, bits, sbmagic, torn>>

(* main: sbinit() reads the superblock back.                               *)
sbinit ==
    /\ ~up
    /\ up' = TRUE /\ sbmagic' = magic
    /\ UNCHANGED <<magic, bits, op, held, torn, lost>>

Next ==
    \/ allocate_block \/ ClearBlock
    \/ \E b \in held \cup Free : free_block(b)
    \/ format \/ ZeroBitmap \/ ZeroInodes \/ MarkMeta
    \/ SaveSuperblock
    \/ Crash \/ sbinit

Spec == Init /\ [][Next]_vars

-----------------------------------------------------------------------------
(* Properties.  `torn' excepts the time from the first write of a format   *)
(* to its last, which a crash makes last until the next complete format.   *)

(* A block that a file owns is marked in the bitmap on disk at every       *)
(* moment, so no later scan of allocate_block can hand it out again,       *)
(* whichever write the server died after.                                  *)
HeldIsMarked == ~torn => held \subseteq bits

(* The block allocate_block is about to zero is nobody's, not one of the   *)
(* superblock, of the bitmap or of the inodes that are Apart, and not off  *)
(* the disk while a block of the disk is free (block.c:26 looks beyond the *)
(* end).  It can be a block of the inode table: `mark bitmap and inode     *)
(* blocks as in use' (fs.c:94) is not what format() does, see Apart.       *)
GrantIsFresh ==
    op.k = "clear" /\ ~torn =>
        /\ op.n \notin held \cup Reserved(Size)
        /\ op.n >= Size => 0 .. Size - 1 \subseteq bits

(* A formatted disk keeps the superblock, the bitmap and the inodes that   *)
(* are Apart marked for ever.                                              *)
MetaIsMarked == magic /\ ~torn => Reserved(Size) \subseteq bits

(* What a file owns and what is reserved is marked at every moment,        *)
(* whichever write the server died after.                                  *)
InUseIsMarked == HeldIsMarked /\ MetaIsMarked

(* Without a crash the bitmap is exact between two operations, frees of    *)
(* blocks that are free already included: what is marked is what format()  *)
(* marks and what is held, so when allocate_block finds no block all that  *)
(* it looks at is.                                                         *)
NoLeak ==
    op = Idle /\ magic /\ ~torn /\ ~lost => bits = Meta(Size) \cup held

(* Whether the disk is formatted is the same in memory and on disk: the    *)
(* superblock save_user writes after a command never undoes a format.      *)
MagicAgrees == up /\ ~torn => magic = sbmagic

(* The allocator keeps the promise of Allocator.tla.  A block whose bit is *)
(* set is free to it until it is zeroed and returned (Pending).  `Blocks'  *)
(* is what the bitmap leaves free, blocks of later inodes and blocks off   *)
(* the disk included: that they are left out is not promised.              *)
Pending == IF op.k = "clear" THEN {op.n} ELSE {}
Grantable == Scanned(Size) \ Meta(Size)
Abstract ==
    INSTANCE Allocator WITH Blocks <- Grantable,
                            OnDisk <- 0 .. Size - 1,
                            free <- Grantable \ (bits \ Pending),
                            sound <- magic /\ ~torn
Promise == Abstract!Spec
=============================================================================
