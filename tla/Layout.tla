------------------------------- MODULE Layout -------------------------------
(* The geometry of the simulated disk: the macros of fs/include/common.h,  *)
(* block.h and inode.h, and the fields format() puts into the superblock.  *)
(* Blocks and inodes are numbered from 0; `size' is sb.size, ncyl * nsec.  *)
EXTENDS Naturals

CONSTANTS
    BPB,    \* bits of a bitmap block (4096 in the code)
    IPB     \* inodes of an inode block (8 in the code)

ASSUME GeometryAssumption == BPB \in Nat \ {0} /\ IPB \in Nat \ {0}

NINODE(size)  == size \div 2
NBBLOCK(size) == size \div BPB + 1
NIBLOCK(size) == NINODE(size) \div IPB + 1

(* Rounds of the loops `for (i = 0; i < n; i += BPB)' over the bitmap.     *)
Groups(n) == (n + BPB - 1) \div BPB
GroupOf(b) == b \div BPB

bmapstart == 1
BBLOCK(b) == GroupOf(b) + bmapstart

(* The blocks format() counts as metadata and marks in the bitmap.  They   *)
(* are not all that hold metadata: see Apart.                              *)
nmeta(size) == 1 + NBBLOCK(size) + NIBLOCK(size)
Meta(size) == 0 .. nmeta(size) - 1

(* Where format() puts the inode table: 1 + NIBLOCK(size), although it is  *)
(* the bitmap before it, of NBBLOCK(size) blocks, that it has to leave out.*)
inodestart(size) == 1 + NIBLOCK(size)
IBLOCK(i, size) == i \div IPB + inodestart(size)
InodeTable(size) == {IBLOCK(i, size) : i \in 0 .. NINODE(size) - 1}

(* So of the table only NBBLOCK(size) blocks are before nmeta(size); the   *)
(* inodes there are apart from file data.  On a disk of 1024 blocks the    *)
(* table is 66 .. 129, nmeta is 67, and block 67 is both the first block   *)
(* of data and the home of inodes 8 .. 15.                                 *)
Apart(size) == {i \in 0 .. NINODE(size) - 1 : i \div IPB < NBBLOCK(size)}

(* What no grant may hit: superblock, bitmap, and the inodes that are.     *)
Reserved(size) ==
    {0} \cup {BBLOCK(b) : b \in 0 .. size - 1}
        \cup {IBLOCK(i, size) : i \in Apart(size)}

(* The blocks allocate_block's two loops look at.  The inner loop stops    *)
(* when j, the position inside the group, reaches sb.size, so that on a    *)
(* disk of more than BPB blocks the last group is scanned to its end.      *)
(* Mutant: the bound of the outer loop, one too many.                       *)
Scanned_OuterBound(size) ==
    {b \in 0 .. size + BPB - 1 : GroupOf(b) <= Groups(size) /\ b % BPB < size}

Scanned(size) ==
    {b \in 0 .. size + BPB - 1 : GroupOf(b) < Groups(size) /\ b % BPB < size}
=============================================================================
