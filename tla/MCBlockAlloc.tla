---------------------------- MODULE MCBlockAlloc ----------------------------
(* BlockAlloc on a disk of 10 blocks, with bitmap blocks of 6 bits and     *)
(* inode blocks of 2 inodes: 0 is the superblock, 1 .. 2 the bitmap,       *)
(* 4 .. 6 the inode table, of which 6 is data too, and 10 and 11 are       *)
(* scanned but not there.                                                  *)
EXTENDS BlockAlloc, FiniteSets

(* Bound: on a disk whose format was cut short, where nothing is promised, *)
(* the callers own two blocks at most.  The next format starts from there.  *)
FewHeldWhileTorn == torn => Cardinality(held) <= 2
=============================================================================
