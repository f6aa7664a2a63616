---------------------------- MODULE MCDiskServer ----------------------------
(* DiskServer with blocks of one and of two kinds of bytes.                *)
EXTENDS DiskServer
TwoBlocks == {<<1, 1>>, <<1, 2>>}
=============================================================================
