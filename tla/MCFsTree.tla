------------------------------ MODULE MCFsTree ------------------------------
(* FsTree with a mode that gives all rights and one that gives others none.*)
EXTENDS FsTree
All == [own |-> {"R", "W"}, oth |-> {"R", "W"}]
Private == [own |-> {"R", "W"}, oth |-> {}]
BothModes == {All, Private}

(* Bound: after a format took a directory from under a user, what mk, rm   *)
(* and rmdir do is checked but not followed further.                       *)
FewWhenLost == lost => cmd.k \notin {"mk", "mkdir", "rm", "rmdir"}
=============================================================================
