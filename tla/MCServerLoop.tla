---------------------------- MODULE MCServerLoop ----------------------------
(* ServerLoop with clients and threads that can be exchanged.              *)
EXTENDS ServerLoop, TLC
Symmetric == Permutations(Clients) \cup Permutations(Threads)
=============================================================================
