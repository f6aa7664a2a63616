----------------------------- MODULE MCSessions -----------------------------
(* Sessions with a few connection slots, two users and three directories.  *)
EXTENDS Sessions
=============================================================================
