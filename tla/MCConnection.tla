---------------------------- MODULE MCConnection ----------------------------
(* Connection for TLC.  After a loss there is no protocol any more: the    *)
(* client may send without waiting for an answer, and answers pile up.     *)
(* Bound: states after a loss with more than MaxUnderWay bytes in the      *)
(* buffers and the network are checked but not extended.                   *)
EXTENDS Connection
CONSTANT MaxUnderWay
FewUnderWay == lost = NoMsg \/ Len(ToServer) + Len(ToClient) <= MaxUnderWay
=============================================================================
