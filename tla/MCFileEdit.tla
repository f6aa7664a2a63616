----------------------------- MODULE MCFileEdit -----------------------------
(* FileEdit with two different bytes of text.                              *)
EXTENDS FileEdit
=============================================================================
