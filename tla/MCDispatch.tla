----------------------------- MODULE MCDispatch -----------------------------
(* Dispatch with a message that is no command, and commands that parse no *)
(* argument, one (rm), two (mk without a mode, w with its text), three (d) *)
EXTENDS Dispatch, TLC
Kind(words, known, takes) == [words |-> words, known |-> known, takes |-> takes]
SomeKinds == {Kind(2, FALSE, 0), Kind(0, TRUE, 0), Kind(1, TRUE, 1),
              Kind(1, TRUE, 2), Kind(3, TRUE, 2), Kind(3, TRUE, 3)}
Symmetric == Permutations(Clients)
=============================================================================
