----------------------------- MODULE MCBlockMap -----------------------------
(* Files are interchangeable in every action and property.                 *)
EXTENDS BlockMap, FiniteSets

SymFiles == Permutations(Files)

(* Bound: states after itest has freed a block that is still referred to,  *)
(* after a crash inside itrunc, or after two kinds of harm, are checked    *)
(* but not extended.                                                       *)
Orderly == hurt \cap {"recycle", "torn"} = {} /\ Cardinality(hurt) <= 1

(* Bound: of the blocks that a crash leaves marked and unreachable there   *)
(* is one at most, and an rm that crashes leave half done is repeated once *)
(* (links goes from 1 to 0 to 65535); other crashes are not counted.       *)
Leaked == bits \ ({0} \cup fresh \cup UNION {RefsOf(Now(f)) : f \in Files})
FewLeaks ==
    /\ Orderly
    /\ freed \/ Cardinality(Leaked) <= 1
    /\ \A f \in Files : Now(f).links \in {0, 1, 65535}
=============================================================================
