----------------------------- MODULE Allocator -----------------------------
(* What the block allocator promises to the inode layer: it grants a block *)
(* that is free, to one holder at a time, and one that is not on the disk  *)
(* only when no block of the disk is free; what is released is free again. *)
(* The promise stands while `sound' does: not before the first format, and *)
(* not from the first write of a format to its last, which a death of the  *)
(* server makes last until the next complete format.                       *)
CONSTANTS
    Blocks,     \* the blocks a complete format leaves free
    OnDisk      \* the blocks the disk has

VARIABLES held, free, sound
vars == <<held, free, sound>>

Init == held = {} /\ sound = FALSE

Grant(b) ==
    /\ b \in free
    /\ b \notin OnDisk => free \cap OnDisk = {}
    /\ held' = held \cup {b} /\ free' = free \ {b}
    /\ UNCHANGED sound

Release(b) ==
    /\ b \in held
    /\ held' = held \ {b} /\ free' = free \cup {b}
    /\ UNCHANGED sound

(* A death of the server loses the blocks that no inode on disk names: they *)
(* are neither held nor free until the next format.                        *)
Lose ==
    /\ held' \in SUBSET held /\ free' \in SUBSET free
    /\ UNCHANGED sound

(* No promise is made, or it ends; a format that is complete makes it.     *)
Lapse == sound' = FALSE
Ready == ~sound /\ sound' = TRUE /\ held' = {} /\ free' = Blocks

Next ==
    \/ \E b \in free : Grant(b)
    \/ \E b \in held : Release(b)
    \/ Lose \/ Lapse \/ Ready

Spec == Init /\ [][Next]_vars
=============================================================================
