----------------------------- MODULE IndexPool -----------------------------
(***************************************************************************)
(* What the index allocator promises to the devices: an index is handed    *)
(* out to one holder at a time, index 0 is never handed out, and an index  *)
(* can be held again only after it was given back.                         *)
(***************************************************************************)
EXTENDS Integers

CONSTANT MaxIndex       \* numeric_limits<index_t>::max()

VARIABLES
    held,               \* the indices in use
    holders             \* how many devices have been given one

vars == <<held, holders>>

Init == held = {} /\ holders = 0

\* An index nobody holds becomes held, whoever chose it.
Take(index) ==
    /\ index \notin held
    /\ held' = held \cup {index}
    /\ holders' = holders + 1

\* A held index becomes available again.
Give(index) ==
    /\ index \in held
    /\ held' = held \ {index}
    /\ holders' = holders - 1

Next == \E index \in 1..MaxIndex : Take(index) \/ Give(index)

Spec == Init /\ [][Next]_vars

=============================================================================
