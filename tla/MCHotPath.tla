---------------------------- MODULE MCHotPath ----------------------------
EXTENDS HotPath, TLC

CONSTANTS u1, u2, slotA, slotB, slotC

\* Every breaker name has a slot of its own.
Separate == u1 :> slotA @@ u2 :> slotB @@ Global :> slotC

\* One upstream; its slot is its own.
Single == u1 :> slotA @@ Global :> slotC

Symm == Permutations(Workers) \cup Permutations(Requests)

==========================================================================
