--------------------------- MODULE MCActiveHealth ---------------------------
(***************************************************************************)
(* Instances of ActiveHealth: the slot of each address.                    *)
(***************************************************************************)
EXTENDS ActiveHealth

\* Every address in the same slot; with one address, no collision.
OneSlot == [x \in Addresses |-> CHOOSE t \in Slots : TRUE]
=============================================================================
