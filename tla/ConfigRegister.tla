--------------------------- MODULE ConfigRegister ---------------------------
(***************************************************************************)
(* What configuration distribution promises the workers of one node: the   *)
(* configuration is a register with a history, each worker serves a usable *)
(* entry of it or, after a restart, the built-in default, and until it     *)
(* restarts it only moves forward.  No worker ever serves a value that was *)
(* not distributed, however the file is written and watched.               *)
(***************************************************************************)
EXTENDS Naturals, Sequences

CONSTANTS
  Workers,    \* the NGINX workers of the node
  Versions,   \* the configurations a control plane may publish
  Usable      \* the ones that deserialize into a GatewayConfig

VARIABLES
  history,    \* the configurations distributed so far, in order
  served      \* per worker, the entry it serves; 0 is the built-in default

regVars == <<history, served>>

RegInit ==
  /\ history = <<>>
  /\ served = [w \in Workers |-> 0]

\* A new configuration reaches the node.
Distribute(v) ==
  /\ history' = Append(history, v)
  /\ UNCHANGED served

\* A worker adopts a later usable entry; it may skip some.
Adopt(w, i) ==
  /\ i > served[w]
  /\ history[i] \in Usable
  /\ served' = [served EXCEPT ![w] = i]
  /\ UNCHANGED history

\* A worker process is replaced.
Restart(w) ==
  /\ served' = [served EXCEPT ![w] = 0]
  /\ UNCHANGED history

RegNext ==
  \/ \E v \in Versions : Distribute(v)
  \/ \E w \in Workers : \E i \in DOMAIN history : Adopt(w, i)
  \/ \E w \in Workers : Restart(w)

RegSpec == RegInit /\ [][RegNext]_regVars
=============================================================================
