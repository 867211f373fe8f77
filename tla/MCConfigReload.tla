--------------------------- MODULE MCConfigReload ---------------------------
(***************************************************************************)
(* Two usable versions that keep a path and move it to another service, so *)
(* that a mix of the two is visible, and one that does not parse.  One of  *)
(* the two is called like the built-in default.                            *)
(***************************************************************************)
EXTENDS ConfigReload

CONSTANTS v0, v1, bad, orders, legacy, us, eu

Api == <<"api">>
ApiOrders == <<"api", "orders">>

TwoVersions ==
  v0 :> [routes |-> <<[path_prefix |-> Api, service_name |-> legacy]>>,
         services |-> {legacy}]
  @@
  v1 :> [routes |-> <<[path_prefix |-> ApiOrders, service_name |-> orders],
                      [path_prefix |-> Api, service_name |-> legacy]>>,
         services |-> {orders}]

OrderPath == {ApiOrders}
=============================================================================
