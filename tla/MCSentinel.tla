----------------------------- MODULE MCSentinel -----------------------------
(***************************************************************************)
(* A calm second, one with an open circuit, and one under load.            *)
(***************************************************************************)
EXTENDS Sentinel

Calm == [down_ratio |-> 0, global_cb_state |-> 0, waf_blocks |-> 0,
         server_errors |-> 0, requests |-> 200, saturation |-> 0]
Seconds == {Calm, [Calm EXCEPT !.global_cb_state = 1],
            [Calm EXCEPT !.waf_blocks = 250, !.saturation = 96]}
=============================================================================
