---------------------------- MODULE MCSentinel ----------------------------
(* Sentinel with a handful of equity levels around the 3 % limit.          *)
EXTENDS Sentinel

(* From 100: 98 breaches only a tightened limit, 96 the baseline as well,  *)
(* 0 is a wiped account and 103 a new high.                                *)
MCEquities == {0, 96, 98, 100, 103}

(* Below the floor, inside the envelope, above the baseline.               *)
MCDirectives == {-5, 15, 500}
=============================================================================
