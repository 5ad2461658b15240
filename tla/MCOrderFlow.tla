---------------------------- MODULE MCOrderFlow ----------------------------
(* OrderFlow with the signals that tell its cases apart.                   *)
EXTENDS OrderFlow

Says(flat, goal, way) == [flat |-> flat, target |-> goal, way |-> way]

(* Enter, trim, turn round, flatten with either sign of the direction, and *)
(* enter without a leg.                                                    *)
MCSignals == {Says(FALSE, 2, 1), Says(FALSE, 1, 1), Says(FALSE, -1, -1),
              Says(TRUE, 0, -1), Says(TRUE, 0, 1), Says(FALSE, 2, 0)}

(* Enter a long, and trim it.                                              *)
MCTrim == {Says(FALSE, 2, 1), Says(FALSE, 1, 1)}
=============================================================================
