-------------------------- MODULE FreezeContract --------------------------
(* What the Sentinel owes its readers, stated without a breaker, an equity *)
(* curve or a VaR engine: the trading mode they see, and the number of     *)
(* clock ticks for which FROZEN is guaranteed.  Only an operator re-arm    *)
(* may cut a freeze short.                                                 *)
EXTENDS Integers

CONSTANT Cooldown
VARIABLES mode, left, operator

Quiet == mode' = "FROZEN" => mode = "FROZEN"

Start == mode = "NORMAL" /\ left = 0 /\ operator = FALSE

(* A hard fault: frozen for a full cooldown from now.                      *)
Halt ==
    /\ mode' = "FROZEN"
    /\ left' = Cooldown
    /\ UNCHANGED operator

(* A clock tick; when it is the last one the mode may relax with it.       *)
Elapse ==
    /\ left > 0
    /\ left' = left - 1
    /\ Quiet
    /\ mode' # "FROZEN" => left' = 0
    /\ UNCHANGED operator

(* Outside the guaranteed time the mode may move, though never to FROZEN.  *)
Settle ==
    /\ left = 0
    /\ Quiet
    /\ UNCHANGED <<left, operator>>

(* The operator may shorten the guarantee, and then the freeze with it.    *)
Rearm ==
    /\ operator' # operator
    /\ left' \in 0 .. left
    /\ Quiet
    /\ mode' # "FROZEN" => left' = 0

Step == Halt \/ Elapse \/ Settle \/ Rearm

Spec == Start /\ [][Step]_<<mode, left, operator>>
=============================================================================
