-------------------------- MODULE CircuitBreaker --------------------------
(* The three-state circuit breaker of sentinel/circuit_breaker.py, as pure *)
(* operators on a breaker record, so that a handler which calls several of *)
(* its methods in one step can chain them.                                 *)
(*                                                                         *)
(*   raw    _state, which may still say OPEN although the cooldown is over *)
(*   fails  _consecutive_failures; the code only compares it with the      *)
(*          threshold, so the count stops there                            *)
(*   cool   ticks of _reset_timeout_s left since _opened_at: 0 once        *)
(*          monotonic() - _opened_at >= _reset_timeout_s                   *)
EXTENDS Integers

CONSTANTS
    FailureThreshold,   \* failure_threshold
    Cooldown            \* reset_timeout_s = freeze_cooldown_s, in ticks

ASSUME BreakerAssumption ==
    /\ FailureThreshold \in Nat \ {0}
    /\ Cooldown \in Nat \ {0}

Breakers == [raw   : {"CLOSED", "OPEN", "HALF_OPEN"},
             fails : 0 .. FailureThreshold,
             cool  : 0 .. Cooldown]

NewBreaker == [raw |-> "CLOSED", fails |-> 0, cool |-> 0]

(* _set(OPEN): nothing happens, _opened_at included, when already OPEN.    *)
Trip(b) ==
    IF b.raw = "OPEN" THEN b
    ELSE [raw |-> "OPEN", fails |-> b.fails, cool |-> Cooldown]

(* The `state` property: OPEN turns into HALF_OPEN when somebody looks.    *)
Observe(b) ==
    IF b.raw = "OPEN" /\ b.cool = 0 THEN [b EXCEPT !.raw = "HALF_OPEN"] ELSE b

(* Mutant: one good latency sample closes the breaker from any state.      *)
SuccessCloses(b) == [raw |-> "CLOSED", fails |-> 0, cool |-> b.cool]

(* Mutant: a good sample in HALF_OPEN only resets the count.               *)
OnlyResetsCount(b) == [b EXCEPT !.fails = 0]

(* record_success and record_failure read the raw _state, not `state`.     *)
RecordSuccess(b) ==
    [raw   |-> IF b.raw = "HALF_OPEN" THEN "CLOSED" ELSE b.raw,
     fails |-> 0,
     cool  |-> b.cool]

RecordFailure(b) ==
    LET n    == IF b.fails < FailureThreshold THEN b.fails + 1 ELSE b.fails
        more == [b EXCEPT !.fails = n]
    IN  IF b.raw = "HALF_OPEN" \/ n >= FailureThreshold THEN Trip(more) ELSE more

(* One tick of the monotonic clock.                                        *)
Cool(b) == [b EXCEPT !.cool = IF @ > 0 THEN @ - 1 ELSE 0]
=============================================================================
