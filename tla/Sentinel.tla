----------------------------- MODULE Sentinel -----------------------------
(* The risk governor of sentinel/manager.py: drawdown freeze, VaR soft     *)
(* freeze and latency breaker, the one-second status loop and the operator *)
(* controls.  Every handler runs without suspending (EventBus.publish puts *)
(* on an unbounded queue), so each is one atomic action; the status loop   *)
(* and the bus dispatcher interleave between handlers.                     *)
(*                                                                         *)
(* Abstracted data: the equity a fill or a re-mark produces is any member  *)
(* of Equities, the VaR estimate of a cycle is any verdict.                *)
EXTENDS CircuitBreaker

CONSTANTS
    Equities,          \* equity values a fill, a mark or the wallet may give
    StartingCapital,   \* starting_capital
    BaseDrawdown,      \* max_drawdown_pct, in tenths of a per cent
    Directives         \* max_drawdown_pct values the Core AI may send

VARIABLES
    br,           \* _breaker
    equity,       \* _equity
    peak,         \* _peak_equity
    holding,      \* bool(_positions)
    maxDd,        \* _max_dd
    riskFrozen,   \* _risk_frozen
    riskLeft,     \* ticks until _risk_unfreeze_at
    softBreach,   \* _var_soft_breach
    paused,       \* _paused
    operator,     \* history: flips with every operator re-arm
    outbox        \* events published on the bus by the last step

vars == <<br, equity, peak, holding, maxDd, riskFrozen, riskLeft,
          softBreach, paused, operator, outbox>>

book    == <<equity, peak, holding>>
freeze  == <<riskFrozen, riskLeft>>

ASSUME SentinelAssumption ==
    /\ Equities \subseteq Int
    /\ StartingCapital \in Equities
    /\ BaseDrawdown \in Nat \ {0}
    /\ Directives \subseteq Int

-----------------------------------------------------------------------------
Larger(a, b)  == IF a >= b THEN a ELSE b
Smaller(a, b) == IF a <= b THEN a ELSE b

(* _drawdown() >= _max_dd, without the division.                           *)
Breach(top, now, limit) == top > 0 /\ (top - now) * 1000 >= limit * top

(* Mutant: a directive may loosen the limit.                               *)
ClampBelowOnly(v) == Larger((3 * BaseDrawdown) \div 10, v)

(* _clamp_threshold with lo_factor = 0.3 and hi_factor = 1.0.              *)
Floor == (3 * BaseDrawdown) \div 10
Clamp(v) == Larger(Floor, Smaller(BaseDrawdown, v))

(* _resolve_mode; it looks at the breaker through the `state` property.    *)
ModeOf(b, frozen, soft) ==
    LET seen == Observe(b).raw
    IN  IF seen = "OPEN" \/ frozen THEN "FROZEN"
        ELSE IF soft \/ seen = "HALF_OPEN" THEN "REDUCE_ONLY"
        ELSE "NORMAL"

Mode == ModeOf(br, riskFrozen, softBreach)

Modes  == {"NORMAL", "REDUCE_ONLY", "FROZEN"}
Emergency(action, mode) == [topic |-> "sentinel.emergency", action |-> action, mode |-> mode]
Status(mode, breached)  == [topic |-> "sentinel.status", mode |-> mode, breached |-> breached]

(* Mutant: the hook announces a freeze on any transition.                  *)
AnyTransition == IF br'.raw # br.raw THEN {Emergency("FREEZE", "FROZEN")} ELSE {}

(* _on_breaker_transition publishes the FREEZE emergency when a step took  *)
(* the breaker to OPEN, and only then.                                     *)
Transition == IF br'.raw = "OPEN" /\ br.raw # "OPEN"
              THEN {Emergency("FREEZE", "FROZEN")} ELSE {}

(* Mutant: a breach that is seen again extends the freeze.                 *)
RefreezeEveryMark(b, e) ==
    /\ equity' = e
    /\ peak' = Larger(peak, e)
    /\ LET hit == Breach(peak', e, maxDd)
       IN  /\ riskFrozen' = (riskFrozen \/ hit)
           /\ riskLeft' = IF hit THEN Cooldown ELSE riskLeft
           /\ br' = IF hit THEN Trip(b) ELSE b
    /\ outbox' = Transition

(* _revalue_and_govern with the new equity e, after the handler itself has *)
(* taken the breaker to b.                                                 *)
RevalueAndGovern(b, e) ==
    /\ equity' = e
    /\ peak' = Larger(peak, e)
    /\ LET hit == Breach(peak', e, maxDd) /\ ~riskFrozen
       IN  /\ riskFrozen' = (riskFrozen \/ hit)
           /\ riskLeft' = IF hit THEN Cooldown ELSE riskLeft
           /\ br' = IF hit THEN Trip(b) ELSE b
    /\ outbox' = Transition

-----------------------------------------------------------------------------
Init ==
    /\ br = NewBreaker
    /\ equity = StartingCapital
    /\ peak = StartingCapital
    /\ holding = FALSE
    /\ maxDd = BaseDrawdown
    /\ riskFrozen = FALSE
    /\ riskLeft = 0
    /\ softBreach = FALSE
    /\ paused = FALSE
    /\ operator = FALSE
    /\ outbox = {}

(* _on_fill of a FILLED execution: a position entry exists from now on.    *)
OnFill ==
    /\ holding' = TRUE
    /\ \E e \in Equities : RevalueAndGovern(br, e)
    /\ UNCHANGED <<maxDd, softBreach, paused, operator>>

(* Mutant: with no position the tick returns before the governor is asked. *)
QuietTicker ==
    /\ \E b \in {br, RecordSuccess(br), RecordFailure(br)} :
          IF holding THEN \E e \in Equities : RevalueAndGovern(b, e)
                     ELSE br' = b /\ outbox' = Transition
                          /\ UNCHANGED <<equity, peak, riskFrozen, riskLeft>>
    /\ UNCHANGED <<holding, maxDd, softBreach, paused, operator>>

(* _on_ticker: with no position the re-mark leaves equity alone; a tick    *)
(* with an event time also feeds the latency breaker.                      *)
OnTicker ==
    /\ \E b \in {br, RecordSuccess(br), RecordFailure(br)},
          e \in (IF holding THEN Equities ELSE {equity}) :
             RevalueAndGovern(b, e)
    /\ UNCHANGED <<holding, maxDd, softBreach, paused, operator>>

(* _on_capital_sync: only while no position entry exists.                  *)
OnCapitalSync ==
    /\ ~holding
    /\ \E e \in Equities : e > 0 /\ equity' = e /\ peak' = e
    /\ outbox' = {}
    /\ UNCHANGED <<br, holding, maxDd, freeze, softBreach, paused, operator>>

(* _on_wallet_sync replaces the ledger and does not call the governor.     *)
OnWalletSync ==
    /\ \E e \in Equities : e > 0 /\ equity' = e /\ peak' = Larger(peak, e)
    /\ holding' \in BOOLEAN
    /\ outbox' = {}
    /\ UNCHANGED <<br, maxDd, freeze, softBreach, paused, operator>>

(* _on_risk_directive: a value that is missing or not a finite number      *)
(* falls back to the baseline.                                             *)
OnRiskDirective ==
    /\ \/ \E v \in Directives : maxDd' = Clamp(v)
       \/ maxDd' = BaseDrawdown
    /\ outbox' = {}
    /\ UNCHANGED <<br, book, freeze, softBreach, paused, operator>>

(* One cycle of run(): VaR verdict, auto re-arm, status.                   *)
RunCycle ==
    /\ ~paused
    /\ softBreach' \in BOOLEAN
    /\ br' = Observe(br)
    /\ LET rearm == riskFrozen /\ riskLeft = 0
       IN  /\ riskFrozen' = (riskFrozen /\ ~rearm)
           /\ peak' = IF rearm THEN equity ELSE peak
    /\ outbox' = {Status(ModeOf(br, riskFrozen', softBreach'), Breach(peak', equity, maxDd))}
                 \cup (IF softBreach' /\ ~softBreach
                       THEN {Emergency("REDUCE_ONLY", ModeOf(br, riskFrozen, TRUE))}
                       ELSE {})
    /\ UNCHANGED <<equity, holding, maxDd, riskLeft, paused, operator>>

(* status() read outside the loop moves an elapsed breaker to HALF_OPEN.   *)
ReadStatus ==
    /\ br' = Observe(br)
    /\ outbox' = {}
    /\ UNCHANGED <<book, maxDd, freeze, softBreach, paused, operator>>

(* reset(): the operator re-arm.  The breaker keeps its own cooldown.      *)
OperatorReset ==
    /\ peak' = equity
    /\ riskFrozen' = FALSE
    /\ softBreach' = FALSE
    /\ operator' = ~operator
    /\ outbox' = {}
    /\ UNCHANGED <<br, equity, holding, maxDd, riskLeft, paused>>

(* pause() and resume().                                                   *)
SetPaused ==
    /\ paused' = ~paused
    /\ outbox' = {}
    /\ UNCHANGED <<br, book, maxDd, freeze, softBreach, operator>>

(* The monotonic clock that both cooldowns are measured with.              *)
Tick ==
    /\ br.cool > 0 \/ riskLeft > 0
    /\ br' = Cool(br)
    /\ riskLeft' = IF riskLeft > 0 THEN riskLeft - 1 ELSE 0
    /\ outbox' = {}
    /\ UNCHANGED <<book, maxDd, riskFrozen, softBreach, paused, operator>>

Next ==
    \/ OnFill \/ OnTicker \/ OnCapitalSync \/ OnWalletSync \/ OnRiskDirective
    \/ RunCycle \/ ReadStatus \/ OperatorReset \/ SetPaused \/ Tick

(* The clock always advances and the status loop is an asyncio task that   *)
(* wakes every status_interval_s; market and fills owe us nothing.         *)
Spec == Init /\ [][Next]_vars /\ WF_vars(Tick) /\ WF_vars(RunCycle)

-----------------------------------------------------------------------------
Events == {Emergency(a, m) : a \in {"FREEZE", "REDUCE_ONLY"}, m \in Modes}
          \cup {Status(m, b) : m \in Modes, b \in BOOLEAN}

(* Type invariant, with the envelope that _clamp_threshold must keep the   *)
(* drawdown limit in whatever the Core AI sends.                           *)
TypeOK ==
    /\ br \in Breakers
    /\ equity \in Equities
    /\ peak \in Equities
    /\ holding \in BOOLEAN
    /\ maxDd \in Floor .. BaseDrawdown
    /\ riskFrozen \in BOOLEAN
    /\ riskLeft \in 0 .. Cooldown
    /\ softBreach \in BOOLEAN
    /\ paused \in BOOLEAN
    /\ operator \in BOOLEAN
    /\ outbox \subseteq Events

(* Ticks for which trading is certain to stay frozen unless an operator    *)
(* steps in.                                                               *)
BreakerHold(b) == IF b.raw = "OPEN" THEN b.cool ELSE 0
RiskHold == IF riskFrozen THEN riskLeft ELSE 0
Hold == Larger(BreakerHold(br), RiskHold)

(* What the governor promises the rest of the platform: see FreezeContract *)
Contract == INSTANCE FreezeContract WITH mode <- Mode, left <- Hold

(* A hard freeze serves its whole cooldown, whatever ticks, fills, VaR     *)
(* verdicts, directives and status reads arrive meanwhile.                 *)
HonoursContract == Contract!Spec

(* No drawdown freeze is forever: unless the platform is paused, the       *)
(* status loop lifts it (manager.py "auto re-arm after the hard-freeze     *)
(* cooldown"), however often the breach is seen again meanwhile.           *)
FreezeIsLifted == riskFrozen ~> (~riskFrozen \/ paused)

(* A wallet sync or a directive may reveal a breach without asking the     *)
(* governor, and a re-arm may leave one; no such breach stays unanswered   *)
(* while the market moves: it freezes trading, or it is no breach any more.*)
BreachIsCaught ==
    []<><<OnTicker>>_vars =>
        (Breach(peak, equity, maxDd) ~>
            (Mode = "FROZEN" \/ ~Breach(peak, equity, maxDd)))

(* A FREEZE emergency is only ever published for a state that really       *)
(* rejects orders, and a REDUCE_ONLY emergency never announces NORMAL.     *)
EmergencyIsTrue ==
    \A ev \in outbox : ev.topic = "sentinel.emergency" =>
        /\ ev.action = "FREEZE" => Mode = "FROZEN" /\ Hold = Cooldown
        /\ ev.action = "REDUCE_ONLY" => ev.mode # "NORMAL"

(* manager.py:399-400 "A hard FREEZE trips the breaker; its transition     *)
(* hook publishes the single canonical emergency event."                   *)
FreezeIsAnnounced ==
    [][Mode # "FROZEN" /\ Mode' = "FROZEN" => Emergency("FREEZE", "FROZEN") \in outbox']_vars

(* manager.py:27 "Account drawdown > 3% -> hard freeze: FROZEN (reject new *)
(* orders)": no published status shows a breach and lets orders pass.      *)
BreachedStatusIsFrozen ==
    \A ev \in outbox : ev.topic = "sentinel.status" /\ ev.breached => ev.mode = "FROZEN"
=============================================================================
