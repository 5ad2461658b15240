\* The governor alone: latency threshold 2, cooldown of 2 ticks.
CONSTANTS
    FailureThreshold = 2
    Cooldown = 2
    Equities <- MCEquities
    StartingCapital = 100
    BaseDrawdown = 30
    Directives <- MCDirectives
SPECIFICATION Spec
INVARIANTS TypeOK EmergencyIsTrue
PROPERTIES HonoursContract FreezeIsLifted BreachIsCaught
