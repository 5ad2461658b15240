\* A breaker that opens at the second late tick and cools for one tick, POSTs of up to two ticks,
\* one alert of a kind in three, back-off of one and two ticks, two events on the bus.
CONSTANTS
    FailureThreshold = 2
    Cooldown = 1
    LatencyLimit = 0
    PostMax = 2
    Interval = 3
    MaxBackoff = 2
    MaxQueue = 2
SPECIFICATION Spec
INVARIANTS
    TypeOK
PROPERTIES
    AlertStormEnds
    FeedIsRetried
