\* Is a tick that came on time ever late for the breaker because of an alert?
CONSTANTS
    FailureThreshold = 2
    Cooldown = 1
    LatencyLimit = 0
    PostMax = 2
    Interval = 3
    MaxBackoff = 2
    MaxQueue = 2
SPECIFICATION Spec
INVARIANT HotPathNeverWaits
