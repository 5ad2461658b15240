\* Futures account, six kinds of signals, three events on the bus.
CONSTANTS
    Signals <- MCSignals
    MaxExposure = 2
    MaxPosition = 2
    Derivatives = TRUE
    Cooldown = 1
    MaxQueue = 3
SPECIFICATION Spec
INVARIANT TypeOK
PROPERTIES ReduceOnlyHolds FreezeTakesHold
