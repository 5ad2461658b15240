\* Is an order that REDUCE_ONLY lets pass on the side that reduces? Two signals: enter a long, trim it.
CONSTANTS
    Signals <- MCTrim
    MaxExposure = 2
    MaxPosition = 2
    Derivatives = TRUE
    Cooldown = 1
    MaxQueue = 3
SPECIFICATION Spec
PROPERTY ReductionsOppose
