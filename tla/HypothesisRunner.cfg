SPECIFICATION Spec
CONSTANTS
    Requests = {"r1", "r2"}
    MaxDay = 2
INVARIANTS
    TypeOK
    DeltasAreOwn
    SpanIsReal
PROPERTIES
    RequestAnswered
    LoopKeepsGoing
