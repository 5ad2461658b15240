\* An edit that both models know and one that the graph does not, three days at two speeds,
\* one reset, two ticks on the bus.
CONSTANTS
    Edits = {"tariff", "kernelOnly"}
    Shared = {"tariff"}
    Speeds = {1, 2}
    Ttl = 1
    MaxDay = 3
    MaxWorld = 1
    MaxQueue = 2
SPECIFICATION Spec
INVARIANTS
    TypeOK
    InStep
    HistoryIsOrdered
    StanceOfThisWorld
    KernelKeepsDay
PROPERTIES
    EditIsForked
    KernelComesToRest
