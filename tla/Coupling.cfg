\* A shock of up to two inferences, three events on the bus.
CONSTANTS
    MaxDuration = 2
    MaxQueue = 3
SPECIFICATION Spec
INVARIANTS SignalsOfRealityAreUncoupled
PROPERTIES ShockWearsOff LatchLeavesTheBus MemoryIsShed
