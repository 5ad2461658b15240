SPECIFICATION Spec
CONSTANTS
    Threads = {"journalist", "governor"}
    Keys <- MCKeys
    Routes = {"local", "remote"}
    Cooldown = 1
    Period = 2
INVARIANTS
    TypeOK
PROPERTIES
    ImplementsService
    RoundIsComplete
    EveryRequestEnds
