SPECIFICATION FairSpec
CONSTANTS
    Drivers = {d1, d2}
    Monitors = {m1}
    NoCaller = NoCaller
    Operations = {"Start", "Stop", "Pause", "Resume"}
    SetStateTargets = {"failed"}
    HookOutcomes = {"ok", "error"}
    NumHandlers = 2
INVARIANTS
    TypeOK
    NotifiedInOrder
    TransientStateIsOwned
    StoppedHasNoStartTime
PROPERTIES
    ObserversSeeLifecycle
    EveryCallReturns
    TransientStatesEnd
