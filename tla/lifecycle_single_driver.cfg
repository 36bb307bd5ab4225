SPECIFICATION Spec
CONSTANTS
    Drivers = {d1}
    Monitors = {m1, m2}
    NoCaller = NoCaller
    Operations = {"Start", "Stop", "Pause", "Resume"}
    SetStateTargets = {"failed"}
    HookOutcomes = {"ok", "error", "panic"}
    NumHandlers = 1
INVARIANT StartedThisLife
PROPERTY FailedHookFailsAgent
