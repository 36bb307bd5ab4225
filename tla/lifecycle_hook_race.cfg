SPECIFICATION Spec
CONSTANTS
    Drivers = {d1, d2}
    Monitors = {m1}
    NoCaller = NoCaller
    Operations = {"Start", "Stop", "Pause", "Resume"}
    SetStateTargets = {"failed"}
    HookOutcomes = {"ok", "error"}
    NumHandlers = 1
PROPERTY FailedHookFailsAgent
