SPECIFICATION Spec
CONSTANTS
    Situations <- AllVms
    Passwords <- AnyPassword
    MaxRuns = 3
    MaxFaults = 2
    MaxCrashes = 1
INVARIANTS UnlockedIsBare VolumesGivenBack
PROPERTY ContractKept
