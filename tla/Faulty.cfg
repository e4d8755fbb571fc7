SPECIFICATION Spec
CONSTANTS
    d1 = d1
    d2 = d2
    Host = Host
    Nobody = Nobody
    Disks <- OneDisk
    Scenarios <- AnyCase
    MaxRuns = 3
    MaxFaults = 2
    MaxCrashes = 2
INVARIANTS ScriptOnSelectedDisk SuccessIsClean
PROPERTY DetachOnlyUnmounted
