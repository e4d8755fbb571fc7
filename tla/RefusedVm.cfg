SPECIFICATION Spec
CONSTANTS
    d1 = d1
    d2 = d2
    Host = Host
    Nobody = Nobody
    Disks <- OneDisk
    Scenarios <- RefusedVm
    MaxRuns = 1
    MaxFaults = 0
    MaxCrashes = 0
INVARIANT RefusedVmUntouched
