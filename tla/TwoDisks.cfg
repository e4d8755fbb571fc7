SPECIFICATION Spec
CONSTANTS
    d1 = d1
    d2 = d2
    Host = Host
    Nobody = Nobody
    Disks <- TwoDisks
    Scenarios <- TwoDiskCases
    MaxRuns = 3
    MaxFaults = 1
    MaxCrashes = 1
INVARIANT ScriptOnSelectedDisk
PROPERTIES LeaseRespected SelectedNotWiped
