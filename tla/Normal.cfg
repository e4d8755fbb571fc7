SPECIFICATION FairSpec
CONSTANTS
    d1 = d1
    d2 = d2
    Host = Host
    Nobody = Nobody
    Disks <- OneDisk
    Scenarios <- Supported
    MaxRuns = 2
    MaxFaults = 0
    MaxCrashes = 0
INVARIANTS TypeOK EndsClean
PROPERTIES HostNameReturns DiskReturns
