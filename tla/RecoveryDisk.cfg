SPECIFICATION Spec
CONSTANTS
    Setups <- AllVms
    Customs <- AnyCustom
    MaxRuns = 3
    MaxFaults = 1
    MaxCrashes = 1
INVARIANTS EnvironmentFits OwnDiskSpared
PROPERTY ListedIsMounted
