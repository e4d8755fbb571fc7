SPECIFICATION Spec
CONSTANTS
    Setups <- OneNvmeVm
    Customs <- NoCustom
    MaxRuns = 1
    MaxFaults = 0
    MaxCrashes = 0
INVARIANT EnvironmentNamesDisk
