SPECIFICATION Spec
CONSTANTS
    Systems <- OneUbuntu
    MaxRuns = 2
    MaxCrashes = 0
    MaxFaults = 0
INVARIANT PreviousBoots
