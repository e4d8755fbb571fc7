SPECIFICATION Spec
CONSTANTS
    Systems <- OneSudo
    MaxRuns = 2
    MaxCrashes = 0
    MaxFaults = 0
INVARIANT SudoBinaryWorks
