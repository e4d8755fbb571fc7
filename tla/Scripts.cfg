SPECIFICATION FairSpec
CONSTANTS
    Systems <- AllSystems
    MaxRuns = 2
    MaxCrashes = 1
    MaxFaults = 1
INVARIANTS LinesKept FstabBoots EfiEntryFits AuditDone ResolvRestored SudoReset EffectsLast
PROPERTY RunEnds
