SPECIFICATION Spec
CONSTANTS
    Tables <- RhelTables
    Images <- RhelTables
    Tools <- OnlyPartx
INVARIANT PartxReplacesSgdisk
