SPECIFICATION Spec
CONSTANTS
    Tables <- AllTables
    Images <- AzureTables
    Tools <- BothTools
INVARIANTS RolesRight Recognised HeaderIsBoot OsUnwrapSafe
