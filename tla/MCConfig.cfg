\* Loading ends in "ok", "invalid" or "error": a final state is no deadlock.
CONSTANTS
    LookPathResults = {"", "/usr/bin/stellar-core"}
    PlainInputs = {"", "p"}
    LimitInputs = {0, 50, 200}
    LevelInputs <- MCLevelInputs
    StorageInputs <- MCStorageInputs
    ArchiveInputs <- MCArchiveInputs
    Cwd = "/cwd"
    WindowInputs = {0, 2}
SPECIFICATION Spec
CHECK_DEADLOCK FALSE
INVARIANTS
    TypeOK
