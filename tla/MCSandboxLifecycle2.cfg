CONSTANTS
    Sandboxes = {s1, s2}
    Admins = {a1}
    GuestCodes = {0, 3}
    CliCrash = TRUE
    Flags <- MCFlags

SPECIFICATION Spec

INVARIANT RmRunLeavesNoState
PROPERTY StatusFileSpec
