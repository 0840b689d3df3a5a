CONSTANTS
    Sandboxes = {s1}
    Admins = {a1}
    GuestCodes = {0, 3}
    CliCrash = TRUE

SPECIFICATION Spec

INVARIANT RelayWhileRunning
