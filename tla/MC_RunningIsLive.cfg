CONSTANTS
    Sandboxes = {s1}
    Admins = {a1}
    GuestCodes = {0, 3}
    CliCrash = FALSE

SPECIFICATION Spec

INVARIANT RunningIsLive
