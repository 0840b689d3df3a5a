CONSTANTS
    c1 = c1
    c2 = c2
    Callers = {c1}
    Program <- MCExample
    ImageGiven = TRUE
    Signals = TRUE
    CloseEarly = FALSE
SPECIFICATION Spec
INVARIANT TypeOK
PROPERTY ProgramExits
