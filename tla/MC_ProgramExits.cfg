CONSTANTS
    c1 = c1
    c2 = c2
    Callers = {c1, c2}
    Program <- MCTwo
    ImageGiven = TRUE
    Signals = TRUE
    CloseEarly = FALSE
SPECIFICATION Spec
PROPERTY ProgramExits
