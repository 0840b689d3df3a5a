CONSTANTS
    s1 = s1
    s2 = s2
    c1 = c1
    Nil = Nil
    Str = Str
    Sentinels <- MCSentinels
    Causes <- MCCauses
    Formats <- MCFormats
    MaxDepth = 3
SPECIFICATION Spec
INVARIANT IsFindsWanted
