SPECIFICATION Spec
CONSTANTS
    Limits <- MCLimits
    Lengths <- MCLengths
INVARIANTS
    IdentifierTypeOK
    IdentifierFits
    BothNamesShow
    CutOnlyForLength
CHECK_DEADLOCK FALSE
