CONSTANTS
    Texts <- MCTexts
    Multiplier <- MCMultiplier
    UsizeMax = 63
    MaxSecs = 30
    Bad = Bad
    None = None
SPECIFICATION Spec
CHECK_DEADLOCK FALSE
INVARIANT TypeOK
INVARIANT AcceptedAsWritten
INVARIANT RejectedForCause
