CONSTANTS
    Base = 32
    Half = 128
    FieldHalf = 8
    Fixed32 = 1
    Fixed64 = 2
    Messages <- MCMessages
    Inputs <- MCInputs
    Authorities <- MCAuthorities

SPECIFICATION FairSpec

INVARIANT TypeOK
INVARIANT InBounds
INVARIANT DecodesMeaning
INVARIANT RoundTrip
PROPERTY DecodeEnds
PROPERTY DecodeAdvances

CHECK_DEADLOCK FALSE
