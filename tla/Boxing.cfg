\* Words of eight bits below the sign and two above.
CONSTANTS
    HighMax = 3
    LowSize = 64
    KindSize = 16

SPECIFICATION Spec

INVARIANT
    DoublesAreNumbers
