\* Processes that run programs to their end, collections at any allocation.
CONSTANTS
    Scripts <- Suite

SPECIFICATION Spec

INVARIANTS
    TypeOK
    NoDangling
    ProgramsFit
    Executable
    Correct
    OneValueLeft
    RootsBalanced
    FramesBounded
    ExitsAsTested

PROPERTY
    Terminates
