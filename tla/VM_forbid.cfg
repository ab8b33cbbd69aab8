\* A program that fails in a builtin, and what comes after it.
CONSTANTS
    Scripts <- Failure

SPECIFICATION Spec

INVARIANT
    AllowedBetweenPrograms
