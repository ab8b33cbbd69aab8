\* A program that sets the cdr of what is not a cons.
CONSTANTS
    Scripts <- Assertion

SPECIFICATION Spec

INVARIANT
    AssertionsHold
