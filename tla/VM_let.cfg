\* A program that defines a variable twice.
CONSTANTS
    Scripts <- Redefinition

SPECIFICATION Spec

INVARIANT
    DefinedOnce
