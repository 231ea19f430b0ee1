CONSTANTS
    Objects <- FileObjects
SPECIFICATION Spec
INVARIANT NoPanic
