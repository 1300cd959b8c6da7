SPECIFICATION Spec
CONSTANTS
    MaxLevel = 2
INVARIANT StateIsShown
