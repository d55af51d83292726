SPECIFICATION Spec
CONSTANTS
    MaxChanges = 5
    MaxFailures = 1
INVARIANT Agreement
INVARIANT OnlyChosen
INVARIANT Healed
