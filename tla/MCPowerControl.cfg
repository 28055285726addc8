SPECIFICATION Spec
CONSTANTS
    Reqs = {1, 2}
    Ops = {"on", "off", "reset", "firmware", "edit", "flash"}
    MaxProcs = 3
    Images = {"old", "new"}
INVARIANTS NoOrphan ClientMatchesProcess SafeInTurn
PROPERTIES CriticalStepsEnd
