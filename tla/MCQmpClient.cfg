SPECIFICATION Spec
CONSTANTS
    Threads = {"pump", "r1", "r2"}
    MaxCommands = 2
    MaxEvents = 1
    MaxTimeouts = 1
INVARIANTS AnswersOwnUntilTimeout OneOutstanding
PROPERTIES CallsEnd
CHECK_DEADLOCK FALSE
