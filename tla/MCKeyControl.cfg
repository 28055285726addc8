SPECIFICATION KeySpec
CONSTANTS
    Keys = {"MENU", "EXIT"}
    Actions = {"tap", "down", "up"}
    Requests = {1, 2, 3}
    MaxLost = 1
INVARIANTS  NotLeftKeyedInTurn
