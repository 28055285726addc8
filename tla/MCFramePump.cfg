SPECIFICATION PumpSpec
CONSTANTS
    Clients = {c1}
    Values = {0, 1}
    None = None
    MaxFaults = 1
INVARIANTS BlankStaysBlank
PROPERTIES  StreamCatchesUp PumpSettles
