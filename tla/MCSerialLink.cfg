SPECIFICATION LinkSpec
CONSTANTS
    Fifo = 3
    Ring = 4
    Window = 3
    MaxBytes = 9
    MaxResets = 2
    Reach = 4
    Chunks = 3
    Renew = 1
    AppSlots = 2
    Tries = 2
    Handshakes = 2
    MaxPremature = 2
    MaxFaults = 1
    Pages = 3
    Replies = 2
    Retries = 3
    MaxBootFaults = 1
INVARIANTS StreamIntact InstalledIsWhole AnswersOwnCommand ProgrammedIsImage
PROPERTIES AllArrive
