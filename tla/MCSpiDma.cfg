SPECIFICATION Spec
CONSTANTS
    Sector = 4
    Page = 2
    Bits = {0}
    MaxResets = 1
INVARIANTS SectorKept
PROPERTIES WaitEnds
