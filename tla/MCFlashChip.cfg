SPECIFICATION Spec
CONSTANTS
    Size = 4
    Page = 2
    Sector = 2
    Base = 2
    Bits = {0}
    ImageLens = {4}
INVARIANTS TypeOK DirtyCovers 
PROPERTIES NeverTruncated RefinesNor
