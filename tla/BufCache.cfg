CONSTANTS
    NBUFS = 4
    NBLOCKS = 6
    NDIRECT = 1
    PTRS_PER_BLK = 2
    Files = {1, 2}
    Values = {3, 4}
SPECIFICATION Spec
INVARIANTS TypeOK BuffersCoherent ReadsBackUnlessStolen BlocksPartitioned
