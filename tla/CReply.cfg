SPECIFICATION Spec
CONSTANTS
    U16 = 16
    U8 = 4
    TxSizes = {4, 7, 15}
    Layouts <- MCLayouts
    ElemSizes = {1, 2}
    Lens = {0, 1, 3, 8}
    MaxSlices = 2
    Top = 40
INVARIANTS
    TypeOK
    SlicesApart
    ListFits
    AllocatedDataArrives
    LengthRoundedUp
