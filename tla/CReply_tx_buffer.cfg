SPECIFICATION Spec
CONSTANTS
    U16 = 65536
    U8 = 256
    TxSizes = {64}
    Layouts <- SolderingProfile
    ElemSizes = {2}
    Lens = {20, 30}
    MaxSlices = 1
    Top = 40
INVARIANTS
    SlicesInTxBuffer
