SPECIFICATION Spec
CONSTANTS
    Writers = {"Python", "C", "CSharp"}
    Readers = {"Python", "C", "CSharp"}
    Payloads <- MCPayloads
    MaxWords = 2
    PackBuffer = 72
    Top = 96
INVARIANTS
    TypeOK
    MembersWritten
    CReadsC
    
CHECK_DEADLOCK FALSE
