SPECIFICATION Spec
CONSTANTS
    Ids <- MCIds
    StructNames <- MCStructNames
    MaxMembers = 2
    MaxDefinitions = 2
    Locations = {l1, l2}
    MaxGenerated = 1
    MaxGenerates = 2
    MaxPresent = 1
INVARIANTS
    TypeOK
    IdsSurviveHeaders
    LayoutMatchesStore
    EndpointsAgree
    WrittenByOwner
    NoUnaskedOverwrite
    FilesAreCurrent
SYMMETRY Symmetry
CHECK_DEADLOCK FALSE
