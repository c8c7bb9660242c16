\* Two futures, of one program or of two, and the inodes they can refer to at once.
CONSTANTS
    Procs = {p1, p2}
    Tenants = {"Hetang", "Rain"}
    Others = {"reset", "chosen"}
    Broken = Broken
    Documents <- AllDocuments
    Default <- DefaultConfig
    Empty = Empty
    Torn = Torn
    NoDocument = NoDocument
    Inodes = {i1, i2, i3, i4}
    NoInode = NoInode
    IOMayFail = TRUE
SPECIFICATION AppSpec
SYMMETRY Interchangeable
INVARIANTS
    LoadsWhole
    MemoryIsFile
    SetTenantKeepsRest
PROPERTIES
    FileStays
    KeepsRegister
