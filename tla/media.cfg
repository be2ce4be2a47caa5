SPECIFICATION Spec
CONSTANTS
    u1 = u1
    u2 = u2
    Uploads = {u1, u2}
    Block = 2
    MaxByte = 3
    Buffer = 4
    MaxDownload = 4
    Error = Error
    None = None
SYMMETRY Symmetry
CHECK_DEADLOCK FALSE
INVARIANTS StoredIsGiven SizesAreTrue FetchedIsGiven
