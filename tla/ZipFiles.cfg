SPECIFICATION Spec
CONSTANTS
    File = {f1, f2}
    Depth = 2
    None = None
SYMMETRY FileSymmetry
INVARIANTS
    TypeOK
    NoHalfArchive
PROPERTIES
    
    SkipKeeps
