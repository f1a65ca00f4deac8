SPECIFICATION Spec
CONSTANTS
    Buffers = {in, out}
    MaxBytes = 3
    MaxChains = 3
    MinSize = 2
    AutoSize = 4
    CopyMax = 1
    RealignMax = 1
    PrintRoom = 2
    Vecs = 2
    Wants <- OneToThree
    Inputs = {in}
    Outputs = {out}
    Spares = TRUE
INVARIANTS
    LastWithData
CHECK_DEADLOCK FALSE
