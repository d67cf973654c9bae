SPECIFICATION Spec
CONSTANTS
    Objects = {o1, o2, o3, o4, o5}
    None = None
    MaxDepth = 4
    MaxItems = 2
SYMMETRY ObjectSymmetry
INVARIANTS SlicesFreed
