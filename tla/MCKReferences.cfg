SPECIFICATION Spec
CONSTANTS
    Objects = {o1, o2, o3, o4, o5, o6}
    None = None
    MaxDepth = 5
    MaxItems = 2
SYMMETRY ObjectSymmetry
INVARIANTS OwnedOnce ReadsLive ArgumentKept NothingLeft Inv
