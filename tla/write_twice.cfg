\* Two hdata writes of one- and two-segment paths on every document of up
\* to 3 nodes: is a repeated write a no-op?
CONSTANTS
    Names = {a, b}
    EmptyName = EmptyName
    v1 = v1
    v2 = v2
    LeafVals <- MCLeafVals
    NULL = NULL
    UNDEF = UNDEF
    MaxIdx = 1
    Docs <- PairDocs
    CopyDocs <- EmptyObject
    OpKinds = {"write"}
    OpRoots = {"tree"}
    OpKeys <- PathKeys
    WriteVals <- WriteLeaf
    MaxOps = 2
SYMMETRY NameSymmetry
SPECIFICATION Spec
INVARIANT WriteIdempotent
CHECK_DEADLOCK FALSE
