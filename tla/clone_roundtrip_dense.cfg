\* deepClone round trip on documents of up to 5 nodes without null and
\* without empty objects or arrays.
CONSTANTS
    Names = {a, b}
    EmptyName = EmptyName
    v1 = v1
    v2 = v2
    LeafVals <- MCLeafVals
    NULL = NULL
    UNDEF = UNDEF
    MaxIdx = 1
    Docs <- DenseDocs
    CopyDocs <- EmptyObject
    OpKinds = {"clone"}
    OpRoots = {"tree"}
    OpKeys = {}
    WriteVals = {}
    MaxOps = 1
SPECIFICATION Spec
INVARIANT CloneComplete
CHECK_DEADLOCK FALSE
