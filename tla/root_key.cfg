\* A read or a write of "", "/" and "//" on every object or array of up to
\* 3 nodes: spec sections 3, 4.2 and 6 say each returns the target and
\* changes nothing.
CONSTANTS
    Names = {a, b}
    EmptyName = EmptyName
    v1 = v1
    v2 = v2
    LeafVals <- MCLeafVals
    NULL = NULL
    UNDEF = UNDEF
    MaxIdx = 1
    Docs <- CompositeDocs
    CopyDocs <- EmptyObject
    OpKinds = {"read", "write"}
    OpRoots = {"tree"}
    OpKeys <- RootKeys
    WriteVals <- WriteLeaf
    MaxOps = 1
SPECIFICATION Spec
INVARIANT EmptyPathNoop
CHECK_DEADLOCK FALSE
