\* One call on the root "tree": an hdata read or write of the navKey of every
\* one- and two-segment path over {a, b, 0} (plain or [0]), and of "/a[0]"-
\* and "a[0]/"-style keys, on every document of up to 4 nodes, or a
\* deepClone into an empty object of every document of up to 5 nodes (up to
\* 4 when null leaves occur).  Termination is checked as a variant, so no
\* fairness is assumed.
CONSTANTS
    Names = {a, b}
    EmptyName = EmptyName
    v1 = v1
    v2 = v2
    LeafVals <- MCLeafVals
    NULL = NULL
    UNDEF = UNDEF
    MaxIdx = 1
    Docs <- CloneDocs
    CopyDocs <- EmptyObject
    OpKinds = {"read", "write", "clone"}
    OpRoots = {"tree"}
    OpKeys <- AccessKeys
    WriteVals <- WriteLeaf
    MaxOps = 1
SPECIFICATION Spec
ACTION_CONSTRAINT AccessBound
INVARIANT TypeOK
INVARIANT CloneSound
INVARIANT CloneSameMap
INVARIANT WriteOverwrite
INVARIANT ReadHit
INVARIANT ReadPresentPure
PROPERTY OpTerminates
 
CHECK_DEADLOCK FALSE
