\* The heval.js script's calls, any three in any order, on every object or
\* array of up to 4 nodes: reads of tree and wtree, deepClone, writes into
\* wtree of paths of up to three keys, and the rebuild from recurse's map.
CONSTANTS
    nm_a = nm_a
    nm_b = nm_b
    Names <- MCNames
    EmptyName = EmptyName
    v1 = v1
    v2 = v2
    LeafVals <- MCLeafVals
    NULL = NULL
    UNDEF = UNDEF
    MaxIdx = 1
    Docs <- MCDocs
    ReadPaths <- MCReadPaths
    WritePaths <- MCWritePaths
    WriteVals = {v2}
    MaxCalls = 3
SPECIFICATION Spec
INVARIANT TypeOK
INVARIANT TreeChangesOnlyInSharedElements
CHECK_DEADLOCK FALSE
