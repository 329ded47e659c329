\* resolveData on objects and arrays of up to 3 nodes holding a plain
\* string and a value == "" (0 or false), with and without the filter.
CONSTANTS
    nm_a = nm_a
    nm_b = nm_b
    Names <- MCNames
    EmptyName = EmptyName
    v1 = v1
    vz = vz
    get_b = get_b
    set_a = set_a
    hmisc = hmisc
    flt_a = flt_a
    version = version
    count = count
    beatles = beatles
    stones = stones
    references = references
    tags = tags
    style = style
    music = music
    genres = genres
    core = core
    other = other
    name = name
    instruments = instruments
    get_ref = get_ref
    LeafVals <- MCLeafVals
    NULL = NULL
    UNDEF = UNDEF
    MaxIdx = 1
    Docs <- PlainDocs
    Plain <- MCPlain
    Loose <- MCLoose
    GetExpr <- MCGetExpr
    SetExprs = {set_a}
    OtherExprs = {hmisc}
    Filters = {NULL, flt_a}
    Accept <- MCAccept
SPECIFICATION Spec
CHECK_DEADLOCK FALSE
INVARIANT ResolveKeepsPlain
