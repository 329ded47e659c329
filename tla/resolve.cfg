\* resolveData on every object or array of up to 4 nodes whose getters name
\* a leaf or nothing, with and without the filter "^a".
CONSTANTS
    nm_a = nm_a
    nm_b = nm_b
    Names <- MCNames
    EmptyName = EmptyName
    v1 = v1
    vz = vz
    get_b = get_b
    set_a = set_a
    hmisc = hmisc
    flt_a = flt_a
    version = version
    count = count
    beatles = beatles
    stones = stones
    references = references
    tags = tags
    style = style
    music = music
    genres = genres
    core = core
    other = other
    name = name
    instruments = instruments
    get_ref = get_ref
    LeafVals <- MCLeafVals
    NULL = NULL
    UNDEF = UNDEF
    MaxIdx = 1
    Docs <- BandsDocs
    Plain <- MCPlain
    Loose <- MCLoose
    GetExpr <- MCGetExpr
    SetExprs = {set_a}
    OtherExprs = {hmisc}
    Filters = {NULL, flt_a}
    Accept <- MCAccept
SPECIFICATION Spec
INVARIANT ResolveSound
INVARIANT ResolveAliases
CHECK_DEADLOCK FALSE
