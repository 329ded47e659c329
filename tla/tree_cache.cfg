\* The tree over two servers with unique names: the pop/ts cache and the
\* re-population of opened nodes.
CONSTANTS
    Servers <- UniqueServers
    Delay = 1
    MaxTime = 2
    NaN = NaN
SPECIFICATION Spec
INVARIANT TypeOK
INVARIANT OpenShowsRecent
INVARIANT RefreshExact
