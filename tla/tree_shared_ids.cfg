\* The tree over two JVMs that both have the default domain "DefaultDomain":
\* does opening a node show what the search found for it?
CONSTANTS
    Servers <- PlatformServers
    Delay = 1
    MaxTime = 2
    NaN = NaN
SPECIFICATION Spec
INVARIANT RefreshExact
