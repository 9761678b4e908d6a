CONSTANTS
    s = s
    c = c
    h = h
    Server = s
    Client = c
    Helpers = {h}
    HelpsServer = {h}
    Capacity = 2
    ReadSize = 1
    MaxSize = 2
    MaxWritten <- MCMaxWritten
    ra = ra
    rb = rb
    Releases = {ra, rb}
    PlatformOf <- MCPlatforms
    RankOf <- MCRanks
    MaxUploads = 2
    MaxStops = 2
    NoRelease = NoRelease
    NoneFound = NoneFound
SPECIFICATION AllSpec
INVARIANTS
    StreamsAreWhole
PROPERTIES
    CallsReturn
    ReleasesAreServed
CHECK_DEADLOCK FALSE
