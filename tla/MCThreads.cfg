CONSTANTS
    Main = Main
    Worker = Worker
    NoThread = NoThread
    t1 = t1
    t2 = t2
    Threads <- MCThreads
    Capacity = 2
    MaxPosts = 4
    MaxChanges = 2
    s1 = s1
    s2 = s2
    Sounds = {s1, s2}
    Blocks <- MCBlocks
    MaxFrames = 2
    HeaderSize = 1
    BufferSize = 7
    MaxPlays = 3
    MaxFailures = 1
    place = place
    Clients = {t1, t2}
    Places = {place}
    MaxSections = 4
    MaxOpen = 2
SPECIFICATION AllSpec
INVARIANTS
    SendsAreOrdered
    AudioIsWhole
PROPERTIES
    LogIsLive
    
    
