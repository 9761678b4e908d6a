CONSTANTS
    r1 = r1
    r2 = r2
    None = None
    Responses = {r1, r2}
    MaxChunks = 2
    MaxReads = 1
    Polite = {r1}
SPECIFICATION FairSpec
INVARIANTS
    TransfersAreServed

    
CHECK_DEADLOCK FALSE
