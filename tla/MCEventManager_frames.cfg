CONSTANTS
    c1 = c1
    c2 = c2
    game = game
    Subscribers = {c1, c2}
    Caller = Caller
    Channels = {game}
    Tick = Tick
    Later = Later
    Idle = Idle
    Delays = {0, 1}
    Steps = {0, 1}
    MaxEvents = 3
    MaxClock = 1
    Unregisters = FALSE
SPECIFICATION FairEventsSpec

    
PROPERTIES
    EventsAreServed
