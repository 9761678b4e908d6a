CONSTANTS
    e1 = e1
    e2 = e2
    t1 = t1
    t2 = t2
    d1 = d1
    d2 = d2
    c1 = c1
    Root = Root
    NoParent = NoParent
    MaxChildren = 2
    Entities = {e1, e2}
    Transforms = {t1}
    Contents = {d1, d2}
    Controllers = {c1}
    w = w
    a = a
    Keys = {w, a}
    KeyMods = {"lctrl", "rctrl", "num"}
    Names = {"walk", "run", "act"}
    BoundTo <- MCBoundTo
    PollMax = 2
    MaxArrivals = 4
    l1 = l1
    l2 = l2
    na = na
    nb = nb
    v1 = v1
    v2 = v2
    NoName = NoName
    NoVersion = NoVersion
    Launches = {l1, l2}
    TempNames = {na, nb}
    Versions = {v1, v2}
    Installs <- MCInstalls
    TreeLevels = {2, 3}
    Moves <- MCMoves
    Places <- MCPlaces
    Lenses <- MCLenses
    NoLens = NoLens
    Nowhere = Nowhere
    MaxSettings = 3
    MaxIter = 200
    MaxNodes = 80
    FineLevel = 2
    CloseCorners <- MCCorners
    CloseSizes = {1, 2}
    MaxSearches = 2
SPECIFICATION AllSpec
CHECK_DEADLOCK FALSE
INVARIANTS
    
    
    
    WorldIsFound
PROPERTIES
    DestroyIsComplete
    InputsAreServed
