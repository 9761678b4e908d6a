CONSTANTS
    root = root
    n1 = n1
    n2 = n2
    n3 = n3
    n4 = n4
    top = top
    a1 = a1
    a2 = a2
    a3 = a3
    t1 = t1
    mesh1 = mesh1
    mat1 = mat1
    light1 = light1
    bind1 = bind1
    Behaviours = {"graph"}
    Nodes = {root, n1, n2, n3, n4}
    Root = root
    MaxChildren = 3
    MaxTricks = 0
    Addresses = {top, a1, a2, a3}
    TreeRoot = top
    Contents = {t1, mesh1, mat1, light1, bind1}
    ContentKindOf <- MCKinds
    SpotLights = {}
    MaxInserts = 0
    MaxDraws = 0
    None = None
SPECIFICATION AllSpec
CHECK_DEADLOCK FALSE
INVARIANT
    RemoveReturns
