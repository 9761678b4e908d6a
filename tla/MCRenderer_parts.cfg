CONSTANTS
    shader = shader
    tex1 = tex1
    mat = mat
    s1 = s1
    s2 = s2
    p1 = p1
    p2 = p2
    p3 = p3
    id = id
    m1 = m1
    w1 = w1
    w2 = w2
    t1 = t1
    t2 = t2
    Behaviours = {"bindings", "states", "matrices", "shaders", "windows", "gui"}
    Nothing = Nothing
    Unset = Unset
    Shaders = {shader}
    Textures = {tex1}
    Materials = {mat}
    BoundStates = {s1, s2}
    ShaderOf <- MCShaderOf
    TexturesOf <- MCTexturesOf
    MaxGuards = 4
    Painters = {p1, p2, p3}
    MaxDepth = 5
    Values = {id, m1}
    Identity = id
    MaxStates = 3
    GLSLVersions = {110, 330}
    MaxChannels = 2
    ArraySize = 2
    MaxLights = 3
    NoBindable = NoBindable
    Wins = {w1, w2}
    Targets = {t1, t2}
    MaxProxies = 3
    MaxArguments = 2
    MaxFailures = 1
    NoTarget = NoTarget
    da = da
    db = db
    fa = fa
    xa = xa
    xb = xb
    Docs = {da, db}
    FieldOf <- MCFieldOf
    TextNodes = {xa, xb}
    Position <- MCPosition
    MaxImpls = 1
    MaxTextures = 1
    NoElement = NoElement
SPECIFICATION AllSpec
CHECK_DEADLOCK FALSE
CONSTRAINT FewLeftovers
INVARIANTS
    GuardsAreKept
    
    KeptMatricesAreCurrent
    ShadersFollowMaterials
    WindowsAreServed
    GuiIsFaithful
