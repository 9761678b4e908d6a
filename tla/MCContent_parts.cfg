CONSTANTS
    man1 = man1
    man2 = man2
    r1 = r1
    r2 = r2
    r3 = r3
    d1 = d1
    d2 = d2
    f1 = f1
    pos = pos
    uv = uv
    ind = ind
    b1 = b1
    b2 = b2
    ca = ca
    cb = cb
    cc = cc
    cd = cd
    ce = ce
    va = va
    vb = vb
    Behaviours = {"resources", "buffers", "pictures", "glyphs", "meshes", "files"}
    Managers = {man1, man2}
    Resources = {r1, r2, r3}
    Dirs = {d1, d2}
    Names = {f1}
    NoManager = NoManager
    NoDir = NoDir
    Files <- MCFiles
    PartsOf <- MCPartsOf
    MaxId = 2
    MaxDirs = 2
    Attributes = {pos, uv, ind}
    KindOf <- MCKindOf
    WidthOf <- MCWidthOf
    Buffers = {b1, b2}
    Lists <- MCLists
    MaxElements = 3
    MaxHolds = 2
    NoBuffer = NoBuffer
    Columns = 2
    NoPicture = NoPicture
    Chars = {ca, cb, cc, cd, ce}
    WidthIn <- MCWidthIn
    RowsIn <- MCRowsIn
    TexWidth = 5
    TexHeight = 5
    MaxText = 2
    MayFail = {cc}
    MaxIds = 3
    NoGlyph = NoGlyph
    Elements = {va, vb}
    MeshModes = {"triangles", "triangle_strip"}
    MaxAppended = 3
    MaxViews = 2
    SceneFiles <- MCSceneFiles
SPECIFICATION AllSpec
CHECK_DEADLOCK FALSE
SYMMETRY AnyManagerOrBuffer
INVARIANTS
    ManagersAreTrue
    DrawsReadTheirData
    
    TextsShowTheirGlyphs
    MeshesAreWhole
PROPERTIES
    OneLoadPerFile
