------------------------------ MODULE MCContent ------------------------------
(* What is drawn and where it comes from: resources and the managers that    *)
(* load them, vertex buffers, pictures, the glyphs of fonts, meshes and the  *)
(* scenes of files.  They share no state here, so a behaviour is about one   *)
(* of them.                                                                  *)
EXTENDS ResourceManager, VertexBuffers, Textures, Glyphs, Meshes, TLC

CONSTANTS man1, man2, r1, r2, r3, d1, d2, f1,  \* managers, resources, directories, a file
          pos, uv, ind, b1, b2,                \* attributes and buffers
          ca, cb, cc, cd, ce,                  \* characters
          va, vb                               \* elements of a mesh

\* r1 is a material whose texture is r2; the name exists in both directories.
MCPartsOf == [r \in {r1, r2, r3} |-> IF r = r1 THEN {r2} ELSE {}]
MCFiles == {<<d1, f1>>, <<d2, f1>>}

MCKindOf == (pos :> "vertex") @@ (uv :> "tex1") @@ (ind :> "index")
MCWidthOf == (pos :> 2) @@ (uv :> 1) @@ (ind :> 1)
MCLists == {<<pos, uv>>, <<pos>>, <<uv>>, <<ind>>, <<pos, ind>>}

\* A broad, a low, a high and a too wide character and a space, in five by five texels.
MCWidthIn == (ca :> 2) @@ (cb :> 2) @@ (cc :> 1) @@ (cd :> 6) @@ (ce :> 0)
MCRowsIn == (ca :> 2) @@ (cb :> 1) @@ (cc :> 3) @@ (cd :> 2) @@ (ce :> 0)

\* Textures that are converted or not; meshes that load, have a line, too many
\* channels or more colours; and a root whose first child has a child, for every
\* choice of the nodes that move.
Uv == [type |-> "diffuse", mapping |-> "uv", set |-> FALSE]
MCTextures == {Uv} \cup [type : {"diffuse", "unknown"}, mapping : {"sphere", "other"}, set : BOOLEAN]
Quad == [faces |-> <<<<1, 2, 3>>, <<3, 2, 4>>>>, normals |-> TRUE, textured |-> {0, 1},
         colored |-> 1, material |-> 1]
Bare == [faces |-> <<<<2, 1, 3>>>>, normals |-> FALSE, textured |-> {1}, colored |-> 0, material |-> 1]
MCMeshes == {[Bare EXCEPT !.faces = <<<<1, 2>>>>], [Quad EXCEPT !.textured = 0..3],
             [Bare EXCEPT !.colored = 2], [Bare EXCEPT !.material = 2]}
MCTree(moved, shown) ==
    [n \in 1..4 |-> [moved |-> n \in moved, meshes |-> shown[n],
                     children |-> CASE n = 1 -> <<2, 4>> [] n = 2 -> <<3>> [] OTHER -> <<>>]]
MCShown == {<<<<1>>, <<>>, <<2>>, <<1, 2>>>>, <<<<>>, <<2, 1>>, <<>>, <<2>>>>}
MCSceneFiles ==
    {[materials |-> <<<<t>>, <<>>>>, meshes |-> <<>>, nodes |-> <<>>] : t \in MCTextures}
    \cup {[materials |-> <<<<Uv>>, <<>>>>, meshes |-> <<Quad, m>>, nodes |-> <<>>] : m \in MCMeshes}
    \cup {[materials |-> <<<<Uv>>>>, meshes |-> <<Quad, Bare>>, nodes |-> MCTree(moved, shown)] :
            moved \in SUBSET (1..4), shown \in MCShown}

CONSTANT Behaviours  \* the parts to check
VARIABLE part        \* the part this behaviour is about

AllVars == <<resourceVars, bufferVars, pictureVars, glyphVars, meshVars, part>>

\* What the parts begin with: one mode of OpenGL and one file are enough for
\* the others.
AllInit ==
    /\ part \in Behaviours
    /\ ResourcesInit /\ BuffersInit /\ PicturesInit /\ GlyphsInit /\ MeshInit
    /\ part # "buffers" => ~ gl21
    /\ part # "files" => file = CHOOSE f \in SceneFiles : TRUE

AllNext ==
    /\ \/ part = "resources" /\ ResourcesNext /\ UNCHANGED <<bufferVars, pictureVars, glyphVars, meshVars>>
       \/ part = "buffers" /\ BuffersNext /\ UNCHANGED <<resourceVars, pictureVars, glyphVars, meshVars>>
       \/ part = "pictures" /\ PicturesNext /\ UNCHANGED <<resourceVars, bufferVars, glyphVars, meshVars>>
       \/ part = "glyphs" /\ GlyphsNext /\ UNCHANGED <<resourceVars, bufferVars, pictureVars, meshVars>>
       \/ part = "meshes" /\ MeshNext /\ UNCHANGED <<resourceVars, bufferVars, pictureVars, glyphVars>>
       \/ part = "files" /\ LoadNext /\ UNCHANGED <<resourceVars, bufferVars, pictureVars, glyphVars>>
    /\ UNCHANGED part

AllSpec == AllInit /\ [][AllNext]_AllVars

\* Managers are interchangeable, and so are buffers.
AnyManagerOrBuffer == Permutations({man1, man2}) \cup Permutations({b1, b2})
=============================================================================
