-------------------------------- MODULE Meshes --------------------------------
(***************************************************************************)
(* cube::gl::mesh: a mesh keeps what is appended to it by its current kind *)
(* and mode, and makes drawables of what it has; and cube::scene loading:  *)
(* Scene::Impl makes materials, meshes and a graph of what assimp read     *)
(* from a file, or throws and makes nothing.                               *)
(*                                                                         *)
(* assimp is external: a file is a record of its materials, meshes and     *)
(* nodes, numbered from 1 here where C++ counts from 0; its meshes all     *)
(* have positions.                                                         *)
(***************************************************************************)
EXTENDS Integers, Sequences, FiniteSets, SequencesExt, FiniteSetsExt

CONSTANTS Elements,      \* what may be appended
          MeshModes,     \* modes of drawing; "triangles" is one
          MaxAppended,   \* bound: elements of one mesh
          MaxViews,      \* bound: drawables made of it
          SceneFiles     \* [materials, meshes, nodes] that assimp may read

Channels == {"vertices", "normals", "colors3", "colors4",
             "tex_coords0", "tex_coords1", "tex_coords2"}

\* _push: what the types of elements may be stored as.
Place == [vec3   |-> [vertex |-> "vertices", normal |-> "normals"],
          vec2   |-> [tex_coord0 |-> "tex_coords0", tex_coord1 |-> "tex_coords1",
                      tex_coord2 |-> "tex_coords2"],
          color3 |-> [color |-> "colors3"],
          color4 |-> [color |-> "colors4"]]
MeshKinds == UNION {DOMAIN Place[t] : t \in DOMAIN Place}

IsSequence(s) == s \in Seq(ToSet(s))

\* A material of a file is the sequence of its textures, a mesh has faces of
\* vertices, and says which channels it has and the material that it uses; the
\* nodes are a tree, whose root is the first.
ASSUME MeshesAssumption ==
    /\ {"triangles", "triangle_strip"} \subseteq MeshModes
    /\ \A f \in SceneFiles :
        /\ \A i \in DOMAIN f.meshes :
            /\ f.meshes[i].material \in DOMAIN f.materials
            /\ f.meshes[i].textured \subseteq 0..7 /\ f.meshes[i].colored \in Nat
            /\ f.meshes[i].normals \in BOOLEAN /\ IsSequence(f.meshes[i].faces)
            /\ \A face \in ToSet(f.meshes[i].faces) : IsSequence(face)
        /\ \A n \in DOMAIN f.nodes :
            /\ f.nodes[n].moved \in BOOLEAN
            /\ IsSequence(f.nodes[n].children) /\ IsSequence(f.nodes[n].meshes)
            /\ \A c \in ToSet(f.nodes[n].children) : c \in DOMAIN f.nodes /\ c > n
            /\ ToSet(f.nodes[n].meshes) \subseteq DOMAIN f.meshes
            /\ Len(f.nodes[n].meshes) <= Len(f.meshes)
            /\ n # 1 => \E p \in DOMAIN f.nodes : n \in ToSet(f.nodes[p].children)
        /\ \A p, q \in DOMAIN f.nodes :
            \A i \in DOMAIN f.nodes[p].children, j \in DOMAIN f.nodes[q].children :
                f.nodes[p].children[i] = f.nodes[q].children[j] => p = q /\ i = j
        /\ IsSequence(f.materials) /\ IsSequence(f.meshes) /\ IsSequence(f.nodes)

VARIABLES mesh,       \* a mesh that a program makes: [kind, mode, data, indice]
          appended,   \* history: the vertices appended in each mode
          views,      \* drawables made of it, with what was appended so far
          file,       \* what assimp read
          loading,    \* what comes next, "done" or "failed"
          materials,  \* [textures, colors], colors being how many there are
          meshes,
          filled,     \* the mesh that is loaded
          faces,      \* how many of its faces it has
          graph,      \* nodes made so far: [parent, type, shows]
          pending     \* calls of _load_node to come: [node, parent]

drawnVars == <<mesh, appended, views>>
loadVars == <<file, loading, materials, meshes, filled, faces, graph, pending>>
meshVars == <<drawnVars, loadVars>>

NewMesh == [kind |-> "vertex", mode |-> "triangle_strip",
            data |-> [c \in Channels |-> <<>>], indice |-> [m \in MeshModes |-> <<>>]]

MeshInit ==
    /\ mesh = NewMesh /\ appended = [m \in MeshModes |-> <<>>] /\ views = <<>>
    /\ file \in SceneFiles /\ loading = "materials"
    /\ materials = <<>> /\ meshes = <<>> /\ filled = NewMesh /\ faces = 0
    /\ graph = <<[parent |-> 0, type |-> "root", shows |-> 0]>> /\ pending = <<>>
-----------------------------------------------------------------------------
(* A mesh *)

\* Fault: the index is that of the mode, not of the mesh.
NextIndex_OfMode(s, mode) == Len(s.indice[mode])

\* data_kind.data.size() - 1, after the element.
NextIndex(s, mode) == Len(s.data.vertices)

\* append(element of a type), where the kind takes the type: a vertex is drawn in
\* the current mode, other channels have no index of their own.
Pushed(s, type, element) ==
    LET c == Place[type][s.kind]
    IN [s EXCEPT !.data[c] = Append(@, element),
                 !.indice[s.mode] = IF c = "vertices" THEN Append(@, NextIndex(s, s.mode)) ELSE @]

Total(s) == MapThenSumSet(LAMBDA c : Len(s.data[c]), Channels)

SetMode(m) ==
    /\ mesh' = [mesh EXCEPT !.mode = m] /\ UNCHANGED <<appended, views, loadVars>>

SetKind(k) ==
    /\ mesh' = [mesh EXCEPT !.kind = k] /\ UNCHANGED <<appended, views, loadVars>>

\* append and extend of a type that the kind does not take throw.
AppendElement(type, e) ==
    /\ mesh.kind \in DOMAIN Place[type] /\ Total(mesh) < MaxAppended
    /\ mesh' = Pushed(mesh, type, e)
    /\ appended' = (IF mesh.kind = "vertex" THEN [appended EXCEPT ![mesh.mode] = Append(@, e)]
                    ELSE appended)
    /\ UNCHANGED <<views, loadVars>>

\* drawable: one buffer of the channels that are not empty, one of indices for
\* each mode that has some; without vertices it throws.
Drawable ==
    /\ mesh.data.vertices # <<>> /\ Len(views) < MaxViews
    /\ LET shown == {c \in Channels : mesh.data[c] # <<>>}
           modes == {m \in MeshModes : mesh.indice[m] # <<>>}
       IN views' = Append(views, [vb |-> [c \in shown |-> mesh.data[c]],
                                  ibs |-> [m \in modes |-> mesh.indice[m]],
                                  appended |-> appended])
    /\ UNCHANGED <<mesh, appended, loadVars>>

\* View::_draw: what a mode draws.
DrawnAs(v, m) ==
    IF m \in DOMAIN v.ibs THEN [i \in DOMAIN v.ibs[m] |-> v.vb.vertices[v.ibs[m][i] + 1]] ELSE <<>>
-----------------------------------------------------------------------------
(* A mesh of a file *)

\* The kind, then an element of each corner of a triangle.
Cornered(s, kind, type, what, face) ==
    LET first == Pushed([s EXCEPT !.kind = kind], type, <<what, face[1]>>)
        second == Pushed(first, type, <<what, face[2]>>)
    IN Pushed(second, type, <<what, face[3]>>)

\* The loop over texture coordinates ends at the first channel that is not there.
Textured(m, n) == 0..n \subseteq m.textured

\* assimp_mesh: the corners of a face, in order.  Every texture channel gets the
\* coordinates of the first one.
FacePushed(s, m, face) ==
    LET coords(t, kind, n) == IF Textured(m, n) THEN Cornered(t, kind, "vec2", "texcoord", face) ELSE t
        positions == Cornered([s EXCEPT !.mode = "triangles"], "vertex", "vec3", "position", face)
        textured == coords(coords(coords(positions, "tex_coord0", 0), "tex_coord1", 1), "tex_coord2", 2)
        shaded == IF m.normals THEN Cornered(textured, "normal", "vec3", "normal", face) ELSE textured
    IN IF m.colored > 0 THEN Cornered(shaded, "color", "color4", "color", face) ELSE shaded

\* It throws when a face is not a triangle, or a kind takes no coordinates.
FaceLoads(m, face) == Len(face) = 3 /\ ~ Textured(m, 3)
-----------------------------------------------------------------------------
(* A file *)

\* assimp_material: textures that are mapped by coordinates become ambient ones;
\* others keep their type, and at() throws for types and mappings of no name.
\* Where the file does not set how a texture is wrapped and combined, the values
\* that are looked up were never set.
Texture(t) == [type |-> IF t.mapping = "uv" THEN "ambient" ELSE t.type, mapping |-> t.mapping]
MayConvert(t) == t.mapping = "uv" \/ (t.type # "unknown" /\ t.mapping # "other")
MayThrow(t) == t.mapping # "uv" /\ (~ MayConvert(t) \/ ~ t.set)

Fails == loading' = "failed" /\ UNCHANGED <<drawnVars, file, materials, meshes, filled, faces, graph, pending>>

LoadMaterial ==
    /\ loading = "materials" /\ Len(materials) < Len(file.materials)
    /\ LET textures == file.materials[Len(materials) + 1] IN
       \/ /\ \A t \in ToSet(textures) : MayConvert(t)
          /\ materials' = Append(materials, [textures |-> [i \in DOMAIN textures |-> Texture(textures[i])],
                                            colors |-> 0])
          /\ UNCHANGED <<drawnVars, file, loading, meshes, filled, faces, graph, pending>>
       \/ (\E t \in ToSet(textures) : MayThrow(t)) /\ Fails

MaterialsDone ==
    /\ loading = "materials" /\ Len(materials) = Len(file.materials) /\ loading' = "meshes"
    /\ UNCHANGED <<drawnVars, file, materials, meshes, filled, faces, graph, pending>>

LoadFace ==
    /\ loading = "meshes" /\ Len(meshes) < Len(file.meshes)
    /\ LET m == file.meshes[Len(meshes) + 1] IN
       /\ faces < Len(m.faces)
       /\ IF FaceLoads(m, m.faces[faces + 1])
          THEN /\ filled' = FacePushed(filled, m, m.faces[faces + 1]) /\ faces' = faces + 1
               /\ UNCHANGED <<drawnVars, file, loading, materials, meshes, graph, pending>>
          ELSE Fails

\* A mesh has its faces; its material gets as many colours as the mesh has, if it
\* has fewer.
LoadMesh ==
    /\ loading = "meshes" /\ Len(meshes) < Len(file.meshes)
    /\ LET m == file.meshes[Len(meshes) + 1] IN
       /\ faces = Len(m.faces)
       /\ materials' = [materials EXCEPT ![m.material].colors = IF @ < m.colored THEN m.colored ELSE @]
    /\ meshes' = Append(meshes, filled) /\ filled' = NewMesh /\ faces' = 0
    /\ UNCHANGED <<drawnVars, file, loading, graph, pending>>

MeshesDone ==
    /\ loading = "meshes" /\ Len(meshes) = Len(file.meshes) /\ loading' = "nodes"
    /\ pending' = (IF file.nodes = <<>> THEN <<>> ELSE <<[node |-> 1, parent |-> 1]>>)
    /\ UNCHANGED <<drawnVars, file, materials, meshes, filled, faces, graph>>

\* emplace_child.
Child(parent, type, shows) == [parent |-> parent, type |-> type, shows |-> shows]

\* _load_node, the first of the calls to come, with the group that its caller
\* makes for it: a transform if it moves, its meshes, then its children.  The
\* meshes of a node are taken from the first of the scene on.
LoadNode ==
    /\ loading = "nodes" /\ pending # <<>>
    /\ LET call == Head(pending)
           n == file.nodes[call.node]
           group == IF call.node = 1 THEN graph ELSE Append(graph, Child(call.parent, "group", call.node))
           at == IF call.node = 1 THEN 1 ELSE Len(group)
           moved == IF n.moved THEN Append(group, Child(at, "transform", call.node)) ELSE group
           under == IF n.moved THEN Len(moved) ELSE at
       IN /\ graph' = moved \o [i \in DOMAIN n.meshes |-> Child(under, "mesh", i)]
          /\ pending' = [i \in DOMAIN n.children |-> [node |-> n.children[i], parent |-> under]]
                        \o Tail(pending)
    /\ UNCHANGED <<drawnVars, file, loading, materials, meshes, filled, faces>>

NodesDone ==
    /\ loading = "nodes" /\ pending = <<>> /\ loading' = "done"
    /\ UNCHANGED <<drawnVars, file, materials, meshes, filled, faces, graph, pending>>

MeshNext ==
    \/ \E m \in MeshModes : SetMode(m)
    \/ \E k \in MeshKinds : SetKind(k)
    \/ \E type \in DOMAIN Place, e \in Elements : AppendElement(type, e)
    \/ Drawable

LoadNext ==
    \/ LoadMaterial \/ MaterialsDone \/ LoadFace \/ LoadMesh \/ MeshesDone \/ LoadNode \/ NodesDone

MeshSpec == MeshInit /\ [][MeshNext \/ LoadNext]_meshVars
-----------------------------------------------------------------------------
(* Correctness *)

\* A drawable draws every vertex that was appended before it was made, and none
\* of those appended since, once, in order and in the mode of its time, whatever
\* was appended to the other channels (Mesh.cpp:99-105, 190-260).
ViewsAreWhole ==
    \A i \in DOMAIN views, m \in MeshModes : DrawnAs(views[i], m) = views[i].appended[m]

\* Whether assimp's mesh has what a channel is for.
HasChannel(m, c) ==
    CASE c = "vertices" -> TRUE
      [] c = "normals" -> m.normals
      [] c = "colors3" -> FALSE
      [] c = "colors4" -> m.colored > 0
      [] c = "tex_coords0" -> Textured(m, 0)
      [] c = "tex_coords1" -> Textured(m, 1)
      [] c = "tex_coords2" -> Textured(m, 2)

\* Every corner of every face of a loaded mesh is drawn once, as a triangle, with
\* its own normal, coordinates and colour where the mesh has any
\* (assimp_mesh.hpp:17-94).
CornersAreKept ==
    \A i \in DOMAIN meshes :
        LET m == file.meshes[i]
            triangles == meshes[i].indice["triangles"]
            data == meshes[i].data
        IN /\ Len(triangles) = 3 * Len(m.faces)
           /\ \A f \in DOMAIN m.faces, k \in 1..3 :
                  data.vertices[triangles[3 * (f - 1) + k] + 1] = <<"position", m.faces[f][k]>>
           /\ \A c \in Channels :
                  IF HasChannel(m, c)
                  THEN /\ Len(data[c]) = 3 * Len(m.faces)
                       /\ \A f \in DOMAIN m.faces, k \in 1..3 :
                              data[c][3 * (f - 1) + k][2] = m.faces[f][k]
                  ELSE data[c] = <<>>

\* Who draws a mesh with its material finds a colour in the material if the mesh
\* has some, and a material has no more than its meshes need (Scene.cpp:74-90).
ColorsAreDeclared ==
    \A k \in DOMAIN materials :
        LET asked == {file.meshes[i].colored : i \in {j \in DOMAIN meshes : file.meshes[j].material = k}}
        IN materials[k].colors \in asked \cup {0} /\ \A c \in asked : c <= materials[k].colors

\* What was made of a node of the file, and what it hangs its children in.
Of(type, n) == {g \in DOMAIN graph : graph[g].type = type /\ graph[g].shows = n}
PlacesOf(n) == IF n = 1 THEN {1} ELSE Of("group", n)
Under(n) == IF file.nodes[n].moved THEN Of("transform", n) ELSE PlacesOf(n)
MeshesOf(n, i) == {g \in Of("mesh", i) : graph[g].parent \in Under(n)}

IsOne(S) == \E x \in S : S = {x}

\* Every node of the file is one group, with one transform under it if it moves
\* and one mesh for each that it shows, and nothing else is in the graph; each is
\* in what was made of the node that it belongs to (Scene.cpp:98-130).
TreeIsKept ==
    loading = "done" =>
        /\ \A n \in DOMAIN file.nodes :
               /\ IsOne(PlacesOf(n))
               /\ file.nodes[n].moved => IsOne(Of("transform", n))
               /\ \A i \in DOMAIN file.nodes[n].meshes : IsOne(MeshesOf(n, i))
        /\ \A g \in DOMAIN graph :
               LET s == graph[g].shows
                   up == {graph[g].parent}
               IN \/ graph[g].type = "root" /\ g = 1
                  \/ /\ graph[g].type = "group"
                     /\ \E p \in DOMAIN file.nodes : s \in ToSet(file.nodes[p].children) /\ up = Under(p)
                  \/ /\ graph[g].type = "transform" /\ s \in DOMAIN file.nodes
                     /\ file.nodes[s].moved /\ up = PlacesOf(s)
                  \/ /\ graph[g].type = "mesh"
                     /\ \E n \in DOMAIN file.nodes : s \in DOMAIN file.nodes[n].meshes /\ up = Under(n)

\* What a mesh draws is what was appended to it, and a scene is what is in its
\* file, but for which mesh a node shows.
MeshesAreWhole ==
    ViewsAreWhole /\ CornersAreKept /\ ColorsAreDeclared /\ TreeIsKept
=============================================================================
