-------------------------------- MODULE Scenes --------------------------------
(***************************************************************************)
(* cube::scene: what a scene knows of the nodes of its graph, and how a    *)
(* view draws it: in depth, pushing a state for each transform, binding    *)
(* materials and bindables on the way down and unbinding them on the way   *)
(* up.  The lights of the scene are bound for the whole draw.              *)
(*                                                                         *)
(* The graph is a tree here (SceneGraph has the rest); nodes are told by   *)
(* their address, as the caches of the view do.                            *)
(***************************************************************************)
EXTENDS Integers, Sequences, FiniteSets, SequencesExt

CONSTANTS Addresses,
          TreeRoot,    \* the address of the root, for good
          Contents,
          ContentKindOf, \* content -> group, transform, mesh, drawable, material, bindable, light
          SpotLights,  \* the lights that are not point lights
          MaxInserts,  \* bound: nodes inserted
          MaxDraws,    \* bound: draws
          None

NodeKinds == {"group", "transform", "mesh", "drawable", "material", "bindable", "light"}

ASSUME ScenesAssumption ==
    /\ TreeRoot \in Addresses /\ None \notin Addresses \cup Contents
    /\ \A c \in Contents : ContentKindOf[c] \in NodeKinds
    /\ SpotLights \subseteq {c \in Contents : ContentKindOf[c] = "light"}
    /\ {MaxInserts, MaxDraws} \subseteq Nat
    /\ None \notin [content : Contents \cup {None}, parent : Addresses \cup {None}, born : Nat]

Lights == {c \in Contents : ContentKindOf[c] = "light"}

VARIABLES hooked,   \* the insert hook is there: not in a scene loaded from a file
          tree,     \* tree[a]: [content, parent, born], or None
          inserts,  \* nodes inserted so far
          lights,   \* Scene::lights()
          cache,    \* <<map, address>> -> [content, born], SceneView's bindables and drawables
          place,    \* place[l]: the transform a light was last seen under
          painter,  \* the models of the pushed states, innermost last
          draw,     \* the walk: [path, seen, proxies, program], or None
          shown,    \* what was drawn last: [node, content, program], or None
          settled,  \* every light was visited since the tree last changed
          draws,
          terminated \* an exception left a destructor
sceneVars == <<hooked, tree, inserts, lights, cache, place, painter, draw, shown, settled, draws, terminated>>

ScenesInit ==
    /\ hooked \in BOOLEAN
    /\ tree = [a \in Addresses |-> IF a = TreeRoot THEN [content |-> None, parent |-> None, born |-> 0]
                                   ELSE None]
    /\ inserts = 0 /\ lights = <<>>
    /\ cache = [k \in {} |-> None]
    /\ place = [l \in Lights |-> None]
    /\ painter = <<None>>
    /\ draw = None /\ shown = None
    /\ settled = TRUE /\ draws = 0 /\ terminated = FALSE

Idle == draw = None /\ ~ terminated
KindAt(a) == IF tree[a].content = None THEN "group" ELSE ContentKindOf[tree[a].content]
-----------------------------------------------------------------------------
(* The graph and its hook *)

\* Graph::insert calls the hook; a light is appended, whether it is there or not.
\* Fault: lights are never told.
Told_Never(c) == lights
Told(c) == IF hooked /\ c \in Lights THEN Append(lights, c) ELSE lights

InsertNode(a, parent, c) ==
    /\ Idle /\ inserts < MaxInserts
    /\ tree[a] = None /\ tree[parent] # None
    /\ tree' = [tree EXCEPT ![a] = [content |-> c, parent |-> parent, born |-> inserts + 1]]
    /\ inserts' = inserts + 1
    /\ lights' = Told(c)
    /\ settled' = FALSE /\ shown' = None
    /\ UNCHANGED <<hooked, cache, place, painter, draw, draws, terminated>>

\* The node and those above it: the least set that its parents do not leave.
HoldsParents(s) == \A a \in s : tree[a] # None /\ tree[a].parent # None => tree[a].parent \in s
Ancestors(a) == {b \in Addresses : \A s \in SUBSET Addresses : a \in s /\ HoldsParents(s) => b \in s}
IsUnder(a, n) == tree[a] # None /\ n \in Ancestors(a)

\* Graph::remove: no hook listens to removals, and no view is told.
RemoveSubtree(n) ==
    /\ Idle /\ n # TreeRoot /\ tree[n] # None
    /\ tree' = [a \in Addresses |-> IF IsUnder(a, n) THEN None ELSE tree[a]]
    /\ settled' = FALSE /\ shown' = None
    /\ UNCHANGED <<hooked, inserts, lights, cache, place, painter, draw, draws, terminated>>
-----------------------------------------------------------------------------
(* SceneView::_draw *)

\* The guards on the lights end in the order of the list.  The first guard of a light
\* that ends takes its state away: when a second one then unbinds the light, an
\* exception leaves Light::_unbind, which is noexcept.
Twice == \E i, j \in DOMAIN lights : i # j /\ lights[i] = lights[j]

EndsDraw == draw' = None /\ terminated' = Twice

Here == Last(draw.path)
Model == Last(painter)

\* An entry of the view's maps wins over what the node holds by now.
Map(a) == IF KindAt(a) = "mesh" THEN "drawables" ELSE "bindables"
Entry(a) == <<Map(a), a>>
Cached(a) == IF Entry(a) \in DOMAIN cache THEN cache[Entry(a)].content ELSE tree[a].content
Fill(a) ==
    cache' = IF Entry(a) \in DOMAIN cache THEN cache
             ELSE [k \in DOMAIN cache \cup {Entry(a)} |->
                      IF k = Entry(a) THEN [content |-> tree[a].content, born |-> tree[a].born] ELSE cache[k]]

\* A bindable cannot be bound to two states: the same one deeper, under a transform.
Refused(a) ==
    KindAt(a) = "bindable" /\
    \E i \in DOMAIN draw.proxies :
        draw.proxies[i].content = tree[a].content /\ draw.proxies[i].depth # Len(painter)

\* A material sets its matrices and the lights as they are when it is bound.
Program(a) == [by |-> a, content |-> Cached(a), model |-> Model,
               lit |-> {<<l, place[l]>> : l \in ToSet(lights)}]

Enter(a, proxies, program) ==
    [path |-> Append(draw.path, a), seen |-> draw.seen \cup {a}, proxies |-> proxies, program |-> program]
Leave(proxies, program) ==
    [path |-> Front(draw.path), seen |-> draw.seen, proxies |-> proxies, program |-> program]

BeginDraw ==
    /\ Idle /\ draws < MaxDraws /\ Len(painter) = 1
    /\ draws' = draws + 1
    /\ draw' = [path |-> <<TreeRoot>>, seen |-> {TreeRoot}, proxies |-> <<>>, program |-> None]
    /\ shown' = None
    /\ UNCHANGED <<hooked, tree, inserts, lights, cache, place, painter, settled, terminated>>

Shows(a, content) == shown' = [node |-> a, content |-> content, program |-> draw.program]

\* discover_vertex
Discover(a) ==
    /\ draw # None /\ ~ terminated
    /\ tree[a] # None /\ tree[a].parent = Here /\ a \notin draw.seen
    /\ ~ Refused(a) /\ tree[a].content \notin SpotLights
    /\ LET kind == KindAt(a) IN
       /\ painter' = IF kind = "transform" THEN Append(painter, tree[a].content) ELSE painter
       /\ draw' = CASE kind = "material" ->
                         Enter(a, Append(draw.proxies, [content |-> Program(a), depth |-> Len(painter)]), Program(a))
                    [] kind = "bindable" ->
                         Enter(a, Append(draw.proxies, [content |-> tree[a].content, depth |-> Len(painter)]),
                               draw.program)
                    [] OTHER -> Enter(a, draw.proxies, draw.program)
       /\ place' = IF kind = "light" THEN [place EXCEPT ![tree[a].content] = Model] ELSE place
       /\ IF kind \in {"mesh", "material"} THEN Fill(a) ELSE UNCHANGED cache
       /\ CASE kind = "mesh"     -> Shows(a, Cached(a))
            [] kind = "drawable" -> Shows(a, tree[a].content)
            [] OTHER             -> shown' = None
    /\ UNCHANGED <<hooked, tree, inserts, lights, settled, draws, terminated>>

\* finish_vertex: a mesh is drawn again; unbinding a material leaves no program in use.
Finish ==
    /\ draw # None /\ ~ terminated
    /\ \A a \in Addresses \ draw.seen : tree[a] # None => tree[a].parent # Here
    /\ LET kind == KindAt(Here) IN
       /\ painter' = IF kind = "transform" THEN Front(painter) ELSE painter
       /\ place' = IF kind = "light" THEN [place EXCEPT ![tree[Here].content] = Model] ELSE place
       /\ IF kind = "mesh" THEN Shows(Here, Cached(Here)) ELSE shown' = None
       /\ IF Here = TreeRoot
          THEN EndsDraw /\ settled' = TRUE
          ELSE /\ draw' = CASE kind = "material" -> Leave(Front(draw.proxies), None)
                            [] kind = "bindable" -> Leave(Front(draw.proxies), draw.program)
                            [] OTHER             -> Leave(draw.proxies, draw.program)
               /\ UNCHANGED <<settled, terminated>>
    /\ UNCHANGED <<hooked, tree, inserts, lights, cache, draws>>

\* A draw or a bind throws on the way down (a light that is not a point light always
\* does): guards end, but the states that were pushed stay.
DrawThrows ==
    /\ draw # None /\ ~ terminated
    /\ \E a \in Addresses : tree[a] # None /\ tree[a].parent = Here /\ a \notin draw.seen
                            /\ KindAt(a) # "group"
    /\ EndsDraw
    /\ shown' = None
    /\ UNCHANGED <<hooked, tree, inserts, lights, cache, place, painter, settled, draws>>

\* The painter of the draw comes to its end, and pops what it pushed.
EndPainter ==
    /\ Idle /\ Len(painter) > 1
    /\ painter' = <<None>>
    /\ UNCHANGED <<hooked, tree, inserts, lights, cache, place, draw, shown, settled, draws, terminated>>

ScenesNext ==
    \/ \E a \in Addresses, parent \in Addresses, c \in Contents : InsertNode(a, parent, c)
    \/ \E n \in Addresses : RemoveSubtree(n)
    \/ BeginDraw
    \/ \E a \in Addresses : Discover(a)
    \/ Finish \/ DrawThrows \/ EndPainter

ScenesSpec == ScenesInit /\ [][ScenesNext]_sceneVars
-----------------------------------------------------------------------------
(* Correctness *)

ScenesTypeOK ==
    /\ \A a \in Addresses : tree[a] # None => tree[a].content \in Contents \cup {None}
    /\ lights \in Seq(Lights) /\ draws \in 0..MaxDraws
    /\ painter # <<>>

\* The innermost transform above a node is the one of them that was born last.
Transforms(a) == {b \in Ancestors(a) \ {a} : KindAt(b) = "transform"}
LastBorn(nodes, s) == CHOOSE b \in s : \A c \in s : nodes[c].born <= nodes[b].born
ModelOf(a) == IF Transforms(a) = {} THEN None ELSE tree[LastBorn(tree, Transforms(a))].content

\* The nodes of a kind on the path.
OnPath(kind) ==
    FlattenSeq([i \in DOMAIN draw.path |-> IF KindAt(draw.path[i]) = kind THEN <<draw.path[i]>> ELSE <<>>])

\* The states and the guards of a walk are those of its path.
WalkIsNested ==
    draw # None =>
        /\ Tail(painter) = [i \in DOMAIN OnPath("transform") |-> tree[OnPath("transform")[i]].content]
        /\ Len(draw.proxies) = Len(OnPath("material")) + Len(OnPath("bindable"))

\* An address whose entry in the view is of a node that is gone.
Stale(a) == Entry(a) \in DOMAIN cache /\ cache[Entry(a)].born # tree[a].born

\* A mesh is drawn as what it is, with the material nearest above it or, after that
\* material had another one under it, with none; and the material stands where it
\* is in the tree.  Addresses that were used again are excepted.
MeshesAreThemselves ==
    draw # None /\ shown # None /\ ~ Stale(shown.node) =>
        /\ shown.content = tree[shown.node].content
        /\ shown.program # None =>
              /\ OnPath("material") # <<>> /\ shown.program.by = Last(OnPath("material"))
              /\ shown.program.model = ModelOf(shown.program.by)

\* From the second draw of an unchanged tree on, materials are lit from where the
\* lights are; in a scene of its own, by every light of the tree.
LitFromTheirPlaces ==
    draw # None /\ draw.program # None =>
        /\ settled => \A a \in Addresses :
              tree[a] # None /\ KindAt(a) = "light" /\ ~ (\E b \in Addresses \ {a} :
                    tree[b] # None /\ tree[b].content = tree[a].content)
              => \A p \in draw.program.lit : p[1] = tree[a].content => p[2] = ModelOf(a)
        /\ hooked => \A a \in Addresses : tree[a] # None /\ KindAt(a) = "light" =>
              \E p \in draw.program.lit : p[1] = tree[a].content

\* What a view draws is what the tree holds (SceneView.cpp:90-207, Scene.cpp:133-202).
ViewsShowTheTree == ScenesTypeOK /\ WalkIsNested /\ MeshesAreThemselves /\ LitFromTheirPlaces

\* What Bindable.hpp says of a guard: as long as it lives, its bindable has a valid
\* state.  So the lights of a scene are unbound without an exception.
GuardsKeepTheirState == ~ terminated
=============================================================================
