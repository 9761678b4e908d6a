-------------------------------- MODULE Octree --------------------------------
(***************************************************************************)
(* cubeapp::world::tree: the world is a cube of cubes.  find_nodes walks it *)
(* from the root, drops what the frustum does not see, takes what is far as *)
(* a whole, and looks into what is near; find_close_nodes takes the cubes   *)
(* around a node without a tree.                                            *)
(*                                                                         *)
(* The recursion of the visitor is a stack of cubes.  Coordinates are       *)
(* integers, and distances are compared by their squares: a sphere around a *)
(* cube of size s has the radius s * sqrt(3) / 2.  The frustum is that of a *)
(* camera (Camera), which stands still while a search runs.                 *)
(***************************************************************************)
EXTENDS Camera, Sequences

CONSTANTS TreeLevels,  \* of the trees
          MaxIter, MaxNodes,  \* MAX_ITER and MAX_NODES
          FineLevel,   \* cubes of this level and above are not taken as a whole: 9
          CloseCorners, CloseSizes,  \* of the nodes that find_close_nodes is given
          MaxSearches

\* Tree has levels from 1 on: the root is half on each side of the origin.
ASSUME OctreeAssumption ==
    /\ TreeLevels \subseteq Nat \ {0} /\ CloseCorners \subseteq Points
    /\ CloseSizes \subseteq Nat \ {0} /\ MaxIter \in Nat /\ MaxNodes \in Nat

VARIABLES treeLevel,   \* of the tree that is searched; 0 before the first search
          walkLevel,   \* what the static visit_method is for; 0 before the first visit
          eye,         \* the camera as it was when the search began
          frustum,     \* its planes
          unvisited,   \* cubes that are still to be visited, in order
          nodes,       \* the result
          iterations,
          closeNodes,  \* the result of find_close_nodes: offset -> cube
          searches     \* how many there were
octreeVars == <<cameraVars, treeLevel, walkLevel, eye, frustum, unvisited, nodes, iterations, closeNodes,
                searches>>

Size(cube) == 2 ^ cube.level
RootCorner(l) == [x \in Axes |-> -(2 ^ (l - 1))]

OctreeInit ==
    /\ treeLevel = 0 /\ walkLevel = 0
    /\ CameraInit /\ eye = camera /\ frustum = {}
    /\ unvisited = <<>> /\ nodes = <<>> /\ iterations = 0
    /\ closeNodes = <<>> /\ searches = 0
-----------------------------------------------------------------------------
(* find_nodes *)

\* Where the sphere of a cube is, seen from the eye.  size / 2 is 0 for a cube
\* of size 1: its sphere is around its corner.
SphereAt(cube) == [x \in Axes |-> cube.corner[x] + (Size(cube) \div 2) - eye.position[x]]

Intersects(cube) == IntersectsSphere(frustum, SphereAt(cube), 3 * Size(cube) * Size(cube))

\* The diameter is less than the distance.
IsFar(cube) ==
    LET c == SphereAt(cube)
    IN 3 * Size(cube) * Size(cube) < c[1] * c[1] + c[2] * c[2] + c[3] * c[3]

\* _visit_children: the offsets count in binary, z first.
\* Fault: the children are as far apart as their parent is large.
ChildrenOf_Wide(cube) ==
    IF cube.level = 0 THEN <<>>
    ELSE [n \in 1..8 |->
            [level |-> cube.level - 1,
             corner |-> [x \in Axes |-> cube.corner[x]
                           + (((n - 1) \div 2 ^ (3 - x)) % 2) * 2 ^ cube.level]]]
ChildrenOf(cube) ==
    IF cube.level = 0 THEN <<>>
    ELSE [n \in 1..8 |->
            [level |-> cube.level - 1,
             corner |-> [x \in Axes |-> cube.corner[x]
                           + (((n - 1) \div 2 ^ (3 - x)) % 2) * 2 ^ (cube.level - 1)]]]

Limited == iterations >= MaxIter \/ Len(nodes) >= MaxNodes

\* The first visit of all finds the method for the level of its tree, and every
\* later one takes the same, from the root of its own tree.
FindNodes(l) ==
    /\ unvisited = <<>> /\ closeNodes = <<>> /\ searches < MaxSearches
    /\ camera.lens # NoLens
    /\ treeLevel' = l /\ eye' = camera /\ frustum' = FrustumOf(camera)
    /\ walkLevel' = IF walkLevel = 0 THEN l ELSE walkLevel
    /\ unvisited' = <<[level |-> walkLevel', corner |-> RootCorner(l)]>>
    /\ nodes' = <<>> /\ iterations' = 0 /\ searches' = searches + 1
    /\ UNCHANGED <<cameraVars, closeNodes>>

\* One call of the visitor, and what _visit_node does with its answer.
VisitNode ==
    /\ unvisited # <<>>
    /\ LET cube == Head(unvisited)
           looks == ~Limited /\ Intersects(cube)
           taken == IF IsFar(cube) THEN cube.level < FineLevel ELSE cube.level = 0
       IN /\ iterations' = IF Limited THEN iterations ELSE iterations + 1
          /\ nodes' = IF looks /\ taken THEN Append(nodes, cube) ELSE nodes
          /\ unvisited' = (IF looks /\ ~IsFar(cube) THEN ChildrenOf(cube) ELSE <<>>)
                            \o Tail(unvisited)
    /\ UNCHANGED <<cameraVars, treeLevel, walkLevel, eye, frustum, closeNodes, searches>>
-----------------------------------------------------------------------------
(* find_close_nodes *)

NearOffsets == [Axes -> -2..2]
FarOffsets == [Axes -> {-4, -3, 3, 4}]

\* The near ones have the size of the node, the far ones its square, and count
\* their offsets in their own size.
CloseSize(v, size) == IF v \in NearOffsets THEN size ELSE size * size

Placed(corner, v, size) == [x \in Axes |-> corner[x] + v[x] * size]

CloseTo(corner, size) ==
    [v \in NearOffsets \cup FarOffsets |->
        [size |-> CloseSize(v, size), corner |-> Placed(corner, v, CloseSize(v, size))]]

\* It knows no camera: that it comes before the camera is set bounds the states.
FindCloseNodes(corner, size) ==
    /\ unvisited = <<>> /\ closeNodes = <<>> /\ settings = 0
    /\ closeNodes' = CloseTo(corner, size)
    /\ UNCHANGED <<cameraVars, treeLevel, walkLevel, eye, frustum, unvisited, nodes, iterations,
                   searches>>

\* The camera between two searches.
SetCamera ==
    /\ unvisited = <<>> /\ closeNodes = <<>> /\ CameraNext
    /\ UNCHANGED <<treeLevel, walkLevel, eye, frustum, unvisited, nodes, iterations, closeNodes,
                   searches>>

OctreeNext ==
    \/ SetCamera
    \/ \E l \in TreeLevels : FindNodes(l)
    \/ VisitNode
    \/ \E corner \in CloseCorners, size \in CloseSizes : FindCloseNodes(corner, size)

OctreeSpec == OctreeInit /\ [][OctreeNext]_octreeVars
-----------------------------------------------------------------------------
(* Properties *)

\* A search is over, no limit has cut it short, and the camera has not moved since.
Complete == searches > 0 /\ unvisited = <<>> /\ ~Limited /\ eye = camera

CubesOf(l) ==
    UNION {[level : {k},
            corner : [Axes -> {-(2 ^ (l - 1)) + i * 2 ^ k : i \in 0..(2 ^ (l - k) - 1)}]] :
           k \in 0..l}

Ancestor(cube, k) ==
    LET o == RootCorner(treeLevel)
    IN [level |-> k,
        corner |-> [x \in Axes |-> o[x] + ((cube.corner[x] - o[x]) \div 2 ^ k) * 2 ^ k]]

\* What a search is for, said of each cube by itself: it is seen, nothing it is
\* in is far, and it is far enough to be a whole, or as small as can be.  That
\* what it is in is seen too follows from its being seen itself, but for the
\* smallest cubes, whose spheres are not around their centers.
Wanted(cube) ==
    /\ Intersects(cube)
    /\ \A k \in (cube.level + 1)..treeLevel : ~IsFar(Ancestor(cube, k))
    /\ IF IsFar(cube) THEN cube.level < FineLevel ELSE cube.level = 0
    /\ cube.level = 0 => Intersects(Ancestor(cube, 1))

Overlaps(at, size, at2, size2) ==
    \A x \in Axes : at[x] < at2[x] + size2 /\ at2[x] < at[x] + size

\* The search adds nothing but what is wanted, no place twice, and, if it met no
\* limit, all that is wanted: to drop a cube that is not seen drops nothing seen
\* within it (find_nodes).  The level of the first tree is that of all, as
\* in World.
SearchIsRight ==
    walkLevel = treeLevel =>
        /\ nodes # <<>> =>
              LET new == nodes[Len(nodes)]
              IN /\ Wanted(new)
                 /\ \A i \in 1..(Len(nodes) - 1) :
                       ~Overlaps(nodes[i].corner, Size(nodes[i]), new.corner, Size(new))
        /\ Complete => \A c \in CubesOf(treeLevel) :
                          Wanted(c) => \E i \in DOMAIN nodes : nodes[i] = c

\* Every place of the world that the view and the projection of the camera show
\* is in a cube that was found, or in one that is far and too coarse to be taken;
\* and the frustum contains just the places that are shown (Camera::_bind and
\* Frustum::update, two ways to say what is seen).
Cell(p, k) ==
    LET o == RootCorner(treeLevel)[1]
    IN [level |-> k, corner |-> [x \in Axes |-> o + ((p[x] - o) \div 2 ^ k) * 2 ^ k]]

ShownIsFound ==
    (walkLevel = treeLevel /\ Complete) =>
        \A p \in [Axes -> -(2 ^ (treeLevel - 1))..(2 ^ (treeLevel - 1) - 1)] :
            /\ IsLost(eye) \/ (ContainsPoint(frustum, Minus(p, eye.position)) <=> Shown(eye, p))
            /\ Shown(eye, p) =>
                  \/ \E i \in DOMAIN nodes : nodes[i] = Cell(p, nodes[i].level)
                  \/ \E k \in FineLevel..treeLevel : IsFar(Cell(p, k))

\* The cubes around a node are apart: no place is in two of them
\* (find_close_nodes, whose far cubes are as large as the square of the near).
CloseNodesAreApart ==
    \A v, w \in DOMAIN closeNodes :
        v # w => ~Overlaps(closeNodes[v].corner, closeNodes[v].size,
                           closeNodes[w].corner, closeNodes[w].size)

\* What is found of the world is what is to be shown of it, each place once.
WorldIsFound == CameraIsRigid /\ SearchIsRight /\ ShownIsFound /\ CloseNodesAreApart
=============================================================================
