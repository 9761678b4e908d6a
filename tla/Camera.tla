-------------------------------- MODULE Camera --------------------------------
(***************************************************************************)
(* cube::gl::camera::Camera with its frustum and planes: where it is, how it *)
(* is turned, what its frustum takes for seen and what its view and         *)
(* projection show.                                                         *)
(*                                                                         *)
(* Geometry is in integers: the camera turns by right angles, so that its   *)
(* quaternion is told by where right, up and front end up; the field of     *)
(* view is a right angle too, half of which has the tangent 1; the normal of *)
(* a plane is not brought to length 1, its users take the length into       *)
(* account.                                                                 *)
(***************************************************************************)
EXTENDS Integers

CONSTANTS Moves,      \* vectors to move the camera by
          Places,     \* positions to put it at
          Lenses,     \* [ratio, near, far]
          NoLens,     \* no frustum has been set
          Nowhere,    \* what is left of a vector when its length 0 was divided by
          MaxSettings

Axes == 1..3
Points == [Axes -> Int]

ASSUME CameraAssumption ==
    /\ Moves \subseteq Points /\ Places \subseteq Points /\ MaxSettings \in Nat
    /\ Nowhere \notin Points
    /\ \A l \in Lenses : l.ratio \in Nat \ {0} /\ l.near \in Nat \ {0} /\ l.far \in Nat

VARIABLES camera,   \* [position, right, up, front, lens]
          settings  \* how often it was changed
cameraVars == <<camera, settings>>

Dot(u, v) == u[1] * v[1] + u[2] * v[2] + u[3] * v[3]
Cross(u, v) == <<u[2] * v[3] - u[3] * v[2], u[3] * v[1] - u[1] * v[3], u[1] * v[2] - u[2] * v[1]>>
Plus(u, v) == <<u[1] + v[1], u[2] + v[2], u[3] + v[3]>>
Minus(u, v) == <<u[1] - v[1], u[2] - v[2], u[3] - v[3]>>
Times(k, v) == <<k * v[1], k * v[2], k * v[3]>>

Zero == <<0, 0, 0>>
Ways == {<<1, 0, 0>>, <<-1, 0, 0>>, <<0, 1, 0>>, <<0, -1, 0>>, <<0, 0, 1>>, <<0, 0, -1>>}

CAMERA_RIGHT == <<1, 0, 0>>
CAMERA_UP == <<0, 1, 0>>
CAMERA_FRONT == <<0, 0, -1>>

CameraInit ==
    /\ camera = [position |-> Zero, right |-> CAMERA_RIGHT, up |-> CAMERA_UP,
                 front |-> CAMERA_FRONT, lens |-> NoLens]
    /\ settings = 0
-----------------------------------------------------------------------------
(* Settings *)

IsLost(c) == c.front = Nowhere

Set(c) == settings < MaxSettings /\ settings' = settings + 1 /\ camera' = c

Move(v) == Set([camera EXCEPT !.position = Plus(@, v)])
Place(p) == Set([camera EXCEPT !.position = p])
InitFrustum(lens) == Set([camera EXCEPT !.lens = lens])

\* rotate, pitch, yaw and roll by one right angle or two.  The orientation takes the world
\* to the eye and is multiplied from the right, so that the camera turns the other
\* way, around an axis of the world.
Turned(v, axis, angles) ==
    LET along == Times(Dot(axis, v), axis)
    IN IF v = Nowhere THEN Nowhere
       ELSE IF angles = 1 THEN Plus(along, Cross(v, axis))
       ELSE Minus(Times(2, along), v)

Rotate(axis, angles) ==
    Set([camera EXCEPT !.right = Turned(@, axis, angles), !.up = Turned(@, axis, angles),
                       !.front = Turned(@, axis, angles)])

\* look_at a position in the direction of way, with the up of the camera or, when
\* that points the same way, with another, which may point that way as well: the
\* side is then a vector of no length, and there is no way back from dividing by it.
UpFor(way) ==
    IF Cross(way, camera.up) # Zero THEN camera.up
    ELSE IF camera.up # CAMERA_UP THEN CAMERA_UP
    ELSE Times(-1, camera.front)

LookAt(way) ==
    IF IsLost(camera) \/ Cross(way, UpFor(way)) = Zero
    THEN Set([camera EXCEPT !.right = Nowhere, !.up = Nowhere, !.front = Nowhere])
    ELSE LET side == Cross(way, UpFor(way))
         IN Set([camera EXCEPT !.right = side, !.up = Cross(side, way), !.front = way])

CameraNext ==
    \/ \E v \in Moves : Move(v)
    \/ \E p \in Places : Place(p)
    \/ \E lens \in Lenses : InitFrustum(lens)
    \/ \E axis \in Ways, angles \in 1..2 : Rotate(axis, angles)
    \/ \E way \in Ways : LookAt(way)

CameraSpec == CameraInit /\ [][CameraNext]_cameraVars
-----------------------------------------------------------------------------
(* The frustum *)

\* Through three points, to the side from which they turn against the clock.
PlaneOf(p0, p1, p2) ==
    LET normal == Cross(Minus(p1, p0), Minus(p2, p0))
    IN [normal |-> normal, at |-> Dot(normal, p0)]

\* The distance to a point, in lengths of the normal.
Side(plane, p) == Dot(plane.normal, p) - plane.at

\* The corner of the rectangle at distance d, relative to the position; x and y
\* are -1 or 1.
Corner(c, d, x, y) ==
    Plus(Times(d, c.front),
         Plus(Times(y * d, c.up), Times(x * d * c.lens.ratio, Cross(c.front, c.up))))

\* frustum(): update and what it leaves.  A comparison with what is not a number
\* fails, and so all is inside of the planes of a lost camera.
FrustumOf(c) ==
    IF IsLost(c) THEN {}
    ELSE LET near(x, y) == Corner(c, c.lens.near, x, y)
             far(x, y) == Corner(c, c.lens.far, x, y)
         IN {PlaneOf(near(-1, 1), far(1, 1), far(-1, 1)),     \* top
             PlaneOf(near(1, -1), far(-1, -1), far(1, -1)),   \* bottom
             PlaneOf(near(-1, -1), far(-1, 1), far(-1, -1)),  \* left
             PlaneOf(near(1, -1), far(1, -1), far(1, 1)),     \* right
             PlaneOf(near(1, -1), near(1, 1), near(-1, -1)),  \* near
             PlaneOf(far(-1, -1), far(-1, 1), far(1, 1))}     \* far

ContainsPoint(planes, p) == \A plane \in planes : Side(plane, p) <= 0

\* Whether a sphere, whose radius has the square quarters / 4, is not wholly
\* outside of one of the planes.
IntersectsSphere(planes, center, quarters) ==
    \A plane \in planes :
        LET d == Side(plane, center)
        IN d <= 0 \/ 4 * d * d <= quarters * Dot(plane.normal, plane.normal)
-----------------------------------------------------------------------------
(* The view and the projection that _bind sets *)

\* The point as the eye has it, to the front, and what perspective leaves of it.
Shown(c, p) ==
    /\ ~IsLost(c)
    /\ LET q == Minus(p, c.position)
           x == Dot(c.right, q) y == Dot(c.up, q) ahead == Dot(c.front, q)
       IN /\ c.lens.near <= ahead /\ ahead <= c.lens.far
          /\ -ahead * c.lens.ratio <= x /\ x <= ahead * c.lens.ratio
          /\ -ahead <= y /\ y <= ahead
-----------------------------------------------------------------------------
(* Properties *)

\* Whatever a camera is told, its right, up and front stay what they are to one
\* another, or all are lost (rotate and look_at).
CameraIsRigid ==
    \/ camera.right = Nowhere /\ camera.up = Nowhere /\ camera.front = Nowhere
    \/ /\ {camera.front, camera.up} \subseteq Ways
       /\ camera.right = Cross(camera.front, camera.up)
       /\ camera.up = Cross(camera.right, camera.front)
=============================================================================
