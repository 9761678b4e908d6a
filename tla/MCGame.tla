-------------------------------- MODULE MCGame --------------------------------
(* A game besides its events (MCEventManager): how it is launched, its       *)
(* entities, the way of inputs, and the search for what is to be shown of    *)
(* the world.  They share no state, so a behaviour is about one of them.     *)
EXTENDS EntityManager, GameInputs, Launcher, Octree, TLC

CONSTANTS e1, e2, t1, t2, d1, d2, c1, w, a,
          l1, l2, na, nb, v1, v2  \* launches, temporary names, versions

MCBoundTo == ("walk" :> <<{}, w>>) @@ ("run" :> <<Ctrl, w>>) @@ ("act" :> <<{}, a>>)

MCInstalls ==
    [root : {{}, {v1}, {v1, v2}}, near : {{}, {v2}}, asked : {NoVersion, v1},
     rootGame : BOOLEAN, nearGame : BOOLEAN]

\* A narrow and a wide one.
MCLenses == {[ratio |-> 1, near |-> 1, far |-> 4], [ratio |-> 2, near |-> 1, far |-> 3]}
MCMoves == {<<1, 0, 0>>}
MCPlaces == {<<-7, 1, 0>>, <<5, -4, 2>>}
MCCorners == {<<-1, 0, 2>>}

VARIABLE part  \* the part this behaviour is about

AllVars == <<vars, inputVars, launchVars, octreeVars, part>>

\* What may be installed matters to launches only.
AllInit ==
    /\ Init /\ InputInit /\ LaunchInit /\ OctreeInit
    /\ part \in {"entities", "inputs", "launches", "world"}
    /\ part # "launches" => install = CHOOSE i \in Installs : TRUE

Lives == part = "entities" /\ UNCHANGED <<inputVars, launchVars, octreeVars, part>>
Plays == part = "inputs" /\ UNCHANGED <<vars, launchVars, octreeVars, part>>
Launched == part = "launches" /\ UNCHANGED <<vars, inputVars, octreeVars, part>>
Explored == part = "world" /\ UNCHANGED <<vars, inputVars, launchVars, part>>

AllNext ==
    \/ Lives /\ Next
    \/ Plays /\ InputNext
    \/ Launched /\ LaunchNext
    \/ Explored /\ OctreeNext

AllSpec == AllInit /\ [][AllNext]_AllVars /\ WF_AllVars(Plays /\ Frame)
=============================================================================
