------------------------------- MODULE MCScene -------------------------------
(* The graph of a scene, and what a view draws of a scene.  They share no    *)
(* state here, so a behaviour is about one of them.                          *)
EXTENDS SceneGraph, Scenes, TLC

CONSTANTS root, n1, n2, n3, n4,                  \* the nodes of the graph
          top, a1, a2, a3,                       \* the addresses of the nodes of a scene
          t1, mesh1, mat1, light1, bind1

MCKinds == (t1 :> "transform") @@ (mesh1 :> "mesh") @@ (mat1 :> "material") @@ (light1 :> "light")
             @@ (bind1 :> "bindable")

CONSTANT Behaviours  \* the parts to check
VARIABLE part        \* the part this behaviour is about

AllVars == <<graphVars, sceneVars, part>>

\* What the parts begin with: one kind of scene is enough for the graph.
AllInit ==
    /\ part \in Behaviours
    /\ GraphInit /\ ScenesInit
    /\ part # "views" => hooked

AllNext ==
    /\ \/ part = "graph" /\ GraphNext /\ UNCHANGED sceneVars
       \/ part = "views" /\ ScenesNext /\ UNCHANGED graphVars
    /\ UNCHANGED part

AllSpec == AllInit /\ [][AllNext]_AllVars

\* The addresses that new gives are interchangeable.
AnyAddress == Permutations({a1, a2, a3})
=============================================================================
