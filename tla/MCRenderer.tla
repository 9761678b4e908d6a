----------------------------- MODULE MCRenderer -----------------------------
(* cube::gl::renderer and its window: bindables and guards, the stack of     *)
(* painter states, the matrices of a state, the shaders of materials, the    *)
(* windows and their targets, the documents of the gui.  They share no state *)
(* here, so a behaviour exercises one of them.                               *)
EXTENDS Bindings, RendererStates, StateMatrices, MaterialShaders, Windows, GuiWindow, TLC

CONSTANTS shader, tex1, mat, s1, s2, p1, p2, p3, id, m1,
          w1, w2, t1, t2,  \* windows and targets
          da, db, fa, xa, xb  \* documents, the field of one, text nodes

MCShaderOf == [m \in {mat} |-> shader]
MCTexturesOf == [m \in {mat} |-> <<tex1>>]

MCFieldOf == da :> fa
MCPosition == (da :> 1) @@ (db :> 2)

\* A bind may fail over and over: each time one more guard stays behind.
FewLeftovers == Len(inner[mat]) <= 4

CONSTANT Behaviours  \* the parts to check
VARIABLE part        \* the part this behaviour is about

AllVars == <<bindVars, stateVars, vars, shaderVars, windowVars, guiVars, part>>

\* What the parts begin with: one version of GLSL is enough for the others.
AllInit ==
    /\ part \in Behaviours
    /\ BindInit /\ StatesInit /\ Init /\ ShadersInit /\ WindowsInit /\ GuiInit
    /\ part # "shaders" => \A v \in GLSLVersions : glsl <= v

AllNext ==
    /\ \/ part = "bindings" /\ BindNext /\ UNCHANGED <<stateVars, vars, shaderVars, windowVars, guiVars>>
       \/ part = "states" /\ StatesNext /\ UNCHANGED <<bindVars, vars, shaderVars, windowVars, guiVars>>
       \/ part = "matrices" /\ Next /\ UNCHANGED <<bindVars, stateVars, shaderVars, windowVars, guiVars>>
       \/ part = "shaders" /\ ShadersNext /\ UNCHANGED <<bindVars, stateVars, vars, windowVars, guiVars>>
       \/ part = "windows" /\ WindowsNext /\ UNCHANGED <<bindVars, stateVars, vars, shaderVars, guiVars>>
       \/ part = "gui" /\ GuiNext /\ UNCHANGED <<bindVars, stateVars, vars, shaderVars, windowVars>>
    /\ UNCHANGED part

AllSpec == AllInit /\ [][AllNext]_AllVars
=============================================================================
