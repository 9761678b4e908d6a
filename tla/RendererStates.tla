---------------------------- MODULE RendererStates ----------------------------
(***************************************************************************)
(* cube::gl::renderer: the stack of rendering states, the painters that    *)
(* push and pop them, and the depth test as OpenGL has it against the one  *)
(* each state remembers.  A state is created without initializing its      *)
(* render states (State::Impl), so what a new one remembers is any value.  *)
(***************************************************************************)
EXTENDS Integers, Sequences, SequencesExt, FiniteSets

CONSTANTS Painters,
          MaxDepth  \* bound: states on the stack

ASSUME DepthAssumption == MaxDepth \in Nat

Modes == {"none", "2d", "3d"}

VARIABLES states,     \* Renderer::Impl::states: [mode, painter, depth]
          depthTest,  \* glIsEnabled(GL_DEPTH_TEST)
          alive,      \* the painters alive, innermost last
          count       \* Painter::_state_count
stateVars == <<states, depthTest, alive, count>>

Screen == [states |-> states, depthTest |-> depthTest]
Becomes(c) == states' = c.states /\ depthTest' = c.depthTest

StatesInit ==
    /\ states = <<>>
    /\ depthTest = FALSE
    /\ alive = <<>>
    /\ count = [p \in Painters |-> 0]
-----------------------------------------------------------------------------
\* A state tells OpenGL only of a value that differs from the one it knows.
RenderState(c, i, v) ==
    IF c.states[i].depth = v THEN c
    ELSE [states |-> [c.states EXCEPT ![i].depth = v], depthTest |-> v]

\* The part of update_projection_matrix that is about render states.
UpdateProjection(c) ==
    LET top == Len(c.states) IN
    IF c.states[top].mode = "3d" THEN RenderState(c, top, TRUE) ELSE c

\* Renderer::_pop_state: the next state gets its own depth test back.
\* Fault: OpenGL keeps the depth test of the state popped.
PopTop_NotRestored(c) == [c EXCEPT !.states = Front(@)]
PopTop(c) ==
    LET left == Front(c.states) IN
    IF left = <<>> \/ Last(left).depth = Last(c.states).depth
    THEN [c EXCEPT !.states = left]
    ELSE [states |-> left, depthTest |-> Last(left).depth]

\* A painter is used by the block that holds it: `with' blocks nest, and the
\* innermost one runs.
Uses(p) == alive # <<>> /\ p = Last(alive)

\* GLRenderer::begin: 3D turns the depth test on, the other modes leave it.
DepthTestOf(mode) == mode = "3d" \/ depthTest

Begin(p, mode, garbage) ==
    /\ p \notin Range(alive) /\ Len(states) < MaxDepth
    /\ Becomes(UpdateProjection(
           [states    |-> Append(states, [mode |-> mode, painter |-> p,
                                          depth |-> garbage]),
            depthTest |-> DepthTestOf(mode)]))
    /\ alive' = Append(alive, p)
    /\ count' = [count EXCEPT ![p] = 1]

PushState(p) ==
    /\ Uses(p) /\ Len(states) < MaxDepth /\ states # <<>>
    /\ states' = Append(states, [Last(states) EXCEPT !.painter = p])
    /\ count' = [count EXCEPT ![p] = @ + 1]
    /\ UNCHANGED <<depthTest, alive>>

CanPop(p) == count[p] > 1

PopState(p) ==
    /\ Uses(p) /\ CanPop(p)
    /\ Becomes(PopTop(Screen))
    /\ count' = [count EXCEPT ![p] = @ - 1]
    /\ UNCHANGED alive

\* ~Painter: as many states as the painter pushed, whosoever they are.
PopsOfEnd(p) == count[p]

PopMany(c, n) ==
    LET popped[k \in 0..n] == IF k = 0 THEN c ELSE PopTop(popped[k - 1]) IN popped[n]

End(p) ==
    /\ Uses(p)
    /\ Becomes(PopMany(Screen, PopsOfEnd(p)))
    /\ alive' = Front(alive)
    /\ count' = [count EXCEPT ![p] = 0]

\* The state talks to OpenGL through its painter, which is still there.
SetRenderState(v) ==
    /\ states # <<>> /\ Last(states).painter \in Range(alive)
    /\ Becomes(RenderState(Screen, Len(states), v))
    /\ UNCHANGED <<alive, count>>

Resize ==
    /\ states # <<>> /\ Last(states).painter \in Range(alive)
    /\ Becomes(UpdateProjection(Screen))
    /\ UNCHANGED <<alive, count>>

StatesNext ==
    \/ \E p \in Painters :
        \/ \E mode \in Modes, garbage \in BOOLEAN : Begin(p, mode, garbage)
        \/ PushState(p)
        \/ PopState(p)
        \/ End(p)
    \/ \E v \in BOOLEAN : SetRenderState(v)
    \/ Resize

StatesSpec == StatesInit /\ [][StatesNext]_stateVars
-----------------------------------------------------------------------------
\* The stack holds states of painters; the counts are those of painters.
StatesTypeOK ==
    /\ states \in Seq([mode : Modes, painter : Painters, depth : BOOLEAN])
    /\ Len(states) <= MaxDepth
    /\ depthTest \in BOOLEAN
    /\ alive \in Seq(Painters) /\ IsInjective(alive)
    /\ count \in [Painters -> Nat]
    /\ \A p \in Painters : p \in Range(alive) <=> count[p] > 0

\* The stack is cut in runs, one run per painter in the order the painters
\* nest, as long as its counter says (Painter::_state_count, ~Painter): no
\* painter ever pops another's state, and no state outlives its painter.
StackFollowsPainters ==
    [i \in DOMAIN states |-> states[i].painter] =
        FlattenSeq([k \in DOMAIN alive |-> [j \in 1..count[alive[k]] |-> alive[k]]])

\* While a 3D state is on top OpenGL tests depth exactly when that state says
\* so, whatever was pushed on it and popped since (_pop_state's restoring,
\* render_state's cache, begin and viewport).
DepthTestOf3D ==
    states # <<>> /\ Last(states).mode = "3d" => depthTest = Last(states).depth

\* The stack of states is well formed, follows the painters, and OpenGL follows it.
StatesAreKept == StatesTypeOK /\ StackFollowsPainters /\ DepthTestOf3D
=============================================================================
