---------------------------- MODULE StateMatrices ----------------------------
(***************************************************************************)
(* cube::gl::renderer::State: the three matrices a state is given and the  *)
(* three it computes when asked and keeps: model_view, mvp and normal.  A  *)
(* matrix is a model value, a product the tuple of its factors.  Pushing a *)
(* state copies the one on top with everything it has computed.            *)
(***************************************************************************)
EXTENDS Integers, Sequences, SequencesExt

CONSTANTS Values,    \* what a matrix can be set to
          Identity,  \* the matrix a state starts with
          Unset,     \* a stack_ptr that holds nothing
          MaxStates  \* bound: states on the stack

ASSUME ValuesAssumption == Identity \in Values /\ Unset \notin Values
ASSUME BoundAssumption == MaxStates \in Nat \ {0}

VARIABLES stack  \* Renderer::Impl::states, of matrices
vars == <<stack>>

\* Where the computed matrices come from.
ModelView(s) == <<s.view, s.model>>
Mvp(s) == <<s.projection, ModelView(s)>>

Fresh == [model |-> Identity, view |-> Identity, projection |-> Identity,
          model_view |-> Unset, mvp |-> Unset, normal |-> Unset]

Init == stack = <<Fresh>>
-----------------------------------------------------------------------------
\* Fault: the product with the projection survives.
Cleared_KeepsMvp(s) == [s EXCEPT !.model_view = Unset, !.normal = Unset]
Cleared(s) == [s EXCEPT !.model_view = Unset, !.normal = Unset, !.mvp = Unset]

WithModel(s, v) == Cleared([s EXCEPT !.model = v])
WithView(s, v) == Cleared([s EXCEPT !.view = v])
\* Neither model_view nor normal depends on the projection.
WithProjection(s, v) == [s EXCEPT !.projection = v, !.mvp = Unset]

\* The getters: `Kept' computes and keeps what is not there yet.
Kept(cache, value) == IF cache = Unset THEN value ELSE cache
GetModelView(s) == [s EXCEPT !.model_view = Kept(@, ModelView(s))]
GetMvp(s) ==
    LET t == GetModelView(s) IN
    [t EXCEPT !.mvp = Kept(@, <<t.projection, t.model_view>>)]
GetNormal(s) ==
    LET t == GetModelView(s) IN [t EXCEPT !.normal = Kept(@, t.model_view)]

\* A client may keep a state that is no longer on top (it is shared).
Changes(i, t) == stack' = [stack EXCEPT ![i] = t]

Set(i) == \E v \in Values :
    \/ Changes(i, WithModel(stack[i], v))
    \/ Changes(i, WithView(stack[i], v))
    \/ Changes(i, WithProjection(stack[i], v))
Get(i) ==
    \/ Changes(i, GetModelView(stack[i]))
    \/ Changes(i, GetMvp(stack[i]))
    \/ Changes(i, GetNormal(stack[i]))

\* Renderer::viewport in 2D: a new projection, and its product is logged.
Viewport == \E v \in Values :
    Changes(Len(stack), GetMvp(WithProjection(Last(stack), v)))

Push == Len(stack) < MaxStates /\ stack' = Append(stack, Last(stack))
Pop == Len(stack) > 1 /\ stack' = Front(stack)

Next ==
    \/ \E i \in DOMAIN stack : Set(i) \/ Get(i)
    \/ Viewport \/ Push \/ Pop

Spec == Init /\ [][Next]_vars
-----------------------------------------------------------------------------
Products == {<<a, b>> : a, b \in Values}
States == [model : Values, view : Values, projection : Values,
           model_view : Products \cup {Unset}, normal : Products \cup {Unset},
           mvp : (Values \X Products) \cup {Unset}]
TypeOK == stack \in Seq(States) /\ Len(stack) \in 1..MaxStates

\* What a state keeps is what it would compute: however setters, getters,
\* copies and resizes follow one another, a shader is never given the
\* product of a matrix that was replaced (State::clear, State::projection).
KeptMatricesAreCurrent ==
    \A i \in DOMAIN stack : LET s == stack[i] IN
        /\ s.model_view \in {Unset, ModelView(s)}
        /\ s.mvp \in {Unset, Mvp(s)}
        /\ s.normal \in {Unset, ModelView(s)}
=============================================================================
