------------------------------- MODULE Bindings -------------------------------
(***************************************************************************)
(* cube::gl: bindables (shader programs, textures, materials), the guards  *)
(* that count how often each one is bound, and what is really bound in     *)
(* OpenGL: one program, and one texture per texture unit.  A material is   *)
(* bound by guards on its shader program and its textures that it keeps    *)
(* itself.                                                                 *)
(*                                                                         *)
(* `ctx' is everything a guard may change; its operators take a context    *)
(* and return the next one, in the order of the C++ calls.                 *)
(***************************************************************************)
EXTENDS Integers, Sequences, SequencesExt, FiniteSets

CONSTANTS Shaders, Textures, Materials, BoundStates,
          Nothing,     \* nullptr; also OpenGL's object 0
          ShaderOf,    \* the program each material draws with
          TexturesOf,  \* the textures of each material, in order
          MaxGuards    \* bound: guards alive at once

Leaves == Shaders \cup Textures
Bindables == Leaves \cup Materials
Units == 0..Cardinality(Textures)

ASSUME KindsAssumption ==
    /\ Shaders \cap Textures = {} /\ Leaves \cap Materials = {}
    /\ Nothing \notin Bindables \cup BoundStates
    /\ IsFiniteSet(Bindables)
ASSUME MaterialsAssumption ==
    /\ ShaderOf \in [Materials -> Shaders]
    /\ TexturesOf \in [Materials -> Seq(Textures)]

VARIABLES ctx,     \* [bound, state, program, active, unit, units, sampler]
          inner,   \* inner[m]: the guards a material holds (Bindable::_guards)
          guards   \* the guards clients hold, innermost last
bindVars == <<ctx, inner, guards>>

EmptyMap == [t \in {} |-> 0]

BindInit ==
    /\ ctx = [bound   |-> [b \in Bindables |-> 0],        \* _bound
              state   |-> [b \in Bindables |-> Nothing],  \* _bound_state
              program |-> Nothing,                        \* glUseProgram
              active  |-> 0,                              \* glActiveTexture
              unit    |-> [u \in Units |-> Nothing],      \* glBindTexture
              units   |-> [p \in Shaders |-> EmptyMap],   \* _bound_textures
              sampler |-> [p \in Shaders |-> EmptyMap]]   \* glUniform1i
    /\ inner = [m \in Materials |-> <<>>]
    /\ guards = <<>>
-----------------------------------------------------------------------------
(* Programs and textures *)

GLBind(c, b) ==
    IF b \in Shaders THEN [c EXCEPT !.program = b]
    ELSE [c EXCEPT !.unit[c.active] = b]

\* A program forgets its texture units when it is unbound.
\* Fault: unbinding a program leaves it in use.
GLUnbind_Stays(c, b) == c
GLUnbind(c, b) ==
    IF b \in Shaders
    THEN [c EXCEPT !.program = Nothing, !.units[b] = EmptyMap]
    ELSE [c EXCEPT !.unit[c.active] = Nothing]

\* Guard::Guard throws when the bindable has another state.
MayGuard(c, b, s) == c.state[b] \in {Nothing, s}

Counted(c, b, s) == [c EXCEPT !.state[b] = s, !.bound[b] = @ + 1]

GuardLeaf(c, b, s) ==
    IF c.bound[b] = 0 THEN GLBind(Counted(c, b, s), b) ELSE Counted(c, b, s)

\* Guard::~Guard: whatever the count, the state is forgotten.
LastGuard(c, b) == c.bound[b] = 1
Uncounted(c, b) == [c EXCEPT !.bound[b] = @ - 1, !.state[b] = Nothing]

UnguardLeaf(c, b) ==
    IF LastGuard(c, b) THEN GLUnbind(Uncounted(c, b), b) ELSE Uncounted(c, b)

\* InternalGuard: bind for the time of `Within' unless already bound.
Within(c, b, d) == IF c.bound[b] = 0 THEN GLUnbind(d, b) ELSE d
Entered(c, b) == IF c.bound[b] = 0 THEN GLBind(c, b) ELSE c

\* ShaderProgram::bind_texture_unit and Texture::bind_unit.
UnitOf(c, p, t) ==
    IF t \in DOMAIN c.units[p] THEN c.units[p][t]
    ELSE Cardinality(DOMAIN c.units[p])

SetSampler(c, p, t, u) ==
    LET d == Entered(c, p)
    IN Within(c, p, [d EXCEPT !.sampler[p] =
                        [x \in DOMAIN @ \cup {t} |-> IF x = t THEN u ELSE @[x]]])

BindUnit(c, p, t) ==
    LET u == UnitOf(c, p, t)
        known == [c EXCEPT !.active = u, !.units[p] =
                    [x \in DOMAIN @ \cup {t} |-> IF x = t THEN u ELSE @[x]]]
        bound == Entered(known, t)
    IN Within(known, t, SetSampler(bound, p, t, u))
-----------------------------------------------------------------------------
(* Materials *)

\* Bindable::_bind of a material: a guard on the program, then for each texture
\* (here the first n) a guard and its unit.
Bound(c, m, s, n) ==
    LET p == ShaderOf[m]
        on[i \in 0..n] ==
            IF i = 0 THEN GuardLeaf(c, p, s)
            ELSE BindUnit(GuardLeaf(on[i - 1], TexturesOf[m][i], s), p, TexturesOf[m][i])
    IN on[n]

Parts(m) == <<ShaderOf[m]>> \o TexturesOf[m]

MayBind(c, m, s) == \A i \in DOMAIN Parts(m) : MayGuard(c, Parts(m)[i], s)

BindMaterial(m, s) ==
    IF ctx.bound[m] > 0
    THEN ctx' = Counted(ctx, m, s) /\ UNCHANGED inner
    ELSE /\ MayBind(ctx, m, s)
         /\ ctx' = Bound(Counted(ctx, m, s), m, s, Len(TexturesOf[m]))
         /\ inner' = [inner EXCEPT ![m] = @ \o Parts(m)]

\* _bind throws half way: the guards made so far stay in _guards, and the state
\* stays set.  Past the program's guard it may throw on a light or a parameter it
\* does not know, at a texture another state holds, or on the texture's parameter.
BindMaterialFails(m, s) ==
    /\ ctx.bound[m] = 0
    /\ MayGuard(ctx, m, s)
    /\ MayGuard(ctx, ShaderOf[m], s)
    /\ \E n \in 0..Len(TexturesOf[m]) :
          /\ \A i \in 1..n : MayGuard(ctx, TexturesOf[m][i], s)
          /\ \/ /\ n > 0 => ~ MayBind(ctx, m, s)
                /\ ctx' = [Bound(ctx, m, s, n) EXCEPT !.state[m] = s]
             \/ /\ n > 0
                /\ ctx' = [GuardLeaf(Bound(ctx, m, s, n - 1), TexturesOf[m][n], s)
                             EXCEPT !.state[m] = s]
          /\ inner' = [inner EXCEPT ![m] = @ \o SubSeq(Parts(m), 1, n + 1)]
    /\ UNCHANGED guards

\* The program's guard throws: nothing is bound, but the state stays.
BindMaterialRefused(m, s) ==
    /\ ctx.bound[m] = 0
    /\ MayGuard(ctx, m, s)
    /\ ~ MayGuard(ctx, ShaderOf[m], s)
    /\ ctx' = [ctx EXCEPT !.state[m] = s]
    /\ UNCHANGED <<inner, guards>>

\* _guards.clear().
Emptied(m) == [inner EXCEPT ![m] = <<>>]
Clear(c, list) ==
    LET off[i \in 0..Len(list)] == IF i = 0 THEN c ELSE UnguardLeaf(off[i - 1], list[i])
    IN off[Len(list)]

UnbindMaterial(m) ==
    IF LastGuard(ctx, m)
    THEN ctx' = Clear(Uncounted(ctx, m), inner[m]) /\ inner' = Emptied(m)
    ELSE ctx' = Uncounted(ctx, m) /\ UNCHANGED inner
-----------------------------------------------------------------------------
(* Clients *)

\* A guard is made: Painter::with, draw_arrays, material and scene code.
MakeGuard(b, s) ==
    /\ Len(guards) < MaxGuards
    /\ MayGuard(ctx, b, s)
    /\ guards' = Append(guards, [bindable |-> b, state |-> s])
    /\ IF b \in Materials THEN BindMaterial(b, s)
       ELSE ctx' = GuardLeaf(ctx, b, s) /\ UNCHANGED inner

\* The innermost guard goes out of scope.
DropGuard ==
    /\ guards # <<>>
    /\ guards' = Front(guards)
    /\ LET b == Last(guards).bindable
       IN IF b \in Materials THEN UnbindMaterial(b)
          ELSE ctx' = UnguardLeaf(ctx, b) /\ UNCHANGED inner

\* Setting any parameter of a program, as clients and materials do.
SetParameter(p) ==
    /\ ctx' = Within(ctx, p, Entered(ctx, p))
    /\ UNCHANGED <<inner, guards>>

BindNext ==
    \/ \E b \in Bindables, s \in BoundStates : MakeGuard(b, s)
    \/ \E m \in Materials, s \in BoundStates :
          BindMaterialFails(m, s) \/ BindMaterialRefused(m, s)
    \/ \E p \in Shaders : SetParameter(p)
    \/ DropGuard

BindSpec == BindInit /\ [][BindNext]_bindVars
-----------------------------------------------------------------------------
(* Correctness *)

Maps == UNION {[T -> Units] : T \in SUBSET Textures}

BindContexts ==
    [bound : [Bindables -> Nat], state : [Bindables -> BoundStates \cup {Nothing}],
     program : Shaders \cup {Nothing}, active : Units,
     unit : [Units -> Textures \cup {Nothing}],
     units : [Shaders -> Maps], sampler : [Shaders -> Maps]]

BindTypeOK ==
    /\ ctx \in BindContexts
    /\ inner \in [Materials -> Seq(Leaves)]
    /\ guards \in Seq([bindable : Bindables, state : BoundStates])

\* The guards on b: of clients, and of materials.
GuardsOn(b) ==
    ({Nothing} \X {i \in DOMAIN guards : guards[i].bindable = b})
        \cup UNION {{m} \X {i \in DOMAIN inner[m] : inner[m][i] = b} : m \in Materials}

\* The counter of a bindable is the number of guards on it, those of clients and
\* those of materials, also after a bind that threw half way
\* (Bindable.cpp:22-38).
CountsGuards == \A b \in Bindables : ctx.bound[b] = Cardinality(GuardsOn(b))

\* Of two textures the second one replaces the first on its unit, and of two
\* programs the first one that ends leaves none in use.
OneProgram == \A p, q \in Shaders : p = q
OneTexture == \A t, u \in Textures : t = u

\* With no guard left anywhere nothing stays bound in OpenGL, except what the
\* guards of a material whose bind failed still hold.
NothingLeftBound ==
    guards = <<>> /\ (\A m \in Materials : inner[m] = <<>>) =>
        ctx.program = Nothing /\ (OneTexture => \A u \in Units : ctx.unit[u] = Nothing)

\* A bound material can be drawn with: its program is in use, and each of its
\* samplers is set, to the unit its texture is bound to.
ReadyToDraw ==
    \A m \in Materials : ctx.bound[m] > 0 =>
        /\ OneProgram => ctx.program = ShaderOf[m]
        /\ \A t \in ToSet(TexturesOf[m]) :
              /\ t \in DOMAIN ctx.sampler[ShaderOf[m]]
              /\ OneTexture => ctx.unit[ctx.sampler[ShaderOf[m]][t]] = t

\* Guards are counted, what they guard can be drawn with, and the last one leaves
\* OpenGL clean (Bindable.cpp:17-72).
GuardsAreKept == BindTypeOK /\ CountsGuards /\ NothingLeftBound /\ ReadyToDraw
=============================================================================
