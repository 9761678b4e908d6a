---------------------------- MODULE RendererProofs ----------------------------
(* Proofs about StateMatrices (the matrices a rendering state keeps),        *)
(* RendererStates (the stack of states and its painters), Glyphs (a font     *)
(* drawn into its texture), VertexBuffers (attributes in one buffer and the  *)
(* draws from it), Windows (SDL, and the targets of its renderers),          *)
(* MaterialShaders (the programs of materials) and Textures (the formats of  *)
(* a picture), for every set of matrices, painters, characters, attributes,  *)
(* windows and targets, every depth of the stack and size of the texture.    *)
EXTENDS StateMatrices, RendererStates, Glyphs, VertexBuffers, Windows, MaterialShaders,
        Textures, SequenceLemmas, FiniteSetTheorems

(* StateMatrices                                                             *)

\* One state of the stack keeps only what it would compute.
Current(s) ==
    /\ s.model_view \in {Unset, ModelView(s)}
    /\ s.mvp \in {Unset, Mvp(s)}
    /\ s.normal \in {Unset, ModelView(s)}

Inv == TypeOK /\ \A i \in DOMAIN stack : Current(stack[i])

LEMMA FreshCurrent == Fresh \in States /\ Current(Fresh)
  BY ValuesAssumption DEF Fresh, States, Current

\* Setting a matrix leaves nothing behind that was computed from the old one.
LEMMA SettersKeepCurrent ==
  ASSUME NEW s \in States, Current(s), NEW v \in Values
  PROVE  /\ WithModel(s, v) \in States /\ Current(WithModel(s, v))
         /\ WithView(s, v) \in States /\ Current(WithView(s, v))
         /\ WithProjection(s, v) \in States /\ Current(WithProjection(s, v))
  <1>1. WithModel(s, v) \in States /\ Current(WithModel(s, v))
    BY DEF States, Current, WithModel, Cleared
  <1>2. WithView(s, v) \in States /\ Current(WithView(s, v))
    BY DEF States, Current, WithView, Cleared
  <1>3. WithProjection(s, v) \in States /\ Current(WithProjection(s, v))
    BY DEF States, Current, WithProjection, ModelView
  <1> QED BY <1>1, <1>2, <1>3

\* What a getter keeps is what it computes.
LEMMA GettersKeepCurrent ==
  ASSUME NEW s \in States, Current(s)
  PROVE  /\ GetModelView(s) \in States /\ Current(GetModelView(s))
         /\ GetMvp(s) \in States /\ Current(GetMvp(s))
         /\ GetNormal(s) \in States /\ Current(GetNormal(s))
  <1> DEFINE t == GetModelView(s)
  <1>1. /\ ModelView(s) \in Products
        /\ Kept(s.model_view, ModelView(s)) = ModelView(s)
    BY DEF States, Current, Kept, ModelView, Products
  <1>2. t = [s EXCEPT !.model_view = ModelView(s)]
    BY <1>1 DEF GetModelView
  <1>3. t \in States /\ t.model_view = ModelView(t)
    BY <1>1, <1>2 DEF States, ModelView
  <1>4. Current(t)
    BY <1>2, <1>3 DEF Current, ModelView, Mvp, States
  <1> HIDE DEF t
  <1>a. ModelView(t) \in Products
    BY <1>3 DEF States, ModelView, Products
  <1>b. Mvp(t) \in Values \X Products
    BY <1>3, <1>a DEF States, Mvp
  <1>c. Mvp(t) = <<t.projection, t.model_view>>
    BY <1>3 DEF Mvp
  <1>d. t.mvp \in {Unset, Mvp(t)} /\ t.normal \in {Unset, ModelView(t)}
    BY <1>4 DEF Current
  <1>5. /\ Kept(t.mvp, <<t.projection, t.model_view>>) = Mvp(t)
        /\ Kept(t.normal, t.model_view) = ModelView(t)
    BY <1>3, <1>c, <1>d DEF Kept
  <1>6. GetMvp(s) = [t EXCEPT !.mvp = Mvp(t)]
    BY <1>5 DEF GetMvp, t
  <1>7. GetMvp(s) \in States /\ Current(GetMvp(s))
    BY <1>3, <1>4, <1>b, <1>6 DEF States, Current, Mvp, ModelView
  <1>8. GetNormal(s) = [t EXCEPT !.normal = ModelView(t)]
    BY <1>5 DEF GetNormal, t
  <1>9. GetNormal(s) \in States /\ Current(GetNormal(s))
    BY <1>3, <1>4, <1>a, <1>8 DEF States, Current, Mvp, ModelView
  <1> QED BY <1>3, <1>4, <1>7, <1>9 DEF t

\* Replacing a state by a current one keeps the invariant.
LEMMA ChangesKeepInv ==
  ASSUME Inv, NEW i \in DOMAIN stack, NEW t \in States, Current(t), Changes(i, t)
  PROVE  Inv'
  <1>1. /\ stack \in Seq(States) /\ Len(stack) \in 1..MaxStates
        /\ \A j \in DOMAIN stack : Current(stack[j])
    BY DEF Inv, TypeOK
  <1>2. stack' = [stack EXCEPT ![i] = t]
    BY DEF Changes
  <1>3. stack' \in Seq(States) /\ Len(stack') = Len(stack) /\ DOMAIN stack' = DOMAIN stack
    BY <1>1, <1>2
  <1>4. \A j \in DOMAIN stack' : Current(stack'[j])
    BY <1>1, <1>2, <1>3
  <1> QED BY <1>1, <1>3, <1>4 DEF Inv, TypeOK, Current, ModelView, Mvp

LEMMA InitInv == Init => Inv
  <1> SUFFICES ASSUME Init PROVE Inv
    OBVIOUS
  <1>1. stack = <<Fresh>> /\ stack \in Seq(States) /\ Len(stack) = 1 /\ DOMAIN stack = {1}
    BY FreshCurrent DEF Init
  <1> QED BY <1>1, FreshCurrent, BoundAssumption DEF Inv, TypeOK

LEMMA NextInv == Inv /\ [Next]_vars => Inv'
  <1> SUFFICES ASSUME Inv, [Next]_vars PROVE Inv'
    OBVIOUS
  <1>0. /\ stack \in Seq(States) /\ Len(stack) \in 1..MaxStates
        /\ \A j \in DOMAIN stack : stack[j] \in States /\ Current(stack[j])
    BY DEF Inv, TypeOK
  <1>1. ASSUME NEW i \in DOMAIN stack, Set(i) PROVE Inv'
    BY <1>0, <1>1, SettersKeepCurrent, ChangesKeepInv DEF Set
  <1>2. ASSUME NEW i \in DOMAIN stack, Get(i) PROVE Inv'
    BY <1>0, <1>2, GettersKeepCurrent, ChangesKeepInv DEF Get
  <1>3. CASE Viewport
    <2> DEFINE n == Len(stack)
    <2>1. n \in DOMAIN stack /\ Last(stack) = stack[n]
      BY <1>0 DEF Last
    <2>2. PICK v \in Values : Changes(n, GetMvp(WithProjection(stack[n], v)))
      BY <1>3, <2>1 DEF Viewport
    <2> DEFINE u == WithProjection(stack[n], v)
    <2>3. u \in States /\ Current(u)
      BY <1>0, <2>1, SettersKeepCurrent
    <2> HIDE DEF u
    <2>4. GetMvp(u) \in States /\ Current(GetMvp(u))
      BY <2>3, GettersKeepCurrent
    <2> QED BY <2>1, <2>2, <2>4, ChangesKeepInv DEF u
  <1>4. CASE Push
    <2>1. stack' = Append(stack, Last(stack)) /\ Len(stack) < MaxStates
      BY <1>4 DEF Push
    <2>2. Last(stack) \in States /\ Current(Last(stack))
      BY <1>0 DEF Last
    <2>3. stack' \in Seq(States) /\ Len(stack') = Len(stack) + 1
      BY <1>0, <2>1, <2>2
    <2>4. \A j \in DOMAIN stack' : stack'[j] \in {Last(stack)} \cup {stack[k] : k \in DOMAIN stack}
      BY <1>0, <2>1, <2>3
    <2>5. \A j \in DOMAIN stack' : Current(stack'[j])
      BY <1>0, <2>2, <2>4
    <2>6. Len(stack') \in 1..MaxStates
      BY BoundAssumption, <1>0, <2>1, <2>3
    <2> QED BY <2>3, <2>5, <2>6 DEF Inv, TypeOK, Current, ModelView, Mvp
  <1>5. CASE Pop
    <2>1. stack' = SubSeq(stack, 1, Len(stack) - 1) /\ Len(stack) > 1
      BY <1>5 DEF Pop, Front
    <2>2. /\ stack' \in Seq(States) /\ Len(stack') = Len(stack) - 1
          /\ \A j \in 1..Len(stack') : stack'[j] = stack[j]
      BY <1>0, <2>1
    <2>3. \A j \in DOMAIN stack' : Current(stack'[j])
      BY <1>0, <2>2
    <2>4. Len(stack') \in 1..MaxStates
      BY BoundAssumption, <1>0, <2>1, <2>2
    <2> QED BY <2>2, <2>3, <2>4 DEF Inv, TypeOK, Current, ModelView, Mvp
  <1>6. CASE UNCHANGED vars
    BY <1>6 DEF vars, Inv, TypeOK, Current, ModelView, Mvp
  <1> QED BY <1>1, <1>2, <1>3, <1>4, <1>5, <1>6 DEF Next

\* The stack of states is well formed: there is always a state, and each
\* keeps products of the right factors.
THEOREM TypeCorrect == Spec => []TypeOK
  <1>1. Inv => TypeOK
    BY DEF Inv
  <1> QED BY <1>1, InitInv, NextInv, PTL DEF Spec

\* Whatever is set, read, copied or resized in whatever order, no matrix kept
\* was computed from one that has been replaced since.
THEOREM MatricesAreCurrent == Spec => []KeptMatricesAreCurrent
  <1>1. Inv => KeptMatricesAreCurrent
    BY DEF Inv, KeptMatricesAreCurrent, Current
  <1> QED BY <1>1, InitInv, NextInv, PTL DEF Spec
-----------------------------------------------------------------------------
(* RendererStates                                                            *)

RenderStates == [mode : Modes, painter : Painters, depth : BOOLEAN]
Screens == [states : Seq(RenderStates), depthTest : BOOLEAN]

\* OpenGL may have another depth test than the state on top says, for that state may
\* say what it was created with.  Then no state below that says the same is a 3D one:
\* popping does not correct what does not differ.
DepthIsKnown(c) ==
    c.states # <<>> /\ c.depthTest # Last(c.states).depth =>
        \A i \in DOMAIN c.states :
            (\A j \in i..Len(c.states) : c.states[j].depth = Last(c.states).depth)
                => c.states[i].mode # "3d"

StatesInv == StatesTypeOK /\ StackFollowsPainters /\ DepthIsKnown(Screen)

PaintersOf(ss) == [i \in DOMAIN ss |-> ss[i].painter]
Runs(as, counts) == [k \in DOMAIN as |-> [j \in 1..counts[as[k]] |-> as[k]]]

LEMMA PopTopFact ==
    ASSUME NEW c \in Screens, c.states # <<>>, DepthIsKnown(c)
    PROVE  /\ PopTop(c) \in Screens /\ DepthIsKnown(PopTop(c))
           /\ PopTop(c).states = SubSeq(c.states, 1, Len(c.states) - 1)
<1> DEFINE ss == c.states
           n == Len(ss)
           left == SubSeq(ss, 1, n - 1)
<1>1. /\ ss \in Seq(RenderStates) /\ n \in Nat \ {0} /\ c.depthTest \in BOOLEAN
      /\ \A i \in 1..n : ss[i] \in RenderStates
  BY DEF Screens
<1>2. /\ left \in Seq(RenderStates) /\ Len(left) = n - 1
      /\ \A i \in 1..(n - 1) : left[i] = ss[i]
      /\ left = <<>> <=> n = 1
  <2>1. Len(ss) = n
    OBVIOUS
  <2> HIDE DEF n, ss
  <2>2. left \in Seq(RenderStates) /\ Len(left) = n - 1 /\ \A i \in 1..(n - 1) : left[i] = ss[i]
    BY <1>1, <2>1
  <2>3. left = <<>> <=> n = 1
    <3> HIDE DEF left
    <3> QED BY <1>1, <2>2
  <2> QED BY <2>2, <2>3
<1>3. /\ Last(ss) = ss[n]
      /\ n # 1 => Last(left) = ss[n - 1]
  <2> HIDE DEF left
  <2> QED BY <1>1, <1>2 DEF Last
<1>4. DepthIsKnown(c) <=>
        (c.depthTest # ss[n].depth =>
            \A i \in 1..n : (\A j \in i..n : ss[j].depth = ss[n].depth) => ss[i].mode # "3d")
  BY <1>1, <1>3 DEF DepthIsKnown
<1>5. CASE n = 1 \/ ss[n - 1].depth = ss[n].depth
  <2> DEFINE d == [c EXCEPT !.states = left]
  <2>1. PopTop(c) = d
    BY <1>2, <1>3, <1>5 DEF PopTop, Front
  <2>2. d \in Screens /\ d.states = left /\ d.depthTest = c.depthTest
    BY <1>1, <1>2 DEF Screens
  <2> HIDE DEF d
  <2>3. DepthIsKnown(d)
    <3>1. SUFFICES ASSUME left # <<>>, c.depthTest # Last(left).depth,
                          NEW i \in 1..(n - 1), \A j \in i..(n - 1) : left[j].depth = Last(left).depth
                   PROVE  left[i].mode # "3d"
      <4>1. DOMAIN left = 1..(n - 1) /\ Len(left) = n - 1
        BY <1>2
      <4> HIDE DEF left, n, ss
      <4> QED BY <4>1, <2>2 DEF DepthIsKnown
    <3>2. n # 1 /\ ss[n - 1].depth = ss[n].depth
      BY <1>2, <1>5, <3>1
    <3>3. \A j \in i..n : ss[j].depth = ss[n].depth
      <4> HIDE DEF left, ss, n
      <4> QED BY <1>1, <1>2, <1>3, <3>1, <3>2
    <3> HIDE DEF left, ss, n
    <3> QED BY <1>1, <1>2, <1>3, <1>4, <3>1, <3>2, <3>3
  <2> QED BY <2>1, <2>2, <2>3
<1>6. CASE n # 1 /\ ss[n - 1].depth # ss[n].depth
  <2> DEFINE d == [states |-> left, depthTest |-> ss[n - 1].depth]
  <2>1. PopTop(c) = d
    BY <1>2, <1>3, <1>6 DEF PopTop, Front
  <2>2. d \in Screens /\ d.states = left
    <3>1. n - 1 \in 1..n
      <4> HIDE DEF n
      <4> QED BY <1>1, <1>6
    <3>2. ss[n - 1].depth \in BOOLEAN
      BY <1>1, <3>1 DEF RenderStates
    <3> HIDE DEF left
    <3> QED BY <1>2, <3>2 DEF Screens
  <2>3. DepthIsKnown(d)
    BY <1>2, <1>3, <1>6 DEF DepthIsKnown
  <2> QED BY <2>1, <2>2, <2>3
<1> QED BY <1>5, <1>6

\* The recursive function of PopMany.
Pops(F, c, n) == F = [k \in 0..n |-> IF k = 0 THEN c ELSE PopTop(F[k - 1])]

LEMMA PopsExists ==
    ASSUME NEW c, NEW n \in Nat
    PROVE  \E F : Pops(F, c, n)
<1> DEFINE T == {m \in Nat : ~ \E F : Pops(F, c, m)}
<1>1. SUFFICES ASSUME T # {} PROVE FALSE
  OBVIOUS
<1>2. PICK m \in T : \A l \in T : m <= l
  BY <1>1, LeastFact
<1>3. m # 0
  <2>1. Pops([k \in 0..0 |-> c], c, 0)
    BY DEF Pops
  <2> QED BY <2>1, <1>2
<1>4. PICK F : Pops(F, c, m - 1)
  BY <1>2, <1>3
<1> DEFINE G == [k \in 0..m |-> IF k = 0 THEN c ELSE PopTop(F[k - 1])]
<1>5. m \in Nat \ {0}
  BY <1>2, <1>3
<1>6. \A k \in 0..(m - 1) : G[k] = F[k]
  <2>1. TAKE k \in 0..(m - 1)
  <2>2. k \in 0..m
    BY <1>5
  <2>3. F[k] = IF k = 0 THEN c ELSE PopTop(F[k - 1])
    BY <1>4 DEF Pops
  <2>4. G[k] = IF k = 0 THEN c ELSE PopTop(F[k - 1])
    BY <2>2
  <2> QED BY <2>3, <2>4
<1>7. \A k \in 0..m : k # 0 => G[k - 1] = F[k - 1]
  <2> HIDE DEF G
  <2> QED BY <1>5, <1>6
<1>8. Pops(G, c, m)
  BY <1>7 DEF Pops
<1> QED BY <1>2, <1>8

LEMMA PopManyFact ==
    ASSUME NEW c \in Screens, DepthIsKnown(c), NEW n \in Nat, n <= Len(c.states)
    PROVE  /\ PopMany(c, n) \in Screens /\ DepthIsKnown(PopMany(c, n))
           /\ PopMany(c, n).states = SubSeq(c.states, 1, Len(c.states) - n)
<1> DEFINE f == CHOOSE F : F = [k \in 0..n |-> IF k = 0 THEN c ELSE PopTop(F[k - 1])]
           len == Len(c.states)
           Good(k) == /\ f[k] \in Screens /\ DepthIsKnown(f[k])
                      /\ f[k].states = SubSeq(c.states, 1, len - k)
           T == {k \in 0..n : ~ Good(k)}
<1>1. Pops(f, c, n)
  BY PopsExists DEF Pops
<1>2. PopMany(c, n) = f[n]
  BY DEF PopMany
<1>3. \A k \in 0..n : f[k] = IF k = 0 THEN c ELSE PopTop(f[k - 1])
  <2> HIDE DEF f
  <2> QED BY <1>1 DEF Pops
<1>a. c.states \in Seq(RenderStates) /\ len \in Nat /\ n <= len
  BY DEF Screens
<1> HIDE DEF f
<1>4. T = {}
  <2>1. SUFFICES ASSUME T # {} PROVE FALSE
    OBVIOUS
  <2>2. T \in SUBSET Nat
    OBVIOUS
  <2> HIDE DEF T
  <2>3. PICK k \in Nat : k \in T /\ \A l \in T : k <= l
    BY <2>1, <2>2, LeastFact
  <2>4. k \in 0..n /\ ~ Good(k)
    BY <2>3 DEF T
  <2>5. CASE k = 0
    <3>1. f[0] = c
      BY <2>4, <2>5, <1>3
    <3>2. SubSeq(c.states, 1, len - 0) = c.states
      BY <1>a
    <3> QED BY <2>4, <2>5, <3>1, <3>2
  <2>6. CASE k # 0
    <3>1. k - 1 \in 0..n /\ ~ (k <= k - 1)
      BY <2>4, <2>6
    <3>2. Good(k - 1)
      <4>1. k - 1 \notin T
        BY <2>3, <3>1
      <4> QED BY <3>1, <4>1 DEF T
    <3>3. f[k] = PopTop(f[k - 1])
      BY <1>3, <2>4, <2>6
    <3> DEFINE d == f[k - 1]
               ss == c.states
    <3>4. /\ d \in Screens /\ DepthIsKnown(d) /\ d.states = SubSeq(ss, 1, len - (k - 1))
      BY <3>2
    <3>5. ss \in Seq(RenderStates) /\ Len(ss) = len /\ len \in Nat /\ k <= len
      BY <1>a, <2>4
    <3> HIDE DEF d, ss, len
    <3>6. Len(d.states) = len - (k - 1) /\ d.states # <<>>
      BY <3>4, <3>5, <2>4, <2>6
    <3>7. SubSeq(d.states, 1, Len(d.states) - 1) = SubSeq(ss, 1, len - k)
      <4>1. Len(d.states) - 1 = len - k
        BY <3>6, <3>5
      <4>2. SubSeq(SubSeq(ss, 1, len - (k - 1)), 1, len - k) = SubSeq(ss, 1, len - k)
        BY <3>5, <2>4, <2>6
      <4> QED BY <3>4, <4>1, <4>2
    <3>8. /\ PopTop(d) \in Screens /\ DepthIsKnown(PopTop(d))
          /\ PopTop(d).states = SubSeq(d.states, 1, Len(d.states) - 1)
      BY <3>4, <3>6, PopTopFact
    <3>9. Good(k)
      BY <3>3, <3>7, <3>8 DEF d, ss
    <3> QED BY <3>9, <2>4
  <2> QED BY <2>5, <2>6
<1>5. Good(n)
  <2>1. n \in 0..n
    OBVIOUS
  <2> QED BY <1>4, <2>1
<1> QED BY <1>2, <1>5
-----------------------------------------------------------------------------
(* What OpenGL is told                                                     *)

LEMMA RenderStateFact ==
    ASSUME NEW c \in Screens, c.states # <<>>, NEW v \in BOOLEAN,
           DepthIsKnown(c) \/ Last(c.states).depth # v
    PROVE  LET d == RenderState(c, Len(c.states), v) IN
           /\ d \in Screens /\ DepthIsKnown(d)
           /\ Len(d.states) = Len(c.states) /\ PaintersOf(d.states) = PaintersOf(c.states)
<1> DEFINE ss == c.states
           n == Len(ss)
           d == RenderState(c, n, v)
<1>1. ss \in Seq(RenderStates) /\ n \in Nat \ {0} /\ \A i \in 1..n : ss[i] \in RenderStates
  BY DEF Screens
<1>2. CASE ss[n].depth = v
  <2>1. d = c
    BY <1>2 DEF RenderState
  <2>2. DepthIsKnown(c)
    BY <1>2 DEF Last
  <2> QED BY <2>1, <2>2
<1>3. CASE ss[n].depth # v
  <2> DEFINE tt == [ss EXCEPT ![n].depth = v]
  <2>1. d = [states |-> tt, depthTest |-> v]
    BY <1>3 DEF RenderState
  <2>2. n \in 1..n
    <3> HIDE DEF n
    <3> QED BY <1>1
  <2>3. tt \in Seq(RenderStates) /\ Len(tt) = n /\ DOMAIN tt = 1..n /\ DOMAIN ss = 1..n
    <3>1. DOMAIN ss = 1..n /\ ss \in [1..n -> RenderStates]
      BY <1>1
    <3>2. [ss[n] EXCEPT !.depth = v] \in RenderStates
      BY <1>1, <2>2 DEF RenderStates
    <3> HIDE DEF ss, n
    <3>3. tt \in [1..n -> RenderStates]
      BY <3>1, <3>2
    <3> HIDE DEF tt
    <3> QED BY <1>1, <3>1, <3>3
  <2>4. tt[n].depth = v /\ \A i \in 1..n : tt[i].painter = ss[i].painter
    <3>1. \A i \in 1..n : ss[i] \in [mode : Modes, painter : Painters, depth : BOOLEAN]
      BY <1>1 DEF RenderStates
    <3> HIDE DEF ss, n
    <3> QED BY <2>2, <2>3, <3>1
  <2> HIDE DEF tt
  <2>5. DepthIsKnown(d)
    BY <2>1, <2>3, <2>4 DEF DepthIsKnown, Last
  <2>6. PaintersOf(tt) = PaintersOf(ss)
    BY <2>3, <2>4 DEF PaintersOf
  <2>7. d \in Screens
    BY <2>1, <2>3 DEF Screens
  <2> QED BY <2>1, <2>3, <2>5, <2>6, <2>7
<1> QED BY <1>2, <1>3

LEMMA ProjectionFact ==
    ASSUME NEW c \in Screens, c.states # <<>>,
           DepthIsKnown(c) \/ (Last(c.states).mode = "3d" /\ c.depthTest = TRUE)
    PROVE  LET d == UpdateProjection(c) IN
           /\ d \in Screens /\ DepthIsKnown(d)
           /\ Len(d.states) = Len(c.states) /\ PaintersOf(d.states) = PaintersOf(c.states)
<1>1. DepthIsKnown(c) \/ Last(c.states).depth # TRUE
  BY DEF DepthIsKnown
<1>2. CASE Last(c.states).mode = "3d"
  <2>1. UpdateProjection(c) = RenderState(c, Len(c.states), TRUE)
    BY <1>2 DEF UpdateProjection, Last
  <2> QED BY <1>1, <2>1, RenderStateFact
<1>3. CASE Last(c.states).mode # "3d"
  <2>1. UpdateProjection(c) = c
    BY <1>3 DEF UpdateProjection, Last
  <2> QED BY <1>3, <2>1
<1> QED BY <1>2, <1>3

\* A state more: not a 3D one, or one like that on top.
LEMMA AppendFact ==
    ASSUME NEW c \in Screens, DepthIsKnown(c), NEW s \in RenderStates,
           \/ s.mode # "3d"
           \/ c.states # <<>> /\ s.mode = Last(c.states).mode /\ s.depth = Last(c.states).depth
    PROVE  DepthIsKnown([states |-> Append(c.states, s), depthTest |-> c.depthTest])
<1> DEFINE ss == c.states
           n == Len(ss)
           tt == Append(ss, s)
           d == [states |-> tt, depthTest |-> c.depthTest]
<1>0. SUFFICES DepthIsKnown(d)
  OBVIOUS
<1>1. ss \in Seq(RenderStates) /\ n \in Nat /\ DOMAIN ss = 1..n
  BY DEF Screens
<1>2. /\ DOMAIN tt = 1..(n + 1) /\ Len(tt) = n + 1 /\ tt[n + 1] = s
      /\ \A i \in 1..n : tt[i] = ss[i]
  BY <1>1
<1>3. Last(tt) = s /\ Last(ss) = ss[n] /\ (ss = <<>> <=> n = 0)
  BY <1>1, <1>2 DEF Last
<1>4. SUFFICES ASSUME d.depthTest # s.depth, NEW i \in 1..(n + 1),
                      \A j \in i..(n + 1) : tt[j].depth = s.depth
               PROVE  tt[i].mode # "3d"
  <2>1. d.states = tt
    OBVIOUS
  <2> HIDE DEF n, tt, d
  <2> QED BY <1>2, <1>3, <2>1 DEF DepthIsKnown
<1>5. d.depthTest = c.depthTest
  OBVIOUS
<1> HIDE DEF d, tt, n
<1>6. CASE i = n + 1
  <2>1. tt[i] = s
    BY <1>2, <1>6
  <2>2. CASE s.mode # "3d"
    BY <2>1, <2>2
  <2>3. CASE c.states # <<>> /\ s.mode = Last(c.states).mode /\ s.depth = Last(c.states).depth
    <3>1. n \in 1..n /\ ss # <<>> /\ \A j \in n..n : j = n
      BY <1>1, <1>3, <2>3
    <3>2. ss[n].mode # "3d"
      BY <1>1, <1>3, <1>4, <1>5, <2>3, <3>1 DEF DepthIsKnown, n
    <3> QED BY <2>1, <2>3, <1>3, <3>2
  <2> QED BY <2>2, <2>3
<1>7. CASE i # n + 1
  <2>1. i \in 1..n /\ n \in i..(n + 1) /\ n # 0
    BY <1>1, <1>7
  <2>2. \A j \in i..n : j \in i..(n + 1) /\ j \in 1..n
    BY <1>1, <2>1
  <2>3. \A j \in i..n : ss[j].depth = s.depth
    BY <1>2, <1>4, <2>2
  <2>4. ss[n].depth = s.depth
    <3>1. n \in i..n
      BY <1>1, <2>1
    <3> QED BY <2>3, <3>1
  <2>5. ss[i].mode # "3d"
    <3>1. c.states # <<>> /\ c.depthTest # Last(c.states).depth /\ i \in DOMAIN c.states
      BY <1>1, <1>3, <1>4, <1>5, <2>1, <2>4
    <3>2. \A j \in i..Len(c.states) : c.states[j].depth = Last(c.states).depth
      BY <1>3, <2>3, <2>4 DEF n
    <3> QED BY <3>1, <3>2 DEF DepthIsKnown
  <2> QED BY <1>2, <2>1, <2>5
<1> QED BY <1>6, <1>7
-----------------------------------------------------------------------------
(* The runs of the stack                                                   *)

Run(p, n) == [j \in 1..n |-> p]
Layout(ps, counts) == FlattenSeq(Runs(ps, counts))

LEMMA RunsType ==
    ASSUME NEW ps \in Seq(Painters), NEW counts \in [Painters -> Nat]
    PROVE  /\ Runs(ps, counts) \in Seq(Seq(Painters))
           /\ Layout(ps, counts) \in Seq(Painters)
<1>1. ASSUME NEW k \in DOMAIN ps
      PROVE  [j \in 1..counts[ps[k]] |-> ps[k]] \in Seq(Painters)
  <2>1. ps[k] \in Painters /\ counts[ps[k]] \in Nat
    OBVIOUS
  <2> QED BY <2>1
<1>2. DOMAIN ps = 1..Len(ps) /\ Len(ps) \in Nat
  OBVIOUS
<1>3. Runs(ps, counts) \in [1..Len(ps) -> Seq(Painters)]
  BY <1>1, <1>2 DEF Runs
<1>4. Runs(ps, counts) \in Seq(Seq(Painters))
  BY <1>2, <1>3
<1> QED BY <1>4, FlattenType DEF Layout

LEMMA RunType ==
    ASSUME NEW p \in Painters, NEW n \in Nat
    PROVE  Run(p, n) \in Seq(Painters) /\ Len(Run(p, n)) = n
BY DEF Run

\* A run is taken off the end, in part or as a whole.
LEMMA CutFact ==
    ASSUME NEW under \in Seq(Painters), NEW p \in Painters, NEW m \in Nat \ {0}
    PROVE  /\ SubSeq(under \o Run(p, m), 1, (Len(under) + m) - 1) = under \o Run(p, m - 1)
           /\ SubSeq(under \o Run(p, m), 1, Len(under)) = under
<1> DEFINE n == Len(under) + m
<1>1. Run(p, m) \in Seq(Painters) /\ Len(Run(p, m)) = m /\ \A i \in 1..m : Run(p, m)[i] = p
  BY RunType DEF Run
<1>2. /\ Run(p, m - 1) \in Seq(Painters) /\ Len(Run(p, m - 1)) = m - 1
      /\ \A i \in 1..(m - 1) : Run(p, m - 1)[i] = p
  BY RunType DEF Run
<1> DEFINE run == Run(p, m)
           less == Run(p, m - 1)
           all == under \o run
           len == Len(under)
<1>a. /\ run \in Seq(Painters) /\ Len(run) = m /\ \A i \in 1..m : run[i] = p
      /\ less \in Seq(Painters) /\ Len(less) = m - 1 /\ \A i \in 1..(m - 1) : less[i] = p
      /\ len \in Nat /\ n = len + m
  BY <1>1, <1>2
<1> HIDE DEF run, less
<1>b. /\ all \in Seq(Painters) /\ Len(all) = n
      /\ \A i \in 1..len : all[i] = under[i]
      /\ \A i \in (len + 1)..n : all[i] = p
  <2>a. under \in Seq(Painters) /\ run \in Seq(Painters) /\ Len(run) = m
    BY <1>a
  <2>1. /\ all \in Seq(Painters) /\ Len(all) = n
        /\ \A i \in 1..len : all[i] = under[i]
    <3>1. /\ all \in Seq(Painters) /\ Len(all) = Len(under) + Len(run)
          /\ \A i \in 1..Len(under) : all[i] = under[i]
      BY ONLY <2>a
    <3> QED BY ONLY <3>1, <2>a
  <2>2. \A i \in (len + 1)..n : all[i] = run[i - len] /\ i - len \in 1..m
    BY <1>a
  <2> HIDE DEF all, len
  <2> QED BY <1>a, <2>1, <2>2
<1>3. SubSeq(under \o run, 1, n - 1) = under \o less
  <2> DEFINE l == SubSeq(all, 1, n - 1)
             r == under \o less
  <2>1. l \in Seq(Painters) /\ Len(l) = n - 1 /\ \A i \in 1..(n - 1) : l[i] = all[i]
    <3> HIDE DEF all, len
    <3> QED BY <1>a, <1>b
  <2>2. /\ r \in Seq(Painters) /\ Len(r) = n - 1 /\ \A i \in 1..len : r[i] = under[i]
        /\ \A i \in (len + 1)..(n - 1) : r[i] = less[i - len] /\ i - len \in 1..(m - 1)
    <3>1. r \in Seq(Painters) /\ Len(r) = len + (m - 1) /\ \A i \in 1..len : r[i] = under[i]
      BY <1>a
    <3>2. \A i \in (len + 1)..(len + (m - 1)) : r[i] = less[i - len]
      BY <1>a
    <3>3. len + (m - 1) = n - 1 /\ \A i \in (len + 1)..(n - 1) : i - len \in 1..(m - 1)
      <4> HIDE DEF len
      <4> QED BY <1>a
    <3> HIDE DEF r, len
    <3> QED BY <3>1, <3>2, <3>3
  <2> HIDE DEF l, r, all, len
  <2>3. ASSUME NEW i \in 1..(n - 1) PROVE l[i] = r[i]
    <3>1. CASE i <= len
      <4>1. i \in 1..len
        BY <1>a, <3>1
      <4>2. l[i] = under[i]
        BY <1>b, <2>1, <4>1
      <4> QED BY <2>2, <4>1, <4>2
    <3>2. CASE ~ (i <= len)
      <4>1. i \in (len + 1)..(n - 1) /\ i \in (len + 1)..n
        BY <1>a, <3>2
      <4>2. l[i] = p
        BY <1>b, <2>1, <4>1
      <4>3. r[i] = less[i - len] /\ i - len \in 1..(m - 1)
        BY <2>2, <4>1
      <4>4. less[i - len] = p
        BY <1>a, <4>3
      <4> QED BY <4>2, <4>3, <4>4
    <3> QED BY <3>1, <3>2
  <2>4. l = r
    BY <2>1, <2>2, <2>3, SeqEqual
  <2> QED BY <2>4 DEF l, r, all
<1>4. SubSeq(under \o run, 1, len) = under
  <2> DEFINE l == SubSeq(all, 1, len)
  <2>1. len <= n
    BY <1>a
  <2>2. l \in Seq(Painters) /\ Len(l) = len /\ \A i \in 1..len : l[i] = under[i]
    <3> HIDE DEF all, len
    <3> QED BY <1>a, <1>b, <2>1
  <2> HIDE DEF l, all
  <2>3. l = under
    BY <2>2, SeqEqual
  <2> QED BY <2>3 DEF l, all
<1> QED BY <1>3, <1>4, Zenon DEF run, less

LEMMA LayoutAppend ==
    ASSUME NEW ps \in Seq(Painters), NEW p \in Painters,
           NEW counts \in [Painters -> Nat], NEW after \in [Painters -> Nat],
           \A k \in DOMAIN ps : after[ps[k]] = counts[ps[k]]
    PROVE  Layout(Append(ps, p), after) = Layout(ps, counts) \o Run(p, after[p])
<1> DEFINE bs == Append(ps, p)
           rs == Runs(ps, counts)
           n == Len(ps)
<1>1. /\ bs \in Seq(Painters) /\ DOMAIN bs = 1..(n + 1) /\ DOMAIN ps = 1..n /\ n \in Nat
      /\ bs[n + 1] = p /\ \A k \in 1..n : bs[k] = ps[k]
  OBVIOUS
<1>2. rs \in Seq(Seq(Painters)) /\ Len(rs) = n
  <2>1. rs \in Seq(Seq(Painters))
    BY RunsType
  <2>2. DOMAIN rs = 1..n
    BY <1>1 DEF Runs
  <2> HIDE DEF rs, n
  <2> QED BY <1>1, <2>1, <2>2
<1>3. Run(p, after[p]) \in Seq(Painters)
  BY RunType
<1>4. Runs(bs, after) = Append(rs, Run(p, after[p]))
  <2> DEFINE new == Append(rs, Run(p, after[p]))
  <2>1. /\ new \in Seq(Seq(Painters)) /\ DOMAIN new = 1..(n + 1)
        /\ new[n + 1] = Run(p, after[p]) /\ \A k \in 1..n : new[k] = rs[k]
    <3> HIDE DEF rs, n
    <3> QED BY <1>1, <1>2, <1>3
  <2>2. \A k \in 1..n : rs[k] = [j \in 1..counts[ps[k]] |-> ps[k]]
    BY <1>1 DEF Runs
  <2> HIDE DEF new, rs, bs, n
  <2>3. ASSUME NEW k \in 1..(n + 1)
        PROVE  new[k] = [j \in 1..after[bs[k]] |-> bs[k]]
    <3>1. CASE k = n + 1
      BY <3>1, <2>1, <1>1 DEF Run
    <3>2. CASE k # n + 1
      <4>1. k \in 1..n
        BY <3>2, <1>1
      <4>2. bs[k] = ps[k] /\ after[ps[k]] = counts[ps[k]]
        BY <4>1, <1>1
      <4>3. new[k] = [j \in 1..counts[ps[k]] |-> ps[k]]
        BY <4>1, <2>1, <2>2
      <4> QED BY <4>2, <4>3
    <3> QED BY <3>1, <3>2
  <2>4. new = [k \in 1..(n + 1) |-> new[k]]
    BY <2>1
  <2>5. new = [k \in 1..(n + 1) |-> [j \in 1..after[bs[k]] |-> bs[k]]]
    BY <2>3, <2>4
  <2>6. Runs(bs, after) = new
    BY <1>1, <2>5 DEF Runs
  <2> QED BY <2>6 DEF new
<1> HIDE DEF bs, rs
<1>5. FlattenSeq(Append(rs, Run(p, after[p]))) = FlattenSeq(rs) \o Run(p, after[p])
  BY <1>2, <1>3, FlattenAppend
<1> QED BY <1>4, <1>5 DEF Layout, rs, bs

\* The painters other than the innermost, and it.
LEMMA SplitFact ==
    ASSUME NEW ps \in Seq(Painters), ps # <<>>, IsInjective(ps)
    PROVE  /\ Front(ps) \in Seq(Painters) /\ Last(ps) \in Painters
           /\ Len(Front(ps)) = Len(ps) - 1
           /\ ps = Append(Front(ps), Last(ps))
           /\ \A k \in DOMAIN Front(ps) : Front(ps)[k] # Last(ps) /\ Front(ps)[k] = ps[k]
           /\ IsInjective(Front(ps))
           /\ Range(ps) = Range(Front(ps)) \cup {Last(ps)}
           /\ Last(ps) \notin Range(Front(ps))
<1> DEFINE n == Len(ps)
           f == Front(ps)
<1>1. n \in Nat \ {0} /\ DOMAIN ps = 1..n /\ Last(ps) = ps[n] /\ \A k \in 1..n : ps[k] \in Painters
  BY DEF Last
<1>2. f \in Seq(Painters) /\ Len(f) = n - 1 /\ \A k \in 1..(n - 1) : f[k] = ps[k]
  BY <1>1 DEF Front
<1>3. n \in 1..n
  <2> HIDE DEF n
  <2> QED BY <1>1
<1>a. DOMAIN f = 1..(n - 1)
  BY <1>2
<1>4. ps = Append(f, Last(ps))
  <2> DEFINE bs == Append(f, Last(ps))
  <2>1. bs \in Seq(Painters) /\ Len(bs) = n /\ bs[n] = ps[n] /\ \A k \in 1..(n - 1) : bs[k] = ps[k]
    <3>1. ps[n] \in Painters
      BY <1>1, <1>3
    <3> HIDE DEF f, n
    <3> QED BY <1>1, <1>2, <3>1
  <2>2. \A k \in 1..n : bs[k] = ps[k]
    <3> HIDE DEF bs, n
    <3> QED BY <2>1, <1>1
  <2>3. Len(ps) = n
    OBVIOUS
  <2> HIDE DEF bs, n
  <2>4. ps = bs
    BY <2>1, <2>2, <2>3, SeqEqual
  <2> QED BY <2>4 DEF bs
<1>5. \A k \in 1..(n - 1) : k \in 1..n /\ k # n
  <2> HIDE DEF n
  <2> QED BY <1>1
<1>6. \A k \in 1..(n - 1) : f[k] # Last(ps)
  BY <1>1, <1>2, <1>3, <1>5 DEF IsInjective
<1>7. IsInjective(f)
  <2> HIDE DEF f, n
  <2> QED BY <1>1, <1>2, <1>5, <1>a DEF IsInjective
<1>8. Range(ps) = Range(f) \cup {Last(ps)}
  <2>1. \A k \in 1..n : k \in 1..(n - 1) \/ k = n
    <3> HIDE DEF n
    <3> QED BY <1>1
  <2> HIDE DEF f, n
  <2> QED BY <1>1, <1>2, <1>3, <1>5, <1>a, <2>1 DEF Range
<1>9. Last(ps) \notin Range(f)
  <2> HIDE DEF f, n
  <2> QED BY <1>a, <1>6 DEF Range
<1> HIDE DEF f
<1>10. Last(ps) \in Painters
  BY <1>1, <1>3
<1> QED BY <1>2, <1>a, <1>4, <1>6, <1>7, <1>8, <1>9, <1>10 DEF f
-----------------------------------------------------------------------------
(* The steps                                                               *)

\* What StatesInv says, in the words of the lemmas.
StatesInvParts ==
    /\ Screen \in Screens /\ Len(states) <= MaxDepth
    /\ alive \in Seq(Painters) /\ IsInjective(alive)
    /\ count \in [Painters -> Nat]
    /\ \A p \in Painters : p \in Range(alive) <=> count[p] > 0
    /\ PaintersOf(states) = Layout(alive, count)
    /\ DepthIsKnown(Screen)

LEMMA InvIs == (StatesInv <=> StatesInvParts) /\ (StatesInv' <=> StatesInvParts')
<1>1. ASSUME NEW ss, NEW depth
      PROVE  [states |-> ss, depthTest |-> depth] \in Screens <=>
                ss \in Seq(RenderStates) /\ depth \in BOOLEAN
  BY DEF Screens
<1>2. StatesInv <=> StatesInvParts
  BY <1>1 DEF StatesInv, StatesInvParts, StatesTypeOK, RenderStates, Screen,
              StackFollowsPainters, PaintersOf, Layout, Runs
<1>3. StatesInv' <=> StatesInvParts'
  BY <1>1 DEF StatesInv, StatesInvParts, StatesTypeOK, RenderStates, Screen,
              StackFollowsPainters, PaintersOf, Layout, Runs
<1> QED BY <1>2, <1>3

\* The screen and the stack after Becomes(d).
LEMMA BecomesFact ==
    ASSUME NEW d \in Screens, Becomes(d)
    PROVE  Screen' = d /\ states' = d.states
BY DEF Becomes, Screen, Screens

\* The innermost painter has the top of the stack.
LEMMA InnermostFact ==
    ASSUME StatesInv, alive # <<>>
    PROVE  LET p == Last(alive)
               under == Layout(Front(alive), count) IN
           /\ p \in Painters /\ count[p] \in Nat \ {0} /\ under \in Seq(Painters)
           /\ PaintersOf(states) = under \o Run(p, count[p])
           /\ Len(states) = Len(under) + count[p]
<1> DEFINE p == Last(alive)
           f == Front(alive)
           under == Layout(f, count)
<1>1. /\ alive \in Seq(Painters) /\ IsInjective(alive) /\ count \in [Painters -> Nat]
      /\ \A q \in Painters : q \in Range(alive) <=> count[q] > 0
      /\ PaintersOf(states) = Layout(alive, count)
      /\ Screen \in Screens
  BY InvIs DEF StatesInvParts
<1>2. /\ f \in Seq(Painters) /\ p \in Painters /\ alive = Append(f, p)
      /\ p \in Range(alive)
  BY <1>1, SplitFact
<1>3. count[p] \in Nat \ {0}
  BY <1>1, <1>2
<1> HIDE DEF p, f
<1>4. Layout(Append(f, p), count) = under \o Run(p, count[p])
  BY <1>1, <1>2, LayoutAppend
<1>5. under \in Seq(Painters)
  BY <1>1, <1>2, RunsType
<1>6. Run(p, count[p]) \in Seq(Painters) /\ Len(Run(p, count[p])) = count[p]
  BY <1>2, <1>3, RunType
<1>7. Len(states) = Len(PaintersOf(states))
  <2>1. states \in Seq(RenderStates)
    BY <1>1 DEF Screens, Screen
  <2> QED BY <2>1 DEF PaintersOf
<1>8. PaintersOf(states) = under \o Run(p, count[p])
  BY <1>1, <1>2, <1>4
<1>9. Len(states) = Len(under) + count[p]
  <2> DEFINE run == Run(p, count[p])
  <2>1. under \in Seq(Painters) /\ run \in Seq(Painters) /\ Len(run) = count[p]
    BY <1>5, <1>6
  <2> HIDE DEF under, run
  <2>2. Len(under \o run) = Len(under) + Len(run)
    BY <2>1
  <2> QED BY <1>7, <1>8, <2>1, <2>2 DEF run
<1> QED BY <1>2, <1>3, <1>5, <1>8, <1>9 DEF p, f

\* Only the number of states of the innermost painter changes.
LEMMA RecountFact ==
    ASSUME StatesInv, alive # <<>>, NEW m \in Nat, m > 0,
           alive' = alive, count' = [count EXCEPT ![Last(alive)] = m]
    PROVE  /\ count' \in [Painters -> Nat]
           /\ \A q \in Painters : q \in Range(alive') <=> count'[q] > 0
           /\ Layout(alive', count') = Layout(Front(alive), count) \o Run(Last(alive), m)
<1> DEFINE p == Last(alive)
           f == Front(alive)
<1>1. /\ alive \in Seq(Painters) /\ IsInjective(alive) /\ count \in [Painters -> Nat]
      /\ \A q \in Painters : q \in Range(alive) <=> count[q] > 0
  BY InvIs DEF StatesInvParts
<1>2. /\ f \in Seq(Painters) /\ p \in Painters /\ alive = Append(f, p)
      /\ p \in Range(alive) /\ \A k \in DOMAIN f : f[k] # p
  BY <1>1, SplitFact
<1> HIDE DEF p, f
<1>3. count' = [count EXCEPT ![p] = m]
  BY DEF p
<1>4. count' \in [Painters -> Nat] /\ count'[p] = m /\ \A q \in Painters \ {p} : count'[q] = count[q]
  <2>1. count \in [Painters -> Nat] /\ p \in Painters
    BY <1>1, <1>2
  <2> QED BY <1>3, <2>1
<1>5. \A q \in Painters : q \in Range(alive') <=> count'[q] > 0
  BY <1>1, <1>2, <1>4
<1>6. \A k \in DOMAIN f : count'[f[k]] = count[f[k]]
  BY <1>2, <1>4
<1>7. Layout(Append(f, p), count') = Layout(f, count) \o Run(p, count'[p])
  <2> DEFINE after == count'
  <2>1. after \in [Painters -> Nat] /\ \A k \in DOMAIN f : after[f[k]] = count[f[k]]
    BY <1>4, <1>6
  <2> HIDE DEF after
  <2>2. Layout(Append(f, p), after) = Layout(f, count) \o Run(p, after[p])
    BY <1>1, <1>2, <2>1, LayoutAppend
  <2> QED BY <2>2 DEF after
<1> QED BY <1>2, <1>4, <1>5, <1>7 DEF p, f

LEMMA StatesInitFact == StatesInit => StatesInv
<1> SUFFICES ASSUME StatesInit PROVE StatesInv
  OBVIOUS
<1>1. Screen \in Screens /\ Len(states) <= MaxDepth
  <2>1. states = <<>> /\ depthTest = FALSE
    BY DEF StatesInit
  <2>2. Screen \in Screens
    <3>1. states \in Seq(RenderStates) /\ depthTest \in BOOLEAN
      BY <2>1, EmptySeq
    <3> QED BY <3>1 DEF Screen, Screens
  <2> QED BY <2>1, <2>2, DepthAssumption
<1>a. alive \in Seq(Painters) /\ IsInjective(alive) /\ Range(alive) = {}
  BY DEF StatesInit, IsInjective, Range
<1>b. count \in [Painters -> Nat] /\ \A p \in Painters : count[p] = 0
  BY DEF StatesInit
<1>2. PaintersOf(states) = <<>> /\ Runs(alive, count) = <<>>
  BY DEF StatesInit, PaintersOf, Runs
<1>3. Layout(alive, count) = <<>>
  BY <1>2, FlattenEmpty DEF Layout
<1>4. DepthIsKnown(Screen)
  BY DEF StatesInit, Screen, DepthIsKnown
<1> QED BY <1>1, <1>a, <1>b, <1>2, <1>3, <1>4, InvIs DEF StatesInvParts

LEMMA BeginKeeps ==
    ASSUME StatesInv, NEW p \in Painters, NEW mode \in Modes, NEW garbage \in BOOLEAN,
           Begin(p, mode, garbage)
    PROVE  StatesInv'
<1> DEFINE s == [mode |-> mode, painter |-> p, depth |-> garbage]
           c == [states |-> Append(states, s), depthTest |-> DepthTestOf(mode)]
           d == UpdateProjection(c)
<1>1. /\ Screen \in Screens /\ alive \in Seq(Painters) /\ IsInjective(alive)
      /\ count \in [Painters -> Nat] /\ DepthIsKnown(Screen)
      /\ PaintersOf(states) = Layout(alive, count)
      /\ \A q \in Painters : q \in Range(alive) <=> count[q] > 0
  BY InvIs DEF StatesInvParts
<1>2. /\ Becomes(d) /\ alive' = Append(alive, p) /\ count' = [count EXCEPT ![p] = 1]
      /\ p \notin Range(alive) /\ Len(states) < MaxDepth
  BY DEF Begin
<1>3. states \in Seq(RenderStates) /\ depthTest \in BOOLEAN /\ s \in RenderStates
  BY <1>1 DEF Screen, Screens, RenderStates
<1> HIDE DEF s
<1>4. /\ c \in Screens /\ c.states # <<>> /\ Len(c.states) = Len(states) + 1
      /\ Last(c.states) = s
  BY <1>3 DEF Screens, DepthTestOf, Last
<1>5. DepthIsKnown(c) \/ (Last(c.states).mode = "3d" /\ c.depthTest = TRUE)
  <2>1. CASE mode = "3d"
    <3>1. DepthTestOf(mode) = TRUE
      BY <2>1, Zenon DEF DepthTestOf
    <3>2. c.depthTest = TRUE
      BY <3>1
    <3>3. Last(c.states).mode = "3d"
      BY <1>4, <2>1 DEF s
    <3> QED BY <3>2, <3>3
  <2>2. CASE mode # "3d"
    <3>1. s.mode # "3d"
      BY <2>2 DEF s
    <3>2. c = [states |-> Append(Screen.states, s), depthTest |-> Screen.depthTest]
      BY <1>3, <2>2 DEF Screen, DepthTestOf
    <3> HIDE DEF c
    <3> QED BY <1>1, <1>3, <3>1, <3>2, AppendFact
  <2> QED BY <2>1, <2>2
<1> HIDE DEF c
<1>6. /\ d \in Screens /\ DepthIsKnown(d) /\ Len(d.states) = Len(states) + 1
      /\ PaintersOf(d.states) = PaintersOf(c.states)
  BY <1>4, <1>5, ProjectionFact
<1>7. PaintersOf(c.states) = Append(Layout(alive, count), p)
  <2>1. s.painter = p
    BY DEF s
  <2>2. PaintersOf(Append(states, s)) = Append(PaintersOf(states), s.painter)
    BY <1>3 DEF PaintersOf
  <2> QED BY <1>1, <2>1, <2>2 DEF c
<1> HIDE DEF d
<1>8. Screen' = d /\ states' = d.states
  BY <1>2, <1>6, BecomesFact
<1>9. /\ count' \in [Painters -> Nat] /\ count'[p] = 1
      /\ \A q \in Painters \ {p} : count'[q] = count[q]
  BY <1>1, <1>2
<1>10. Layout(alive', count') = Layout(alive, count) \o Run(p, 1)
  <2> DEFINE after == count'
  <2>1. after \in [Painters -> Nat] /\ \A k \in DOMAIN alive : after[alive[k]] = count[alive[k]]
    <3>1. \A k \in DOMAIN alive : alive[k] \in Painters /\ alive[k] # p
      BY <1>1, <1>2 DEF Range
    <3> QED BY <1>9, <3>1
  <2> HIDE DEF after
  <2>2. Layout(Append(alive, p), after) = Layout(alive, count) \o Run(p, after[p])
    BY <1>1, <2>1, LayoutAppend
  <2> QED BY <1>2, <1>9, <2>2 DEF after
<1>11. Layout(alive, count) \o Run(p, 1) = Append(Layout(alive, count), p)
  <2> DEFINE under == Layout(alive, count)
  <2>1. under \in Seq(Painters)
    BY <1>1, RunsType
  <2>2. Run(p, 1) = <<p>>
    BY DEF Run
  <2> HIDE DEF under
  <2>3. under \o <<p>> = Append(under, p)
    BY <2>1
  <2> QED BY <2>2, <2>3 DEF under
<1>12. /\ alive' \in Seq(Painters) /\ IsInjective(alive')
       /\ \A q \in Painters : q \in Range(alive') <=> count'[q] > 0
  <2> DEFINE n == Len(alive)
             more == Append(alive, p)
  <2>1. /\ more \in Seq(Painters) /\ DOMAIN alive = 1..n /\ DOMAIN more = 1..(n + 1) /\ n \in Nat
        /\ more[n + 1] = p /\ \A k \in 1..n : more[k] = alive[k] /\ more[k] # p
    BY <1>1, <1>2 DEF Range
  <2> HIDE DEF more, n
  <2>2. \A k \in 1..(n + 1) : k = n + 1 \/ k \in 1..n
    BY <2>1
  <2>3. IsInjective(more)
    BY <1>1, <2>1, <2>2 DEF IsInjective
  <2>4. Range(more) = Range(alive) \cup {p}
    <3>1. n + 1 \in 1..(n + 1) /\ \A k \in 1..n : k \in 1..(n + 1)
      BY <2>1
    <3> QED BY <2>1, <2>2, <3>1 DEF Range
  <2>5. alive' = more
    BY <1>2 DEF more
  <2>6. \A q \in Painters : q \in Range(more) <=> count'[q] > 0
    BY <1>1, <1>9, <2>4
  <2> QED BY <2>1, <2>3, <2>5, <2>6
<1>13. /\ Screen' \in Screens /\ Len(states') <= MaxDepth /\ DepthIsKnown(Screen')
  <2>1. Len(states) \in Nat
    BY <1>3
  <2> QED BY <1>2, <1>6, <1>8, <2>1, DepthAssumption
<1>14. PaintersOf(states') = Layout(alive', count')
  BY <1>6, <1>7, <1>8, <1>10, <1>11
<1>15. DepthIsKnown(Screen)'
  BY <1>13 DEF DepthIsKnown
<1> QED BY <1>9, <1>12, <1>13, <1>14, <1>15, InvIs DEF StatesInvParts

LEMMA PushStateKeeps ==
    ASSUME StatesInv, NEW p \in Painters, PushState(p)
    PROVE  StatesInv'
<1> DEFINE s == [Last(states) EXCEPT !.painter = p]
           d == [states |-> Append(states, s), depthTest |-> depthTest]
           under == Layout(Front(alive), count)
           m == count[p]
<1>1. /\ Screen \in Screens /\ DepthIsKnown(Screen) /\ count \in [Painters -> Nat]
      /\ alive \in Seq(Painters) /\ IsInjective(alive)
  BY InvIs DEF StatesInvParts
<1>2. /\ alive # <<>> /\ p = Last(alive) /\ Len(states) < MaxDepth /\ states # <<>>
      /\ states' = Append(states, s) /\ depthTest' = depthTest /\ alive' = alive
      /\ count' = [count EXCEPT ![p] = @ + 1]
  BY DEF PushState, Uses
<1>3. states \in Seq(RenderStates) /\ depthTest \in BOOLEAN
  BY <1>1 DEF Screen, Screens
<1>4. Last(states) \in RenderStates
  BY <1>2, <1>3 DEF Last
<1>5. s \in RenderStates /\ s.mode = Last(states).mode /\ s.depth = Last(states).depth /\ s.painter = p
  BY <1>4 DEF RenderStates
<1>6. d \in Screens
  <2> HIDE DEF s
  <2> QED BY <1>3, <1>5 DEF Screens
<1>7. DepthIsKnown(d)
  <2>1. Screen.states = states /\ Screen.depthTest = depthTest
    BY DEF Screen
  <2> HIDE DEF s
  <2> QED BY <1>1, <1>2, <1>5, <2>1, AppendFact
<1>8. Screen' = d
  BY <1>2 DEF Screen
<1>9. /\ m \in Nat \ {0} /\ under \in Seq(Painters)
      /\ PaintersOf(states) = under \o Run(p, m)
  BY <1>2, InnermostFact
<1>10. /\ count' \in [Painters -> Nat]
       /\ \A q \in Painters : q \in Range(alive') <=> count'[q] > 0
       /\ Layout(alive', count') = under \o Run(p, m + 1)
  <2>1. m + 1 \in Nat /\ m + 1 > 0 /\ count' = [count EXCEPT ![Last(alive)] = m + 1]
    BY <1>1, <1>2, <1>9
  <2> HIDE DEF m
  <2> QED BY <1>2, <2>1, RecountFact
<1>11. PaintersOf(states') = Append(PaintersOf(states), p)
  <2> HIDE DEF s
  <2> QED BY <1>2, <1>3, <1>5 DEF PaintersOf
<1>12. Append(under \o Run(p, m), p) = under \o Run(p, m + 1)
  <2>1. Append(Run(p, m), p) = Run(p, m + 1)
    <3> HIDE DEF m
    <3> QED BY <1>9 DEF Run
  <2>2. Run(p, m) \in Seq(Painters)
    BY <1>9, RunType
  <2> DEFINE run == Run(p, m)
  <2>a. under \in Seq(Painters) /\ run \in Seq(Painters)
    BY <1>9, <2>2
  <2> HIDE DEF under, run
  <2>3. Append(under \o run, p) = under \o Append(run, p)
    BY <2>a
  <2> QED BY <2>1, <2>3 DEF run
<1>13. Screen' \in Screens /\ DepthIsKnown(Screen)' /\ Len(states') <= MaxDepth
  <2>1. Len(states') = Len(states) + 1 /\ Len(states) \in Nat
    <3> HIDE DEF s
    <3> QED BY <1>2, <1>3, <1>5
  <2> HIDE DEF d
  <2>2. DepthIsKnown(Screen)'
    BY <1>7, <1>8 DEF DepthIsKnown
  <2> QED BY <1>2, <1>6, <1>8, <2>1, <2>2, DepthAssumption
<1> QED BY <1>1, <1>2, <1>9, <1>10, <1>11, <1>12, <1>13, InvIs DEF StatesInvParts

LEMMA PopStateKeeps ==
    ASSUME StatesInv, NEW p \in Painters, PopState(p)
    PROVE  StatesInv'
<1> DEFINE d == PopTop(Screen)
           under == Layout(Front(alive), count)
           m == count[p]
           n == Len(states)
<1>1. /\ Screen \in Screens /\ DepthIsKnown(Screen) /\ count \in [Painters -> Nat]
      /\ alive \in Seq(Painters) /\ IsInjective(alive) /\ n <= MaxDepth
  BY InvIs DEF StatesInvParts
<1>2. /\ alive # <<>> /\ p = Last(alive) /\ m > 1 /\ Becomes(d) /\ alive' = alive
      /\ count' = [count EXCEPT ![p] = @ - 1]
  BY DEF PopState, Uses, CanPop
<1>3. states \in Seq(RenderStates) /\ Screen.states = states
  BY <1>1 DEF Screen, Screens
<1>4. /\ m \in Nat \ {0} /\ under \in Seq(Painters)
      /\ PaintersOf(states) = under \o Run(p, m) /\ n = Len(under) + m
  BY <1>2, InnermostFact
<1>5. states # <<>> /\ n \in Nat \ {0, 1}
  <2>1. Len(under) \in Nat
    BY <1>4
  <2> HIDE DEF under, m
  <2> QED BY <1>2, <1>3, <1>4, <2>1
<1>6. d \in Screens /\ DepthIsKnown(d) /\ d.states = SubSeq(states, 1, n - 1)
  BY <1>1, <1>3, <1>5, PopTopFact
<1> HIDE DEF d
<1>7. Screen' = d /\ states' = SubSeq(states, 1, n - 1)
  BY <1>2, <1>6, BecomesFact
<1>8. /\ count' \in [Painters -> Nat]
      /\ \A q \in Painters : q \in Range(alive') <=> count'[q] > 0
      /\ Layout(alive', count') = under \o Run(p, m - 1)
  <2>1. m - 1 \in Nat /\ m - 1 > 0 /\ count' = [count EXCEPT ![Last(alive)] = m - 1]
    BY <1>1, <1>2, <1>4
  <2> HIDE DEF m
  <2> QED BY <1>2, <2>1, RecountFact
<1>9. PaintersOf(states') = SubSeq(PaintersOf(states), 1, n - 1)
  BY <1>3, <1>5, <1>7 DEF PaintersOf
<1>10. SubSeq(under \o Run(p, m), 1, n - 1) = under \o Run(p, m - 1)
  <2>1. under \in Seq(Painters) /\ p \in Painters /\ m \in Nat \ {0} /\ n = Len(under) + m
    BY <1>4
  <2> HIDE DEF under, m, n
  <2>2. SubSeq(under \o Run(p, m), 1, (Len(under) + m) - 1) = under \o Run(p, m - 1)
    BY <2>1, CutFact
  <2>3. n - 1 = (Len(under) + m) - 1
    BY <2>1
  <2> QED BY <2>2, <2>3
<1>11. Screen' \in Screens /\ DepthIsKnown(Screen)' /\ Len(states') <= MaxDepth
  <2>0. Len(states) = n
    OBVIOUS
  <2>1. Len(states') = n - 1
    <3> HIDE DEF n
    <3> QED BY <1>3, <1>5, <1>7, <2>0
  <2>2. DepthIsKnown(Screen)'
    BY <1>6, <1>7 DEF DepthIsKnown
  <2> HIDE DEF n
  <2> QED BY <1>1, <1>5, <1>6, <1>7, <2>1, <2>2, DepthAssumption
<1> QED BY <1>1, <1>2, <1>4, <1>8, <1>9, <1>10, <1>11, InvIs DEF StatesInvParts

LEMMA EndKeeps ==
    ASSUME StatesInv, NEW p \in Painters, End(p)
    PROVE  StatesInv'
<1> DEFINE f == Front(alive)
           under == Layout(f, count)
           m == count[p]
           n == Len(states)
           d == PopMany(Screen, m)
<1>1. /\ Screen \in Screens /\ DepthIsKnown(Screen) /\ count \in [Painters -> Nat]
      /\ alive \in Seq(Painters) /\ IsInjective(alive) /\ n <= MaxDepth
      /\ \A q \in Painters : q \in Range(alive) <=> count[q] > 0
  BY InvIs DEF StatesInvParts
<1>2. /\ alive # <<>> /\ p = Last(alive) /\ Becomes(d) /\ alive' = f
      /\ count' = [count EXCEPT ![p] = 0]
  BY DEF End, Uses, PopsOfEnd
<1>3. states \in Seq(RenderStates) /\ Screen.states = states
  BY <1>1 DEF Screen, Screens
<1>4. /\ m \in Nat \ {0} /\ under \in Seq(Painters)
      /\ PaintersOf(states) = under \o Run(p, m) /\ n = Len(under) + m
  BY <1>2, InnermostFact
<1>5. n \in Nat /\ m <= n /\ n - m = Len(under) /\ Len(under) \in Nat
  <2>1. Len(under) \in Nat
    BY <1>4
  <2> HIDE DEF under, m, n
  <2> QED BY <1>4, <2>1
<1>6. d \in Screens /\ DepthIsKnown(d) /\ d.states = SubSeq(states, 1, n - m)
  <2>1. m \in Nat /\ m <= Len(Screen.states)
    BY <1>3, <1>4, <1>5
  <2> HIDE DEF m
  <2> QED BY <1>1, <1>3, <2>1, PopManyFact
<1> HIDE DEF d
<1>7. Screen' = d /\ states' = SubSeq(states, 1, n - m)
  BY <1>2, <1>6, BecomesFact
<1>8. /\ f \in Seq(Painters) /\ IsInjective(f) /\ p \notin Range(f)
      /\ Range(alive) = Range(f) \cup {p}
      /\ \A k \in DOMAIN f : f[k] # p
  BY <1>1, <1>2, SplitFact
<1> HIDE DEF f
<1>9. /\ count' \in [Painters -> Nat] /\ count'[p] = 0
      /\ \A q \in Painters \ {p} : count'[q] = count[q]
  BY <1>1, <1>2
<1>10. \A q \in Painters : q \in Range(alive') <=> count'[q] > 0
  BY <1>1, <1>2, <1>8, <1>9
<1>11. Layout(alive', count') = under
  <2>1. \A k \in DOMAIN f : f[k] \in Painters /\ count'[f[k]] = count[f[k]]
    BY <1>8, <1>9
  <2>2. Runs(f, count') = Runs(f, count)
    BY <2>1 DEF Runs
  <2> QED BY <1>2, <2>2 DEF Layout
<1>12. PaintersOf(states') = SubSeq(PaintersOf(states), 1, n - m)
  <2>1. n - m \in Nat /\ n - m <= Len(states)
    BY <1>4, <1>5
  <2> DEFINE k == n - m
  <2> HIDE DEF k
  <2>2. states' = SubSeq(states, 1, k) /\ k \in Nat /\ k <= Len(states)
    BY <1>7, <2>1 DEF k
  <2>3. PaintersOf(states') = SubSeq(PaintersOf(states), 1, k)
    BY <1>3, <2>2 DEF PaintersOf
  <2> QED BY <2>3 DEF k
<1>13. SubSeq(PaintersOf(states), 1, n - m) = under
  <2> HIDE DEF under, m, n
  <2>1. SubSeq(under \o Run(p, m), 1, Len(under)) = under
    BY <1>4, CutFact
  <2> QED BY <1>4, <1>5, <2>1
<1>14. Screen' \in Screens /\ DepthIsKnown(Screen)' /\ Len(states') <= MaxDepth
  <2>1. Len(states') = n - m
    <3>1. Len(states) = n
      OBVIOUS
    <3> HIDE DEF n, m, under
    <3> QED BY <1>3, <1>4, <1>5, <1>7, <3>1
  <2>2. DepthIsKnown(Screen)'
    BY <1>6, <1>7 DEF DepthIsKnown
  <2> HIDE DEF n, m
  <2> QED BY <1>1, <1>4, <1>5, <1>6, <1>7, <2>1, <2>2, DepthAssumption
<1> QED BY <1>2, <1>8, <1>9, <1>10, <1>11, <1>12, <1>13, <1>14, InvIs DEF StatesInvParts

\* A change of the top of the stack that leaves the painters.
LEMMA ScreenKeeps ==
    ASSUME StatesInv, NEW d \in Screens, DepthIsKnown(d), Len(d.states) = Len(states),
           PaintersOf(d.states) = PaintersOf(states),
           Becomes(d), UNCHANGED <<alive, count>>
    PROVE  StatesInv'
<1>1. StatesInvParts
  BY InvIs
<1>2. Screen' = d /\ states' = d.states
  BY BecomesFact
<1>3. DepthIsKnown(Screen)'
  BY <1>2 DEF DepthIsKnown
<1> QED BY <1>1, <1>2, <1>3, InvIs DEF StatesInvParts

LEMMA StatesNextKeeps ==
    ASSUME StatesInv, [StatesNext]_stateVars
    PROVE  StatesInv'
<1>0. Screen \in Screens /\ DepthIsKnown(Screen) /\ Screen.states = states
  BY InvIs DEF StatesInvParts, Screen
<1>1. CASE \E p \in Painters, mode \in Modes, garbage \in BOOLEAN : Begin(p, mode, garbage)
  BY <1>1, BeginKeeps
<1>2. CASE \E p \in Painters : PushState(p)
  BY <1>2, PushStateKeeps
<1>3. CASE \E p \in Painters : PopState(p)
  BY <1>3, PopStateKeeps
<1>4. CASE \E p \in Painters : End(p)
  BY <1>4, EndKeeps
<1>5. ASSUME NEW v \in BOOLEAN, SetRenderState(v)
      PROVE  StatesInv'
  <2> DEFINE d == RenderState(Screen, Len(states), v)
  <2>1. states # <<>> /\ Becomes(d) /\ UNCHANGED <<alive, count>>
    BY <1>5 DEF SetRenderState
  <2>2. /\ d \in Screens /\ DepthIsKnown(d)
        /\ Len(d.states) = Len(states) /\ PaintersOf(d.states) = PaintersOf(states)
    BY <1>0, <2>1, RenderStateFact
  <2> HIDE DEF d
  <2> QED BY <2>1, <2>2, ScreenKeeps
<1>6. ASSUME Resize
      PROVE  StatesInv'
  <2> DEFINE d == UpdateProjection(Screen)
  <2>1. states # <<>> /\ Becomes(d) /\ UNCHANGED <<alive, count>>
    BY <1>6 DEF Resize
  <2>2. /\ d \in Screens /\ DepthIsKnown(d)
        /\ Len(d.states) = Len(states) /\ PaintersOf(d.states) = PaintersOf(states)
    BY <1>0, <2>1, ProjectionFact
  <2> HIDE DEF d
  <2> QED BY <2>1, <2>2, ScreenKeeps
<1>7. CASE UNCHANGED stateVars
  <2>1. StatesInvParts
    BY InvIs
  <2>2. StatesInvParts'
    BY <1>7, <2>1 DEF stateVars, StatesInvParts, Screen, DepthIsKnown, Layout, Runs, PaintersOf
  <2> QED BY <2>2, InvIs
<1> QED BY <1>1, <1>2, <1>3, <1>4, <1>5, <1>6, <1>7 DEF StatesNext

\* The stack of states is cut in runs, one for each painter in the order they nest, and
\* OpenGL tests depth as the 3D state on top says, for any number of painters and states
\* (Renderer.cpp:140-170, Painter.cpp:30-60, State.cpp).
THEOREM StatesStayKept == StatesSpec => []StatesAreKept
<1>1. StatesInv => StatesAreKept
  <2>1. ASSUME StatesInv, states # <<>>, Last(states).mode = "3d"
        PROVE  depthTest = Last(states).depth
    <3>1. states \in Seq(RenderStates) /\ depthTest \in BOOLEAN
      BY <2>1, InvIs DEF StatesInvParts, Screen, Screens
    <3> DEFINE n == Len(states)
    <3>2. n \in Nat \ {0} /\ n \in DOMAIN states
      BY <2>1, <3>1
    <3>3. \A j \in n..n : j = n
      BY <3>2
    <3>4. Last(states) = states[n] /\ Screen.states = states /\ Screen.depthTest = depthTest
      BY DEF Last, Screen
    <3>5. DepthIsKnown(Screen)
      BY <2>1, InvIs DEF StatesInvParts
    <3> QED BY <2>1, <3>2, <3>3, <3>4, <3>5 DEF DepthIsKnown
  <2> QED BY <2>1 DEF StatesInv, StatesAreKept, DepthTestOf3D
<1> QED BY <1>1, StatesInitFact, StatesNextKeeps, PTL DEF StatesSpec
-----------------------------------------------------------------------------
(* The glyphs of a font *)

\* Where a character was drawn.
Place(c) == {p \in Texels : texels[p] = c}

\* Every row above the pen is full, and the pen's own row to its left: the next glyph
\* finds only empty texels.
BeforePen(p) == p[2] < pen[2] \/ (p[2] < pen[2] + lineHeight /\ p[1] < pen[1])

InTexture(x, y, c) ==
    x \in Nat /\ y \in Nat /\ x + WidthIn[c] <= TexWidth /\ y + RowsIn[c] <= TexHeight

Corner == Nat \X Nat \X Nat \X Nat

GlyphsTyped ==
    /\ DOMAIN glyphs \subseteq Chars
    /\ \A c \in DOMAIN glyphs : glyphs[c] = NoGlyph \/ glyphs[c] \in [id : Nat]
    /\ nextId \in Nat /\ lineHeight \in Nat
    /\ pen \in Nat \X Nat
    /\ coords \in Seq(Corner)
    /\ texels \in [Texels -> Chars \cup {NoGlyph}]
    /\ wish \in Seq(Chars)

GlyphsDrawn ==
    /\ \A p \in Texels : texels[p] # NoGlyph => texels[p] \in DOMAIN glyphs /\ BeforePen(p)
    /\ \A c \in DOMAIN glyphs :
          \/ Place(c) = {}
          \/ \E x, y \in Nat : InTexture(x, y, c) /\ Place(c) = Area(x, y, WidthIn[c], RowsIn[c])

\* What Has says, of any texture t.
Shown(t, l, c) ==
    Inside(l) => /\ Len(l) = 4 /\ l[3] = WidthIn[c] /\ l[4] = RowsIn[c]
                 /\ \A p \in Area(l[1], l[2], l[3], l[4]) : t[p] = c

GlyphsNumbered ==
    /\ Len(coords) <= nextId
    /\ InStep => \A c \in DOMAIN glyphs : glyphs[c] # NoGlyph =>
                    glyphs[c].id + 1 \in DOMAIN coords /\ Shown(texels, coords[glyphs[c].id + 1], c)

QuadsKnown ==
    /\ quads # <<>> => wish = <<>>
    /\ InStep => \A i \in DOMAIN quads : Shown(texels, quads[i][2], quads[i][1])

GlyphsKnown == GlyphsTyped /\ GlyphsDrawn /\ GlyphsNumbered /\ QuadsKnown

\* What the constants are.
LEMMA SizesFact ==
    /\ TexWidth \in Nat /\ TexHeight \in Nat /\ NoGlyph \notin Chars
    /\ \A c \in Chars : WidthIn[c] \in Nat /\ RowsIn[c] \in Nat
BY GlyphsAssumption

LEMMA RangeSize ==
    ASSUME NEW a \in Nat, NEW n \in Nat
    PROVE  IsFiniteSet(a..(a + n - 1)) /\ Cardinality(a..(a + n - 1)) = n
<1> DEFINE b == a + n - 1
<1>1. a \in Int /\ b \in Int /\ (a > b <=> n = 0) /\ b - a + 1 = n
  OBVIOUS
<1> HIDE DEF b
<1>2. IsFiniteSet(a..b) /\ Cardinality(a..b) = IF a > b THEN 0 ELSE b - a + 1
  BY <1>1, FS_Interval
<1> QED BY <1>1, <1>2 DEF b

\* How many texels a glyph has.
LEMMA AreaFact ==
    ASSUME NEW c \in Chars, NEW x, NEW y, InTexture(x, y, c)
    PROVE  Cardinality(Area(x, y, WidthIn[c], RowsIn[c])) = WidthIn[c] * RowsIn[c]
<1> DEFINE w == WidthIn[c]
           h == RowsIn[c]
           columns == x..(x + w - 1)
           rows == y..(y + h - 1)
<1>1. w \in Nat /\ h \in Nat /\ TexWidth \in Nat /\ TexHeight \in Nat
  BY SizesFact
<1>2. x \in Nat /\ y \in Nat /\ x + w <= TexWidth /\ y + h <= TexHeight
  BY DEF InTexture
<1> HIDE DEF w, h
<1>3. Area(x, y, w, h) = columns \X rows
  <2>1. \A a \in columns : a \in 0..(TexWidth - 1)
    BY <1>1, <1>2
  <2>2. \A b \in rows : b \in 0..(TexHeight - 1)
    BY <1>1, <1>2
  <2> HIDE DEF columns, rows
  <2>3. Area(x, y, w, h) = {p \in Texels : p[1] \in columns /\ p[2] \in rows}
    BY DEF Area, columns, rows
  <2> QED BY <2>1, <2>2, <2>3 DEF Texels
<1>4. IsFiniteSet(columns) /\ Cardinality(columns) = w
  BY <1>1, <1>2, RangeSize DEF columns
<1>5. IsFiniteSet(rows) /\ Cardinality(rows) = h
  BY <1>1, <1>2, RangeSize DEF rows
<1> HIDE DEF columns, rows
<1>6. Cardinality(columns \X rows) = w * h
  BY <1>4, <1>5, FS_Product
<1> QED BY <1>3, <1>6 DEF w, h

\* Where the next glyph goes there is nothing yet.
LEMMA NextPlaceIsFree ==
    ASSUME GlyphsKnown, NEW c \in Chars,
           NEW p \in Area(PenFor(c)[1], PenFor(c)[2], WidthIn[c], RowsIn[c])
    PROVE  texels[p] = NoGlyph
<1> DEFINE x == PenFor(c)[1]
           y == PenFor(c)[2]
<1>1. pen[1] \in Nat /\ pen[2] \in Nat /\ lineHeight \in Nat
  BY SizesFact DEF GlyphsKnown, GlyphsTyped
<1>2. IF Returns(c) THEN x = 0 /\ y = pen[2] + lineHeight ELSE x = pen[1] /\ y = pen[2]
  BY DEF PenFor
<1>3. x \in Nat /\ y \in Nat
  BY <1>1, <1>2
<1> HIDE DEF x, y
<1>4. p \in Texels /\ p[1] \in x..(x + WidthIn[c] - 1) /\ p[2] \in y..(y + RowsIn[c] - 1)
  BY DEF Area, x, y
<1>5. p[1] \in Int /\ p[2] \in Int /\ p[1] >= x /\ p[2] >= y
  BY <1>3, <1>4, SizesFact
<1>6. ~ BeforePen(p)
  <2>1. CASE Returns(c)
    BY <1>1, <1>2, <1>5, <2>1 DEF BeforePen
  <2>2. CASE ~ Returns(c)
    BY <1>1, <1>2, <1>5, <2>2 DEF BeforePen
  <2> QED BY <2>1, <2>2
<1> QED BY <1>4, <1>6 DEF GlyphsKnown, GlyphsDrawn

\* A step that draws nothing, adds nothing to the list of corners and gives a number
\* out leaves numbers and corners out of step.
LEMMA SkippedFact ==
    ASSUME GlyphsKnown, nextId' = nextId + 1, coords' = coords
    PROVE  ~ InStep' /\ Len(coords') <= nextId'
<1>1. Len(coords) \in Nat /\ nextId \in Nat /\ Len(coords) <= nextId
  BY DEF GlyphsKnown, GlyphsTyped, GlyphsNumbered
<1> QED BY <1>1 DEF InStep

\* A character that had no glyph was not drawn.
LEMMA NotDrawnYet ==
    ASSUME GlyphsKnown, NEW c \in Chars, ~ HasGlyph(c)
    PROVE  Place(c) = {}
BY SizesFact DEF GlyphsKnown, GlyphsDrawn, Place, HasGlyph

LEMMA FailsKeeps ==
    ASSUME GlyphsKnown, NEW c \in Chars, ~ HasGlyph(c), GlyphFails(c)
    PROVE  GlyphsKnown'
<1>1. /\ glyphs' = glyphs \/ glyphs' = With(c, NoGlyph)
      /\ nextId' = nextId + 1 /\ wish' = <<>> /\ quads' = <<>>
      /\ UNCHANGED <<pen, lineHeight, coords, texels>>
  BY DEF GlyphFails, Throws
<1>2. ~ InStep' /\ Len(coords') <= nextId'
  BY <1>1, SkippedFact
<1>3. /\ DOMAIN glyphs \subseteq DOMAIN glyphs' /\ DOMAIN glyphs' \subseteq DOMAIN glyphs \cup {c}
      /\ \A d \in DOMAIN glyphs' : glyphs'[d] = IF d \in DOMAIN glyphs THEN glyphs[d] ELSE NoGlyph
  BY <1>1 DEF With, HasGlyph
<1>4. GlyphsTyped'
  BY <1>1, <1>3 DEF GlyphsKnown, GlyphsTyped
<1>5. GlyphsDrawn'
  <2>1. \A d : Place(d)' = Place(d)
    BY <1>1 DEF Place
  <2>2. \A p \in Texels : BeforePen(p)' = BeforePen(p)
    BY <1>1 DEF BeforePen
  <2> QED BY <1>1, <1>3, <2>1, <2>2, NotDrawnYet DEF GlyphsKnown, GlyphsDrawn
<1> QED BY <1>1, <1>2, <1>4, <1>5 DEF GlyphsKnown, GlyphsNumbered, QuadsKnown

\* The part of Generates that is about numbers: the glyph, the pen and the line.
LEMMA PenFact ==
    ASSUME GlyphsKnown, NEW c \in Chars, Generates(c)
    PROVE  /\ pen' \in Nat \X Nat /\ lineHeight' \in Nat
           /\ PenFor(c)[1] \in Nat /\ PenFor(c)[2] \in Nat
           /\ \A p \in Texels : BeforePen(p) => BeforePen(p)'
           /\ ~ TooLow(c) /\ ~ Outside(c) =>
                 \A p \in Area(PenFor(c)[1], PenFor(c)[2], WidthIn[c], RowsIn[c]) : BeforePen(p)'
<1> DEFINE x == PenFor(c)[1]
           y == PenFor(c)[2]
           w == WidthIn[c]
           h == RowsIn[c]
           up == IF TooLow(c) THEN 0 ELSE Larger(IF Returns(c) THEN 0 ELSE lineHeight, h)
<1>1. /\ pen[1] \in Nat /\ pen[2] \in Nat
      /\ lineHeight \in Nat /\ w \in Nat /\ h \in Nat
      /\ TexWidth \in Nat /\ TexHeight \in Nat
  BY SizesFact DEF GlyphsKnown, GlyphsTyped
<1>2. IF Returns(c) THEN x = 0 /\ y = pen[2] + lineHeight ELSE x = pen[1] /\ y = pen[2]
  BY DEF PenFor
<1>3. pen' = IF TooLow(c) \/ Outside(c) THEN PenFor(c) ELSE <<x + w, y>>
  BY DEF Generates
<1>4. PenFor(c) = <<x, y>>
  BY DEF PenFor, GlyphsKnown, GlyphsTyped
<1>5. lineHeight' = up
  BY DEF Generates
<1>6. Returns(c) <=> pen[1] + w >= TexWidth
  BY DEF Returns
<1>7. TooLow(c) => Returns(c)
  BY DEF TooLow
<1> HIDE DEF x, y, w, h
<1>8. x \in Nat /\ y \in Nat
  BY <1>1, <1>2, <1>6
<1>9. pen'[2] = y /\ pen'[1] \in {x, x + w} /\ pen' \in Nat \X Nat
  BY <1>1, <1>3, <1>4, <1>8
<1>10. up \in Nat /\ (~ Returns(c) => up >= lineHeight)
       /\ (~ TooLow(c) => up >= h)
  BY <1>1, <1>7 DEF Larger
<1> HIDE DEF up
<1>11. ASSUME NEW p \in Texels, BeforePen(p)
       PROVE  BeforePen(p)'
  <2>1. p[1] \in Int /\ p[2] \in Int
    BY SizesFact DEF Texels
  <2>2. p[2] < pen[2] \/ (p[2] < pen[2] + lineHeight /\ p[1] < pen[1])
    BY <1>11 DEF BeforePen
  <2>3. CASE Returns(c)
    <3>1. p[2] < y
      BY <1>1, <1>2, <2>1, <2>2, <2>3
    <3> QED BY <1>9, <3>1 DEF BeforePen
  <2>4. CASE ~ Returns(c)
    <3>1. p[2] < y \/ (p[2] < y + up /\ p[1] < x)
      BY <1>1, <1>2, <1>8, <1>10, <2>1, <2>2, <2>4
    <3>2. pen'[1] \in Nat /\ pen'[1] >= x
      BY <1>1, <1>8, <1>9
    <3>3. p[2] < pen'[2] \/ (p[2] < pen'[2] + lineHeight' /\ p[1] < pen'[1])
      BY <1>5, <1>8, <1>9, <2>1, <3>1, <3>2
    <3> QED BY <3>3 DEF BeforePen
  <2> QED BY <2>3, <2>4
<1>12. ASSUME ~ TooLow(c), ~ Outside(c), NEW p \in Area(x, y, w, h)
       PROVE  BeforePen(p)'
  <2>1. p[1] \in x..(x + w - 1) /\ p[2] \in y..(y + h - 1)
    BY DEF Area
  <2>2. pen' = <<x + w, y>>
    BY <1>3, <1>12
  <2>3. p[2] < y + up /\ p[1] < x + w
    BY <1>1, <1>8, <1>10, <1>12, <2>1
  <2>4. p[2] < pen'[2] + lineHeight' /\ p[1] < pen'[1]
    BY <1>5, <2>2, <2>3
  <2> QED BY <2>4 DEF BeforePen
<1>13. lineHeight' \in Nat
  BY <1>1, <1>5, <1>10
<1>14. ~ TooLow(c) /\ ~ Outside(c) => \A p \in Area(x, y, w, h) : BeforePen(p)'
  BY <1>12
<1> QED BY <1>8, <1>9, <1>11, <1>13, <1>14 DEF x, y, w, h

LEMMA GeneratesKeeps ==
    ASSUME GlyphsKnown, NEW c \in Chars, ~ HasGlyph(c), wish # <<>>, Generates(c)
    PROVE  GlyphsKnown'
<1> DEFINE x == PenFor(c)[1]
           y == PenFor(c)[2]
           w == WidthIn[c]
           h == RowsIn[c]
           k == <<x, y, w, h>>
           A == Area(x, y, w, h)
           isDrawn == ~ TooLow(c) /\ ~ Outside(c)
<1>1. w \in Nat /\ h \in Nat /\ TexWidth \in Nat /\ TexHeight \in Nat /\ NoGlyph \notin Chars
  BY SizesFact
<1>2. /\ pen' \in Nat \X Nat /\ lineHeight' \in Nat
      /\ x \in Nat /\ y \in Nat
      /\ \A p \in Texels : BeforePen(p) => BeforePen(p)'
      /\ isDrawn => \A p \in A : BeforePen(p)'
  BY PenFact
<1>3. /\ nextId' = nextId + 1 /\ nextId \in Nat
      /\ DOMAIN glyphs' = DOMAIN glyphs \cup {c} /\ c \notin DOMAIN glyphs
      /\ glyphs'[c] = [id |-> nextId] /\ \A d \in DOMAIN glyphs : glyphs'[d] = glyphs[d]
  BY DEF Generates, With, HasGlyph, GlyphsKnown, GlyphsTyped
<1>4. /\ coords' = IF TooLow(c) THEN coords ELSE Append(coords, k)
      /\ texels' = IF isDrawn THEN [p \in Texels |-> IF p \in A THEN c ELSE texels[p]] ELSE texels
      /\ IF isDrawn THEN UNCHANGED <<quads, wish>> ELSE wish' = <<>> /\ quads' = <<>>
  BY DEF Generates, Throws
<1>5. \A p \in A : p \in Texels /\ texels[p] = NoGlyph
  BY NextPlaceIsFree DEF Area
<1>6. k \in Corner /\ Len(k) = 4 /\ k[1] = x /\ k[2] = y /\ k[3] = w /\ k[4] = h
  BY <1>1, <1>2 DEF Corner
<1>7. isDrawn => h = 0 \/ w = 0 \/ (x + w <= TexWidth /\ y + h <= TexHeight)
  BY <1>1, <1>2 DEF Outside, IsEmpty
<1>8. h = 0 \/ w = 0 => A = {}
  <2>1. ASSUME NEW p \in A
        PROVE  ~ (h = 0 \/ w = 0)
    <3>1. p[1] \in x..(x + w - 1) /\ p[2] \in y..(y + h - 1)
      BY DEF Area
    <3> HIDE DEF x, y, w, h, A
    <3> QED BY <1>1, <1>2, <3>1
  <2> QED BY <2>1
<1> HIDE DEF x, y, w, h, k, A
<1>9. GlyphsTyped'
  <2>1. coords' \in Seq(Corner)
    BY <1>4, <1>6 DEF GlyphsKnown, GlyphsTyped
  <2>2. texels' \in [Texels -> Chars \cup {NoGlyph}]
    BY <1>4 DEF GlyphsKnown, GlyphsTyped
  <2>3. wish' \in Seq(Chars)
    <3>1. <<>> \in Seq(Chars) /\ wish \in Seq(Chars)
      BY EmptySeq DEF GlyphsKnown, GlyphsTyped
    <3>2. wish' \in {wish, <<>>}
      BY <1>4
    <3> QED BY <3>1, <3>2
  <2>4. /\ DOMAIN glyphs' \subseteq Chars /\ nextId' \in Nat
        /\ \A d \in DOMAIN glyphs' : glyphs'[d] = NoGlyph \/ glyphs'[d] \in [id : Nat]
    BY <1>3 DEF GlyphsKnown, GlyphsTyped
  <2> QED BY <1>2, <2>1, <2>2, <2>3, <2>4 DEF GlyphsTyped
<1>10. \A p \in Texels : texels'[p] = IF isDrawn /\ p \in A THEN c ELSE texels[p]
  BY <1>4
<1>11. Place(c)' = (IF isDrawn THEN A ELSE {}) /\ \A d \in DOMAIN glyphs : Place(d)' = Place(d)
  <2>1. Place(c) = {}
    BY NotDrawnYet
  <2>2. \A d \in DOMAIN glyphs : d # c /\ d # NoGlyph
    BY <1>1, <1>3 DEF GlyphsKnown, GlyphsTyped
  <2>3. \A d : Place(d) = {p \in Texels : texels[p] = d} /\ Place(d)' = {p \in Texels : texels'[p] = d}
    BY DEF Place
  <2> QED BY <1>5, <1>10, <2>1, <2>2, <2>3
<1>12. GlyphsDrawn'
  <2>1. ASSUME NEW p \in Texels, texels'[p] # NoGlyph
        PROVE  texels'[p] \in DOMAIN glyphs' /\ BeforePen(p)'
    <3>1. CASE isDrawn /\ p \in A
      BY <1>2, <1>3, <1>10, <3>1
    <3>2. CASE ~ (isDrawn /\ p \in A)
      BY <1>2, <1>3, <1>10, <2>1, <3>2 DEF GlyphsKnown, GlyphsDrawn
    <3> QED BY <3>1, <3>2
  <2>2. \/ Place(c)' = {}
        \/ \E a, b \in Nat : InTexture(a, b, c) /\ Place(c)' = Area(a, b, WidthIn[c], RowsIn[c])
    <3>1. CASE isDrawn /\ ~ (h = 0 \/ w = 0)
      <4>1. InTexture(x, y, c)
        BY <1>2, <1>7, <3>1 DEF InTexture, w, h
      <4>2. Place(c)' = Area(x, y, WidthIn[c], RowsIn[c])
        BY <1>11, <3>1 DEF A, w, h
      <4> QED BY <1>2, <4>1, <4>2
    <3>2. CASE ~ isDrawn \/ h = 0 \/ w = 0
      BY <1>8, <1>11, <3>2
    <3> QED BY <3>1, <3>2
  <2>3. ASSUME NEW d \in DOMAIN glyphs
        PROVE  \/ Place(d)' = {}
               \/ \E a, b \in Nat : InTexture(a, b, d) /\ Place(d)' = Area(a, b, WidthIn[d], RowsIn[d])
    BY <1>11 DEF GlyphsKnown, GlyphsDrawn
  <2>4. \A d \in DOMAIN glyphs' :
          \/ Place(d)' = {}
          \/ \E a, b \in Nat : InTexture(a, b, d) /\ Place(d)' = Area(a, b, WidthIn[d], RowsIn[d])
    BY <1>3, <2>2, <2>3
  <2>5. \A p \in Texels : texels'[p] # NoGlyph => texels'[p] \in DOMAIN glyphs' /\ BeforePen(p)'
    BY <2>1
  <2> QED BY <2>4, <2>5 DEF GlyphsDrawn, InTexture, Area, Texels
<1>13. \A l : \A d \in DOMAIN glyphs : Shown(texels, l, d) => Shown(texels', l, d)
  <2> SUFFICES ASSUME NEW d \in DOMAIN glyphs, NEW l, Shown(texels, l, d), Inside(l)
               PROVE  \A p \in Area(l[1], l[2], l[3], l[4]) : texels'[p] = d
    BY DEF Shown
  <2>1. d # NoGlyph
    BY <1>1 DEF GlyphsKnown, GlyphsTyped
  <2>2. \A p \in Area(l[1], l[2], l[3], l[4]) : p \in Texels /\ texels[p] = d
    BY DEF Shown, Area
  <2> QED BY <1>5, <1>10, <2>1, <2>2
<1>14. CASE TooLow(c)
  <2>1. ~ InStep' /\ Len(coords') <= nextId'
    BY <1>3, <1>4, <1>14, SkippedFact
  <2>2. wish' = <<>> /\ quads' = <<>>
    BY <1>4, <1>14
  <2> QED BY <1>9, <1>12, <2>1, <2>2 DEF GlyphsKnown, GlyphsNumbered, QuadsKnown
<1>15. CASE ~ TooLow(c)
  <2>1. /\ Len(coords) \in Nat /\ Len(coords') = Len(coords) + 1
        /\ DOMAIN coords = 1..Len(coords) /\ DOMAIN coords' = 1..(Len(coords) + 1)
        /\ coords'[Len(coords) + 1] = k /\ \A i \in 1..Len(coords) : coords'[i] = coords[i]
    BY <1>4, <1>6, <1>15 DEF GlyphsKnown, GlyphsTyped
  <2>2. Len(coords) <= nextId
    BY DEF GlyphsKnown, GlyphsNumbered
  <2>3. Len(coords') <= nextId' /\ (InStep' => InStep)
    <3> DEFINE a == Len(coords)
               b == Len(coords')
    <3>1. a \in Nat /\ b = a + 1 /\ a <= nextId
      BY <2>1, <2>2
    <3>2. (InStep <=> a = nextId) /\ (InStep' <=> b = nextId')
      BY DEF InStep
    <3> HIDE DEF a, b
    <3>3. b <= nextId' /\ (InStep' => InStep)
      BY <1>3, <3>1, <3>2
    <3> QED BY <3>3 DEF b
  <2>4. Shown(texels', k, c)
    <3> SUFFICES ASSUME Inside(k) PROVE \A p \in A : texels'[p] = c
      BY <1>6 DEF Shown, A, w, h
    <3>1. x + w <= TexWidth /\ y + h <= TexHeight
      BY <1>6 DEF Inside
    <3>2. isDrawn \/ h = 0 \/ w = 0
      BY <1>1, <1>2, <1>15, <3>1 DEF Outside, IsEmpty, x, y, w, h
    <3> QED BY <1>5, <1>8, <1>10, <3>2
  <2>5. ASSUME InStep', NEW d \in DOMAIN glyphs', glyphs'[d] # NoGlyph
        PROVE  glyphs'[d].id + 1 \in DOMAIN coords' /\ Shown(texels', coords'[glyphs'[d].id + 1], d)
    <3>1. InStep /\ nextId = Len(coords)
      BY <2>3, <2>5 DEF InStep
    <3>2. CASE d = c
      BY <1>3, <2>1, <2>4, <3>1, <3>2
    <3>3. CASE d # c
      <4>1. d \in DOMAIN glyphs /\ glyphs'[d] = glyphs[d] /\ glyphs[d] # NoGlyph
        BY <1>3, <2>5, <3>3
      <4>2. glyphs[d].id + 1 \in DOMAIN coords /\ Shown(texels, coords[glyphs[d].id + 1], d)
        BY <3>1, <4>1 DEF GlyphsKnown, GlyphsNumbered
      <4>3. glyphs[d].id + 1 \in DOMAIN coords' /\ coords'[glyphs[d].id + 1] = coords[glyphs[d].id + 1]
        BY <2>1, <4>2
      <4>4. Shown(texels', coords[glyphs[d].id + 1], d)
        BY <1>13, <4>1, <4>2
      <4> QED BY <4>1, <4>3, <4>4
    <3> QED BY <3>2, <3>3
  <2>6. GlyphsNumbered'
    BY <2>3, <2>5 DEF GlyphsNumbered
  <2>7. QuadsKnown'
    <3>1. quads' = <<>>
      BY <1>4 DEF GlyphsKnown, QuadsKnown
    <3> QED BY <3>1 DEF QuadsKnown
  <2> QED BY <1>9, <1>12, <2>6, <2>7 DEF GlyphsKnown
<1> QED BY <1>14, <1>15

LEMMA BeginTextKeeps ==
    ASSUME GlyphsKnown, NEW n \in Nat, NEW text \in [1..n -> Chars], BeginText(text)
    PROVE  GlyphsKnown'
<1>1. text \in Seq(Chars)
  OBVIOUS
<1>2. wish' = text /\ quads' = <<>>
      /\ UNCHANGED <<glyphs, nextId, pen, lineHeight, coords, texels>>
  BY DEF BeginText
<1>3. GlyphsTyped' /\ GlyphsDrawn' /\ GlyphsNumbered'
  BY <1>1, <1>2 DEF GlyphsKnown, GlyphsTyped, GlyphsDrawn, GlyphsNumbered, Place, BeforePen, InStep
<1> QED BY <1>2, <1>3 DEF GlyphsKnown, QuadsKnown

LEMMA EndTextKeeps ==
    ASSUME GlyphsKnown, EndText
    PROVE  GlyphsKnown'
<1>1. /\ wish' = <<>>
      /\ quads' = [i \in DOMAIN wish |-> <<wish[i], Corners(glyphs[wish[i]].id)>>]
      /\ UNCHANGED <<glyphs, nextId, pen, lineHeight, coords, texels>>
  BY DEF EndText
<1>2. GlyphsTyped' /\ GlyphsDrawn' /\ GlyphsNumbered'
  BY <1>1, EmptySeq DEF GlyphsKnown, GlyphsTyped, GlyphsDrawn, GlyphsNumbered, Place, BeforePen, InStep
<1>3. ASSUME InStep, NEW i \in DOMAIN wish
      PROVE  Shown(texels, Corners(glyphs[wish[i]].id), wish[i])
  <2> DEFINE g == glyphs[wish[i]].id
  <2>1. wish[i] \in DOMAIN glyphs /\ glyphs[wish[i]] # NoGlyph
    BY DEF EndText, Missing, HasGlyph
  <2>2. g \in Nat /\ g + 1 \in DOMAIN coords /\ Shown(texels, coords[g + 1], wish[i])
    BY <1>3, <2>1 DEF GlyphsKnown, GlyphsTyped, GlyphsNumbered
  <2>3. Len(coords) \in Nat /\ DOMAIN coords = 1..Len(coords)
    BY DEF GlyphsKnown, GlyphsTyped
  <2> HIDE DEF g
  <2>4. Corners(g) = coords[g + 1]
    BY <2>2, <2>3 DEF Corners
  <2> QED BY <2>2, <2>4 DEF g
<1>4. InStep' <=> InStep
  BY <1>1 DEF InStep
<1>5. ASSUME InStep', NEW i \in DOMAIN quads'
      PROVE  Shown(texels', quads'[i][2], quads'[i][1])
  <2>1. i \in DOMAIN wish /\ quads'[i][1] = wish[i] /\ quads'[i][2] = Corners(glyphs[wish[i]].id)
    BY <1>1, <1>5
  <2> QED BY <1>1, <1>3, <1>4, <1>5, <2>1
<1> QED BY <1>1, <1>2, <1>5 DEF GlyphsKnown, QuadsKnown

LEMMA GlyphsKnownStep ==
    ASSUME GlyphsKnown, [GlyphsNext]_glyphVars
    PROVE  GlyphsKnown'
<1>1. ASSUME NEW n \in 1..MaxText, NEW text \in [1..n -> Chars], BeginText(text)
      PROVE  GlyphsKnown'
  <2>1. n \in Nat
    OBVIOUS
  <2> QED BY <1>1, <2>1, BeginTextKeeps
<1>2. CASE NextGlyph
  <2>1. PICK i \in Missing : Generates(wish[i]) \/ GlyphFails(wish[i])
    BY <1>2 DEF NextGlyph
  <2>2. wish[i] \in Chars /\ ~ HasGlyph(wish[i]) /\ wish # <<>>
    BY DEF Missing, GlyphsKnown, GlyphsTyped
  <2> QED BY <2>1, <2>2, GeneratesKeeps, FailsKeeps
<1>3. CASE EndText
  BY <1>3, EndTextKeeps
<1>4. CASE UNCHANGED glyphVars
  BY <1>4 DEF glyphVars, GlyphsKnown, GlyphsTyped, GlyphsDrawn, GlyphsNumbered, QuadsKnown,
              Place, BeforePen, InStep
<1> QED BY <1>1, <1>2, <1>3, <1>4 DEF GlyphsNext

LEMMA GlyphsKnownInit ==
    ASSUME GlyphsInit
    PROVE  GlyphsKnown
<1>1. GlyphsTyped
  <2>1. <<>> \in Seq(Corner) /\ <<>> \in Seq(Chars)
    BY EmptySeq
  <2> QED BY <2>1, SizesFact DEF GlyphsInit, GlyphsTyped
<1>2. GlyphsDrawn
  BY DEF GlyphsInit, GlyphsDrawn
<1>3. GlyphsNumbered
  BY DEF GlyphsInit, GlyphsNumbered
<1> QED BY <1>1, <1>2, <1>3 DEF GlyphsKnown, GlyphsInit, QuadsKnown

LEMMA TextsAreReadable ==
    ASSUME GlyphsKnown
    PROVE  TextsShowTheirGlyphs
<1>1. GlyphsTypeOK
  BY DEF GlyphsKnown, GlyphsTyped, GlyphsTypeOK
<1>2. ASSUME NEW c \in DOMAIN glyphs
      PROVE  Cardinality(Place(c)) \in {0, WidthIn[c] * RowsIn[c]}
  <2>1. c \in Chars
    BY DEF GlyphsKnown, GlyphsTyped
  <2>2. CASE Place(c) = {}
    BY <2>2, FS_EmptySet
  <2>3. CASE \E x, y \in Nat : InTexture(x, y, c) /\ Place(c) = Area(x, y, WidthIn[c], RowsIn[c])
    BY <2>1, <2>3, AreaFact
  <2> QED BY <2>2, <2>3 DEF GlyphsKnown, GlyphsDrawn
<1>3. GlyphsAreWhole
  BY <1>2 DEF GlyphsAreWhole, Place
<1> QED BY <1>1, <1>3 DEF GlyphsKnown, QuadsKnown, TextsShowTheirGlyphs, Shown, Has

\* A glyph that was drawn keeps every one of its pixels, and, as long as no glyph was
\* refused, the quads of a text show the glyphs of its characters
\* (GlyphMap::_gen_glyph, Font::generate_text), for every size of glyph and texture.
THEOREM TextsStayReadable == GlyphsSpec => []TextsShowTheirGlyphs
<1>1. GlyphsInit => GlyphsKnown
  BY GlyphsKnownInit
<1>2. GlyphsKnown /\ [GlyphsNext]_glyphVars => GlyphsKnown'
  BY GlyphsKnownStep
<1>3. GlyphsKnown => TextsShowTheirGlyphs
  BY TextsAreReadable
<1> QED BY <1>1, <1>2, <1>3, PTL DEF GlyphsSpec
-----------------------------------------------------------------------------
(* The buffers of vertices *)

ReadRegions == [buffer : Buffers, at : Nat]
Contexts == [arrays : [Kinds -> ReadRegions \cup {NoBuffer}], active : TexCoords]
MadeAttributes == [nb : Nat, size : Nat]

\* The kinds of arrays that ArraysAreBound is about.
Tracked == IF gl21 THEN Kinds \ (TexCoords \cup {"index"}) ELSE Kinds

RegionOf(made, i) == Offset(made, i)..(Offset(made, i) + made[i].size - 1)

\* Each of the first n attributes is in its region.
Holds(bytes, list, made, n) == \A i \in 1..n : \A x \in RegionOf(made, i) : bytes[x] = list[i]

\* The buffer v is what it was made of.
IsMade(v) ==
    /\ DOMAIN v = {"list", "made", "bytes", "spoiled"}
    /\ v.list \in Lists /\ v.made \in Seq(MadeAttributes) /\ Len(v.made) = Len(v.list)
    /\ DOMAIN v.bytes = 0..(Offset(v.made, Len(v.made) + 1) - 1)
    /\ ~ v.spoiled => Holds(v.bytes, v.list, v.made, Len(v.list))

BuffersTyped ==
    /\ gl21 \in BOOLEAN
    /\ attr \in [Attributes -> 1..MaxElements]
    /\ Context \in Contexts
    /\ holds \in Seq(Buffers)
    /\ DOMAIN vbo = Buffers

BuffersMade == \A b \in Buffers : Exists(b) => IsMade(vbo[b])

AllKinds == [b \in Buffers |-> KindsOf(b)]

ApartIn(held, kinds) ==
    \A b, c \in held : b # c => ToSet(kinds[b]) \cap ToSet(kinds[c]) = {}

HoldsApart == (\A b \in ToSet(holds) : Exists(b)) /\ ApartIn(ToSet(holds), AllKinds)

\* What the arrays are while the buffers of held are bound.
ArraysOf(a, held, kinds, tracked) ==
    \A k \in tracked :
        \/ a[k] = NoBuffer /\ \A b \in held : k \notin ToSet(kinds[b])
        \/ /\ a[k] # NoBuffer /\ a[k].buffer \in held
           /\ a[k].at \in DOMAIN kinds[a[k].buffer] /\ kinds[a[k].buffer][a[k].at] = k

BuffersKnown ==
    BuffersTyped /\ BuffersMade /\ HoldsApart /\ ArraysOf(arrays, ToSet(holds), AllKinds, Tracked)

\* The first n offsets, as the recursive function has them.
AddsUpTo(f, made, n) ==
    f = [i \in 1..n |-> IF i = 1 THEN 0 ELSE f[i - 1] + made[i - 1].size]

\* The recursive functions of the model exist: by the least counterexample.
LEMMA AddsExist ==
    ASSUME NEW made, NEW n \in Nat
    PROVE  \E f : AddsUpTo(f, made, n)
<1> DEFINE T == {k \in Nat : ~ \E f : AddsUpTo(f, made, k)}
<1>1. SUFFICES ASSUME T # {} PROVE FALSE
  OBVIOUS
<1>2. PICK k \in T : \A l \in T : k <= l
  BY <1>1, LeastFact
<1>3. k # 0
  <2>1. AddsUpTo([i \in {} |-> 0], made, 0)
    BY DEF AddsUpTo
  <2> QED BY <2>1, <1>2
<1>4. PICK f : AddsUpTo(f, made, k - 1)
  BY <1>2, <1>3
<1> DEFINE g == [i \in 1..k |-> IF i = 1 THEN 0 ELSE f[i - 1] + made[i - 1].size]
<1>5. \A i \in 1..(k - 1) : g[i] = f[i]
  <2>1. k \in Nat /\ k # 0
    BY <1>2, <1>3
  <2>2. TAKE i \in 1..(k - 1)
  <2>3. i \in 1..k
    BY <2>1
  <2>4. f[i] = IF i = 1 THEN 0 ELSE f[i - 1] + made[i - 1].size
    BY <1>4 DEF AddsUpTo
  <2>5. g[i] = IF i = 1 THEN 0 ELSE f[i - 1] + made[i - 1].size
    BY <2>3
  <2> QED BY <2>4, <2>5
<1>6. \A i \in 1..k : i # 1 => g[i - 1] = f[i - 1]
  <2>1. k \in Nat
    BY <1>2
  <2> HIDE DEF g
  <2> QED BY <1>5, <2>1
<1>7. AddsUpTo(g, made, k)
  BY <1>6 DEF AddsUpTo
<1> QED BY <1>2, <1>7

LEMMA OffsetsAre ==
    ASSUME NEW made \in Seq(MadeAttributes)
    PROVE  /\ Offset(made, 1) = 0
           /\ \A i \in 1..Len(made) : Offset(made, i + 1) = Offset(made, i) + made[i].size
<1> DEFINE n == Len(made) + 1
           f == Offsets(made)
<1>1. n \in Nat /\ Len(made) \in Nat
  OBVIOUS
<1>2. Offsets(made) = CHOOSE g : AddsUpTo(g, made, n)
  BY DEF Offsets, AddsUpTo
<1>3. AddsUpTo(Offsets(made), made, n)
  BY <1>1, <1>2, AddsExist
<1>4. f = [i \in 1..n |-> IF i = 1 THEN 0 ELSE f[i - 1] + made[i - 1].size]
  BY <1>3 DEF AddsUpTo
<1> HIDE DEF f
<1>5. \A i \in 1..n : f[i] = IF i = 1 THEN 0 ELSE f[i - 1] + made[i - 1].size
  BY <1>4
<1>6. 1 \in 1..n /\ \A i \in 1..Len(made) : i + 1 \in 1..n /\ i + 1 # 1 /\ i + 1 - 1 = i
  BY <1>1
<1>7. f[1] = 0 /\ \A i \in 1..Len(made) : f[i + 1] = f[i] + made[i].size
  <2>1. \A i \in 1..Len(made) : f[i + 1] = f[i + 1 - 1] + made[i + 1 - 1].size
    BY <1>5, <1>6
  <2> QED BY <1>5, <1>6, <2>1
<1> QED BY <1>7 DEF f, Offset

LEMMA SizesAreNat ==
    ASSUME NEW made \in Seq(MadeAttributes), NEW i \in 1..Len(made)
    PROVE  made[i].size \in Nat /\ made[i].nb \in Nat
<1>1. made[i] \in MadeAttributes
  OBVIOUS
<1> QED BY <1>1 DEF MadeAttributes

LEMMA OffsetType ==
    ASSUME NEW made \in Seq(MadeAttributes)
    PROVE  \A i \in 1..(Len(made) + 1) : Offset(made, i) \in Nat
<1> DEFINE n == Len(made)
           T == {i \in Nat \ {0} : i <= n + 1 /\ Offset(made, i) \notin Nat}
<1>1. n \in Nat /\ \A i \in 1..n : made[i].size \in Nat
  BY SizesAreNat
<1>2. Offset(made, 1) = 0
  BY OffsetsAre
<1> HIDE DEF n
<1>3. SUFFICES ASSUME T # {} PROVE FALSE
  BY <1>1 DEF n
<1>4. PICK k \in T : \A l \in T : k <= l
  BY <1>3, LeastFact
<1>5. k - 1 \in 1..n /\ k = k - 1 + 1 /\ k - 1 \in Nat \ {0} /\ k - 1 <= n + 1 /\ ~ (k <= k - 1)
  BY <1>1, <1>2, <1>4
<1>6. Offset(made, k - 1) \in Nat
  <2>1. k - 1 \notin T
    BY <1>4, <1>5
  <2> QED BY <1>5, <2>1
<1>7. Offset(made, k - 1 + 1) = Offset(made, k - 1) + made[k - 1].size
  BY <1>5, OffsetsAre DEF n
<1> QED BY <1>1, <1>4, <1>5, <1>6, <1>7

\* The regions of a buffer come one after the other.
LEMMA OffsetsGrow ==
    ASSUME NEW made \in Seq(MadeAttributes), NEW i \in 1..Len(made)
    PROVE  \A j \in (i + 1)..(Len(made) + 1) : Offset(made, i) + made[i].size <= Offset(made, j)
<1> DEFINE n == Len(made)
           e == Offset(made, i) + made[i].size
           T == {j \in Nat : j > i /\ j <= n + 1 /\ ~ (e <= Offset(made, j))}
<1>1. n \in Nat /\ i \in Nat /\ i >= 1 /\ i <= n /\ \A j \in 1..n : made[j].size \in Nat
  BY SizesAreNat
<1>2. \A j \in Nat : j >= 1 /\ j <= n + 1 => Offset(made, j) \in Nat
  BY <1>1, OffsetType
<1>3. e \in Nat /\ Offset(made, i + 1) = e
  <2>1. Offset(made, i) \in Nat /\ made[i].size \in Nat
    BY <1>1, <1>2
  <2> QED BY <2>1, OffsetsAre
<1> HIDE DEF n, e
<1>4. SUFFICES ASSUME T # {} PROVE FALSE
  BY <1>1 DEF n, e
<1>5. PICK k \in T : \A l \in T : k <= l
  BY <1>4, LeastFact
<1>6. k \in Nat /\ k > i + 1 /\ k <= n + 1 /\ ~ (e <= Offset(made, k)) /\ Offset(made, k) \in Nat
  BY <1>1, <1>2, <1>3, <1>5
<1>7. k - 1 \in 1..n /\ k - 1 + 1 = k /\ k - 1 > i /\ k - 1 \in Nat
  BY <1>1, <1>6
<1>8. e <= Offset(made, k - 1) /\ Offset(made, k - 1) \in Nat
  BY <1>1, <1>2, <1>5, <1>7
<1>9. Offset(made, k - 1 + 1) = Offset(made, k - 1) + made[k - 1].size
  BY <1>7, OffsetsAre DEF n
<1> QED BY <1>1, <1>3, <1>6, <1>7, <1>8, <1>9

LEMMA RegionsAreInside ==
    ASSUME NEW made \in Seq(MadeAttributes), NEW i \in 1..Len(made), NEW x \in RegionOf(made, i)
    PROVE  /\ x \in 0..(Offset(made, Len(made) + 1) - 1)
           /\ \A j \in 1..Len(made) : j # i => x \notin RegionOf(made, j)
<1> DEFINE n == Len(made)
           o == Offset(made, i)
           w == made[i].size
           e == Offset(made, n + 1)
<1>1. n \in Nat /\ i \in Nat /\ i >= 1 /\ i <= n
  OBVIOUS
<1>2. \A j \in 1..(n + 1) : Offset(made, j) \in Nat
  BY OffsetType
<1>3. o \in Nat /\ w \in Nat /\ e \in Nat
  <2>1. i \in 1..(n + 1) /\ n + 1 \in 1..(n + 1)
    BY <1>1
  <2> QED BY <1>2, <2>1, SizesAreNat
<1>4. \A j \in (i + 1)..(n + 1) : o + w <= Offset(made, j)
  BY OffsetsGrow
<1>5. x \in o..(o + w - 1)
  BY DEF RegionOf
<1>6. o + w <= e
  <2>1. n + 1 \in (i + 1)..(n + 1)
    BY <1>1
  <2> QED BY <1>4, <2>1
<1>7. ASSUME NEW j \in 1..n, j # i
      PROVE  x \notin RegionOf(made, j)
  <2> DEFINE oj == Offset(made, j)
             wj == made[j].size
  <2>1. oj \in Nat /\ wj \in Nat
    <3>1. j \in 1..(n + 1)
      BY <1>1
    <3> QED BY <1>2, <3>1, SizesAreNat
  <2>2. RegionOf(made, j) = oj..(oj + wj - 1)
    BY DEF RegionOf
  <2>3. CASE j > i
    <3>1. j \in (i + 1)..(n + 1)
      BY <1>1, <2>3
    <3>2. o + w <= oj
      BY <1>4, <3>1
    <3> HIDE DEF o, w, oj, wj
    <3> QED BY <1>3, <1>5, <2>1, <2>2, <3>2
  <2>4. CASE j < i
    <3>1. i \in (j + 1)..(n + 1)
      BY <1>1, <2>4
    <3>2. oj + wj <= o
      BY <3>1, OffsetsGrow
    <3> HIDE DEF o, w, oj, wj
    <3> QED BY <1>3, <1>5, <2>1, <2>2, <3>2
  <2> QED BY <1>1, <1>7, <2>3, <2>4
<1> HIDE DEF o, w, e
<1>8. x \in 0..(e - 1)
  BY <1>3, <1>5, <1>6
<1> QED BY <1>7, <1>8 DEF e

\* Filling the region of one attribute with it leaves the others what they hold.
LEMMA FilledFact ==
    ASSUME NEW made \in Seq(MadeAttributes), NEW list, NEW bytes, NEW n \in 0..Len(made),
           NEW i \in 1..Len(made),
           DOMAIN bytes = 0..(Offset(made, Len(made) + 1) - 1), Holds(bytes, list, made, n),
           Size(list[i]) \in Nat, Size(list[i]) <= made[i].size
    PROVE  /\ DOMAIN Filled(bytes, list[i], Offset(made, i)) = DOMAIN bytes
           /\ Holds(Filled(bytes, list[i], Offset(made, i)), list, made, n)
<1> DEFINE g == Filled(bytes, list[i], Offset(made, i))
           o == Offset(made, i)
           w == made[i].size
           v == Size(list[i])
<1>1. o \in Nat /\ w \in Nat
  BY OffsetType, SizesAreNat
<1>2. /\ DOMAIN g = DOMAIN bytes
      /\ \A x \in DOMAIN bytes : g[x] = IF x \in o..(o + v - 1) THEN list[i] ELSE bytes[x]
  BY DEF Filled
<1>3. RegionOf(made, i) = o..(o + w - 1)
  BY DEF RegionOf
<1> HIDE DEF g, o, w, v
<1>4. \A x \in o..(o + v - 1) : x \in RegionOf(made, i)
  BY <1>1, <1>3 DEF v, w
<1>6. \A j \in 1..Len(made) : \A x \in RegionOf(made, j) : x \in DOMAIN bytes
  BY RegionsAreInside
<1>7. ASSUME NEW j \in 1..n, NEW x \in RegionOf(made, j)
      PROVE  g[x] = list[j]
  <2>1. j \in 1..Len(made)
    OBVIOUS
  <2>2. bytes[x] = list[j] /\ x \in DOMAIN bytes
    BY <1>6, <1>7, <2>1 DEF Holds
  <2>3. CASE j = i
    BY <1>2, <2>2, <2>3
  <2>4. CASE j # i
    <3>1. x \notin RegionOf(made, i)
      BY <2>1, <2>4, RegionsAreInside
    <3> QED BY <1>2, <1>4, <2>2, <3>1
  <2> QED BY <2>3, <2>4
<1>8. Holds(g, list, made, n)
  BY <1>7 DEF Holds
<1> QED BY <1>2, <1>8 DEF g

LEMMA MadeOfFact ==
    ASSUME attr \in [Attributes -> 1..MaxElements], NEW list \in Seq(Attributes)
    PROVE  /\ MadeOf(list) \in Seq(MadeAttributes) /\ Len(MadeOf(list)) = Len(list)
           /\ \A i \in 1..Len(list) : MadeOf(list)[i].size = Size(list[i]) /\ Size(list[i]) \in Nat
<1>1. \A a \in Attributes : attr[a] \in Nat /\ Size(a) \in Nat
  BY AttributesAssumption DEF Size
<1>2. \A i \in 1..Len(list) : list[i] \in Attributes
  OBVIOUS
<1>3. Len(list) \in Nat /\ DOMAIN list = 1..Len(list)
  OBVIOUS
<1>4. MadeOf(list) = [i \in 1..Len(list) |-> [nb |-> attr[list[i]], size |-> Size(list[i])]]
  BY <1>3 DEF MadeOf
<1>5. \A i \in 1..Len(list) : [nb |-> attr[list[i]], size |-> Size(list[i])] \in MadeAttributes
  BY <1>1, <1>2 DEF MadeAttributes
<1>6. MadeOf(list) \in [1..Len(list) -> MadeAttributes]
  BY <1>4, <1>5
<1> QED BY <1>1, <1>2, <1>3, <1>4, <1>6

NoBytes(list, made) == [n \in 0..(Offset(made, Len(list) + 1) - 1) |-> NoBuffer]

FillsUpTo(f, list, made, n) ==
    f = [i \in 0..n |-> IF i = 0 THEN NoBytes(list, made) ELSE Filled(f[i - 1], list[i], Offset(made, i))]

LEMMA FillsExist ==
    ASSUME NEW list, NEW made, NEW n \in Nat
    PROVE  \E f : FillsUpTo(f, list, made, n)
<1> DEFINE T == {k \in Nat : ~ \E f : FillsUpTo(f, list, made, k)}
<1>1. SUFFICES ASSUME T # {} PROVE FALSE
  OBVIOUS
<1>2. PICK k \in T : \A l \in T : k <= l
  BY <1>1, LeastFact
<1>3. k # 0
  <2>1. FillsUpTo([i \in 0..0 |-> NoBytes(list, made)], list, made, 0)
    BY DEF FillsUpTo
  <2> QED BY <2>1, <1>2
<1>4. PICK f : FillsUpTo(f, list, made, k - 1)
  BY <1>2, <1>3
<1> DEFINE g == [i \in 0..k |-> IF i = 0 THEN NoBytes(list, made)
                                ELSE Filled(f[i - 1], list[i], Offset(made, i))]
<1>5. \A i \in 0..(k - 1) : g[i] = f[i]
  <2>1. k \in Nat /\ k # 0
    BY <1>2, <1>3
  <2>2. TAKE i \in 0..(k - 1)
  <2>3. i \in 0..k
    BY <2>1
  <2>4. f[i] = IF i = 0 THEN NoBytes(list, made) ELSE Filled(f[i - 1], list[i], Offset(made, i))
    BY <1>4 DEF FillsUpTo
  <2>5. g[i] = IF i = 0 THEN NoBytes(list, made) ELSE Filled(f[i - 1], list[i], Offset(made, i))
    BY <2>3
  <2> QED BY <2>4, <2>5
<1>6. \A i \in 0..k : i # 0 => g[i - 1] = f[i - 1]
  <2>1. k \in Nat
    BY <1>2
  <2> HIDE DEF g
  <2> QED BY <1>5, <2>1
<1>7. FillsUpTo(g, list, made, k)
  BY <1>6 DEF FillsUpTo
<1> QED BY <1>2, <1>7

\* What _VertexBuffer's constructor leaves in the buffer.
LEMMA NewBytesFact ==
    ASSUME NEW list \in Seq(Attributes), NEW made \in Seq(MadeAttributes), Len(made) = Len(list),
           \A i \in 1..Len(list) : made[i].size = Size(list[i]) /\ Size(list[i]) \in Nat
    PROVE  LET bytes == FilledUpTo(list, made)[Len(list)] IN
           /\ DOMAIN bytes = 0..(Offset(made, Len(made) + 1) - 1)
           /\ Holds(bytes, list, made, Len(list))
<1> DEFINE n == Len(list)
           f == FilledUpTo(list, made)
           R == 0..(Offset(made, Len(made) + 1) - 1)
           good(i) == DOMAIN f[i] = R /\ Holds(f[i], list, made, i)
           T == {i \in Nat : i <= n /\ ~ good(i)}
<1>1. n \in Nat
  OBVIOUS
<1>2. f = CHOOSE g : FillsUpTo(g, list, made, n)
  BY DEF FilledUpTo, FillsUpTo, NoBytes
<1>3. FillsUpTo(f, list, made, n)
  BY <1>1, <1>2, FillsExist
<1> HIDE DEF f
<1>4. \A i \in 0..n : f[i] = IF i = 0 THEN NoBytes(list, made)
                             ELSE Filled(f[i - 1], list[i], Offset(made, i))
  BY <1>3 DEF FillsUpTo
<1>5. SUFFICES ASSUME T # {} PROVE FALSE
  BY <1>1 DEF f
<1>6. PICK k \in T : \A l \in T : k <= l
  BY <1>5, LeastFact
<1>7. k \in Nat /\ k <= n /\ ~ good(k)
  BY <1>6
<1>8. k # 0
  <2>1. good(0)
    <3>1. f[0] = NoBytes(list, made)
      BY <1>1, <1>4
    <3>2. DOMAIN f[0] = R
      BY <3>1 DEF NoBytes
    <3>3. Holds(f[0], list, made, 0)
      BY DEF Holds
    <3> QED BY <3>2, <3>3
  <2> QED BY <1>7, <2>1
<1>9. k \in 1..n /\ k - 1 \in 0..n /\ k - 1 \in Nat /\ k \in 0..n /\ ~ (k <= k - 1)
  BY <1>1, <1>7, <1>8
<1>10. good(k - 1)
  <2>1. k - 1 \notin T
    BY <1>6, <1>9
  <2> QED BY <1>9, <2>1
<1>11. f[k] = Filled(f[k - 1], list[k], Offset(made, k))
  BY <1>4, <1>8, <1>9
<1> DEFINE e == f[k - 1]
           m == k - 1
<1>12. DOMAIN e = R /\ Holds(e, list, made, m)
  BY <1>10
<1>13. Size(list[k]) \in Nat /\ Size(list[k]) = made[k].size /\ k \in 1..Len(made) /\ m \in 0..Len(made)
  BY <1>9
<1> HIDE DEF e, m
<1>14. Size(list[k]) <= made[k].size
  BY <1>13
<1>15. /\ DOMAIN Filled(e, list[k], Offset(made, k)) = R
       /\ Holds(Filled(e, list[k], Offset(made, k)), list, made, m)
       /\ \A x \in RegionOf(made, k) : Filled(e, list[k], Offset(made, k))[x] = list[k]
  <2>1. DOMAIN Filled(e, list[k], Offset(made, k)) = DOMAIN e
    BY DEF Filled
  <2>2. DOMAIN e = 0..(Offset(made, Len(made) + 1) - 1)
    BY <1>12
  <2> HIDE DEF R
  <2>3. Holds(Filled(e, list[k], Offset(made, k)), list, made, m)
    BY <1>12, <1>13, <1>14, <2>2, FilledFact
  <2>4. \A x \in RegionOf(made, k) : Filled(e, list[k], Offset(made, k))[x] = list[k]
    <3>1. \A x \in RegionOf(made, k) : x \in DOMAIN e
      BY <1>13, <2>2, RegionsAreInside
    <3>2. RegionOf(made, k) = Offset(made, k)..(Offset(made, k) + Size(list[k]) - 1)
      BY <1>13 DEF RegionOf
    <3> QED BY <3>1, <3>2 DEF Filled
  <2> QED BY <1>12, <2>1, <2>3, <2>4
<1>16. \A i \in 1..k : i \in 1..(k - 1) \/ i = k
  BY <1>9
<1>17. Holds(f[k], list, made, k)
  BY <1>11, <1>15, <1>16 DEF Holds, e, m
<1> QED BY <1>7, <1>11, <1>15, <1>17 DEF e

\* The kinds of a buffer.
LEMMA KindsFact ==
    ASSUME NEW b, vbo[b].list \in Seq(Attributes)
    PROVE  /\ DOMAIN KindsOf(b) = 1..Len(vbo[b].list) /\ Len(vbo[b].list) \in Nat
           /\ \A i \in 1..Len(vbo[b].list) : KindsOf(b)[i] \in Kinds
           /\ \A k : k \in ToSet(KindsOf(b)) <=> \E i \in 1..Len(vbo[b].list) : KindsOf(b)[i] = k
<1> DEFINE l == vbo[b].list
<1>1. DOMAIN l = 1..Len(l) /\ Len(l) \in Nat /\ \A i \in 1..Len(l) : l[i] \in Attributes
  OBVIOUS
<1>2. \A a \in Attributes : KindOf[a] \in Kinds
  BY AttributesAssumption
<1>3. KindsOf(b) = [i \in 1..Len(l) |-> KindOf[l[i]]]
  BY <1>1 DEF KindsOf
<1> HIDE DEF l
<1>4. DOMAIN KindsOf(b) = 1..Len(l) /\ \A i \in 1..Len(l) : KindsOf(b)[i] \in Kinds
  BY <1>1, <1>2, <1>3
<1>5. ToSet(KindsOf(b)) = {KindsOf(b)[i] : i \in 1..Len(l)}
  BY <1>4 DEF ToSet
<1> QED BY <1>1, <1>4, <1>5 DEF l

LEMMA TrackedFact ==
    \A k \in Tracked : k \in Kinds /\ (gl21 => k = "vertex")
BY DEF Tracked, Kinds, TexCoords

\* One attribute is enabled.
LEMMA EnabledFact ==
    ASSUME NEW c \in Contexts, NEW b \in Buffers, NEW i \in Nat, KindsOf(b)[i] \in Kinds
    PROVE  /\ Enabled(c, b, i) \in Contexts
           /\ \A k \in Tracked : Enabled(c, b, i).arrays[k] =
                 IF k = KindsOf(b)[i] THEN [buffer |-> b, at |-> i] ELSE c.arrays[k]
<1> DEFINE q == KindsOf(b)[i]
           r == [buffer |-> b, at |-> i]
           on == [c EXCEPT !.arrays[q] = r]
           texOn == [on EXCEPT !.active = q]
<1>1. r \in ReadRegions
  BY DEF ReadRegions
<1>2. c.arrays \in [Kinds -> ReadRegions \cup {NoBuffer}] /\ c.active \in TexCoords
  BY DEF Contexts
<1>3. on \in Contexts /\ on.arrays = [c.arrays EXCEPT ![q] = r]
  BY <1>1, <1>2 DEF Contexts
<1>4. q \in TexCoords => texOn \in Contexts /\ texOn.arrays = on.arrays
  BY <1>3 DEF Contexts
<1>5. \A k \in Kinds : on.arrays[k] = IF k = q THEN r ELSE c.arrays[k]
  BY <1>2, <1>3
<1>6. CASE gl21 /\ q = "index"
  <2>1. Enabled(c, b, i) = c
    BY <1>6 DEF Enabled, TexCoords
  <2> QED BY <1>6, <2>1, TrackedFact
<1>7. CASE gl21 /\ q \in TexCoords
  <2>1. Enabled(c, b, i) = texOn
    BY <1>7 DEF Enabled, TexCoords
  <2> HIDE DEF on, texOn, r
  <2>2. \A k \in Tracked : texOn.arrays[k] = IF k = q THEN r ELSE c.arrays[k]
    BY <1>4, <1>5, <1>7, TrackedFact
  <2> QED BY <1>4, <1>7, <2>1, <2>2 DEF r
<1>8. CASE ~ (gl21 /\ q = "index") /\ ~ (gl21 /\ q \in TexCoords)
  <2>1. Enabled(c, b, i) = on
    BY <1>8 DEF Enabled
  <2> HIDE DEF on, r
  <2>2. \A k \in Tracked : on.arrays[k] = IF k = q THEN r ELSE c.arrays[k]
    BY <1>5, TrackedFact
  <2> QED BY <1>3, <2>1, <2>2 DEF r
<1> QED BY <1>6, <1>7, <1>8

\* One kind is disabled.
LEMMA DisabledFact ==
    ASSUME NEW c \in Contexts, NEW q \in Kinds
    PROVE  /\ Disabled(c, q) \in Contexts
           /\ \A k \in Tracked : Disabled(c, q).arrays[k] = IF k = q THEN NoBuffer ELSE c.arrays[k]
<1>1. c.arrays \in [Kinds -> ReadRegions \cup {NoBuffer}] /\ c.active \in TexCoords
  BY DEF Contexts
<1>2. CASE ~ gl21
  <2>1. Disabled(c, q) = [c EXCEPT !.arrays[q] = NoBuffer]
    BY <1>2 DEF Disabled
  <2>2. /\ [c EXCEPT !.arrays[q] = NoBuffer] \in Contexts
        /\ [c EXCEPT !.arrays[q] = NoBuffer].arrays = [c.arrays EXCEPT ![q] = NoBuffer]
    BY <1>1 DEF Contexts
  <2> QED BY <1>1, <2>1, <2>2, TrackedFact
<1>3. CASE gl21 /\ q = "index"
  <2>1. Disabled(c, q) = c
    BY <1>3 DEF Disabled
  <2> QED BY <1>3, <2>1, TrackedFact
<1>4. CASE gl21 /\ q # "index"
  <2> DEFINE d == IF q = "tex0" THEN [c EXCEPT !.active = "tex0"] ELSE c
             p == IF q \in TexCoords THEN d.active ELSE q
             e == [d EXCEPT !.arrays[p] = NoBuffer]
  <2>1. Disabled(c, q) = e
    BY <1>4 DEF Disabled
  <2>2. d \in Contexts /\ d.arrays = c.arrays /\ d.active \in TexCoords
    BY <1>1 DEF Contexts, TexCoords
  <2>3. p \in Kinds /\ (q \in TexCoords => p \in TexCoords) /\ (q \notin TexCoords => p = q)
    BY <2>2 DEF Kinds
  <2> HIDE DEF d, p
  <2>4. e \in Contexts /\ e.arrays = [c.arrays EXCEPT ![p] = NoBuffer]
    BY <1>1, <2>2, <2>3 DEF Contexts
  <2> HIDE DEF e
  <2>5. "vertex" \notin TexCoords
    BY DEF TexCoords
  <2>6. \A k \in Tracked : e.arrays[k] = IF k = q THEN NoBuffer ELSE c.arrays[k]
    BY <1>1, <1>4, <2>3, <2>4, <2>5, TrackedFact
  <2> QED BY <2>1, <2>4, <2>6
<1> QED BY <1>2, <1>3, <1>4

EnablesUpTo(f, b, n) ==
    f = [i \in 0..n |-> IF i = 0 THEN Context ELSE Enabled(f[i - 1], b, i)]
DisablesUpTo(f, c, b, n) ==
    f = [i \in 0..n |-> IF i = 0 THEN c ELSE Disabled(f[i - 1], KindsOf(b)[i])]

LEMMA EnablesExist ==
    ASSUME NEW b, NEW n \in Nat
    PROVE  \E f : EnablesUpTo(f, b, n)
<1> DEFINE T == {k \in Nat : ~ \E f : EnablesUpTo(f, b, k)}
<1>1. SUFFICES ASSUME T # {} PROVE FALSE
  OBVIOUS
<1>2. PICK k \in T : \A l \in T : k <= l
  BY <1>1, LeastFact
<1>3. k # 0
  <2>1. EnablesUpTo([i \in 0..0 |-> Context], b, 0)
    BY DEF EnablesUpTo
  <2> QED BY <2>1, <1>2
<1>4. PICK f : EnablesUpTo(f, b, k - 1)
  BY <1>2, <1>3
<1> DEFINE g == [i \in 0..k |-> IF i = 0 THEN Context ELSE Enabled(f[i - 1], b, i)]
<1>5. \A i \in 0..(k - 1) : g[i] = f[i]
  <2>1. k \in Nat /\ k # 0
    BY <1>2, <1>3
  <2>2. TAKE i \in 0..(k - 1)
  <2>3. i \in 0..k
    BY <2>1
  <2>4. f[i] = IF i = 0 THEN Context ELSE Enabled(f[i - 1], b, i)
    BY <1>4 DEF EnablesUpTo
  <2>5. g[i] = IF i = 0 THEN Context ELSE Enabled(f[i - 1], b, i)
    BY <2>3
  <2> QED BY <2>4, <2>5
<1>6. \A i \in 0..k : i # 0 => g[i - 1] = f[i - 1]
  <2>1. k \in Nat
    BY <1>2
  <2> HIDE DEF g
  <2> QED BY <1>5, <2>1
<1>7. EnablesUpTo(g, b, k)
  BY <1>6 DEF EnablesUpTo
<1> QED BY <1>2, <1>7

LEMMA DisablesExist ==
    ASSUME NEW c, NEW b, NEW n \in Nat
    PROVE  \E f : DisablesUpTo(f, c, b, n)
<1> DEFINE T == {k \in Nat : ~ \E f : DisablesUpTo(f, c, b, k)}
<1>1. SUFFICES ASSUME T # {} PROVE FALSE
  OBVIOUS
<1>2. PICK k \in T : \A l \in T : k <= l
  BY <1>1, LeastFact
<1>3. k # 0
  <2>1. DisablesUpTo([i \in 0..0 |-> c], c, b, 0)
    BY DEF DisablesUpTo
  <2> QED BY <2>1, <1>2
<1>4. PICK f : DisablesUpTo(f, c, b, k - 1)
  BY <1>2, <1>3
<1> DEFINE g == [i \in 0..k |-> IF i = 0 THEN c ELSE Disabled(f[i - 1], KindsOf(b)[i])]
<1>5. \A i \in 0..(k - 1) : g[i] = f[i]
  <2>1. k \in Nat /\ k # 0
    BY <1>2, <1>3
  <2>2. TAKE i \in 0..(k - 1)
  <2>3. i \in 0..k
    BY <2>1
  <2>4. f[i] = IF i = 0 THEN c ELSE Disabled(f[i - 1], KindsOf(b)[i])
    BY <1>4 DEF DisablesUpTo
  <2>5. g[i] = IF i = 0 THEN c ELSE Disabled(f[i - 1], KindsOf(b)[i])
    BY <2>3
  <2> QED BY <2>4, <2>5
<1>6. \A i \in 0..k : i # 0 => g[i - 1] = f[i - 1]
  <2>1. k \in Nat
    BY <1>2
  <2> HIDE DEF g
  <2> QED BY <1>5, <2>1
<1>7. DisablesUpTo(g, c, b, k)
  BY <1>6 DEF DisablesUpTo
<1> QED BY <1>2, <1>7

\* What the arrays are when the first n attributes of b were enabled, or disabled.
Enables(x, b, n) ==
    \A k \in Tracked :
        \/ \E j \in 1..n : KindsOf(b)[j] = k /\ x.arrays[k] = [buffer |-> b, at |-> j]
        \/ (\A j \in 1..n : KindsOf(b)[j] # k) /\ x.arrays[k] = arrays[k]
Disables(x, c, b, n) ==
    \A k \in Tracked :
        x.arrays[k] = IF \E j \in 1..n : KindsOf(b)[j] = k THEN NoBuffer ELSE c.arrays[k]

LEMMA AllEnabledFact ==
    ASSUME Context \in Contexts, NEW b \in Buffers, vbo[b].list \in Seq(Attributes)
    PROVE  AllEnabled(b) \in Contexts /\ Enables(AllEnabled(b), b, Len(vbo[b].list))
<1> DEFINE n == Len(vbo[b].list)
           f == EnabledUpTo(b)
           good(i) == f[i] \in Contexts /\ Enables(f[i], b, i)
           T == {i \in Nat : i <= n /\ ~ good(i)}
<1>1. n \in Nat /\ \A i \in 1..n : KindsOf(b)[i] \in Kinds
  BY KindsFact
<1>2. f = CHOOSE g : EnablesUpTo(g, b, n)
  BY DEF EnabledUpTo, EnablesUpTo
<1>3. EnablesUpTo(f, b, n)
  BY <1>1, <1>2, EnablesExist
<1>4. AllEnabled(b) = f[n]
  BY DEF AllEnabled
<1> HIDE DEF f, n
<1>5. \A i \in 0..n : f[i] = IF i = 0 THEN Context ELSE Enabled(f[i - 1], b, i)
  BY <1>3 DEF EnablesUpTo
<1>6. SUFFICES ASSUME T # {} PROVE FALSE
  BY <1>1, <1>4 DEF n
<1>7. PICK k \in T : \A l \in T : k <= l
  BY <1>6, LeastFact
<1>8. k \in Nat /\ k <= n /\ ~ good(k)
  BY <1>7
<1>9. k # 0
  <2>1. good(0)
    <3>1. f[0] = Context
      BY <1>1, <1>5
    <3> QED BY <3>1 DEF Enables, Context
  <2> QED BY <1>8, <2>1
<1>10. k \in 1..n /\ k - 1 \in Nat /\ k - 1 <= n /\ k \in 0..n /\ ~ (k <= k - 1)
  BY <1>1, <1>8, <1>9
<1>11. good(k - 1)
  <2>1. k - 1 \notin T
    BY <1>7, <1>10
  <2> QED BY <1>10, <2>1
<1> DEFINE e == f[k - 1]
           m == k - 1
<1>12. f[k] = Enabled(e, b, k)
  BY <1>5, <1>9, <1>10
<1>13. e \in Contexts /\ Enables(e, b, m)
  BY <1>11
<1>14. \A j : j \in 1..k <=> j \in 1..m \/ j = k
  BY <1>10
<1> HIDE DEF e, m
<1>15. /\ f[k] \in Contexts
       /\ \A q \in Tracked : f[k].arrays[q] = IF q = KindsOf(b)[k] THEN [buffer |-> b, at |-> k] ELSE e.arrays[q]
  BY <1>1, <1>10, <1>12, <1>13, EnabledFact
<1>16. Enables(f[k], b, k)
  <2> SUFFICES ASSUME NEW q \in Tracked
               PROVE  \/ \E j \in 1..k : KindsOf(b)[j] = q /\ f[k].arrays[q] = [buffer |-> b, at |-> j]
                      \/ (\A j \in 1..k : KindsOf(b)[j] # q) /\ f[k].arrays[q] = arrays[q]
    BY DEF Enables
  <2>1. CASE q = KindsOf(b)[k]
    BY <1>14, <1>15, <2>1
  <2>2. CASE q # KindsOf(b)[k]
    <3>1. f[k].arrays[q] = e.arrays[q]
      BY <1>15, <2>2
    <3>2. \/ \E j \in 1..m : KindsOf(b)[j] = q /\ e.arrays[q] = [buffer |-> b, at |-> j]
          \/ (\A j \in 1..m : KindsOf(b)[j] # q) /\ e.arrays[q] = arrays[q]
      BY <1>13 DEF Enables
    <3> QED BY <1>14, <2>2, <3>1, <3>2
  <2> QED BY <2>1, <2>2
<1> QED BY <1>8, <1>15, <1>16

LEMMA AllDisabledFact ==
    ASSUME NEW c \in Contexts, NEW b \in Buffers, vbo[b].list \in Seq(Attributes)
    PROVE  AllDisabled(c, b) \in Contexts /\ Disables(AllDisabled(c, b), c, b, Len(vbo[b].list))
<1> DEFINE n == Len(vbo[b].list)
           f == DisabledUpTo(c, b)
           good(i) == f[i] \in Contexts /\ Disables(f[i], c, b, i)
           T == {i \in Nat : i <= n /\ ~ good(i)}
<1>1. n \in Nat /\ \A i \in 1..n : KindsOf(b)[i] \in Kinds
  BY KindsFact
<1>2. f = CHOOSE g : DisablesUpTo(g, c, b, n)
  BY DEF DisabledUpTo, DisablesUpTo
<1>3. DisablesUpTo(f, c, b, n)
  BY <1>1, <1>2, DisablesExist
<1>4. AllDisabled(c, b) = f[n]
  BY DEF AllDisabled
<1> HIDE DEF f, n
<1>5. \A i \in 0..n : f[i] = IF i = 0 THEN c ELSE Disabled(f[i - 1], KindsOf(b)[i])
  BY <1>3 DEF DisablesUpTo
<1>6. SUFFICES ASSUME T # {} PROVE FALSE
  BY <1>1, <1>4 DEF n
<1>7. PICK k \in T : \A l \in T : k <= l
  BY <1>6, LeastFact
<1>8. k \in Nat /\ k <= n /\ ~ good(k)
  BY <1>7
<1>9. k # 0
  <2>1. good(0)
    <3>1. f[0] = c
      BY <1>1, <1>5
    <3> QED BY <3>1 DEF Disables, Context
  <2> QED BY <1>8, <2>1
<1>10. k \in 1..n /\ k - 1 \in Nat /\ k - 1 <= n /\ k \in 0..n /\ ~ (k <= k - 1)
  BY <1>1, <1>8, <1>9
<1>11. good(k - 1)
  <2>1. k - 1 \notin T
    BY <1>7, <1>10
  <2> QED BY <1>10, <2>1
<1> DEFINE e == f[k - 1]
           m == k - 1
<1>12. f[k] = Disabled(e, KindsOf(b)[k])
  BY <1>5, <1>9, <1>10
<1>13. e \in Contexts /\ Disables(e, c, b, m)
  BY <1>11
<1>14. \A j : j \in 1..k <=> j \in 1..m \/ j = k
  BY <1>10
<1> HIDE DEF e, m
<1>15. /\ f[k] \in Contexts
       /\ \A q \in Tracked : f[k].arrays[q] = IF q = KindsOf(b)[k] THEN NoBuffer ELSE e.arrays[q]
  BY <1>1, <1>10, <1>12, <1>13, DisabledFact
<1>16. Disables(f[k], c, b, k)
  BY <1>13, <1>14, <1>15 DEF Disables
<1> QED BY <1>8, <1>15, <1>16

\* Sequences as sets.
LEMMA ToSetFact ==
    ASSUME NEW S, NEW s \in Seq(S)
    PROVE  /\ ToSet(s) \subseteq S
           /\ \A x \in S : ToSet(Append(s, x)) = ToSet(s) \cup {x} /\ Append(s, x) \in Seq(S)
           /\ s # <<>> => /\ Last(s) \in S /\ Front(s) \in Seq(S)
                          /\ ToSet(s) = ToSet(Front(s)) \cup {Last(s)}
<1> DEFINE n == Len(s)
<1>1. n \in Nat /\ DOMAIN s = 1..n /\ \A i \in 1..n : s[i] \in S
  OBVIOUS
<1>2. ToSet(s) = {s[i] : i \in 1..n}
  BY <1>1 DEF ToSet
<1>3. ASSUME NEW x \in S
      PROVE  ToSet(Append(s, x)) = ToSet(s) \cup {x} /\ Append(s, x) \in Seq(S)
  <2> DEFINE r == Append(s, x)
  <2>1. r \in Seq(S) /\ DOMAIN r = 1..(n + 1) /\ r[n + 1] = x /\ \A i \in 1..n : r[i] = s[i]
    OBVIOUS
  <2> HIDE DEF r, n
  <2>2. ToSet(r) = {r[i] : i \in 1..(n + 1)}
    BY <2>1 DEF ToSet
  <2>3. \A i : i \in 1..(n + 1) <=> i \in 1..n \/ i = n + 1
    BY <1>1 DEF n
  <2>4. ToSet(r) = ToSet(s) \cup {x}
    BY <1>2, <2>1, <2>2, <2>3
  <2> QED BY <2>1, <2>4 DEF r
<1>4. ASSUME s # <<>>
      PROVE  Last(s) \in S /\ Front(s) \in Seq(S) /\ ToSet(s) = ToSet(Front(s)) \cup {Last(s)}
  <2> DEFINE r == Front(s)
  <2>1. n # 0 /\ n - 1 \in Nat /\ n \in 1..n /\ Last(s) = s[n]
    BY <1>1, <1>4 DEF Last
  <2>2. r \in Seq(S) /\ DOMAIN r = 1..(n - 1) /\ \A i \in 1..(n - 1) : r[i] = s[i]
    BY <1>1, <2>1 DEF Front
  <2> HIDE DEF r, n
  <2>3. ToSet(r) = {r[i] : i \in 1..(n - 1)}
    BY <2>2 DEF ToSet
  <2>4. \A i : i \in 1..n <=> i \in 1..(n - 1) \/ i = n
    BY <1>1, <2>1 DEF n
  <2>5. ToSet(s) = ToSet(r) \cup {s[n]}
    BY <1>2, <2>2, <2>3, <2>4
  <2> QED BY <1>1, <2>1, <2>2, <2>5 DEF r
<1> QED BY <1>1, <1>2, <1>3, <1>4

LEMMA ListsAreSequences ==
    ASSUME BuffersKnown, NEW b \in Buffers, Exists(b)
    PROVE  IsMade(vbo[b]) /\ vbo[b].list \in Seq(Attributes)
BY AttributesAssumption DEF BuffersKnown, BuffersMade, IsMade

\* A step that leaves the arrays, the holds and the lists of the buffers that are held.
LEMMA SameListsKeep ==
    ASSUME BuffersKnown, UNCHANGED <<gl21, arrays, active, holds>>,
           \A o \in ToSet(holds) : vbo'[o].list = vbo[o].list
    PROVE  HoldsApart' /\ ArraysOf(arrays, ToSet(holds), AllKinds, Tracked)'
<1>1. ToSet(holds) \subseteq Buffers
  BY ToSetFact DEF BuffersKnown, BuffersTyped
<1>2. \A o \in ToSet(holds) : AllKinds'[o] = AllKinds[o] /\ Exists(o)' = Exists(o)
  BY <1>1 DEF AllKinds, KindsOf, Exists
<1>3. HoldsApart'
  BY <1>2 DEF BuffersKnown, HoldsApart, ApartIn
<1>4. Tracked' = Tracked
  BY DEF Tracked
<1>5. ArraysOf(arrays, ToSet(holds), AllKinds', Tracked)
  BY <1>2 DEF BuffersKnown, ArraysOf
<1> QED BY <1>3, <1>4, <1>5

\* A buffer that was not bound is enabled: its arrays are added.
LEMMA EnabledArrays ==
    ASSUME BuffersKnown, NEW b \in Buffers, Exists(b), ~ Held(b), Apart(b)
    PROVE  /\ AllEnabled(b) \in Contexts
           /\ ArraysOf(AllEnabled(b).arrays, ToSet(holds) \cup {b}, AllKinds, Tracked)
<1> DEFINE x == AllEnabled(b)
           n == Len(vbo[b].list)
<1>1. Context \in Contexts /\ vbo[b].list \in Seq(Attributes)
  BY ListsAreSequences DEF BuffersKnown, BuffersTyped
<1>2. x \in Contexts /\ Enables(x, b, n)
  BY <1>1, AllEnabledFact
<1>3. /\ AllKinds[b] = KindsOf(b) /\ DOMAIN KindsOf(b) = 1..n /\ n \in Nat
      /\ \A k : k \in ToSet(KindsOf(b)) <=> \E i \in 1..n : KindsOf(b)[i] = k
  BY <1>1, KindsFact DEF AllKinds
<1> HIDE DEF x, n
<1>4. ASSUME NEW k \in Tracked
      PROVE  \/ x.arrays[k] = NoBuffer /\ \A c \in ToSet(holds) \cup {b} : k \notin ToSet(AllKinds[c])
             \/ /\ x.arrays[k] # NoBuffer /\ x.arrays[k].buffer \in ToSet(holds) \cup {b}
                /\ x.arrays[k].at \in DOMAIN AllKinds[x.arrays[k].buffer]
                /\ AllKinds[x.arrays[k].buffer][x.arrays[k].at] = k
  <2>1. CASE \E j \in 1..n : KindsOf(b)[j] = k /\ x.arrays[k] = [buffer |-> b, at |-> j]
    <3>1. PICK j \in 1..n : KindsOf(b)[j] = k /\ x.arrays[k] = [buffer |-> b, at |-> j]
      BY <2>1
    <3>2. [buffer |-> b, at |-> j] # NoBuffer
      <4>1. j \in Nat
        BY <1>3
      <4> QED BY <4>1, AttributesAssumption
    <3> QED BY <1>3, <3>1, <3>2
  <2>2. CASE (\A j \in 1..n : KindsOf(b)[j] # k) /\ x.arrays[k] = arrays[k]
    <3>1. k \notin ToSet(AllKinds[b])
      BY <1>3, <2>2
    <3>2. \/ arrays[k] = NoBuffer /\ \A c \in ToSet(holds) : k \notin ToSet(AllKinds[c])
          \/ /\ arrays[k] # NoBuffer /\ arrays[k].buffer \in ToSet(holds)
             /\ arrays[k].at \in DOMAIN AllKinds[arrays[k].buffer]
             /\ AllKinds[arrays[k].buffer][arrays[k].at] = k
      BY DEF BuffersKnown, ArraysOf
    <3> QED BY <2>2, <3>1, <3>2
  <2> QED BY <1>2, <2>1, <2>2 DEF Enables
<1>5. ArraysOf(x.arrays, ToSet(holds) \cup {b}, AllKinds, Tracked)
  BY <1>4 DEF ArraysOf
<1> QED BY <1>2, <1>5 DEF x

\* A buffer that no other bound one shares a kind with is disabled: its arrays go.
LEMMA DisabledArrays ==
    ASSUME BuffersKnown, NEW c \in Contexts, NEW b \in Buffers, Exists(b), NEW held \in SUBSET Buffers,
           ArraysOf(c.arrays, held \cup {b}, AllKinds, Tracked), b \notin held,
           \A o \in held : ToSet(KindsOf(o)) \cap ToSet(KindsOf(b)) = {}
    PROVE  /\ AllDisabled(c, b) \in Contexts
           /\ ArraysOf(AllDisabled(c, b).arrays, held, AllKinds, Tracked)
<1> DEFINE x == AllDisabled(c, b)
           n == Len(vbo[b].list)
<1>1. vbo[b].list \in Seq(Attributes)
  BY ListsAreSequences
<1>2. x \in Contexts /\ Disables(x, c, b, n)
  BY <1>1, AllDisabledFact
<1>3. /\ DOMAIN KindsOf(b) = 1..n
      /\ \A k : k \in ToSet(KindsOf(b)) <=> \E i \in 1..n : KindsOf(b)[i] = k
      /\ \A o \in Buffers : AllKinds[o] = KindsOf(o)
  BY <1>1, KindsFact DEF AllKinds
<1> HIDE DEF x, n
<1>4. ASSUME NEW k \in Tracked
      PROVE  \/ x.arrays[k] = NoBuffer /\ \A o \in held : k \notin ToSet(AllKinds[o])
             \/ /\ x.arrays[k] # NoBuffer /\ x.arrays[k].buffer \in held
                /\ x.arrays[k].at \in DOMAIN AllKinds[x.arrays[k].buffer]
                /\ AllKinds[x.arrays[k].buffer][x.arrays[k].at] = k
  <2>1. CASE k \in ToSet(KindsOf(b))
    <3>1. x.arrays[k] = NoBuffer
      BY <1>2, <1>3, <2>1 DEF Disables
    <3>2. \A o \in held : k \notin ToSet(AllKinds[o])
      BY <1>3, <2>1
    <3> QED BY <3>1, <3>2
  <2>2. CASE k \notin ToSet(KindsOf(b))
    <3>1. x.arrays[k] = c.arrays[k]
      BY <1>2, <1>3, <2>2 DEF Disables
    <3>2. \/ c.arrays[k] = NoBuffer /\ \A o \in held : k \notin ToSet(AllKinds[o])
          \/ /\ c.arrays[k] # NoBuffer /\ c.arrays[k].buffer \in held \cup {b}
             /\ c.arrays[k].at \in DOMAIN AllKinds[c.arrays[k].buffer]
             /\ AllKinds[c.arrays[k].buffer][c.arrays[k].at] = k
      BY DEF ArraysOf
    <3>3. \A j \in DOMAIN AllKinds[b] : AllKinds[b][j] # k
      BY <1>3, <2>2
    <3> QED BY <3>1, <3>2, <3>3
  <2> QED BY <2>1, <2>2
<1>5. ArraysOf(x.arrays, held, AllKinds, Tracked)
  BY <1>4 DEF ArraysOf
<1> QED BY <1>2, <1>5 DEF x

LEMMA BuffersStart ==
    ASSUME BuffersInit
    PROVE  BuffersKnown
<1>1. Context \in Contexts
  <2>1. "tex0" \in TexCoords
    BY DEF TexCoords
  <2> QED BY <2>1 DEF BuffersInit, Context, Contexts
<1>2. attr \in [Attributes -> 1..MaxElements]
  BY AttributesAssumption DEF BuffersInit
<1>3. holds \in Seq(Buffers) /\ ToSet(holds) = {}
  <2>1. <<>> \in Seq(Buffers)
    BY EmptySeq
  <2>2. ToSet(<<>>) = {}
    BY DEF ToSet
  <2> QED BY <2>1, <2>2 DEF BuffersInit
<1>4. \A b \in Buffers : ~ Exists(b)
  BY DEF BuffersInit, NoAttributes, Exists
<1>5. \A k \in Tracked : arrays[k] = NoBuffer
  BY TrackedFact DEF BuffersInit
<1> QED BY <1>1, <1>2, <1>3, <1>4, <1>5
    DEF BuffersInit, BuffersKnown, BuffersTyped, BuffersMade, HoldsApart, ApartIn, ArraysOf

\* Binding leaves a context that is one.
LEMMA RebindsFact ==
    ASSUME NEW c \in Contexts, Rebinds(c)
    PROVE  Context' \in Contexts /\ arrays' = c.arrays
BY DEF Rebinds, Context, Contexts

LEMMA NewKeepsKnown ==
    ASSUME BuffersKnown, NEW b \in Buffers, NEW list \in Lists, New(b, list)
    PROVE  BuffersKnown'
<1> DEFINE l == Len(list)
           made == MadeOf(list)
           bytes == FilledUpTo(list, made)[l]
           r == [list |-> list, made |-> made, bytes |-> bytes, spoiled |-> FALSE]
<1>1. list \in Seq(Attributes) /\ attr \in [Attributes -> 1..MaxElements]
  BY AttributesAssumption DEF BuffersKnown, BuffersTyped
<1>2. /\ made \in Seq(MadeAttributes) /\ Len(made) = l
      /\ \A i \in 1..l : made[i].size = Size(list[i]) /\ Size(list[i]) \in Nat
  BY <1>1, MadeOfFact
<1>3. vbo' = [vbo EXCEPT ![b] = r] /\ ~ Exists(b)
  BY DEF New
<1> HIDE DEF made
<1>4. DOMAIN bytes = 0..(Offset(made, Len(made) + 1) - 1) /\ Holds(bytes, list, made, l)
  BY <1>1, <1>2, NewBytesFact
<1> HIDE DEF bytes, l
<1>5. IsMade(r)
  BY <1>2, <1>4 DEF IsMade, l
<1> HIDE DEF r
<1>6. DOMAIN vbo' = Buffers /\ vbo'[b] = r /\ \A o \in Buffers \ {b} : vbo'[o] = vbo[o]
  BY <1>3 DEF BuffersKnown, BuffersTyped
<1>7. BuffersMade'
  BY <1>5, <1>6 DEF BuffersKnown, BuffersMade, Exists
<1>8. \A o \in ToSet(holds) : vbo'[o].list = vbo[o].list
  <2>1. ToSet(holds) \subseteq Buffers \ {b}
    BY <1>3, ToSetFact DEF BuffersKnown, BuffersTyped, HoldsApart
  <2> QED BY <1>6, <2>1
<1>9. HoldsApart' /\ ArraysOf(arrays, ToSet(holds), AllKinds, Tracked)'
  BY <1>8, SameListsKeep DEF New
<1>10. BuffersTyped'
  BY <1>6 DEF BuffersKnown, BuffersTyped, New, Context
<1> QED BY <1>7, <1>9, <1>10 DEF BuffersKnown

LEMMA DeleteKeepsKnown ==
    ASSUME BuffersKnown, NEW b \in Buffers, Delete(b)
    PROVE  BuffersKnown'
<1>1. vbo' = [vbo EXCEPT ![b] = NoAttributes] /\ b \notin ToSet(holds)
  BY DEF Delete
<1>2. DOMAIN vbo' = Buffers /\ vbo'[b].list = <<>> /\ \A o \in Buffers \ {b} : vbo'[o] = vbo[o]
  BY <1>1 DEF BuffersKnown, BuffersTyped, NoAttributes
<1>3. BuffersMade'
  BY <1>2 DEF BuffersKnown, BuffersMade, Exists
<1>4. \A o \in ToSet(holds) : vbo'[o].list = vbo[o].list
  BY <1>1, <1>2, ToSetFact DEF BuffersKnown, BuffersTyped
<1>5. HoldsApart' /\ ArraysOf(arrays, ToSet(holds), AllKinds, Tracked)'
  BY <1>4, SameListsKeep DEF Delete
<1>6. BuffersTyped'
  BY <1>2 DEF BuffersKnown, BuffersTyped, Delete, Context
<1> QED BY <1>3, <1>5, <1>6 DEF BuffersKnown

LEMMA ReloadKeepsKnown ==
    ASSUME BuffersKnown, NEW b \in Buffers, NEW i \in 1..3, Reload(b, i)
    PROVE  BuffersKnown'
<1> DEFINE v == vbo[b]
           a == v.list[i]
           g == Filled(v.bytes, a, Offset(v.made, i))
           s == v.spoiled \/ Size(a) > v.made[i].size
           w == vbo'[b]
<1>1. i \in DOMAIN v.list /\ vbo' = [vbo EXCEPT ![b].bytes = g, ![b].spoiled = s]
  BY DEF Reload
<1>2. Exists(b)
  BY <1>1 DEF Exists
<1>3. IsMade(v) /\ v.list \in Seq(Attributes) /\ Exists(b)
  BY <1>2, ListsAreSequences
<1>4. /\ DOMAIN v = {"list", "made", "bytes", "spoiled"}
      /\ v.list \in Lists /\ v.made \in Seq(MadeAttributes) /\ Len(v.made) = Len(v.list)
      /\ DOMAIN v.bytes = 0..(Offset(v.made, Len(v.made) + 1) - 1)
      /\ ~ v.spoiled => Holds(v.bytes, v.list, v.made, Len(v.list))
  BY <1>3 DEF IsMade
<1>5. a \in Attributes /\ i \in 1..Len(v.made) /\ Len(v.list) \in Nat
  BY <1>1, <1>3, <1>4
<1>6. Size(a) \in Nat /\ v.made[i].size \in Nat
  <2>1. \A x \in Attributes : attr[x] \in Nat /\ WidthOf[x] \in Nat
    BY AttributesAssumption DEF BuffersKnown, BuffersTyped
  <2> QED BY <1>4, <1>5, <2>1, SizesAreNat DEF Size
<1>7. DOMAIN g = DOMAIN v.bytes
  BY DEF Filled
<1>8. ~ s => Holds(g, v.list, v.made, Len(v.list))
  <2> SUFFICES ASSUME ~ s PROVE Holds(g, v.list, v.made, Len(v.list))
    OBVIOUS
  <2>1. Size(a) <= v.made[i].size /\ Holds(v.bytes, v.list, v.made, Len(v.list))
    BY <1>4, <1>6
  <2>2. Len(v.list) \in 0..Len(v.made)
    BY <1>4, <1>5
  <2> HIDE DEF v
  <2> QED BY <1>4, <1>5, <1>6, <2>1, <2>2, FilledFact
<1> HIDE DEF g, s
<1>9. /\ DOMAIN w = {"list", "made", "bytes", "spoiled"}
      /\ w.list = v.list /\ w.made = v.made /\ w.bytes = g /\ w.spoiled = s
      /\ DOMAIN vbo' = Buffers /\ \A o \in Buffers \ {b} : vbo'[o] = vbo[o]
  <2>1. b \in DOMAIN vbo /\ DOMAIN vbo = Buffers
    BY DEF BuffersKnown, BuffersTyped
  <2> QED BY <1>1, <1>4, <2>1
<1> HIDE DEF w
<1>10. IsMade(w)
  BY <1>4, <1>7, <1>8, <1>9 DEF IsMade
<1>11. BuffersMade'
  BY <1>9, <1>10 DEF BuffersKnown, BuffersMade, Exists, w
<1>12. \A o \in ToSet(holds) : vbo'[o].list = vbo[o].list
  BY <1>9, ToSetFact DEF BuffersKnown, BuffersTyped, w
<1>13. HoldsApart' /\ ArraysOf(arrays, ToSet(holds), AllKinds, Tracked)'
  BY <1>12, SameListsKeep DEF Reload
<1>14. BuffersTyped'
  BY <1>9 DEF BuffersKnown, BuffersTyped, Reload, Context
<1> QED BY <1>11, <1>13, <1>14 DEF BuffersKnown

LEMMA ResetBufferKeepsKnown ==
    ASSUME BuffersKnown, NEW a \in Attributes, NEW nb \in 1..MaxElements, ResetBuffer(a, nb)
    PROVE  BuffersKnown'
<1>1. attr' \in [Attributes -> 1..MaxElements]
  BY DEF BuffersKnown, BuffersTyped, ResetBuffer
<1>2. BuffersTyped' /\ BuffersMade'
  BY <1>1 DEF BuffersKnown, BuffersTyped, BuffersMade, Exists, ResetBuffer, Context
<1>3. HoldsApart' /\ ArraysOf(arrays, ToSet(holds), AllKinds, Tracked)'
  BY SameListsKeep DEF ResetBuffer
<1> QED BY <1>2, <1>3 DEF BuffersKnown

\* A step that binds, and leaves the buffers themselves as they are.
LEMMA BindingKeepsKnown ==
    ASSUME BuffersKnown, UNCHANGED <<gl21, attr, vbo>>, NEW c \in Contexts, Rebinds(c),
           holds' \in Seq(Buffers), \A o \in ToSet(holds') : Exists(o),
           ApartIn(ToSet(holds'), AllKinds), ArraysOf(c.arrays, ToSet(holds'), AllKinds, Tracked)
    PROVE  BuffersKnown'
<1>1. Context' \in Contexts /\ arrays' = c.arrays
  BY RebindsFact
<1>2. Tracked' = Tracked /\ AllKinds' = AllKinds /\ \A o : Exists(o)' = Exists(o)
  BY DEF Tracked, AllKinds, KindsOf, Exists
<1>3. BuffersTyped' /\ BuffersMade'
  BY <1>1, <1>2 DEF BuffersKnown, BuffersTyped, BuffersMade
<1>4. HoldsApart'
  BY <1>2 DEF HoldsApart
<1>5. ArraysOf(arrays', ToSet(holds'), AllKinds', Tracked')
  BY <1>1, <1>2
<1> QED BY <1>3, <1>4, <1>5 DEF BuffersKnown

LEMMA ContextFact ==
    ASSUME BuffersKnown
    PROVE  Context \in Contexts /\ ArraysOf(Context.arrays, ToSet(holds), AllKinds, Tracked)
BY DEF BuffersKnown, BuffersTyped, Context

LEMMA HoldBufferKeepsKnown ==
    ASSUME BuffersKnown, NEW b \in Buffers, HoldBuffer(b)
    PROVE  BuffersKnown'
<1> DEFINE c == IF Held(b) THEN Context ELSE AllEnabled(b)
           H == ToSet(holds)
<1>1. holds \in Seq(Buffers) /\ H \subseteq Buffers
  BY ToSetFact DEF BuffersKnown, BuffersTyped
<1>2. holds' \in Seq(Buffers) /\ ToSet(holds') = H \cup {b}
  <2>1. holds' = Append(holds, b)
    BY DEF HoldBuffer
  <2>2. /\ ToSet(Append(holds, b)) = ToSet(holds) \cup {b}
        /\ Append(holds, b) \in Seq(Buffers)
    BY <1>1, ToSetFact
  <2> QED BY <2>1, <2>2
<1>3. Exists(b) /\ Apart(b) /\ Rebinds(c) /\ UNCHANGED <<gl21, attr, vbo>>
  BY DEF HoldBuffer
<1>4. \A o \in ToSet(holds') : Exists(o)
  BY <1>2, <1>3 DEF BuffersKnown, HoldsApart
<1>5. ApartIn(ToSet(holds'), AllKinds)
  <2>1. \A o \in Buffers : AllKinds[o] = KindsOf(o)
    BY DEF AllKinds
  <2>2. \A o \in H \ {b} : ToSet(AllKinds[o]) \cap ToSet(AllKinds[b]) = {}
    BY <1>1, <1>3, <2>1 DEF Apart
  <2>3. ApartIn(H, AllKinds)
    BY DEF BuffersKnown, HoldsApart
  <2> QED BY <1>2, <2>2, <2>3 DEF ApartIn
<1>6. c \in Contexts /\ ArraysOf(c.arrays, H \cup {b}, AllKinds, Tracked)
  <2>1. CASE Held(b)
    <3>1. H \cup {b} = H
      BY <2>1 DEF Held
    <3> QED BY <2>1, <3>1, ContextFact
  <2>2. CASE ~ Held(b)
    BY <1>3, <2>2, EnabledArrays
  <2> QED BY <2>1, <2>2
<1> HIDE DEF c, H
<1>7. ArraysOf(c.arrays, ToSet(holds'), AllKinds, Tracked)
  BY <1>2, <1>6
<1> QED BY <1>2, <1>3, <1>4, <1>5, <1>6, <1>7, BindingKeepsKnown

LEMMA ReleaseBufferKeepsKnown ==
    ASSUME BuffersKnown, ReleaseBuffer
    PROVE  BuffersKnown'
<1> DEFINE b == Last(holds)
           F == ToSet(Front(holds))
           c == IF b \in F THEN Context ELSE AllDisabled(Context, b)
<1>1. holds \in Seq(Buffers) /\ holds # <<>> /\ holds' = Front(holds)
      /\ Rebinds(c) /\ UNCHANGED <<gl21, attr, vbo>>
  BY DEF ReleaseBuffer, BuffersKnown, BuffersTyped
<1>2. b \in Buffers /\ Front(holds) \in Seq(Buffers) /\ ToSet(holds) = F \cup {b}
  BY <1>1, ToSetFact
<1>3. F \in SUBSET Buffers
  BY <1>2, ToSetFact
<1>4. (\A o \in ToSet(holds) : Exists(o)) /\ ApartIn(ToSet(holds), AllKinds)
  BY DEF BuffersKnown, HoldsApart
<1> HIDE DEF b, F
<1>5. (\A o \in F : Exists(o)) /\ ApartIn(F, AllKinds) /\ Exists(b)
  BY <1>2, <1>4 DEF ApartIn
<1>6. c \in Contexts /\ ArraysOf(c.arrays, F, AllKinds, Tracked)
  <2>1. Context \in Contexts /\ ArraysOf(Context.arrays, F \cup {b}, AllKinds, Tracked)
    BY <1>2, ContextFact
  <2>2. CASE b \in F
    <3>1. F \cup {b} = F
      BY <2>2
    <3> QED BY <2>1, <2>2, <3>1
  <2>3. CASE b \notin F
    <3>1. \A o \in Buffers : AllKinds[o] = KindsOf(o)
      BY DEF AllKinds
    <3>2. \A o \in F : ToSet(KindsOf(o)) \cap ToSet(KindsOf(b)) = {}
      BY <1>2, <1>3, <1>4, <2>3, <3>1 DEF ApartIn
    <3>3. /\ AllDisabled(Context, b) \in Contexts
          /\ ArraysOf(AllDisabled(Context, b).arrays, F, AllKinds, Tracked)
      BY <1>2, <1>3, <1>5, <2>1, <2>3, <3>2, DisabledArrays
    <3> QED BY <2>3, <3>3
  <2> QED BY <2>2, <2>3
<1> HIDE DEF c
<1>7. ToSet(holds') = F /\ holds' \in Seq(Buffers)
  BY <1>1, <1>2 DEF F
<1> QED BY <1>1, <1>5, <1>6, <1>7, BindingKeepsKnown

LEMMA DrawKeepsKnown ==
    ASSUME BuffersKnown, NEW b \in Buffers, NEW start, NEW asked, Draw(b, start, asked)
    PROVE  BuffersKnown'
<1> DEFINE c == IF Held(b) THEN Context ELSE AllDisabled(ForTheCall(b), b)
           H == ToSet(holds)
<1>1. Exists(b) /\ Apart(b) /\ Rebinds(c) /\ UNCHANGED <<gl21, attr, vbo, holds>>
  BY DEF Draw
<1>2. holds \in Seq(Buffers) /\ H \in SUBSET Buffers
  BY ToSetFact DEF BuffersKnown, BuffersTyped
<1>3. c \in Contexts /\ ArraysOf(c.arrays, H, AllKinds, Tracked)
  <2>1. CASE Held(b)
    BY <2>1, ContextFact
  <2>2. CASE ~ Held(b)
    <3>1. ForTheCall(b) = AllEnabled(b) /\ b \notin H
      BY <2>2 DEF ForTheCall, Held
    <3>2. /\ AllEnabled(b) \in Contexts
          /\ ArraysOf(AllEnabled(b).arrays, H \cup {b}, AllKinds, Tracked)
      BY <1>1, <2>2, EnabledArrays
    <3>3. \A o \in H : ToSet(KindsOf(o)) \cap ToSet(KindsOf(b)) = {}
      BY <1>1, <3>1 DEF Apart
    <3> HIDE DEF H
    <3>4. /\ AllDisabled(AllEnabled(b), b) \in Contexts
          /\ ArraysOf(AllDisabled(AllEnabled(b), b).arrays, H, AllKinds, Tracked)
      BY <1>1, <1>2, <3>1, <3>2, <3>3, DisabledArrays
    <3> QED BY <2>2, <3>1, <3>4
  <2> QED BY <2>1, <2>2
<1> HIDE DEF c
<1>4. ToSet(holds') = H /\ holds' \in Seq(Buffers)
  BY <1>1, <1>2
<1>5. (\A o \in H : Exists(o)) /\ ApartIn(H, AllKinds)
  BY DEF BuffersKnown, HoldsApart
<1> HIDE DEF H
<1> QED BY <1>1, <1>3, <1>4, <1>5, BindingKeepsKnown

LEMMA BuffersStep ==
    ASSUME BuffersKnown, [BuffersNext]_bufferVars
    PROVE  BuffersKnown'
<1>1. CASE UNCHANGED bufferVars
  <2>1. HoldsApart' /\ ArraysOf(arrays, ToSet(holds), AllKinds, Tracked)'
    BY <1>1, SameListsKeep DEF bufferVars
  <2>2. BuffersTyped' /\ BuffersMade'
    BY <1>1 DEF BuffersKnown, BuffersTyped, BuffersMade, Exists, bufferVars, Context
  <2> QED BY <2>1, <2>2 DEF BuffersKnown
<1>2. CASE BuffersNext
  BY <1>2, NewKeepsKnown, ReloadKeepsKnown, ResetBufferKeepsKnown, DeleteKeepsKnown,
     HoldBufferKeepsKnown, ReleaseBufferKeepsKnown, DrawKeepsKnown DEF BuffersNext
<1> QED BY <1>1, <1>2

\* A region holds what was put there.
LEMMA RegionsApartFact ==
    ASSUME BuffersKnown
    PROVE  RegionsAreApart
<1> SUFFICES ASSUME NEW b \in Buffers, ~ vbo[b].spoiled, NEW i \in DOMAIN vbo[b].list
             PROVE  /\ Region(b, i) \subseteq DOMAIN vbo[b].bytes
                    /\ \A n \in Region(b, i) : vbo[b].bytes[n] = vbo[b].list[i]
  BY DEF RegionsAreApart
<1> DEFINE v == vbo[b]
<1>1. Exists(b)
  BY DEF Exists
<1>2. IsMade(v) /\ v.list \in Seq(Attributes)
  BY <1>1, ListsAreSequences
<1>3. /\ v.made \in Seq(MadeAttributes) /\ Len(v.made) = Len(v.list)
      /\ DOMAIN v.bytes = 0..(Offset(v.made, Len(v.made) + 1) - 1)
      /\ Holds(v.bytes, v.list, v.made, Len(v.list))
  BY <1>2 DEF IsMade
<1>4. i \in 1..Len(v.made) /\ i \in 1..Len(v.list)
  BY <1>2, <1>3
<1>5. Region(b, i) = RegionOf(v.made, i)
  BY DEF Region, RegionOf
<1> HIDE DEF v
<1>6. \A x \in RegionOf(v.made, i) : x \in DOMAIN v.bytes
  BY <1>3, <1>4, RegionsAreInside
<1>7. \A x \in RegionOf(v.made, i) : v.bytes[x] = v.list[i]
  BY <1>3, <1>4 DEF Holds
<1> QED BY <1>5, <1>6, <1>7 DEF v

LEMMA ArraysBoundFact ==
    ASSUME BuffersKnown
    PROVE  ArraysAreBound
<1>1. ToSet(holds) \subseteq Buffers /\ \A b \in Buffers : AllKinds[b] = KindsOf(b)
  BY ToSetFact DEF BuffersKnown, BuffersTyped, AllKinds
<1> SUFFICES ASSUME NEW k \in Tracked
             PROVE  \/ arrays[k] = NoBuffer /\ \A b \in ToSet(holds) : k \notin ToSet(KindsOf(b))
                    \/ /\ arrays[k] # NoBuffer /\ Held(arrays[k].buffer)
                       /\ KindsOf(arrays[k].buffer)[arrays[k].at] = k
  BY DEF ArraysAreBound, Tracked
<1>2. \/ arrays[k] = NoBuffer /\ \A c \in ToSet(holds) : k \notin ToSet(AllKinds[c])
      \/ /\ arrays[k] # NoBuffer /\ arrays[k].buffer \in ToSet(holds)
         /\ arrays[k].at \in DOMAIN AllKinds[arrays[k].buffer]
         /\ AllKinds[arrays[k].buffer][arrays[k].at] = k
  BY DEF BuffersKnown, ArraysOf
<1> QED BY <1>1, <1>2 DEF Held

\* The arithmetic of the draw calls: what is drawn ends where the attribute does.
LEMMA DrawnFact ==
    ASSUME NEW n \in 1..MaxElements, NEW start \in Starts, NEW asked \in Counts,
           start <= n, asked = Rest \/ InRange(start, asked, n)
    PROVE  start + Drawn(n, start, asked) <= n
<1>1. MaxElements \in Nat /\ MaxElements < 7 /\ n < 7 /\ n \in Nat /\ start \in Nat /\ n - start \in 0..6
  BY AttributesAssumption DEF Rest, Word, Starts
<1>2. (n - start) % Word = n - start
  BY <1>1 DEF Word
<1>3. CASE asked = Rest
  <2>1. Drawn(n, start, asked) = n - start
    BY <1>2, <1>3 DEF Drawn
  <2> QED BY <1>1, <2>1
<1>4. CASE asked # Rest
  <2>1. Drawn(n, start, asked) = asked /\ asked <= n - start /\ asked = 2
    BY <1>2, <1>4 DEF Drawn, InRange, Counts
  <2> QED BY <1>1, <2>1
<1> QED BY <1>3, <1>4

\* During a call the vertices are read from the buffer that is drawn.
LEMMA VerticesFact ==
    ASSUME BuffersKnown, NEW b \in Buffers, Exists(b), Apart(b),
           NEW i \in DOMAIN KindsOf(b), KindsOf(b)[i] = "vertex"
    PROVE  \E j \in DOMAIN KindsOf(b) :
              /\ KindsOf(b)[j] = "vertex"
              /\ ForTheCall(b).arrays["vertex"] = [buffer |-> b, at |-> j]
<1> DEFINE x == ForTheCall(b)
           H == ToSet(holds) \cup {b}
           r == x.arrays["vertex"]
<1>1. H \subseteq Buffers /\ \A o \in Buffers : AllKinds[o] = KindsOf(o)
  BY ToSetFact DEF BuffersKnown, BuffersTyped, AllKinds
<1>2. x \in Contexts /\ ArraysOf(x.arrays, H, AllKinds, Tracked)
  <2>1. CASE Held(b)
    <3>1. H = ToSet(holds) /\ x = Context
      BY <2>1 DEF Held, ForTheCall
    <3> QED BY <3>1, ContextFact
  <2>2. CASE ~ Held(b)
    <3>1. x = AllEnabled(b)
      BY <2>2 DEF ForTheCall
    <3> QED BY <2>2, <3>1, EnabledArrays
  <2> QED BY <2>1, <2>2
<1>3. "vertex" \in Tracked /\ "vertex" \in Kinds
  BY DEF Tracked, Kinds, TexCoords
<1>4. vbo[b].list \in Seq(Attributes)
  BY ListsAreSequences
<1>5. "vertex" \in ToSet(KindsOf(b))
  BY <1>4, KindsFact
<1> HIDE DEF x
<1>6. r \in ReadRegions \cup {NoBuffer}
  BY <1>2, <1>3 DEF Contexts
<1>7. r # NoBuffer /\ r.buffer \in H /\ r.at \in DOMAIN AllKinds[r.buffer] /\ AllKinds[r.buffer][r.at] = "vertex"
  BY <1>1, <1>2, <1>3, <1>5 DEF ArraysOf
<1>8. r = [buffer |-> r.buffer, at |-> r.at]
  BY <1>6, <1>7 DEF ReadRegions
<1> HIDE DEF r
<1>9. r.buffer = b
  <2> SUFFICES ASSUME r.buffer # b PROVE FALSE
    OBVIOUS
  <2>1. r.buffer \in ToSet(holds) \ {b} /\ r.buffer \in Buffers
    BY <1>1, <1>7
  <2>2. Exists(r.buffer)
    BY <2>1 DEF BuffersKnown, HoldsApart
  <2>3. vbo[r.buffer].list \in Seq(Attributes)
    BY <2>1, <2>2, ListsAreSequences
  <2>4. "vertex" \in ToSet(KindsOf(r.buffer))
    BY <1>1, <1>7, <2>1, <2>3, KindsFact
  <2>5. ToSet(KindsOf(r.buffer)) \cap ToSet(KindsOf(b)) = {}
    BY <2>1 DEF Apart
  <2> QED BY <1>5, <2>4, <2>5
<1> QED BY <1>1, <1>7, <1>8, <1>9 DEF r, x

LEMMA DrawsInsideFact ==
    ASSUME BuffersKnown
    PROVE  DrawsAreInside
<1> SUFFICES ASSUME NEW b \in Buffers, Exists(b), Apart(b), OneLength(b),
                    NEW start \in Starts, NEW asked \in Counts
             PROVE  LET n == vbo[b].made[1].nb IN
                    /\ start <= n /\ (ArraysAccept(b, start, asked) \/ ElementsAccept(b, start, asked))
                          => start + Drawn(n, start, asked) <= n
                    /\ ArraysAccept(b, start, asked) =>
                          \E i \in DOMAIN KindsOf(b) :
                              /\ KindsOf(b)[i] = "vertex"
                              /\ ForTheCall(b).arrays["vertex"] = [buffer |-> b, at |-> i]
  BY DEF DrawsAreInside
<1> DEFINE l == vbo[b].list
           made == vbo[b].made
           n == made[1].nb
<1>1. l \in Seq(Attributes) /\ l # <<>> /\ IsMade(vbo[b])
  BY ListsAreSequences DEF Exists
<1>2. made \in Seq(MadeAttributes) /\ Len(made) = Len(l)
  BY <1>1 DEF IsMade
<1>3. 1 \in 1..Len(l) /\ DOMAIN made = DOMAIN l /\ DOMAIN l = 1..Len(l) /\ DOMAIN KindsOf(b) = 1..Len(l)
  BY <1>1, <1>2, KindsFact
<1>4. \A i \in DOMAIN l : attr[l[i]] = n /\ attr[l[i]] \in 1..MaxElements
  <2>1. \A i \in DOMAIN l : attr[l[i]] = made[i].nb /\ made[i].nb = n
    BY <1>3 DEF OneLength, Resized
  <2>2. \A i \in DOMAIN l : l[i] \in Attributes
    BY <1>1
  <2> QED BY <2>1, <2>2 DEF BuffersKnown, BuffersTyped
<1>5. attr[l[1]] = n /\ n \in 1..MaxElements
  BY <1>3, <1>4
<1> HIDE DEF n
<1>6. ASSUME ArraysAccept(b, start, asked) \/ ElementsAccept(b, start, asked)
      PROVE  asked = Rest \/ InRange(start, asked, n)
  <2>1. CASE ArraysAccept(b, start, asked)
    <3>1. PICK i \in FirstVertices(b) : asked = Rest \/ InRange(start, asked, attr[l[i]])
      BY <2>1 DEF ArraysAccept
    <3>2. i \in DOMAIN l
      BY <1>3 DEF FirstVertices
    <3> QED BY <1>4, <3>1, <3>2
  <2>2. CASE ElementsAccept(b, start, asked)
    BY <1>5, <2>2 DEF ElementsAccept
  <2> QED BY <1>6, <2>1, <2>2
<1>7. ASSUME start <= n, ArraysAccept(b, start, asked) \/ ElementsAccept(b, start, asked)
      PROVE  start + Drawn(n, start, asked) <= n
  BY <1>5, <1>6, <1>7, DrawnFact
<1>8. ASSUME ArraysAccept(b, start, asked)
      PROVE  \E i \in DOMAIN KindsOf(b) :
                 /\ KindsOf(b)[i] = "vertex"
                 /\ ForTheCall(b).arrays["vertex"] = [buffer |-> b, at |-> i]
  <2>1. PICK i \in DOMAIN KindsOf(b) : KindsOf(b)[i] = "vertex"
    BY <1>8 DEF ArraysAccept, FirstVertices
  <2> QED BY <2>1, VerticesFact
<1> QED BY <1>7, <1>8 DEF n

LEMMA KnownBuffersSuffice ==
    ASSUME BuffersKnown
    PROVE  DrawsReadTheirData
<1>1. \A b \in Buffers : Exists(b) =>
          vbo[b].list \in Lists /\ DOMAIN vbo[b].made = DOMAIN vbo[b].list
  <2> SUFFICES ASSUME NEW b \in Buffers, Exists(b)
               PROVE  vbo[b].list \in Lists /\ DOMAIN vbo[b].made = DOMAIN vbo[b].list
    OBVIOUS
  <2>1. vbo[b].list \in Seq(Attributes) /\ IsMade(vbo[b])
    BY ListsAreSequences
  <2> QED BY <2>1 DEF IsMade
<1>2. DOMAIN arrays = Kinds /\ active \in TexCoords
  BY DEF BuffersKnown, BuffersTyped, Context, Contexts
<1>3. BuffersTypeOK
  BY <1>1, <1>2 DEF BuffersKnown, BuffersTyped, BuffersTypeOK
<1> QED BY <1>3, RegionsApartFact, ArraysBoundFact, DrawsInsideFact DEF DrawsReadTheirData

\* Whatever buffers are made, loaded again, bound and drawn in whatever order, and for
\* any attributes and lists of them: a region holds the bytes of its own attribute until
\* a reload overruns it, the arrays that are enabled are those of the buffers bound now,
\* and no draw call that is accepted reads past the end of its attributes
\* (VertexBuffer.cpp:18-62, _VBO.cpp:11-112, Painter.cpp:73-143).
THEOREM DrawsStayTheirOwn == BuffersSpec => []DrawsReadTheirData
<1>1. BuffersInit => BuffersKnown
  BY BuffersStart
<1>2. BuffersKnown /\ [BuffersNext]_bufferVars => BuffersKnown'
  BY BuffersStep
<1>3. BuffersKnown => DrawsReadTheirData
  BY KnownBuffersSuffice
<1> QED BY <1>1, <1>2, <1>3, PTL DEF BuffersSpec
-----------------------------------------------------------------------------
(* The windows and their targets *)

TargetStates == [window : Wins, bound : Nat, previous : Targets \cup {NoTarget}]
TargetContexts ==
    [target : [Targets -> TargetStates \cup {NoTarget}], current : [Wins -> Targets \cup {NoTarget}]]

Made(c, t) == c.target[t] # NoTarget

\* The guards of t among those at the positions of L.
GuardsOf(g, L, t) == {i \in L : g[i] = t}

\* Targets count the guards at the positions of L.
Counted(c, g, L) ==
    \A t \in Targets :
        IF Made(c, t) THEN c.target[t].bound = Cardinality(GuardsOf(g, L, t))
        ELSE GuardsOf(g, L, t) = {}

\* Where the first n guards bound a target of w.
BoundUpTo(c, g, n, w) == {i \in 1..n : IsFirst(g, i) /\ c.target[g[i]].window = w}

\* Among the first n guards, the last that bound a target of w bound x.
BoundLast(x, c, g, n, w) ==
    \/ x = NoTarget /\ BoundUpTo(c, g, n, w) = {}
    \/ \E i \in BoundUpTo(c, g, n, w) : x = g[i] /\ \A j \in BoundUpTo(c, g, n, w) : j <= i

\* The first n guards bound one target within the other.
Chained(c, g, n) ==
    /\ \A w \in Wins : BoundLast(c.current[w], c, g, n, w)
    /\ \A i \in 1..n : IsFirst(g, i) =>
          BoundLast(c.target[g[i]].previous, c, g, i - 1, c.target[g[i]].window)

\* The same targets, of the same windows.
SameTargets(c, d) ==
    \A t \in Targets : (Made(c, t) <=> Made(d, t)) /\ (Made(c, t) => c.target[t].window = d.target[t].window)

LEMMA MadeFact ==
    ASSUME NEW c \in TargetContexts, NEW t \in Targets, Made(c, t)
    PROVE  /\ c.target[t] \in TargetStates /\ c.target[t].window \in Wins
           /\ c.target[t].bound \in Nat /\ c.target[t].previous \in Targets \cup {NoTarget}
BY DEF TargetContexts, TargetStates, Made

LEMMA CountFact ==
    ASSUME NEW g, NEW L, IsFiniteSet(L), NEW t
    PROVE  /\ IsFiniteSet(GuardsOf(g, L, t)) /\ Cardinality(GuardsOf(g, L, t)) \in Nat
           /\ Cardinality(GuardsOf(g, L, t)) = 0 <=> GuardsOf(g, L, t) = {}
           /\ \A p : p \notin L =>
                 Cardinality(GuardsOf(g, L \cup {p}, t)) =
                    IF g[p] = t THEN Cardinality(GuardsOf(g, L, t)) + 1 ELSE Cardinality(GuardsOf(g, L, t))
<1>1. IsFiniteSet(GuardsOf(g, L, t))
  <2>1. GuardsOf(g, L, t) \subseteq L
    BY DEF GuardsOf
  <2> QED BY <2>1, FS_Subset
<1>2. ASSUME NEW p, p \notin L
      PROVE  Cardinality(GuardsOf(g, L \cup {p}, t)) =
                IF g[p] = t THEN Cardinality(GuardsOf(g, L, t)) + 1 ELSE Cardinality(GuardsOf(g, L, t))
  <2>1. CASE g[p] = t
    <3>1. GuardsOf(g, L \cup {p}, t) = GuardsOf(g, L, t) \cup {p} /\ p \notin GuardsOf(g, L, t)
      BY <1>2, <2>1 DEF GuardsOf
    <3> DEFINE G == GuardsOf(g, L, t)
    <3> HIDE DEF G
    <3>2. IsFiniteSet(G) /\ p \notin G
      BY <1>1, <3>1 DEF G
    <3>3. Cardinality(G \cup {p}) = Cardinality(G) + 1
      BY <3>2, FS_AddElement
    <3> QED BY <2>1, <3>1, <3>3 DEF G
  <2>2. CASE g[p] # t
    <3>1. GuardsOf(g, L \cup {p}, t) = GuardsOf(g, L, t)
      BY <2>2 DEF GuardsOf
    <3> QED BY <2>2, <3>1
  <2> QED BY <2>1, <2>2
<1> QED BY <1>1, <1>2, FS_CardinalityType, FS_EmptySet

\* What one guard does to the targets.
LEMMA GuardedFact ==
    ASSUME NEW c \in TargetContexts, NEW t \in Targets, Made(c, t)
    PROVE  LET d == Guarded(c, t)  w == c.target[t].window IN
           /\ d \in TargetContexts
           /\ \A o \in Targets \ {t} : d.target[o] = c.target[o]
           /\ d.target[t].window = w /\ d.target[t].bound = c.target[t].bound + 1 /\ d.target[t] # NoTarget
           /\ c.target[t].bound > 0 => d.target[t].previous = c.target[t].previous /\ d.current = c.current
           /\ c.target[t].bound = 0 => /\ d.target[t].previous = c.current[w]
                                       /\ d.current = [c.current EXCEPT ![w] = t]
<1> DEFINE d == Guarded(c, t)
           w == c.target[t].window
           r == c.target[t]
           r1 == [r EXCEPT !.bound = @ + 1]
           r2 == [r1 EXCEPT !.previous = c.current[w]]
<1>1. r \in TargetStates /\ w \in Wins /\ r.bound \in Nat
  BY MadeFact
<1>2. c.target \in [Targets -> TargetStates \cup {NoTarget}] /\ c.current \in [Wins -> Targets \cup {NoTarget}]
  BY DEF TargetContexts
<1>3. r1 \in TargetStates /\ r1.window = w /\ r1.bound = r.bound + 1 /\ r1.previous = r.previous
  BY <1>1 DEF TargetStates
<1>4. r2 \in TargetStates /\ r2.window = w /\ r2.bound = r.bound + 1 /\ r2.previous = c.current[w]
  BY <1>1, <1>2, <1>3 DEF TargetStates
<1>5. r1 # NoTarget /\ r2 # NoTarget
  BY <1>3, <1>4, WindowsAssumption DEF TargetStates
<1> HIDE DEF r1, r2
<1>6. CASE r.bound > 0
  <2>1. d = [c EXCEPT !.target[t] = r1]
    BY <1>6 DEF Guarded, r1
  <2>2. d \in TargetContexts /\ d.target = [c.target EXCEPT ![t] = r1] /\ d.current = c.current
    BY <1>2, <1>3, <2>1 DEF TargetContexts
  <2> HIDE DEF d
  <2> QED BY <1>1, <1>2, <1>3, <1>5, <1>6, <2>2 DEF d
<1>7. CASE r.bound = 0
  <2> DEFINE tg == [c.target EXCEPT ![t] = r1]
             k == [target |-> tg, current |-> c.current]
             cu == [c.current EXCEPT ![w] = t]
             v == c.current[w]
  <2>1. c = [target |-> c.target, current |-> c.current]
    BY DEF TargetContexts
  <2>2. [c EXCEPT !.target[t].bound = @ + 1] = k
    BY <2>1 DEF r1
  <2>3. d = [k EXCEPT !.target[t].previous = v, !.current[w] = t]
    <3>1. ~ (c.target[t].bound > 0)
      BY <1>7
    <3>2. d = [[c EXCEPT !.target[t].bound = @ + 1] EXCEPT !.target[t].previous = v, !.current[w] = t]
      BY <3>1 DEF Guarded
    <3> HIDE DEF k, tg
    <3> QED BY <2>2, <3>2
  <2>4. tg \in [Targets -> TargetStates \cup {NoTarget}] /\ tg[t] = r1
    BY <1>2, <1>3
  <2>5. [tg EXCEPT ![t] = r2] = [c.target EXCEPT ![t] = r2]
    BY <1>2, <1>3, <1>4
  <2>6. [tg EXCEPT ![t].previous = v] = [tg EXCEPT ![t] = r2]
    BY <2>4 DEF r2
  <2>7. d = [target |-> [tg EXCEPT ![t].previous = v], current |-> cu]
    <3> HIDE DEF tg, v
    <3> QED BY <2>3
  <2> HIDE DEF d, tg, k, v
  <2>8. d.target = [c.target EXCEPT ![t] = r2] /\ d.current = cu
    BY <2>5, <2>6, <2>7
  <2>9. d \in TargetContexts
    <3>1. [c.target EXCEPT ![t] = r2] \in [Targets -> TargetStates \cup {NoTarget}]
      BY <1>2, <1>4
    <3>2. cu \in [Wins -> Targets \cup {NoTarget}]
      BY <1>1, <1>2
    <3> QED BY <2>7, <2>8, <3>1, <3>2 DEF TargetContexts
  <2> QED BY <1>1, <1>2, <1>4, <1>5, <1>7, <2>8, <2>9 DEF d
<1> QED BY <1>1, <1>6, <1>7

\* What the end of one guard does.
LEMMA UnguardedFact ==
    ASSUME NEW c \in TargetContexts, NEW t \in Targets, Made(c, t), c.target[t].bound > 0
    PROVE  LET d == Unguarded(c, t)  w == c.target[t].window IN
           /\ d \in TargetContexts
           /\ \A o \in Targets \ {t} : d.target[o] = c.target[o]
           /\ d.target[t].window = w /\ d.target[t].bound = c.target[t].bound - 1 /\ d.target[t] # NoTarget
           /\ d.target[t].previous = c.target[t].previous
           /\ c.target[t].bound > 1 => d.current = c.current
           /\ ~ (c.target[t].bound > 1) => d.current = [c.current EXCEPT ![w] = c.target[t].previous]
<1> DEFINE d == Unguarded(c, t)
           w == c.target[t].window
           r == c.target[t]
           r1 == [r EXCEPT !.bound = @ - 1]
<1>1. r \in TargetStates /\ w \in Wins /\ r.bound \in Nat /\ r.previous \in Targets \cup {NoTarget}
  BY MadeFact
<1>2. c.target \in [Targets -> TargetStates \cup {NoTarget}] /\ c.current \in [Wins -> Targets \cup {NoTarget}]
  BY DEF TargetContexts
<1>3. r1 \in TargetStates /\ r1.window = w /\ r1.bound = r.bound - 1 /\ r1.previous = r.previous
  BY <1>1 DEF TargetStates
<1>4. r1 # NoTarget
  BY <1>3, WindowsAssumption DEF TargetStates
<1> HIDE DEF r1
<1>5. CASE r.bound > 1
  <2>1. d = [c EXCEPT !.target[t] = r1]
    BY <1>5 DEF Unguarded, r1
  <2>2. d \in TargetContexts /\ d.target = [c.target EXCEPT ![t] = r1] /\ d.current = c.current
    BY <1>2, <1>3, <2>1 DEF TargetContexts
  <2> HIDE DEF d
  <2> QED BY <1>1, <1>2, <1>3, <1>4, <1>5, <2>2 DEF d
<1>6. CASE ~ (r.bound > 1)
  <2> DEFINE tg == [c.target EXCEPT ![t] = r1]
             k == [target |-> tg, current |-> c.current]
             cu == [c.current EXCEPT ![w] = r.previous]
  <2>1. c = [target |-> c.target, current |-> c.current]
    BY DEF TargetContexts
  <2>2. [c EXCEPT !.target[t].bound = @ - 1] = k
    BY <2>1 DEF r1
  <2>3. d = [k EXCEPT !.current[w] = r.previous]
    BY <1>6, <2>2 DEF Unguarded, Restored
  <2>4. d = [target |-> tg, current |-> cu]
    <3> HIDE DEF tg
    <3> QED BY <2>3
  <2>5. tg \in [Targets -> TargetStates \cup {NoTarget}]
    BY <1>2, <1>3
  <2>6. cu \in [Wins -> Targets \cup {NoTarget}]
    BY <1>1, <1>2
  <2>7. d \in TargetContexts
    <3> HIDE DEF tg, cu
    <3> QED BY <2>4, <2>5, <2>6 DEF TargetContexts
  <2>8. d.target = [c.target EXCEPT ![t] = r1] /\ d.current = cu
    BY <2>4
  <2> HIDE DEF d, tg, k
  <2> QED BY <1>1, <1>2, <1>3, <1>4, <1>6, <2>7, <2>8 DEF d
<1> QED BY <1>1, <1>5, <1>6

\* Guarding at a position more, the targets count one more.
LEMMA GuardCounts ==
    ASSUME NEW c \in TargetContexts, NEW g, NEW L, IsFiniteSet(L), Counted(c, g, L),
           NEW p, p \notin L, g[p] \in Targets, Made(c, g[p])
    PROVE  /\ Counted(Guarded(c, g[p]), g, L \cup {p}) /\ SameTargets(c, Guarded(c, g[p]))
           /\ Guarded(c, g[p]) \in TargetContexts
<1> DEFINE t == g[p]
           d == Guarded(c, t)
<1>1. /\ d \in TargetContexts /\ d.target[t] # NoTarget
      /\ \A o \in Targets \ {t} : d.target[o] = c.target[o]
      /\ d.target[t].window = c.target[t].window /\ d.target[t].bound = c.target[t].bound + 1
  BY GuardedFact
<1> HIDE DEF d
<1>2. ASSUME NEW o \in Targets
      PROVE  Cardinality(GuardsOf(g, L \cup {p}, o)) =
                IF t = o THEN Cardinality(GuardsOf(g, L, o)) + 1 ELSE Cardinality(GuardsOf(g, L, o))
  BY CountFact
<1>3. \A o \in Targets \ {t} : GuardsOf(g, L \cup {p}, o) = GuardsOf(g, L, o)
  BY DEF GuardsOf
<1>4. Counted(d, g, L \cup {p})
  BY <1>1, <1>2, <1>3 DEF Counted, Made
<1>5. SameTargets(c, d)
  BY <1>1 DEF SameTargets, Made
<1> QED BY <1>1, <1>4, <1>5 DEF d

\* A guard of a position is counted, and no longer when it ends.
LEMMA UnguardCounts ==
    ASSUME NEW c \in TargetContexts, NEW g, NEW L, IsFiniteSet(L), NEW p, p \notin L,
           Counted(c, g, L \cup {p}), g[p] \in Targets
    PROVE  /\ Made(c, g[p]) /\ c.target[g[p]].bound = Cardinality(GuardsOf(g, L, g[p])) + 1
           /\ c.target[g[p]].bound > 0
           /\ Counted(Unguarded(c, g[p]), g, L) /\ SameTargets(c, Unguarded(c, g[p]))
           /\ Unguarded(c, g[p]) \in TargetContexts
<1> DEFINE t == g[p]
           d == Unguarded(c, t)
           n == Cardinality(GuardsOf(g, L, t))
<1>1. \A o \in Targets : Cardinality(GuardsOf(g, L \cup {p}, o)) =
          IF t = o THEN Cardinality(GuardsOf(g, L, o)) + 1 ELSE Cardinality(GuardsOf(g, L, o))
  BY CountFact
<1>2. Made(c, t)
  <2>1. p \in GuardsOf(g, L \cup {p}, t)
    BY DEF GuardsOf
  <2> QED BY <2>1 DEF Counted
<1>3. c.target[t].bound = n + 1 /\ n \in Nat
  BY <1>1, <1>2, CountFact DEF Counted
<1>4. c.target[t].bound > 0
  BY <1>3
<1>5. /\ d \in TargetContexts /\ d.target[t] # NoTarget
      /\ \A o \in Targets \ {t} : d.target[o] = c.target[o]
      /\ d.target[t].window = c.target[t].window /\ d.target[t].bound = c.target[t].bound - 1
  BY <1>2, <1>4, UnguardedFact
<1> HIDE DEF d
<1>6. \A o \in Targets \ {t} : GuardsOf(g, L \cup {p}, o) = GuardsOf(g, L, o)
  BY DEF GuardsOf
<1>7. Counted(d, g, L)
  <2> SUFFICES ASSUME NEW o \in Targets
               PROVE  IF Made(d, o) THEN d.target[o].bound = Cardinality(GuardsOf(g, L, o))
                      ELSE GuardsOf(g, L, o) = {}
    BY DEF Counted
  <2>1. CASE o = t
    <3>1. d.target[t].bound = n
      BY <1>3, <1>5
    <3> QED BY <1>5, <2>1, <3>1 DEF Made
  <2>2. CASE o # t
    BY <1>5, <1>6, <2>2 DEF Counted, Made
  <2> QED BY <2>1, <2>2
<1>8. SameTargets(c, d)
  BY <1>2, <1>5 DEF SameTargets, Made
<1> QED BY <1>2, <1>3, <1>4, <1>5, <1>7, <1>8 DEF d

LEMMA GuardCountsNext ==
    ASSUME NEW c \in TargetContexts, NEW g, NEW n \in Nat, Counted(c, g, 1..n),
           g[n + 1] \in Targets, Made(c, g[n + 1])
    PROVE  LET d == Guarded(c, g[n + 1]) IN
           d \in TargetContexts /\ SameTargets(c, d) /\ Counted(d, g, 1..(n + 1))
<1> DEFINE p == n + 1
           L == 1..n
<1>1. IsFiniteSet(L) /\ p \notin L /\ 1..p = L \cup {p}
  <2>1. IsFiniteSet(1..n)
    BY FS_Interval
  <2>2. p \notin L /\ 1..p = L \cup {p}
    OBVIOUS
  <2> QED BY <2>1, <2>2
<1>2. Counted(c, g, L) /\ g[p] \in Targets /\ Made(c, g[p])
  OBVIOUS
<1> HIDE DEF p, L
<1>3. /\ Counted(Guarded(c, g[p]), g, L \cup {p}) /\ SameTargets(c, Guarded(c, g[p]))
      /\ Guarded(c, g[p]) \in TargetContexts
  BY <1>1, <1>2, GuardCounts
<1> QED BY <1>1, <1>3 DEF p

LEMMA UnguardCountsLast ==
    ASSUME NEW c \in TargetContexts, NEW g, NEW n \in Nat, Counted(c, g, 1..(n + 1)), g[n + 1] \in Targets
    PROVE  LET d == Unguarded(c, g[n + 1]) IN
           /\ d \in TargetContexts /\ SameTargets(c, d) /\ Counted(d, g, 1..n)
           /\ Made(c, g[n + 1]) /\ c.target[g[n + 1]].bound > 0
           /\ c.target[g[n + 1]].bound = Cardinality(GuardsOf(g, 1..n, g[n + 1])) + 1
<1> DEFINE p == n + 1
           L == 1..n
<1>1. IsFiniteSet(L) /\ p \notin L /\ 1..p = L \cup {p}
  <2>1. IsFiniteSet(1..n)
    BY FS_Interval
  <2>2. p \notin L /\ 1..p = L \cup {p}
    OBVIOUS
  <2> QED BY <2>1, <2>2
<1>2. Counted(c, g, 1..p) /\ g[p] \in Targets
  OBVIOUS
<1> HIDE DEF p, L
<1>3. Counted(c, g, L \cup {p})
  BY <1>1, <1>2
<1>4. /\ Made(c, g[p]) /\ c.target[g[p]].bound = Cardinality(GuardsOf(g, L, g[p])) + 1
      /\ c.target[g[p]].bound > 0
      /\ Counted(Unguarded(c, g[p]), g, L) /\ SameTargets(c, Unguarded(c, g[p]))
      /\ Unguarded(c, g[p]) \in TargetContexts
  BY <1>1, <1>2, <1>3, UnguardCounts
<1> QED BY <1>4 DEF p, L

\* Counted targets are guarded exactly where the guards are.
LEMMA CountedFact ==
    ASSUME NEW c \in TargetContexts, NEW g, NEW n \in Nat, Counted(c, g, 1..n), NEW t \in Targets
    PROVE  /\ \A i \in 1..n : g[i] = t => Made(c, t)
           /\ Made(c, t) => (c.target[t].bound = 0 <=> \A i \in 1..n : g[i] # t)
<1>1. IsFiniteSet(1..n)
  BY FS_Interval
<1>2. GuardsOf(g, 1..n, t) = {} <=> \A i \in 1..n : g[i] # t
  BY DEF GuardsOf
<1>3. Cardinality(GuardsOf(g, 1..n, t)) = 0 <=> GuardsOf(g, 1..n, t) = {}
  BY <1>1, CountFact
<1> QED BY <1>2, <1>3 DEF Counted

\* Where the first guards of the targets are does not depend on how the targets are bound.
LEMMA BoundUpToSame ==
    ASSUME NEW c, NEW d, SameTargets(c, d), NEW g, NEW n \in Nat,
           \A i \in 1..n : g[i] \in Targets /\ Made(c, g[i])
    PROVE  \A m \in 0..n, w \in Wins : BoundUpTo(c, g, m, w) = BoundUpTo(d, g, m, w)
<1>1. \A i \in 1..n : c.target[g[i]].window = d.target[g[i]].window
  BY DEF SameTargets
<1> QED BY <1>1 DEF BoundUpTo

\* One guard more keeps the chain.
LEMMA GuardChains ==
    ASSUME NEW c \in TargetContexts, NEW g, NEW n \in Nat, Counted(c, g, 1..n), Chained(c, g, n),
           \A i \in 1..(n + 1) : g[i] \in Targets /\ Made(c, g[i])
    PROVE  Chained(Guarded(c, g[n + 1]), g, n + 1)
<1> DEFINE p == n + 1
           t == g[p]
           d == Guarded(c, t)
           w == c.target[t].window
<1>1. /\ p \in Nat /\ p \in 1..p /\ \A i : i \in 1..p <=> i \in 1..n \/ i = p
      /\ p \notin 1..n /\ p - 1 = n /\ \A i \in 1..n : i \in Nat /\ i <= p /\ i <= n /\ i - 1 \in 0..n
  OBVIOUS
<1> HIDE DEF p
<1>2. t \in Targets /\ Made(c, t) /\ w \in Wins /\ c.target[t].bound \in Nat
  BY <1>1, MadeFact DEF p
<1>3. /\ d \in TargetContexts
      /\ \A o \in Targets \ {t} : d.target[o] = c.target[o]
      /\ d.target[t].window = w /\ d.target[t] # NoTarget
      /\ c.target[t].bound > 0 => d.target[t].previous = c.target[t].previous /\ d.current = c.current
      /\ c.target[t].bound = 0 => /\ d.target[t].previous = c.current[w]
                                  /\ d.current = [c.current EXCEPT ![w] = t]
  BY <1>2, GuardedFact
<1> HIDE DEF d
<1>4. SameTargets(c, d)
  BY <1>2, <1>3 DEF SameTargets, Made
<1>5. c.current \in [Wins -> Targets \cup {NoTarget}]
  BY DEF TargetContexts
<1>6. \A m \in 0..n, v \in Wins : BoundUpTo(c, g, m, v) = BoundUpTo(d, g, m, v)
  <2>1. \A i \in 1..n : g[i] \in Targets /\ Made(c, g[i])
    BY <1>1 DEF p
  <2> QED BY <1>4, <2>1, BoundUpToSame
<1>7. \A x, m, v : m \in 0..n /\ v \in Wins => (BoundLast(x, c, g, m, v) <=> BoundLast(x, d, g, m, v))
  BY <1>6 DEF BoundLast
<1>8. n \in 0..n
  OBVIOUS
<1>9. \A i \in 1..n : g[i] \in Targets /\ c.target[g[i]].window \in Wins /\ c.target[g[i]].window = d.target[g[i]].window
  <2>1. \A i \in 1..n : g[i] \in Targets /\ Made(c, g[i])
    BY <1>1 DEF p
  <2> QED BY <1>4, <2>1, MadeFact DEF SameTargets
<1>10. \A i \in 1..n : IsFirst(g, i) => BoundLast(c.target[g[i]].previous, d, g, i - 1, d.target[g[i]].window)
  <2>1. \A i \in 1..n : IsFirst(g, i) => BoundLast(c.target[g[i]].previous, c, g, i - 1, c.target[g[i]].window)
    BY DEF Chained
  <2>2. \A i \in 1..n : i - 1 \in 0..n
    BY <1>1
  <2> QED BY <1>7, <1>9, <2>1, <2>2
<1>11. \A v \in Wins : BoundLast(c.current[v], d, g, n, v)
  BY <1>7, <1>8 DEF Chained
<1>12. CASE c.target[t].bound > 0
  <2>1. ~ IsFirst(g, p)
    <3>1. PICK i \in 1..n : g[i] = t
      BY <1>2, <1>12, CountedFact
    <3> QED BY <1>1, <3>1 DEF IsFirst
  <2>2. \A v \in Wins : BoundUpTo(d, g, p, v) = BoundUpTo(d, g, n, v)
    BY <1>1, <2>1 DEF BoundUpTo
  <2>3. \A v \in Wins : BoundLast(d.current[v], d, g, p, v)
    BY <1>3, <1>11, <1>12, <2>2 DEF BoundLast
  <2>4. \A i \in 1..n : d.target[g[i]].previous = c.target[g[i]].previous
    BY <1>3, <1>9, <1>12
  <2>5. \A i \in 1..p : IsFirst(g, i) => BoundLast(d.target[g[i]].previous, d, g, i - 1, d.target[g[i]].window)
    BY <1>1, <1>10, <2>1, <2>4
  <2> QED BY <2>3, <2>5 DEF Chained, p, d
<1>13. CASE c.target[t].bound = 0
  <2>1. \A i \in 1..n : g[i] # t
    BY <1>2, <1>13, CountedFact
  <2>2. IsFirst(g, p)
    BY <1>1, <2>1 DEF IsFirst
  <2>3. \A v \in Wins : BoundUpTo(d, g, p, v) = IF v = w THEN BoundUpTo(d, g, n, v) \cup {p} ELSE BoundUpTo(d, g, n, v)
    BY <1>1, <1>3, <2>2 DEF BoundUpTo
  <2>4. ASSUME NEW v \in Wins
        PROVE  BoundLast(d.current[v], d, g, p, v)
    <3>1. CASE v = w
      <4>1. d.current[v] = g[p]
        BY <1>2, <1>3, <1>5, <1>13, <3>1
      <4>2. p \in BoundUpTo(d, g, p, v) /\ \A j \in BoundUpTo(d, g, p, v) : j <= p
        BY <1>1, <2>3, <3>1 DEF BoundUpTo
      <4> QED BY <4>1, <4>2 DEF BoundLast
    <3>2. CASE v # w
      <4>1. d.current[v] = c.current[v] /\ BoundUpTo(d, g, p, v) = BoundUpTo(d, g, n, v)
        BY <1>3, <1>5, <1>13, <2>3, <3>2
      <4> QED BY <1>11, <4>1 DEF BoundLast
    <3> QED BY <3>1, <3>2
  <2>5. \A i \in 1..n : d.target[g[i]].previous = c.target[g[i]].previous
    BY <1>3, <1>9, <2>1
  <2>6. BoundLast(d.target[g[p]].previous, d, g, p - 1, d.target[g[p]].window)
    BY <1>1, <1>2, <1>3, <1>11, <1>13
  <2>7. \A i \in 1..p : IsFirst(g, i) => BoundLast(d.target[g[i]].previous, d, g, i - 1, d.target[g[i]].window)
    BY <1>1, <1>10, <2>5, <2>6
  <2> QED BY <2>4, <2>7 DEF Chained, p, d
<1> QED BY <1>2, <1>12, <1>13

\* The last guard ends: what it bound is undone.
LEMMA UnguardChains ==
    ASSUME NEW c \in TargetContexts, NEW g, NEW n \in Nat, Counted(c, g, 1..(n + 1)), Chained(c, g, n + 1),
           \A i \in 1..(n + 1) : g[i] \in Targets
    PROVE  Chained(Unguarded(c, g[n + 1]), g, n)
<1> DEFINE p == n + 1
           t == g[p]
           d == Unguarded(c, t)
           w == c.target[t].window
<1>1. /\ p \in Nat /\ p \in 1..p /\ \A i : i \in 1..p <=> i \in 1..n \/ i = p
      /\ p \notin 1..n /\ p - 1 = n /\ \A i \in 1..n : i \in Nat /\ i <= p /\ i <= n /\ i - 1 \in 0..n
      /\ 1..p = (1..n) \cup {p}
  OBVIOUS
<1>2. IsFiniteSet(1..n)
  BY FS_Interval
<1>3. Counted(c, g, 1..p) /\ Chained(c, g, p) /\ \A i \in 1..p : g[i] \in Targets /\ Made(c, g[i])
  <2>1. p \in Nat
    BY <1>1
  <2> QED BY <2>1, CountedFact
<1> HIDE DEF p
<1>4. /\ t \in Targets /\ Made(c, t) /\ w \in Wins /\ c.target[t].bound > 0
      /\ c.target[t].bound = Cardinality(GuardsOf(g, 1..n, t)) + 1
  <2>1. g[p] \in Targets /\ Made(c, g[p])
    BY <1>1, <1>3
  <2>2. /\ c.target[g[p]].bound > 0
        /\ c.target[g[p]].bound = Cardinality(GuardsOf(g, 1..n, g[p])) + 1
    BY <2>1, UnguardCountsLast DEF p
  <2> QED BY <2>1, <2>2, MadeFact
<1>5. /\ d \in TargetContexts
      /\ \A o \in Targets \ {t} : d.target[o] = c.target[o]
      /\ d.target[t].window = w /\ d.target[t] # NoTarget
      /\ d.target[t].previous = c.target[t].previous
      /\ c.target[t].bound > 1 => d.current = c.current
      /\ ~ (c.target[t].bound > 1) => d.current = [c.current EXCEPT ![w] = c.target[t].previous]
  BY <1>4, UnguardedFact
<1> HIDE DEF d
<1>6. \A m \in 0..p, v \in Wins : BoundUpTo(c, g, m, v) = BoundUpTo(d, g, m, v)
  <2>1. SameTargets(c, d)
    BY <1>4, <1>5 DEF SameTargets, Made
  <2> QED BY <1>1, <1>3, <2>1, BoundUpToSame
<1>7. \A i \in 1..p : d.target[g[i]].previous = c.target[g[i]].previous /\ d.target[g[i]].window = c.target[g[i]].window
  BY <1>3, <1>4, <1>5
<1>8. \A i \in 1..p : c.target[g[i]].window \in Wins /\ i - 1 \in 0..p /\ n \in 0..p
  BY <1>1, <1>3, MadeFact
<1>9. \A x, m, v : m \in 0..p /\ v \in Wins => (BoundLast(x, c, g, m, v) <=> BoundLast(x, d, g, m, v))
  BY <1>6 DEF BoundLast
<1>10. \A i \in 1..p : IsFirst(g, i) => BoundLast(d.target[g[i]].previous, d, g, i - 1, d.target[g[i]].window)
  <2>1. \A i \in 1..p : IsFirst(g, i) => BoundLast(c.target[g[i]].previous, c, g, i - 1, c.target[g[i]].window)
    BY <1>3 DEF Chained
  <2> QED BY <1>7, <1>8, <1>9, <2>1
<1>11. \A v \in Wins : BoundLast(c.current[v], d, g, p, v)
  <2>1. p \in 0..p
    BY <1>1
  <2> QED BY <1>3, <1>9, <2>1 DEF Chained
<1>12. c.current \in [Wins -> Targets \cup {NoTarget}]
  BY DEF TargetContexts
<1>13. CASE c.target[t].bound > 1
  <2>1. ~ IsFirst(g, p)
    <3>1. GuardsOf(g, 1..n, t) # {}
      <4>1. Cardinality(GuardsOf(g, 1..n, t)) # 0
        BY <1>4, <1>13
      <4> QED BY <1>2, <4>1, CountFact
    <3> QED BY <1>1, <3>1 DEF IsFirst, GuardsOf
  <2>2. \A v \in Wins : BoundUpTo(d, g, p, v) = BoundUpTo(d, g, n, v)
    BY <1>1, <2>1 DEF BoundUpTo
  <2>3. \A v \in Wins : BoundLast(d.current[v], d, g, n, v)
    BY <1>5, <1>11, <1>13, <2>2 DEF BoundLast
  <2> QED BY <1>1, <1>10, <2>3 DEF Chained, d, p
<1>14. CASE ~ (c.target[t].bound > 1)
  <2>1. \A i \in 1..n : g[i] # t
    <3>1. Cardinality(GuardsOf(g, 1..n, t)) \in Nat
      BY <1>2, CountFact
    <3>2. Cardinality(GuardsOf(g, 1..n, t)) = 0
      BY <1>4, <1>14, <3>1
    <3>3. GuardsOf(g, 1..n, t) = {}
      BY <1>2, <3>2, CountFact
    <3> QED BY <3>3 DEF GuardsOf
  <2>2. IsFirst(g, p)
    BY <1>1, <2>1 DEF IsFirst
  <2>3. \A v \in Wins : BoundUpTo(d, g, p, v) = IF v = w THEN BoundUpTo(d, g, n, v) \cup {p} ELSE BoundUpTo(d, g, n, v)
    BY <1>1, <1>5, <2>2 DEF BoundUpTo
  <2>4. BoundLast(c.target[t].previous, d, g, n, w)
    BY <1>1, <1>5, <1>10, <2>2
  <2>5. ASSUME NEW v \in Wins
        PROVE  BoundLast(d.current[v], d, g, n, v)
    <3>1. CASE v = w
      BY <1>4, <1>5, <1>12, <1>14, <2>4, <3>1
    <3>2. CASE v # w
      <4>1. d.current[v] = c.current[v] /\ BoundUpTo(d, g, p, v) = BoundUpTo(d, g, n, v)
        BY <1>5, <1>12, <1>14, <2>3, <3>2
      <4> QED BY <1>11, <4>1 DEF BoundLast
    <3> QED BY <3>1, <3>2
  <2> QED BY <1>1, <1>10, <2>5 DEF Chained, d, p
<1> QED BY <1>13, <1>14

GuardsUpTo(f, c, list, n) == f = [i \in 0..n |-> IF i = 0 THEN c ELSE Guarded(f[i - 1], list[i])]
UnguardsUpTo(f, c, list, n) == f = [i \in 0..n |-> IF i = 0 THEN c ELSE Unguarded(f[i - 1], list[i])]

LEMMA GuardsExist ==
    ASSUME NEW c, NEW list, NEW n \in Nat
    PROVE  \E f : GuardsUpTo(f, c, list, n)
<1> DEFINE T == {k \in Nat : ~ \E f : GuardsUpTo(f, c, list, k)}
<1>1. SUFFICES ASSUME T # {} PROVE FALSE
  OBVIOUS
<1>2. PICK k \in T : \A l \in T : k <= l
  BY <1>1, LeastFact
<1>3. k # 0
  <2>1. GuardsUpTo([i \in 0..0 |-> c], c, list, 0)
    BY DEF GuardsUpTo
  <2> QED BY <2>1, <1>2
<1>4. PICK f : GuardsUpTo(f, c, list, k - 1)
  BY <1>2, <1>3
<1> DEFINE g == [i \in 0..k |-> IF i = 0 THEN c ELSE Guarded(f[i - 1], list[i])]
<1>5. \A i \in 0..(k - 1) : g[i] = f[i]
  <2>1. k \in Nat /\ k # 0
    BY <1>2, <1>3
  <2>2. TAKE i \in 0..(k - 1)
  <2>3. i \in 0..k
    BY <2>1
  <2>4. f[i] = IF i = 0 THEN c ELSE Guarded(f[i - 1], list[i])
    BY <1>4 DEF GuardsUpTo
  <2>5. g[i] = IF i = 0 THEN c ELSE Guarded(f[i - 1], list[i])
    BY <2>3
  <2> QED BY <2>4, <2>5
<1>6. \A i \in 0..k : i # 0 => g[i - 1] = f[i - 1]
  <2>1. k \in Nat
    BY <1>2
  <2> HIDE DEF g
  <2> QED BY <1>5, <2>1
<1>7. GuardsUpTo(g, c, list, k)
  BY <1>6 DEF GuardsUpTo
<1> QED BY <1>2, <1>7

LEMMA UnguardsExist ==
    ASSUME NEW c, NEW list, NEW n \in Nat
    PROVE  \E f : UnguardsUpTo(f, c, list, n)
<1> DEFINE T == {k \in Nat : ~ \E f : UnguardsUpTo(f, c, list, k)}
<1>1. SUFFICES ASSUME T # {} PROVE FALSE
  OBVIOUS
<1>2. PICK k \in T : \A l \in T : k <= l
  BY <1>1, LeastFact
<1>3. k # 0
  <2>1. UnguardsUpTo([i \in 0..0 |-> c], c, list, 0)
    BY DEF UnguardsUpTo
  <2> QED BY <2>1, <1>2
<1>4. PICK f : UnguardsUpTo(f, c, list, k - 1)
  BY <1>2, <1>3
<1> DEFINE g == [i \in 0..k |-> IF i = 0 THEN c ELSE Unguarded(f[i - 1], list[i])]
<1>5. \A i \in 0..(k - 1) : g[i] = f[i]
  <2>1. k \in Nat /\ k # 0
    BY <1>2, <1>3
  <2>2. TAKE i \in 0..(k - 1)
  <2>3. i \in 0..k
    BY <2>1
  <2>4. f[i] = IF i = 0 THEN c ELSE Unguarded(f[i - 1], list[i])
    BY <1>4 DEF UnguardsUpTo
  <2>5. g[i] = IF i = 0 THEN c ELSE Unguarded(f[i - 1], list[i])
    BY <2>3
  <2> QED BY <2>4, <2>5
<1>6. \A i \in 0..k : i # 0 => g[i - 1] = f[i - 1]
  <2>1. k \in Nat
    BY <1>2
  <2> HIDE DEF g
  <2> QED BY <1>5, <2>1
<1>7. UnguardsUpTo(g, c, list, k)
  BY <1>6 DEF UnguardsUpTo
<1> QED BY <1>2, <1>7

LEMMA IntervalNext ==
    ASSUME NEW m \in Nat
    PROVE  m + 1 \notin 1..m /\ 1..(m + 1) = (1..m) \cup {m + 1} /\ m + 1 \in 1..(m + 1)
OBVIOUS

\* The targets of a list are guarded in turn, from the position n on.
LEMMA AllGuardedFact ==
    ASSUME NEW c \in TargetContexts, NEW g, NEW n \in Nat, NEW list, Len(list) \in Nat,
           Counted(c, g, 1..n),
           \A i \in 1..Len(list) : g[n + i] = list[i] /\ list[i] \in Targets /\ Made(c, list[i]),
           \A i \in 1..n : g[i] \in Targets
    PROVE  LET d == AllGuarded(c, list) IN
           /\ d \in TargetContexts /\ SameTargets(c, d) /\ Counted(d, g, 1..(n + Len(list)))
           /\ Chained(c, g, n) => Chained(d, g, n + Len(list))
<1> DEFINE l == Len(list)
           f == GuardedUpTo(c, list)
           good(i) == /\ f[i] \in TargetContexts /\ SameTargets(c, f[i]) /\ Counted(f[i], g, 1..(n + i))
                      /\ Chained(c, g, n) => Chained(f[i], g, n + i)
           T == {i \in Nat : i <= l /\ ~ good(i)}
<1>1. l \in Nat
  OBVIOUS
<1>2. f = CHOOSE h : GuardsUpTo(h, c, list, l)
  BY DEF GuardedUpTo, GuardsUpTo
<1>3. GuardsUpTo(f, c, list, l)
  BY <1>1, <1>2, GuardsExist
<1>4. AllGuarded(c, list) = f[l]
  BY DEF AllGuarded
<1> HIDE DEF f
<1>5. \A i \in 0..l : f[i] = IF i = 0 THEN c ELSE Guarded(f[i - 1], list[i])
  BY <1>3 DEF GuardsUpTo
<1> HIDE DEF l
<1>6. SUFFICES ASSUME T # {} PROVE FALSE
  BY <1>1, <1>4 DEF l
<1>7. PICK k \in T : \A j \in T : k <= j
  BY <1>6, LeastFact
<1>8. k \in Nat /\ k <= l /\ ~ good(k)
  BY <1>7
<1>9. k # 0
  <2>1. good(0)
    <3>1. f[0] = c /\ n + 0 = n
      BY <1>1, <1>5
    <3> QED BY <3>1 DEF SameTargets
  <2> QED BY <1>8, <2>1
<1>10. k \in 1..l /\ k - 1 \in Nat /\ k - 1 <= l /\ k \in 0..l /\ ~ (k <= k - 1)
  BY <1>1, <1>8, <1>9
<1>11. good(k - 1)
  <2>1. k - 1 \notin T
    BY <1>7, <1>10
  <2> QED BY <1>10, <2>1
<1> DEFINE e == f[k - 1]
           m == n + (k - 1)
           p == m + 1
<1>12. /\ f[k] = Guarded(e, list[k]) /\ list[k] = g[p] /\ p = n + k /\ m \in Nat
       /\ p \notin 1..m /\ 1..(n + k) = (1..m) \cup {p}
       /\ \A i \in 1..p : i \in 1..n \/ \E j \in 1..l : i = n + j
  <2>0. p = n + k /\ m \in Nat
    BY <1>10
  <2>1. p \notin 1..m /\ 1..(n + k) = (1..m) \cup {p}
    <3>1. p \notin 1..m /\ 1..p = (1..m) \cup {p}
      <4> HIDE DEF m
      <4> QED BY <2>0, IntervalNext
    <3> HIDE DEF p
    <3> QED BY <2>0, <3>1
  <2>2. \A i \in 1..p : i \in 1..n \/ (i - n \in 1..l /\ i = n + (i - n))
    BY <1>1, <1>10
  <2>3. g[n + k] = list[k]
    BY <1>10 DEF l
  <2> QED BY <1>5, <1>9, <1>10, <2>0, <2>1, <2>2, <2>3
<1>13. e \in TargetContexts /\ SameTargets(c, e) /\ Counted(e, g, 1..m) /\ (Chained(c, g, n) => Chained(e, g, m))
  BY <1>11
<1> HIDE DEF e, m
<1>14. \A i \in 1..p : g[i] \in Targets /\ Made(e, g[i])
  <2>1. \A i \in 1..n : g[i] \in Targets /\ Made(c, g[i])
    BY CountedFact
  <2>2. \A j \in 1..l : g[n + j] \in Targets /\ Made(c, g[n + j])
    BY DEF l
  <2> QED BY <1>12, <1>13, <2>1, <2>2 DEF SameTargets
<1>15. p \in 1..p
  BY <1>12
<1>16. Counted(f[k], g, 1..(n + k)) /\ SameTargets(e, f[k]) /\ f[k] \in TargetContexts
  <2>1. g[p] \in Targets /\ Made(e, g[p])
    BY <1>14, <1>15
  <2> QED BY <1>12, <1>13, <2>1, GuardCountsNext
<1>17. Chained(c, g, n) => Chained(f[k], g, n + k)
  <2>1. /\ e \in TargetContexts /\ m \in Nat /\ Counted(e, g, 1..m)
        /\ \A i \in 1..(m + 1) : g[i] \in Targets /\ Made(e, g[i])
    BY <1>12, <1>13, <1>14
  <2>2. Chained(e, g, m) => Chained(Guarded(e, g[m + 1]), g, m + 1)
    BY <2>1, GuardChains
  <2>3. f[k] = Guarded(e, g[m + 1]) /\ m + 1 = n + k
    BY <1>12
  <2> QED BY <1>13, <2>2, <2>3
<1>18. SameTargets(c, f[k])
  BY <1>13, <1>16 DEF SameTargets
<1> QED BY <1>8, <1>12, <1>16, <1>17, <1>18

\* Their guards end the other way round: everything is as it was.
LEMMA AllUnguardedBack ==
    ASSUME NEW c \in TargetContexts, NEW g, NEW n \in Nat, NEW list, Len(list) \in Nat,
           Counted(c, g, 1..(n + Len(list))),
           \A i \in 1..Len(list) : list[i] = g[n + Len(list) + 1 - i],
           \A i \in 1..(n + Len(list)) : g[i] \in Targets
    PROVE  LET d == AllUnguarded(c, list) IN
           /\ d \in TargetContexts /\ SameTargets(c, d) /\ Counted(d, g, 1..n)
           /\ Chained(c, g, n + Len(list)) => Chained(d, g, n)
<1> DEFINE l == Len(list)
           f == UnguardedUpTo(c, list)
           good(i) == /\ f[i] \in TargetContexts /\ SameTargets(c, f[i]) /\ Counted(f[i], g, 1..(n + l - i))
                      /\ Chained(c, g, n + l) => Chained(f[i], g, n + l - i)
           T == {i \in Nat : i <= l /\ ~ good(i)}
<1>1. l \in Nat
  OBVIOUS
<1>2. f = CHOOSE h : UnguardsUpTo(h, c, list, l)
  BY DEF UnguardedUpTo, UnguardsUpTo
<1>3. UnguardsUpTo(f, c, list, l)
  BY <1>1, <1>2, UnguardsExist
<1>4. AllUnguarded(c, list) = f[l] /\ n + l - l = n
  BY <1>1 DEF AllUnguarded
<1> HIDE DEF f
<1>5. \A i \in 0..l : f[i] = IF i = 0 THEN c ELSE Unguarded(f[i - 1], list[i])
  BY <1>3 DEF UnguardsUpTo
<1> HIDE DEF l
<1>6. SUFFICES ASSUME T # {} PROVE FALSE
  <2>1. T = {} => good(l)
    BY <1>1
  <2> HIDE DEF T
  <2> QED BY <1>1, <1>4, <2>1 DEF l
<1>7. PICK k \in T : \A j \in T : k <= j
  BY <1>6, LeastFact
<1>8. k \in Nat /\ k <= l /\ ~ good(k)
  BY <1>7
<1>9. k # 0
  <2>1. good(0)
    <3>1. f[0] = c /\ n + l - 0 = n + l
      BY <1>1, <1>5
    <3> QED BY <3>1 DEF SameTargets, l
  <2> QED BY <1>8, <2>1
<1>10. k \in 1..l /\ k - 1 \in Nat /\ k - 1 <= l /\ k \in 0..l /\ ~ (k <= k - 1)
  BY <1>1, <1>8, <1>9
<1>11. good(k - 1)
  <2>1. k - 1 \notin T
    BY <1>7, <1>10
  <2> QED BY <1>10, <2>1
<1> DEFINE e == f[k - 1]
           m == n + l - k
           p == m + 1
<1>12. /\ f[k] = Unguarded(e, list[k]) /\ list[k] = g[p] /\ m \in Nat
       /\ p \notin 1..m /\ 1..p = (1..m) \cup {p} /\ n + l - (k - 1) = p
       /\ p \in 1..p /\ \A i \in 1..p : i \in 1..(n + l)
  <2>0. m \in Nat /\ n + l - (k - 1) = p
    BY <1>1, <1>10
  <2>1. p \notin 1..m /\ 1..p = (1..m) \cup {p} /\ p \in 1..p
    <3> HIDE DEF m
    <3> QED BY <2>0, IntervalNext
  <2>2. \A i \in 1..p : i \in 1..(n + l)
    <3>1. p \in Nat /\ p <= n + l /\ n + l \in Nat
      BY <1>1, <1>10
    <3> HIDE DEF p
    <3> QED BY <3>1
  <2>3. list[k] = g[n + l + 1 - k] /\ n + l + 1 - k = p
    BY <1>1, <1>10 DEF l
  <2> QED BY <1>5, <1>9, <1>10, <2>0, <2>1, <2>2, <2>3
<1>13. e \in TargetContexts /\ SameTargets(c, e) /\ Counted(e, g, 1..p) /\ (Chained(c, g, n + l) => Chained(e, g, p))
  BY <1>11, <1>12
<1> HIDE DEF e, m
<1>14. \A i \in 1..p : g[i] \in Targets
  BY <1>12 DEF l
<1>16. /\ Counted(f[k], g, 1..m) /\ SameTargets(e, f[k]) /\ f[k] \in TargetContexts
  <2>1. g[p] \in Targets
    BY <1>12, <1>14
  <2> QED BY <1>12, <1>13, <2>1, UnguardCountsLast
<1>17. Chained(c, g, n + l) => Chained(f[k], g, m)
  <2>1. e \in TargetContexts /\ Counted(e, g, 1..(m + 1)) /\ (\A i \in 1..(m + 1) : g[i] \in Targets) /\ m \in Nat
    BY <1>12, <1>13, <1>14
  <2>2. Chained(e, g, m + 1) => Chained(Unguarded(e, g[m + 1]), g, m)
    BY <2>1, UnguardChains
  <2>3. f[k] = Unguarded(e, g[m + 1])
    BY <1>12
  <2> QED BY <1>13, <2>2, <2>3
<1>18. SameTargets(c, f[k])
  BY <1>13, <1>16 DEF SameTargets
<1> QED BY <1>8, <1>16, <1>17, <1>18 DEF m

\* Or in the order they began: they are counted, whatever is drawn into.
LEMMA AllUnguardedFact ==
    ASSUME NEW c \in TargetContexts, NEW g, NEW n \in Nat, NEW list, Len(list) \in Nat,
           Counted(c, g, 1..(n + Len(list))),
           \A i \in 1..Len(list) : list[i] = g[n + i] /\ list[i] \in Targets
    PROVE  LET d == AllUnguarded(c, list) IN
           d \in TargetContexts /\ SameTargets(c, d) /\ Counted(d, g, 1..n)
<1> DEFINE l == Len(list)
           f == UnguardedUpTo(c, list)
           L(i) == (1..n) \cup ((n + i + 1)..(n + l))
           good(i) == f[i] \in TargetContexts /\ SameTargets(c, f[i]) /\ Counted(f[i], g, L(i))
           T == {i \in Nat : i <= l /\ ~ good(i)}
<1>1. l \in Nat
  OBVIOUS
<1>2. f = CHOOSE h : UnguardsUpTo(h, c, list, l)
  BY DEF UnguardedUpTo, UnguardsUpTo
<1>3. UnguardsUpTo(f, c, list, l)
  BY <1>1, <1>2, UnguardsExist
<1>4. AllUnguarded(c, list) = f[l] /\ L(l) = 1..n /\ L(0) = 1..(n + l)
  BY <1>1 DEF AllUnguarded
<1> HIDE DEF f
<1>5. \A i \in 0..l : f[i] = IF i = 0 THEN c ELSE Unguarded(f[i - 1], list[i])
  BY <1>3 DEF UnguardsUpTo
<1> HIDE DEF l
<1>6. SUFFICES ASSUME T # {} PROVE FALSE
  <2>1. T = {} => good(l)
    <3> HIDE DEF L
    <3> QED BY <1>1
  <2> HIDE DEF T, L
  <2> QED BY <1>1, <1>4, <2>1 DEF l
<1>7. PICK k \in T : \A j \in T : k <= j
  BY <1>6, LeastFact
<1>8. k \in Nat /\ k <= l /\ ~ good(k)
  BY <1>7
<1>9. k # 0
  <2>1. good(0)
    <3> HIDE DEF L
    <3> HIDE DEF T, good
    <3>1. f[0] = c
      <4>1. 0 \in 0..l
        BY <1>1
      <4> QED BY <1>5, <4>1
    <3>2. Counted(c, g, L(0))
      BY <1>4 DEF l
    <3> QED BY <3>1, <3>2 DEF SameTargets, good
  <2> QED BY <1>8, <2>1
<1>10. k \in 1..l /\ k - 1 \in Nat /\ k - 1 <= l /\ k \in 0..l /\ ~ (k <= k - 1)
  BY <1>1, <1>8, <1>9
<1>11. good(k - 1)
  <2>1. k - 1 \notin T
    BY <1>7, <1>10
  <2> QED BY <1>10, <2>1
<1> DEFINE e == f[k - 1]
           p == n + k
<1>12. f[k] = Unguarded(e, list[k]) /\ list[k] = g[p] /\ p \notin L(k) /\ L(k - 1) = L(k) \cup {p} /\ g[p] \in Targets
  <2>1. p \notin L(k) /\ L(k - 1) = L(k) \cup {p}
    <3> DEFINE a == n + k + 1
               b == n + l
    <3>1. n + (k - 1) + 1 = p /\ a = p + 1 /\ p \in Nat /\ b \in Nat /\ p <= b /\ p > n
      BY <1>1, <1>10
    <3>2. L(k) = (1..n) \cup (a..b) /\ L(k - 1) = (1..n) \cup (p..b)
      BY <3>1
    <3> HIDE DEF L, p, a, b
    <3>3. p \notin 1..n /\ p \notin a..b /\ p..b = (a..b) \cup {p}
      BY <3>1
    <3> QED BY <3>2, <3>3
  <2>2. list[k] = g[p] /\ g[p] \in Targets
    BY <1>10 DEF l
  <2> QED BY <1>5, <1>9, <1>10, <2>1, <2>2
<1>13. IsFiniteSet(L(k))
  <2> DEFINE a == n + k + 1
             b == n + l
  <2>1. a \in Int /\ b \in Int
    BY <1>1, <1>10
  <2> HIDE DEF a, b
  <2>2. IsFiniteSet(a..b)
    BY <2>1, FS_Interval
  <2>3. IsFiniteSet(1..n)
    BY FS_Interval
  <2>4. IsFiniteSet((1..n) \cup (a..b))
    BY <2>2, <2>3, FS_Union
  <2> QED BY <2>4 DEF a, b
<1>14. e \in TargetContexts /\ SameTargets(c, e) /\ Counted(e, g, L(k) \cup {p})
  BY <1>11, <1>12
<1> HIDE DEF e, p, L
<1>15. Counted(f[k], g, L(k)) /\ SameTargets(e, f[k]) /\ f[k] \in TargetContexts
  BY <1>12, <1>13, <1>14, UnguardCounts
<1>16. SameTargets(c, f[k])
  BY <1>14, <1>15 DEF SameTargets
<1> QED BY <1>8, <1>15, <1>16

\* Only the guards that are alive matter.
LEMMA AgreeFact ==
    ASSUME NEW c, NEW g, NEW h, NEW n \in Nat, \A i \in 1..n : g[i] = h[i]
    PROVE  /\ Counted(c, g, 1..n) => Counted(c, h, 1..n)
           /\ Chained(c, g, n) => Chained(c, h, n)
<1>1. \A t : GuardsOf(g, 1..n, t) = GuardsOf(h, 1..n, t)
  BY DEF GuardsOf
<1>2. \A i \in 1..n : IsFirst(g, i) <=> IsFirst(h, i)
  <2> SUFFICES ASSUME NEW i \in 1..n PROVE IsFirst(g, i) <=> IsFirst(h, i)
    OBVIOUS
  <2>1. \A j \in 1..(i - 1) : j \in 1..n
    OBVIOUS
  <2> QED BY <2>1 DEF IsFirst
<1>3. \A m \in 0..n : \A w : BoundUpTo(c, g, m, w) = BoundUpTo(c, h, m, w)
  <2> SUFFICES ASSUME NEW m \in 0..n, NEW w PROVE BoundUpTo(c, g, m, w) = BoundUpTo(c, h, m, w)
    OBVIOUS
  <2>1. \A i \in 1..m : i \in 1..n
    OBVIOUS
  <2> QED BY <1>2, <2>1 DEF BoundUpTo
<1>4. \A m \in 0..n : \A w, x : BoundLast(x, c, g, m, w) => BoundLast(x, c, h, m, w)
  <2> SUFFICES ASSUME NEW m \in 0..n, NEW w, NEW x, BoundLast(x, c, g, m, w)
               PROVE  BoundLast(x, c, h, m, w)
    OBVIOUS
  <2>1. \A i \in BoundUpTo(c, h, m, w) : g[i] = h[i]
    <3>1. \A i \in 1..m : i \in 1..n
      OBVIOUS
    <3> QED BY <3>1 DEF BoundUpTo
  <2> QED BY <1>3, <2>1 DEF BoundLast
<1>5. n \in 0..n /\ \A i \in 1..n : i - 1 \in 0..n
  OBVIOUS
<1>6. Chained(c, g, n) => Chained(c, h, n)
  BY <1>2, <1>4, <1>5 DEF Chained
<1> QED BY <1>1, <1>6 DEF Counted

\* A target that nothing guards is made, dropped, or remembers something else.
LEMMA OtherTargetsKeep ==
    ASSUME NEW c \in TargetContexts, NEW d \in TargetContexts, d.current = c.current,
           NEW t \in Targets, \A o \in Targets \ {t} : d.target[o] = c.target[o],
           Made(d, t) => d.target[t].bound = 0,
           NEW g, NEW n \in Nat, \A i \in 1..n : g[i] \in Targets /\ g[i] # t, Counted(c, g, 1..n)
    PROVE  Counted(d, g, 1..n) /\ (Chained(c, g, n) => Chained(d, g, n))
<1>2. GuardsOf(g, 1..n, t) = {}
  BY DEF GuardsOf
<1>3. Cardinality(GuardsOf(g, 1..n, t)) = 0
  BY <1>2, FS_EmptySet
<1>4. Counted(d, g, 1..n)
  <2>1. \A o \in Targets \ {t} : Made(d, o) <=> Made(c, o)
    BY DEF Made
  <2> QED BY <1>2, <1>3, <2>1 DEF Counted
<1>5. \A i \in 1..n : d.target[g[i]] = c.target[g[i]]
  OBVIOUS
<1>6. \A m \in 0..n : \A w : BoundUpTo(c, g, m, w) = BoundUpTo(d, g, m, w)
  <2> SUFFICES ASSUME NEW m \in 0..n, NEW w PROVE BoundUpTo(c, g, m, w) = BoundUpTo(d, g, m, w)
    OBVIOUS
  <2>1. \A i \in 1..m : i \in 1..n
    OBVIOUS
  <2> QED BY <1>5, <2>1 DEF BoundUpTo
<1>7. n \in 0..n /\ \A i \in 1..n : i - 1 \in 0..n
  OBVIOUS
<1>8. \A m \in 0..n : \A w, x : BoundLast(x, c, g, m, w) => BoundLast(x, d, g, m, w)
  BY <1>6 DEF BoundLast
<1>9. Chained(c, g, n) => Chained(d, g, n)
  BY <1>5, <1>7, <1>8 DEF Chained
<1> QED BY <1>4, <1>9

TargetsKept(c, g, x) ==
    c \in TargetContexts /\ Counted(c, g, 1..Len(g)) /\ (~ x => Chained(c, g, Len(g)))

WindowsTyped ==
    /\ counter \in Nat /\ sdlUp \in BOOLEAN /\ crossed \in BOOLEAN
    /\ open \in [Wins -> {"no", "renderer", "bare"}]
    /\ proxies \in Seq(Seq(Targets))

WindowsKnown ==
    WindowsTyped /\ SDLIsUp /\ SavesAreTheirOwn /\ TargetsKept(Now, FlattenSeq(proxies), crossed)

LEMMA OpenFact == IsFiniteSet(Open) /\ Cardinality(Open) \in Nat
<1>1. Open \subseteq Wins
  BY DEF Open
<1> QED BY <1>1, WindowsAssumption, FS_Subset, FS_CardinalityType

LEMMA WindowsStart ==
    ASSUME WindowsInit
    PROVE  WindowsKnown
<1>1. Open = {}
  BY DEF WindowsInit, Open
<1>2. SDLIsUp /\ SavesAreTheirOwn
  BY <1>1, FS_EmptySet DEF WindowsInit, SDLIsUp, SavesAreTheirOwn
<1>3. Now \in TargetContexts
  BY DEF WindowsInit, Now, TargetContexts
<1>4. FlattenSeq(proxies) = <<>> /\ proxies \in Seq(Seq(Targets)) /\ Len(<<>>) = 0
  BY FlattenEmpty, EmptySeq DEF WindowsInit
<1>5. Counted(Now, <<>>, 1..0)
  BY DEF WindowsInit, Now, Made, Counted, GuardsOf
<1>6. Chained(Now, <<>>, 0)
  BY DEF WindowsInit, Now, Chained, BoundLast, BoundUpTo
<1>7. WindowsTyped
  BY <1>4 DEF WindowsInit, WindowsTyped
<1> QED BY <1>2, <1>3, <1>4, <1>5, <1>6, <1>7 DEF WindowsKnown, TargetsKept

\* The guards that are alive.
LEMMA GuardsAre ==
    ASSUME WindowsKnown
    PROVE  LET g == FlattenSeq(proxies) IN
           /\ g \in Seq(Targets) /\ Len(g) \in Nat /\ DOMAIN g = 1..Len(g)
           /\ \A i \in 1..Len(g) : g[i] \in Targets /\ Made(Now, g[i])
           /\ Now \in TargetContexts /\ Counted(Now, g, 1..Len(g))
           /\ ~ crossed => Chained(Now, g, Len(g))
<1> DEFINE g == FlattenSeq(proxies)
<1>1. g \in Seq(Targets)
  BY FlattenType DEF WindowsKnown, WindowsTyped
<1>2. Now \in TargetContexts /\ Counted(Now, g, 1..Len(g)) /\ (~ crossed => Chained(Now, g, Len(g)))
  BY DEF WindowsKnown, TargetsKept
<1> HIDE DEF g
<1>3. Len(g) \in Nat /\ DOMAIN g = 1..Len(g) /\ \A i \in 1..Len(g) : g[i] \in Targets
  BY <1>1
<1>4. \A i \in 1..Len(g) : Made(Now, g[i])
  BY <1>2, <1>3, CountedFact
<1> QED BY <1>1, <1>2, <1>3, <1>4 DEF g

\* The steps that only open and close windows.
LEMMA CreatingKeepsKnown ==
    ASSUME WindowsKnown,
           (\E w \in Wins : CreateWindow(w)) \/ InitFails \/ CreateFails \/ RendererFails
    PROVE  WindowsKnown'
<1>1. UNCHANGED <<target, current, proxies, crossed, saved>>
  BY DEF CreateWindow, InitFails, CreateFails, RendererFails
<1>2. TargetsKept(Now, FlattenSeq(proxies), crossed)' /\ SavesAreTheirOwn'
  BY <1>1 DEF WindowsKnown, SavesAreTheirOwn, Now
<1>3. WindowsTyped /\ SDLIsUp
  BY DEF WindowsKnown
<1>4. WindowsTyped' /\ SDLIsUp'
  <2>1. ASSUME NEW w \in Wins, CreateWindow(w)
        PROVE  WindowsTyped' /\ SDLIsUp'
    <3>1. Open' = Open \cup {w} /\ w \notin Open
      BY <1>3, <2>1 DEF CreateWindow, Open, WindowsTyped
    <3>2. Cardinality(Open') = Cardinality(Open) + 1
      BY <3>1, OpenFact, FS_AddElement
    <3>3. counter' = counter + 1 /\ sdlUp' = TRUE
      BY <2>1 DEF CreateWindow
    <3>4. SDLIsUp'
      <4>1. counter \in Nat /\ counter >= Cardinality(Open)
        BY <1>3 DEF WindowsTyped, SDLIsUp
      <4>2. counter' >= Cardinality(Open') /\ counter' > 0
        BY <3>2, <3>3, <4>1, OpenFact
      <4> QED BY <3>3, <4>2 DEF SDLIsUp
    <3>5. WindowsTyped'
      BY <1>1, <1>3, <2>1, <3>3 DEF WindowsTyped, CreateWindow
    <3> QED BY <3>4, <3>5
  <2>2. CASE InitFails \/ CreateFails \/ RendererFails
    <3>1. open' = open
      BY <2>2 DEF InitFails, CreateFails, RendererFails
    <3>2. Open' = Open
      BY <3>1 DEF Open
    <3>3. counter \in Nat /\ counter >= Cardinality(Open) /\ (sdlUp <=> counter > 0)
      BY <1>3 DEF WindowsTyped, SDLIsUp
    <3>4. counter' \in Nat /\ counter' >= Cardinality(Open) /\ (sdlUp' <=> counter' > 0) /\ sdlUp' \in BOOLEAN
      <4>1. Cardinality(Open) \in Nat
        BY OpenFact
      <4>2. CASE InitFails
        <5>1. counter' = 0 /\ counter = 0 /\ sdlUp' = FALSE
          BY <4>2 DEF InitFails
        <5>2. counter' \in Nat /\ counter' >= Cardinality(Open) /\ ~ (counter' > 0)
          BY <3>3, <4>1, <5>1
        <5> QED BY <5>1, <5>2, Zenon
      <4>3. CASE CreateFails
        BY <3>3, <4>1, <4>3 DEF CreateFails
      <4>4. CASE RendererFails
        <5>1. counter' = counter
          BY <4>4 DEF RendererFails
        <5>2. sdlUp' = (counter > 0)
          BY <4>4 DEF RendererFails
        <5>3. counter' \in Nat /\ counter' >= Cardinality(Open)
          BY <3>3, <4>1, <5>1
        <5>4. (sdlUp' <=> counter' > 0) /\ sdlUp' \in BOOLEAN
          <6> DEFINE up == counter > 0
          <6>1. (up <=> counter' > 0) /\ sdlUp' = up /\ up \in BOOLEAN
            BY <5>1, <5>2
          <6> HIDE DEF up
          <6> QED BY <6>1, Zenon
        <5> QED BY <5>3, <5>4
      <4> QED BY <2>2, <4>2, <4>3, <4>4
    <3> QED BY <1>1, <1>3, <3>1, <3>2, <3>4 DEF WindowsTyped, SDLIsUp
  <2> QED BY <2>1, <2>2
<1> QED BY <1>2, <1>4 DEF WindowsKnown

LEMMA DestroyWindowKeepsKnown ==
    ASSUME WindowsKnown, NEW w \in Wins, DestroyWindow(w)
    PROVE  WindowsKnown'
<1> DEFINE g == FlattenSeq(proxies)
           n == Len(g)
           c == Now
           d == Now'
<1>1. WindowsTyped /\ SDLIsUp
  BY DEF WindowsKnown
<1>2. /\ open[w] # "no" /\ open' = [open EXCEPT ![w] = "no"]
      /\ \A t \in Targets : target[t] # NoTarget => target[t].window # w
      /\ counter' = counter - 1 /\ sdlUp' = (counter > 1)
      /\ current' = [current EXCEPT ![w] = NoTarget]
      /\ UNCHANGED <<target, proxies, crossed, saved>>
  BY DEF DestroyWindow, CountDown
<1>3. WindowsTyped' /\ SDLIsUp'
  <2>1. w \in Open /\ Open' = Open \ {w}
    BY <1>1, <1>2 DEF Open, WindowsTyped
  <2>2. Cardinality(Open') = Cardinality(Open) - 1
    BY <2>1, OpenFact, FS_RemoveElement
  <2>3. Cardinality(Open) # 0
    BY <2>1, OpenFact, FS_EmptySet
  <2>4. counter \in Nat /\ counter >= Cardinality(Open)
    BY <1>1 DEF WindowsTyped, SDLIsUp
  <2>5. counter' \in Nat /\ counter' >= Cardinality(Open') /\ (counter > 1 <=> counter' > 0)
    <3>1. counter' = counter - 1 /\ Cardinality(Open) \in Nat
      BY <1>2, OpenFact
    <3> QED BY <2>2, <2>3, <2>4, <3>1
  <2>6. sdlUp' = (counter > 1)
    BY <1>2
  <2>7. (sdlUp' <=> counter' > 0) /\ sdlUp' \in BOOLEAN
    <3> DEFINE up == counter > 1
    <3>1. (up <=> counter' > 0) /\ sdlUp' = up /\ up \in BOOLEAN
      BY <2>5, <2>6
    <3> HIDE DEF up
    <3> QED BY <3>1, Zenon
  <2> QED BY <1>1, <1>2, <2>5, <2>7 DEF WindowsTyped, SDLIsUp
<1>4. /\ n \in Nat /\ \A i \in 1..n : g[i] \in Targets /\ Made(c, g[i])
      /\ c \in TargetContexts /\ Counted(c, g, 1..n) /\ (~ crossed => Chained(c, g, n))
  BY GuardsAre
<1>5. /\ d.target = c.target /\ d.current = [c.current EXCEPT ![w] = NoTarget]
      /\ d = [target |-> d.target, current |-> d.current]
      /\ \A t \in Targets : Made(c, t) => c.target[t].window # w
  BY <1>2 DEF Now, Made
<1> HIDE DEF c, d, g, n
<1>6. d \in TargetContexts /\ c.current \in [Wins -> Targets \cup {NoTarget}]
  <2>1. c.target \in [Targets -> TargetStates \cup {NoTarget}] /\ c.current \in [Wins -> Targets \cup {NoTarget}]
    BY <1>4 DEF TargetContexts
  <2>2. d.current \in [Wins -> Targets \cup {NoTarget}]
    BY <1>5, <2>1
  <2> QED BY <1>5, <2>1, <2>2 DEF TargetContexts
<1>7. Counted(d, g, 1..n)
  BY <1>4, <1>5 DEF Counted, Made
<1>8. ~ crossed => Chained(d, g, n)
  <2> SUFFICES ASSUME ~ crossed PROVE Chained(d, g, n)
    OBVIOUS
  <2>1. \A m, v : BoundUpTo(d, g, m, v) = BoundUpTo(c, g, m, v)
    BY <1>5 DEF BoundUpTo
  <2>2. \A x, m, v : BoundLast(x, c, g, m, v) => BoundLast(x, d, g, m, v)
    BY <2>1 DEF BoundLast
  <2>3. BoundUpTo(d, g, n, w) = {}
    BY <1>4, <1>5, <2>1 DEF BoundUpTo
  <2>4. d.current[w] = NoTarget /\ \A v \in Wins \ {w} : d.current[v] = c.current[v]
    BY <1>5, <1>6
  <2>5. BoundLast(d.current[w], d, g, n, w)
    BY <2>3, <2>4 DEF BoundLast
  <2>6. \A v \in Wins : BoundLast(d.current[v], d, g, n, v)
    BY <1>4, <2>2, <2>4, <2>5 DEF Chained
  <2> QED BY <1>4, <1>5, <2>2, <2>6 DEF Chained
<1>9. TargetsKept(Now', FlattenSeq(proxies'), crossed')
  BY <1>2, <1>6, <1>7, <1>8 DEF TargetsKept, d, g, n
<1>10. SavesAreTheirOwn'
  BY <1>2 DEF WindowsKnown, SavesAreTheirOwn
<1> QED BY <1>3, <1>9, <1>10 DEF WindowsKnown

\* A step of the targets leaves the rest as it was.
LEMMA TargetsKeepKnown ==
    ASSUME WindowsKnown, UNCHANGED <<counter, sdlUp, open>>, crossed' \in BOOLEAN,
           proxies' \in Seq(Seq(Targets)), SavesAreTheirOwn', TargetsKept(Now', FlattenSeq(proxies'), crossed')
    PROVE  WindowsKnown'
<1>1. WindowsTyped' /\ SDLIsUp'
  BY DEF WindowsKnown, WindowsTyped, SDLIsUp, Open
<1> QED BY <1>1 DEF WindowsKnown

LEMMA NewTargetKeepsKnown ==
    ASSUME WindowsKnown, NEW t \in Targets, NEW w \in Wins, NewTarget(t, w) \/ DropTarget(t)
    PROVE  WindowsKnown'
<1> DEFINE g == FlattenSeq(proxies)
           n == Len(g)
           c == Now
           d == Now'
           r == [window |-> w, bound |-> 0, previous |-> NoTarget]
           v == IF NewTarget(t, w) THEN r ELSE NoTarget
<1>1. /\ target' = [target EXCEPT ![t] = v]
      /\ target[t] = NoTarget \/ target[t].bound = 0
      /\ UNCHANGED <<counter, sdlUp, open, current, proxies, crossed, saved>>
  BY DEF NewTarget, DropTarget
<1>2. /\ n \in Nat /\ \A i \in 1..n : g[i] \in Targets /\ Made(c, g[i])
      /\ c \in TargetContexts /\ Counted(c, g, 1..n) /\ (~ crossed => Chained(c, g, n))
  BY GuardsAre
<1>3. v \in TargetStates \cup {NoTarget} /\ (v # NoTarget => v.bound = 0)
  BY DEF TargetStates
<1> HIDE DEF v
<1>4. /\ d.target = [c.target EXCEPT ![t] = v] /\ d.current = c.current
      /\ d = [target |-> d.target, current |-> d.current]
      /\ Made(c, t) => c.target[t].bound = 0
  BY <1>1 DEF Now, Made
<1> HIDE DEF c, d, g, n
<1>5. /\ d \in TargetContexts /\ \A o \in Targets \ {t} : d.target[o] = c.target[o]
      /\ Made(d, t) => d.target[t].bound = 0
  <2>1. c.target \in [Targets -> TargetStates \cup {NoTarget}] /\ c.current \in [Wins -> Targets \cup {NoTarget}]
    BY <1>2 DEF TargetContexts
  <2>2. d.target \in [Targets -> TargetStates \cup {NoTarget}] /\ d.target[t] = v
    BY <1>3, <1>4, <2>1
  <2> QED BY <1>3, <1>4, <2>1, <2>2 DEF TargetContexts, Made
<1>6. \A i \in 1..n : g[i] # t
  BY <1>2, <1>4, CountedFact
<1>7. Counted(d, g, 1..n) /\ (Chained(c, g, n) => Chained(d, g, n))
  BY <1>2, <1>4, <1>5, <1>6, OtherTargetsKeep
<1>8. TargetsKept(Now', FlattenSeq(proxies'), crossed')
  BY <1>1, <1>2, <1>5, <1>7 DEF TargetsKept, d, g, n
<1>9. SavesAreTheirOwn' /\ crossed' \in BOOLEAN /\ proxies' \in Seq(Seq(Targets))
  BY <1>1 DEF WindowsKnown, WindowsTyped, SavesAreTheirOwn
<1> QED BY <1>1, <1>8, <1>9, TargetsKeepKnown

\* What a step of the targets leaves.
LEMMA BecomeFact ==
    ASSUME NEW c \in TargetContexts, TargetsBecome(c)
    PROVE  Now' = c
BY DEF TargetsBecome, Now, TargetContexts

\* Sequences next to each other.
LEMMA NextTo ==
    ASSUME NEW S, NEW s \in Seq(S), NEW l \in Seq(S)
    PROVE  /\ s \o l \in Seq(S) /\ Len(s \o l) = Len(s) + Len(l) /\ Len(s) \in Nat /\ Len(l) \in Nat
           /\ \A i \in 1..Len(s) : s[i] = (s \o l)[i]
           /\ \A i \in 1..Len(l) : l[i] = (s \o l)[Len(s) + i]
OBVIOUS

LEMMA BindTargetsKeepsKnown ==
    ASSUME WindowsKnown, NEW k \in 1..MaxArguments, NEW list \in [1..k -> Targets], BindTargets(list)
    PROVE  WindowsKnown'
<1> DEFINE g == FlattenSeq(proxies)
           n == Len(g)
           h == g \o list
           c == Now
           d == AllGuarded(c, list)
<1>1. list \in Seq(Targets)
  BY WindowsAssumption
<1>2. /\ proxies' = Append(proxies, list) /\ TargetsBecome(d)
      /\ \A t \in ToSet(list) : target[t] # NoTarget
      /\ UNCHANGED <<counter, sdlUp, open, crossed, saved>>
  BY DEF BindTargets
<1>3. /\ n \in Nat /\ g \in Seq(Targets) /\ \A i \in 1..n : g[i] \in Targets /\ Made(c, g[i])
      /\ c \in TargetContexts /\ Counted(c, g, 1..n) /\ (~ crossed => Chained(c, g, n))
  BY GuardsAre
<1>4. proxies' \in Seq(Seq(Targets)) /\ FlattenSeq(proxies') = h
  <2>1. proxies \in Seq(Seq(Targets))
    BY DEF WindowsKnown, WindowsTyped
  <2> QED BY <1>1, <1>2, <2>1, FlattenAppend
<1>5. \A i \in 1..Len(list) : list[i] \in Targets /\ Made(c, list[i])
  <2>1. \A i \in 1..Len(list) : list[i] \in Targets /\ list[i] \in ToSet(list)
    BY <1>1 DEF ToSet
  <2> QED BY <1>2, <2>1 DEF Made, Now
<1> HIDE DEF g, c
<1>6. /\ Len(h) = n + Len(list) /\ Len(list) \in Nat
      /\ \A i \in 1..n : g[i] = h[i]
      /\ \A i \in 1..Len(list) : h[n + i] = list[i]
  BY <1>1, <1>3, NextTo
<1> HIDE DEF h, n
<1>7. Counted(c, h, 1..n) /\ (Chained(c, g, n) => Chained(c, h, n))
  BY <1>3, <1>6, AgreeFact
<1>8. \A i \in 1..n : h[i] \in Targets
  BY <1>3, <1>6
<1>9. /\ d \in TargetContexts /\ Counted(d, h, 1..(n + Len(list)))
      /\ Chained(c, h, n) => Chained(d, h, n + Len(list))
  BY <1>3, <1>5, <1>6, <1>7, <1>8, AllGuardedFact
<1>10. Now' = d
  BY <1>2, <1>9, BecomeFact
<1> HIDE DEF d
<1>11. TargetsKept(Now', FlattenSeq(proxies'), crossed')
  BY <1>2, <1>3, <1>4, <1>6, <1>7, <1>9, <1>10 DEF TargetsKept
<1>12. SavesAreTheirOwn' /\ crossed' \in BOOLEAN
  BY <1>2 DEF WindowsKnown, WindowsTyped, SavesAreTheirOwn
<1> QED BY <1>2, <1>4, <1>11, <1>12, TargetsKeepKnown

LEMMA EndProxyKeepsKnown ==
    ASSUME WindowsKnown, EndProxy
    PROVE  WindowsKnown'
<1> DEFINE f == Front(proxies)
           list == Last(proxies)
           h == FlattenSeq(f)
           g == FlattenSeq(proxies)
           n == Len(h)
           c == Now
           d == AllUnguarded(c, list)
<1>1. /\ proxies # <<>> /\ proxies' = f /\ TargetsBecome(d)
      /\ crossed' = (crossed \/ Len(list) > 1)
      /\ UNCHANGED <<counter, sdlUp, open, saved>>
  BY DEF EndProxy
<1>2. f \in Seq(Seq(Targets)) /\ list \in Seq(Targets) /\ g = h \o list
  <2>1. proxies \in Seq(Seq(Targets)) /\ proxies # <<>>
    BY <1>1 DEF WindowsKnown, WindowsTyped
  <2>2. f \in Seq(Seq(Targets)) /\ list \in Seq(Targets) /\ proxies = Append(f, list)
    BY <2>1 DEF Front, Last
  <2> QED BY <2>2, FlattenAppend
<1>3. h \in Seq(Targets)
  BY <1>2, FlattenType
<1>4. /\ \A i \in 1..Len(g) : g[i] \in Targets
      /\ c \in TargetContexts /\ Counted(c, g, 1..Len(g)) /\ (~ crossed => Chained(c, g, Len(g)))
  BY GuardsAre
<1> HIDE DEF g, h, c, f, list
<1>5. /\ Len(g) = n + Len(list) /\ Len(list) \in Nat /\ n \in Nat
      /\ \A i \in 1..n : g[i] = h[i]
      /\ \A i \in 1..Len(list) : list[i] = g[n + i] /\ list[i] \in Targets
  <2>1. \A i \in 1..Len(list) : list[i] \in Targets
    BY <1>2
  <2>2. /\ Len(h \o list) = Len(h) + Len(list) /\ Len(h) \in Nat /\ Len(list) \in Nat
        /\ \A i \in 1..Len(h) : h[i] = (h \o list)[i]
        /\ \A i \in 1..Len(list) : list[i] = (h \o list)[Len(h) + i]
    BY <1>2, <1>3, NextTo
  <2> QED BY <1>2, <2>1, <2>2
<1> HIDE DEF n
<1>6. d \in TargetContexts /\ Counted(d, g, 1..n)
  BY <1>4, <1>5, AllUnguardedFact
<1>7. ASSUME ~ crossed'
      PROVE  Chained(d, g, n)
  <2>0. ~ (crossed \/ Len(list) > 1)
    BY <1>1, <1>7, Zenon
  <2>1. ~ crossed /\ Len(list) \in {0, 1}
    <3>1. ~ crossed
      BY <2>0, Zenon
    <3>2. ~ (Len(list) > 1)
      BY <2>0, Zenon
    <3>3. Len(list) \in {0, 1}
      <4> DEFINE l == Len(list)
      <4>1. l \in Nat /\ ~ (l > 1)
        BY <1>5, <3>2
      <4> HIDE DEF l
      <4>2. l \in {0, 1}
        BY <4>1
      <4> QED BY <4>2 DEF l
    <3> QED BY <3>1, <3>3
  <2>2. \A i \in 1..Len(list) : list[i] = g[n + Len(list) + 1 - i]
    <3>1. \A i \in 1..Len(list) : n + Len(list) + 1 - i = n + i
      BY <1>5, <2>1
    <3> QED BY <1>5, <3>1
  <2>3. /\ Counted(c, g, 1..(n + Len(list))) /\ Chained(c, g, n + Len(list))
        /\ \A i \in 1..(n + Len(list)) : g[i] \in Targets
    BY <1>4, <1>5, <2>1
  <2> QED BY <1>4, <1>5, <2>2, <2>3, AllUnguardedBack
<1>8. Counted(d, h, 1..n) /\ (Chained(d, g, n) => Chained(d, h, n))
  BY <1>5, <1>6, AgreeFact
<1>9. Now' = d
  BY <1>1, <1>6, BecomeFact
<1> HIDE DEF d
<1>10. TargetsKept(Now', FlattenSeq(proxies'), crossed')
  BY <1>1, <1>6, <1>7, <1>8, <1>9 DEF TargetsKept, h, n
<1>11. SavesAreTheirOwn' /\ crossed' \in BOOLEAN /\ proxies' \in Seq(Seq(Targets))
  BY <1>1, <1>2 DEF WindowsKnown, WindowsTyped, SavesAreTheirOwn
<1> QED BY <1>1, <1>10, <1>11, TargetsKeepKnown

LEMMA BindFailsKeepsKnown ==
    ASSUME WindowsKnown, NEW k \in 1..MaxArguments, NEW list \in [1..k -> Targets], BindFails(list)
    PROVE  WindowsKnown'
<1> DEFINE g == FlattenSeq(proxies)
           n == Len(g)
           f == Front(list)
           m == Len(f)
           back == Reverse(f)
           h == g \o f
           t == Last(list)
           c == Now
           e == AllGuarded(c, f)
           v == e.current[e.target[t].window]
           x == [e EXCEPT !.target[t].previous = v]
           d == AllUnguarded(x, back)
<1>1. list \in Seq(Targets) /\ list # <<>> /\ Len(list) = k /\ k \in Nat \ {0}
  BY WindowsAssumption
<1>2. /\ \A o \in ToSet(list) : target[o] # NoTarget
      /\ e.target[t].bound = 0 /\ TargetsBecome(d)
      /\ UNCHANGED <<counter, sdlUp, open, proxies, crossed, saved>>
  BY DEF BindFails
<1>3. /\ n \in Nat /\ g \in Seq(Targets) /\ \A i \in 1..n : g[i] \in Targets
      /\ c \in TargetContexts /\ Counted(c, g, 1..n) /\ (~ crossed => Chained(c, g, n))
  BY GuardsAre
<1>4. /\ f \in Seq(Targets) /\ t \in Targets /\ Made(c, t)
      /\ \A i \in 1..m : f[i] \in Targets /\ Made(c, f[i])
  <2>1. /\ f \in Seq(Targets) /\ m = k - 1 /\ t = list[k] /\ k \in 1..k
        /\ \A i \in 1..(k - 1) : f[i] = list[i] /\ i \in 1..k
    BY <1>1 DEF Front, Last
  <2>2. \A i \in 1..k : list[i] \in Targets /\ list[i] \in ToSet(list)
    BY <1>1 DEF ToSet
  <2>3. \A i \in 1..k : Made(c, list[i])
    BY <1>2, <2>2 DEF Made, Now
  <2> HIDE DEF f, m, t, c
  <2> QED BY <2>1, <2>2, <2>3
<1> HIDE DEF g, c, f, t
<1>5. /\ Len(h) = n + m /\ m \in Nat
      /\ \A i \in 1..n : g[i] = h[i]
      /\ \A i \in 1..m : h[n + i] = f[i]
  BY <1>3, <1>4, NextTo
<1>6. Len(back) = m /\ \A i \in 1..m : back[i] = h[n + m + 1 - i]
  <2>1. back = [i \in 1..m |-> f[(m - i) + 1]]
    BY DEF Reverse
  <2> HIDE DEF back
  <2>2. Len(back) = m /\ \A i \in 1..m : back[i] = f[(m - i) + 1]
    BY <1>5, <2>1
  <2>3. \A i \in 1..m : (m - i) + 1 \in 1..m /\ n + ((m - i) + 1) = n + m + 1 - i
    BY <1>3, <1>5
  <2> HIDE DEF h, n, m
  <2>4. ASSUME NEW i \in 1..m
        PROVE  back[i] = h[n + m + 1 - i]
    <3> DEFINE j == (m - i) + 1
    <3>1. j \in 1..m /\ n + j = n + m + 1 - i /\ back[i] = f[j]
      BY <2>2, <2>3
    <3> HIDE DEF j
    <3>2. h[n + j] = f[j]
      BY <1>5, <3>1
    <3> QED BY <3>1, <3>2
  <2> QED BY <2>2, <2>4
<1> HIDE DEF h, n, m, back
<1>7. Counted(c, h, 1..n) /\ (Chained(c, g, n) => Chained(c, h, n))
  BY <1>3, <1>5, AgreeFact
<1>8. /\ e \in TargetContexts /\ Counted(e, h, 1..(n + m)) /\ SameTargets(c, e)
      /\ Chained(c, h, n) => Chained(e, h, n + m)
  <2>1. \A i \in 1..n : h[i] \in Targets
    BY <1>3, <1>5
  <2> QED BY <1>3, <1>4, <1>5, <1>7, <2>1, AllGuardedFact DEF m
<1> HIDE DEF e
<1>9. \A i \in 1..(n + m) : h[i] \in Targets /\ h[i] # t
  <2>1. n + m \in Nat /\ Made(e, t)
    BY <1>3, <1>4, <1>5, <1>8 DEF SameTargets
  <2>2. \A i \in 1..(n + m) : i \in 1..n \/ (i - n \in 1..m /\ i = n + (i - n))
    BY <1>3, <1>5
  <2>3. \A i \in 1..(n + m) : h[i] \in Targets
    BY <1>3, <1>4, <1>5, <2>2
  <2>4. \A i \in 1..(n + m) : h[i] # t
    BY <1>2, <1>4, <1>8, <2>1, CountedFact
  <2> QED BY <2>3, <2>4
<1>10. /\ x \in TargetContexts /\ x.current = e.current
       /\ \A o \in Targets \ {t} : x.target[o] = e.target[o]
       /\ x.target[t].bound = 0
  <2>1. Made(e, t)
    BY <1>4, <1>8 DEF SameTargets
  <2>2. e.target[t] \in TargetStates /\ e.target[t].window \in Wins
    BY <1>4, <1>8, <2>1, MadeFact
  <2>3. e.target \in [Targets -> TargetStates \cup {NoTarget}] /\ e.current \in [Wins -> Targets \cup {NoTarget}]
    BY <1>8 DEF TargetContexts
  <2>4. v \in Targets \cup {NoTarget}
    BY <2>2, <2>3
  <2> DEFINE r == [e.target[t] EXCEPT !.previous = v]
  <2> HIDE DEF v
  <2>5. r \in TargetStates /\ r.bound = 0
    BY <1>2, <2>2, <2>4 DEF TargetStates
  <2>6. e = [target |-> e.target, current |-> e.current]
    BY <1>8 DEF TargetContexts
  <2>7. x = [target |-> [e.target EXCEPT ![t] = r], current |-> e.current]
    BY <2>6
  <2> HIDE DEF x, r
  <2>8. [e.target EXCEPT ![t] = r] \in [Targets -> TargetStates \cup {NoTarget}]
    BY <2>3, <2>5
  <2> QED BY <1>4, <2>3, <2>5, <2>7, <2>8 DEF TargetContexts
<1> HIDE DEF x, v
<1>11. Counted(x, h, 1..(n + m)) /\ (Chained(e, h, n + m) => Chained(x, h, n + m))
  <2>1. n + m \in Nat
    BY <1>3, <1>5
  <2> QED BY <1>4, <1>8, <1>9, <1>10, <2>1, OtherTargetsKeep
<1>12. d \in TargetContexts /\ Counted(d, h, 1..n) /\ (Chained(x, h, n + m) => Chained(d, h, n))
  <2>1. /\ Counted(x, h, 1..(n + Len(back))) /\ Len(back) \in Nat
        /\ \A i \in 1..Len(back) : back[i] = h[n + Len(back) + 1 - i]
        /\ \A i \in 1..(n + Len(back)) : h[i] \in Targets
    BY <1>5, <1>6, <1>9, <1>11
  <2>2. d \in TargetContexts /\ Counted(d, h, 1..n) /\ (Chained(x, h, n + Len(back)) => Chained(d, h, n))
    <3>1. x \in TargetContexts /\ n \in Nat
      BY <1>3, <1>10
    <3> QED BY <2>1, <3>1, AllUnguardedBack
  <2> QED BY <1>6, <2>2
<1>13. Counted(d, g, 1..n) /\ (Chained(d, h, n) => Chained(d, g, n))
  BY <1>3, <1>5, <1>12, AgreeFact
<1>14. Now' = d
  BY <1>2, <1>12, BecomeFact
<1> HIDE DEF d
<1>15. TargetsKept(Now', FlattenSeq(proxies'), crossed')
  BY <1>2, <1>3, <1>7, <1>8, <1>11, <1>12, <1>13, <1>14 DEF TargetsKept, g, n
<1>16. SavesAreTheirOwn' /\ crossed' \in BOOLEAN /\ proxies' \in Seq(Seq(Targets))
  BY <1>2 DEF WindowsKnown, WindowsTyped, SavesAreTheirOwn
<1> QED BY <1>2, <1>15, <1>16, TargetsKeepKnown

LEMMA SaveKeepsKnown ==
    ASSUME WindowsKnown, NEW t \in Targets, Save(t)
    PROVE  WindowsKnown'
<1> DEFINE g == FlattenSeq(proxies)
           n == Len(g)
           h == Append(g, t)
           c == Now
           w == target[t].window
           e == Guarded(c, t)
           d == Unguarded(e, t)
<1>1. Made(c, t) /\ UNCHANGED <<counter, sdlUp, open, proxies, crossed>>
  BY DEF Save, Made, Now
<1>2. /\ n \in Nat /\ g \in Seq(Targets) /\ \A i \in 1..n : g[i] \in Targets /\ Made(c, g[i])
      /\ c \in TargetContexts /\ Counted(c, g, 1..n) /\ (~ crossed => Chained(c, g, n))
  BY GuardsAre
<1>3. crossed' \in BOOLEAN /\ proxies' \in Seq(Seq(Targets))
  BY <1>1 DEF WindowsKnown, WindowsTyped
<1>4. CASE target[t].bound > 0
  <2>1. TargetsBecome(c) /\ saved'.bound
    BY <1>4 DEF Save
  <2>2. Now' = c
    BY <1>2, <2>1, BecomeFact
  <2>3. TargetsKept(Now', FlattenSeq(proxies'), crossed')
    BY <1>1, <2>2 DEF WindowsKnown
  <2>4. SavesAreTheirOwn'
    BY <2>1 DEF SavesAreTheirOwn
  <2> QED BY <1>1, <1>3, <2>3, <2>4, TargetsKeepKnown
<1>5. CASE ~ (target[t].bound > 0)
  <2>1. TargetsBecome(d) /\ saved' = [wanted |-> t, found |-> e.current[w], bound |-> target[t].bound > 0]
    BY <1>5 DEF Save
  <2>2. c.target[t].bound = 0 /\ c.target[t].window = w /\ w \in Wins
    <3>1. c.target[t].bound \in Nat /\ c.target[t].window \in Wins
      BY <1>1, <1>2, MadeFact
    <3> QED BY <1>5, <3>1 DEF Now
  <2>3. e.current[w] = t
    <3>1. e.current = [c.current EXCEPT ![w] = t]
      <4>1. c \in TargetContexts /\ Made(c, t) /\ c.target[t].bound = 0 /\ c.target[t].window = w
        BY <1>1, <1>2, <2>2
      <4> HIDE DEF c, w
      <4>2. e.current = [c.current EXCEPT ![c.target[t].window] = t]
        BY <4>1, GuardedFact
      <4> QED BY <4>1, <4>2
    <3>2. c.current \in [Wins -> Targets \cup {NoTarget}]
      BY <1>2 DEF TargetContexts
    <3> QED BY <2>2, <3>1, <3>2
  <2>4. /\ h[n + 1] = t /\ \A i \in 1..n : g[i] = h[i]
        /\ \A i \in 1..(n + 1) : h[i] \in Targets /\ Made(c, h[i])
    <3>1. h[n + 1] = t /\ \A i \in 1..n : g[i] = h[i]
      BY <1>2
    <3>2. \A i \in 1..(n + 1) : i \in 1..n \/ i = n + 1
      BY <1>2
    <3> HIDE DEF h
    <3> QED BY <1>1, <1>2, <3>1, <3>2
  <2> HIDE DEF g, n, h, c
  <2>5. Counted(c, h, 1..n) /\ (Chained(c, g, n) => Chained(c, h, n))
    BY <1>2, <2>4, AgreeFact
  <2>6. e \in TargetContexts /\ Counted(e, h, 1..(n + 1)) /\ (Chained(c, h, n) => Chained(e, h, n + 1))
    <3>1. n + 1 \in 1..(n + 1)
      BY <1>2
    <3>2. h[n + 1] \in Targets /\ Made(c, h[n + 1])
      BY <2>4, <3>1
    <3>3. Guarded(c, h[n + 1]) \in TargetContexts /\ Counted(Guarded(c, h[n + 1]), h, 1..(n + 1))
      BY <1>2, <2>5, <3>2, GuardCountsNext
    <3>4. Chained(c, h, n) => Chained(Guarded(c, h[n + 1]), h, n + 1)
      BY <1>2, <2>4, <2>5, GuardChains
    <3> QED BY <2>4, <3>3, <3>4
  <2> HIDE DEF e
  <2>7. d \in TargetContexts /\ Counted(d, h, 1..n) /\ (Chained(e, h, n + 1) => Chained(d, h, n))
    <3>1. Unguarded(e, h[n + 1]) \in TargetContexts /\ Counted(Unguarded(e, h[n + 1]), h, 1..n)
      BY <1>2, <2>4, <2>6, UnguardCountsLast
    <3>2. Chained(e, h, n + 1) => Chained(Unguarded(e, h[n + 1]), h, n)
      BY <1>2, <2>4, <2>6, UnguardChains
    <3> QED BY <2>4, <3>1, <3>2
  <2>8. Counted(d, g, 1..n) /\ (Chained(d, h, n) => Chained(d, g, n))
    BY <1>2, <2>4, <2>7, AgreeFact
  <2>9. Now' = d
    BY <2>1, <2>7, BecomeFact
  <2> HIDE DEF d
  <2>10. TargetsKept(Now', FlattenSeq(proxies'), crossed')
    BY <1>1, <1>2, <2>5, <2>6, <2>7, <2>8, <2>9 DEF TargetsKept, g, n
  <2>11. SavesAreTheirOwn'
    BY <2>1, <2>3 DEF SavesAreTheirOwn
  <2> QED BY <1>1, <1>3, <2>10, <2>11, TargetsKeepKnown
<1> QED BY <1>4, <1>5

LEMMA WindowsStep ==
    ASSUME WindowsKnown, [WindowsNext]_windowVars
    PROVE  WindowsKnown'
<1>1. CASE UNCHANGED windowVars
  <2>1. TargetsKept(Now, FlattenSeq(proxies), crossed)' /\ SavesAreTheirOwn' /\ SDLIsUp' /\ WindowsTyped'
    BY <1>1 DEF WindowsKnown, SavesAreTheirOwn, SDLIsUp, WindowsTyped, Open, Now, windowVars
  <2> QED BY <2>1 DEF WindowsKnown
<1>2. CASE WindowsNext
  <2>1. ASSUME NEW k \in 1..MaxArguments, NEW list \in [1..k -> Targets], BindTargets(list) \/ BindFails(list)
        PROVE  WindowsKnown'
    BY <2>1, BindTargetsKeepsKnown, BindFailsKeepsKnown
  <2>2. ASSUME NEW w \in Wins, NEW t \in Targets, NewTarget(t, w)
        PROVE  WindowsKnown'
    BY <2>2, NewTargetKeepsKnown
  <2>3. ASSUME NEW t \in Targets, DropTarget(t)
        PROVE  WindowsKnown'
    <3>1. target[t] # NoTarget
      BY <2>3 DEF DropTarget
    <3>2. Now \in TargetContexts /\ Made(Now, t)
      BY <3>1, GuardsAre DEF Made, Now
    <3>3. Now.target[t].window \in Wins
      BY <3>2, MadeFact
    <3> QED BY <2>3, <3>3, NewTargetKeepsKnown
  <2> QED BY <1>2, <2>1, <2>2, <2>3, CreatingKeepsKnown, DestroyWindowKeepsKnown, EndProxyKeepsKnown,
          SaveKeepsKnown DEF WindowsNext
<1> QED BY <1>1, <1>2

LEMMA KnownWindowsSuffice ==
    ASSUME WindowsKnown
    PROVE  WindowsAreServed
<1> DEFINE g == FlattenSeq(proxies)
           n == Len(g)
<1>1. /\ n \in Nat /\ DOMAIN g = 1..n /\ Now \in TargetContexts /\ (~ crossed => Chained(Now, g, n))
  BY GuardsAre
<1>2. \A w \in Wins : BoundAt(w) = BoundUpTo(Now, g, n, w)
  BY <1>1 DEF BoundAt, BoundUpTo, Now
<1>3. DrawsGoToTheTarget
  <2> HIDE DEF g, n
  <2> SUFFICES ASSUME ~ crossed, NEW w \in Wins
               PROVE  \/ BoundAt(w) = {} /\ current[w] = NoTarget
                      \/ \E i \in BoundAt(w) : current[w] = g[i] /\ \A j \in BoundAt(w) : j <= i
    BY DEF DrawsGoToTheTarget, g
  <2>1. BoundLast(current[w], Now, g, n, w)
    BY <1>1 DEF Chained, Now
  <2> QED BY <1>2, <2>1 DEF BoundLast
<1>4. WindowsTypeOK
  BY <1>1 DEF WindowsTypeOK, WindowsKnown, WindowsTyped, TargetContexts, Now
<1> QED BY <1>3, <1>4 DEF WindowsKnown, WindowsAreServed

\* However windows and their targets are made, dropped, bound within one another, saved
\* or fail to be bound, for any number of them: SDL is up as long as a window is, and
\* every renderer draws into the target that was bound last and is bound still, until a
\* proxy of several targets has ended (sdl/window.cpp:88-104, 164-206, 302-484,
\* Painter.hpp:182-221).
THEOREM WindowsStayServed == WindowsSpec => []WindowsAreServed
<1>1. WindowsInit => WindowsKnown
  BY WindowsStart
<1>2. WindowsKnown /\ [WindowsNext]_windowVars => WindowsKnown'
  BY WindowsStep
<1>3. WindowsKnown => WindowsAreServed
  BY KnownWindowsSuffice
<1> QED BY <1>1, <1>2, <1>3, PTL DEF WindowsSpec
-----------------------------------------------------------------------------
(* MaterialShaders                                                           *)

Colors == {"vec2", "vec3", "vec4"}
TextureRecs == [type : {"ambient", "diffuse"}, source : {"path", "texture", "nothing"}, loaded : BOOLEAN]
MaterialRecs == [colors : Seq(Colors), textures : Seq(TextureRecs), shading : {"none", "gouraud"}]
LightKinds == {"point", "spot"}

\* A bindable was written, linked, and its textures were loaded.
MadeIsKnown ==
    bindable # NoBindable =>
        /\ bindable \in MaterialRecs /\ Writable(bindable)
        /\ \A i \in DOMAIN bindable.textures : bindable.textures[i].loaded

\* What the last bind met.
OutcomeIsKnown ==
    outcome.result # "none" =>
        /\ bindable # NoBindable /\ outcome.lights \in Seq(LightKinds)
        /\ outcome.result = "bound" => outcome.done = Len(Settings(material, outcome.lights))
        /\ outcome.result = "crashed" =>
              \E i \in DOMAIN Settings(material, outcome.lights) : IsNull(Settings(material, outcome.lights)[i])
        /\ outcome.result = "thrown" =>
              \E i \in DOMAIN Settings(material, outcome.lights) :
                 ~ FindsUniform(Settings(material, outcome.lights)[i], Uniforms(bindable))

ShadersInv == ShadersTypeOK /\ material \in MaterialRecs /\ MadeIsKnown /\ OutcomeIsKnown

LEMMA ShadersStart == ShadersInit => ShadersInv
<1> SUFFICES ASSUME ShadersInit PROVE ShadersInv
  OBVIOUS
<1>1. material = [colors |-> <<>>, textures |-> <<>>, shading |-> "none"] /\ bindable = NoBindable
      /\ glsl \in GLSLVersions /\ outcome.result = "none"
  BY DEF ShadersInit, NotBound
<1>2. material \in MaterialRecs
  BY <1>1 DEF MaterialRecs
<1>3. Len(material.colors) = 0 /\ Len(material.textures) = 0 /\ material.shading = "none"
  BY <1>1
<1> QED BY <1>1, <1>2, <1>3, ShadersAssumption
     DEF ShadersInv, ShadersTypeOK, MadeIsKnown, OutcomeIsKnown

\* Whatever changes the material forgets the outcome, and leaves the bindable.
LEMMA ChangedShaders ==
    ASSUME ShadersInv, material' \in MaterialRecs,
           Len(material.colors)' <= MaxChannels, Len(material.textures)' <= MaxChannels,
           outcome' = NotBound, glsl' = glsl, bindable' = bindable
    PROVE  ShadersInv'
<1>1. outcome'.result = "none"
  BY DEF NotBound
<1>2. material'.shading \in {"none", "gouraud"}
  BY DEF MaterialRecs
<1> QED BY <1>1, <1>2 DEF ShadersInv, ShadersTypeOK, MadeIsKnown, OutcomeIsKnown, Writable

LEMMA AddTextureKeeps ==
    ASSUME ShadersInv, NEW type \in {"ambient", "diffuse"}, NEW source \in {"path", "texture", "nothing"},
           AddTexture(type, source)
    PROVE  ShadersInv'
<1> DEFINE x == [type |-> type, source |-> source, loaded |-> source = "texture"]
<1>1. /\ Len(material.textures) < MaxChannels /\ outcome' = NotBound /\ glsl' = glsl /\ bindable' = bindable
      /\ material' = [material EXCEPT !.textures = Append(@, x)]
  BY DEF AddTexture
<1>2. material \in MaterialRecs /\ Len(material.colors) <= MaxChannels
  BY DEF ShadersInv, ShadersTypeOK
<1>3. /\ material.textures \in Seq(TextureRecs) /\ material.colors \in Seq(Colors)
      /\ material.shading \in {"none", "gouraud"}
  BY <1>2 DEF MaterialRecs
<1>4. x \in TextureRecs
  BY DEF TextureRecs
<1> HIDE DEF x
<1> DEFINE t == Append(material.textures, x)
<1>5. t \in Seq(TextureRecs) /\ Len(t) = Len(material.textures) + 1 /\ Len(material.textures) \in Nat
  BY <1>3, <1>4
<1> HIDE DEF t
<1>6. material' = [colors |-> material.colors, textures |-> t, shading |-> material.shading]
  BY <1>1, <1>2 DEF MaterialRecs, t
<1>7. material' \in MaterialRecs /\ material'.colors = material.colors /\ material'.textures = t
  BY <1>3, <1>5, <1>6 DEF MaterialRecs
<1> QED BY <1>1, <1>2, <1>5, <1>7, ShadersAssumption, ChangedShaders

LEMMA AddColorKeeps ==
    ASSUME ShadersInv, NEW type \in Colors, AddColor(type)
    PROVE  ShadersInv'
<1>1. /\ Len(material.colors) < MaxChannels /\ outcome' = NotBound /\ glsl' = glsl /\ bindable' = bindable
      /\ material' = [material EXCEPT !.colors = Append(@, type)]
  BY DEF AddColor
<1>2. material \in MaterialRecs /\ Len(material.textures) <= MaxChannels
  BY DEF ShadersInv, ShadersTypeOK
<1>3. /\ material.textures \in Seq(TextureRecs) /\ material.colors \in Seq(Colors)
      /\ material.shading \in {"none", "gouraud"}
  BY <1>2 DEF MaterialRecs
<1> DEFINE c == Append(material.colors, type)
<1>5. c \in Seq(Colors) /\ Len(c) = Len(material.colors) + 1 /\ Len(material.colors) \in Nat
  BY <1>3
<1> HIDE DEF c
<1>6. material' = [colors |-> c, textures |-> material.textures, shading |-> material.shading]
  BY <1>1, <1>2 DEF MaterialRecs, c
<1>7. material' \in MaterialRecs /\ material'.textures = material.textures /\ material'.colors = c
  BY <1>3, <1>5, <1>6 DEF MaterialRecs
<1> QED BY <1>1, <1>2, <1>5, <1>7, ShadersAssumption, ChangedShaders

LEMMA SetShadingKeeps ==
    ASSUME ShadersInv, NEW model \in {"none", "gouraud"}, SetShading(model)
    PROVE  ShadersInv'
<1>1. /\ outcome' = NotBound /\ glsl' = glsl /\ bindable' = bindable
      /\ material' = [material EXCEPT !.shading = model]
  BY DEF SetShading
<1>2. /\ material \in MaterialRecs
      /\ Len(material.colors) <= MaxChannels /\ Len(material.textures) <= MaxChannels
  BY DEF ShadersInv, ShadersTypeOK
<1>3. material' \in MaterialRecs /\ material'.textures = material.textures /\ material'.colors = material.colors
  BY <1>1, <1>2 DEF MaterialRecs
<1> QED BY <1>1, <1>2, <1>3, ChangedShaders

LEMMA MakeBindableKeeps ==
    ASSUME ShadersInv, MakeBindable
    PROVE  ShadersInv'
<1> DEFINE n == IF Empties(material) = {} THEN MaxChannels + 1
                ELSE CHOOSE i \in Empties(material) : \A j \in Empties(material) : i <= j
           m == LoadedUpTo(material, n)
<1>1. /\ Writable(material) /\ material' = m /\ outcome' = NotBound /\ glsl' = glsl
      /\ bindable' = IF Empties(material) = {} THEN m ELSE bindable
  BY DEF MakeBindable
<1>2. /\ material \in MaterialRecs
      /\ Len(material.colors) <= MaxChannels /\ Len(material.textures) <= MaxChannels
  BY DEF ShadersInv, ShadersTypeOK
<1>3. /\ material.textures \in Seq(TextureRecs) /\ material.colors \in Seq(Colors)
      /\ material.shading \in {"none", "gouraud"}
  BY <1>2 DEF MaterialRecs
<1> DEFINE old == material.textures
           t == [i \in DOMAIN old |-> IF i < n THEN [old[i] EXCEPT !.loaded = TRUE] ELSE old[i]]
<1>n. Empties(material) = {} => n = MaxChannels + 1
  OBVIOUS
<1>m. m = [material EXCEPT !.textures = t]
  BY DEF LoadedUpTo
<1> HIDE DEF n, m
<1>4. Len(old) \in Nat /\ DOMAIN old = 1..Len(old) /\ \A i \in DOMAIN old : old[i] \in TextureRecs
  BY <1>3
<1>5. \A i \in DOMAIN old : [old[i] EXCEPT !.loaded = TRUE] \in TextureRecs
  <2> TAKE i \in DOMAIN old
  <2>1. old[i] \in TextureRecs
    BY <1>4
  <2> QED BY <2>1 DEF TextureRecs
<1> HIDE DEF old
<1>6. t \in [1..Len(old) -> TextureRecs]
  BY <1>4, <1>5
<1>7. /\ \A i \in 1..Len(old) : i < n => t[i].loaded
      /\ \A i \in 1..Len(old) : t[i].type = old[i].type
  <2> SUFFICES ASSUME NEW i \in 1..Len(old)
               PROVE  (i < n => t[i].loaded) /\ t[i].type = old[i].type
    OBVIOUS
  <2>1. t[i] = IF i < n THEN [old[i] EXCEPT !.loaded = TRUE] ELSE old[i]
    BY <1>4
  <2>2. old[i] \in TextureRecs
    BY <1>4
  <2> QED BY <2>1, <2>2 DEF TextureRecs
<1> HIDE DEF t
<1>8. t \in Seq(TextureRecs) /\ Len(t) = Len(old) /\ DOMAIN t = 1..Len(old)
  BY <1>4, <1>6
<1>9. m = [colors |-> material.colors, textures |-> t, shading |-> material.shading]
  BY <1>2, <1>m DEF MaterialRecs
<1>10. m \in MaterialRecs /\ m.colors = material.colors /\ m.textures = t
  BY <1>3, <1>8, <1>9 DEF MaterialRecs
<1>11. Writable(m)
  <2>1. ToSet(m.colors) \subseteq {"vec3", "vec4"} /\ \A x \in ToSet(old) : x.type \in {"ambient", "opacity"}
    BY <1>1, <1>10 DEF Writable, old
  <2>2. \A x \in ToSet(t) : x.type \in {"ambient", "opacity"}
    BY <1>4, <1>7, <1>8, <2>1 DEF ToSet
  <2> QED BY <1>10, <2>1, <2>2 DEF Writable
<1>12. Empties(material) = {} => \A i \in DOMAIN t : t[i].loaded
  <2> SUFFICES ASSUME Empties(material) = {}, NEW i \in DOMAIN t PROVE t[i].loaded
    OBVIOUS
  <2>1. i \in 1..Len(old) /\ i < n
    BY <1>2, <1>4, <1>8, <1>n, ShadersAssumption DEF old
  <2> QED BY <1>7, <2>1
<1>13. MadeIsKnown'
  <2>1. CASE Empties(material) = {}
    BY <1>1, <1>10, <1>11, <1>12, <2>1 DEF MadeIsKnown, Writable
  <2>2. CASE Empties(material) # {}
    BY <1>1, <2>2 DEF ShadersInv, MadeIsKnown, Writable
  <2> QED BY <2>1, <2>2
<1>14. outcome'.result = "none"
  BY <1>1 DEF NotBound
<1>15. m.shading \in {"none", "gouraud"}
  BY <1>10 DEF MaterialRecs
<1> QED BY <1>1, <1>2, <1>8, <1>10, <1>13, <1>14, <1>15
     DEF ShadersInv, ShadersTypeOK, OutcomeIsKnown, old

LEMMA BindShadersKeeps ==
    ASSUME ShadersInv, NEW lights \in Seq(LightKinds), BindShaders(lights)
    PROVE  ShadersInv'
<1> DEFINE s == Settings(material, lights)
           live == Uniforms(bindable)
           bad == {i \in DOMAIN s : IsNull(s[i]) \/ ~ FindsUniform(s[i], live)}
<1>1. bindable # NoBindable /\ material' = material /\ bindable' = bindable /\ glsl' = glsl
  BY DEF BindShaders
<1>2. \/ outcome' = [result |-> "bound", done |-> Len(s), lights |-> lights]
      \/ \E i \in bad : outcome' = [result |-> IF IsNull(s[i]) THEN "crashed" ELSE "thrown",
                                    done |-> i - 1, lights |-> lights]
  BY DEF BindShaders
<1>3. /\ outcome'.lights = lights /\ outcome'.result \in {"bound", "crashed", "thrown"}
      /\ outcome'.result = "bound" => outcome'.done = Len(s)
      /\ outcome'.result = "crashed" => \E i \in DOMAIN s : IsNull(s[i])
      /\ outcome'.result = "thrown" => \E i \in DOMAIN s : ~ FindsUniform(s[i], live)
  <2>1. CASE outcome' = [result |-> "bound", done |-> Len(s), lights |-> lights]
    BY <2>1
  <2>2. ASSUME NEW i \in bad,
               outcome' = [result |-> IF IsNull(s[i]) THEN "crashed" ELSE "thrown",
                           done |-> i - 1, lights |-> lights]
        PROVE  <1>3!:
    <3>1. i \in DOMAIN s /\ (IsNull(s[i]) \/ ~ FindsUniform(s[i], live))
      OBVIOUS
    <3> HIDE DEF s, live
    <3>2. outcome'.lights = lights /\ outcome'.result = IF IsNull(s[i]) THEN "crashed" ELSE "thrown"
      BY <2>2
    <3>3. CASE IsNull(s[i])
      BY <3>1, <3>2, <3>3
    <3>4. CASE ~ IsNull(s[i])
      BY <3>1, <3>2, <3>4
    <3> QED BY <3>3, <3>4
  <2> QED BY <1>2, <2>1, <2>2
<1>4. OutcomeIsKnown'
  <2>1. (Settings(material, outcome.lights) = s /\ Uniforms(bindable) = live)'
    BY <1>1, <1>3 DEF IsNull
  <2>2. outcome'.result = "bound" => outcome'.done = Len(Settings(material, outcome.lights)')
    BY <1>1, <1>3
  <2>3. outcome'.result = "crashed" =>
           \E i \in DOMAIN Settings(material, outcome.lights)' :
              IsNull(Settings(material, outcome.lights)[i])'
    BY <1>1, <1>3 DEF IsNull
  <2>4. outcome'.result = "thrown" =>
           \E i \in DOMAIN Settings(material, outcome.lights)' :
              ~ FindsUniform(Settings(material, outcome.lights)[i], Uniforms(bindable))'
    BY <1>1, <1>3
  <2> HIDE DEF s, live
  <2> QED BY <1>1, <1>3, <2>2, <2>3, <2>4 DEF OutcomeIsKnown
<1>5. ShadersTypeOK' /\ material' \in MaterialRecs /\ MadeIsKnown'
  BY <1>1, <1>3 DEF ShadersInv, ShadersTypeOK, MadeIsKnown, Writable
<1> QED BY <1>4, <1>5 DEF ShadersInv

LEMMA LightListsFact == LightLists \subseteq Seq(LightKinds)
<1>1. ASSUME NEW n \in 0..MaxLights, NEW l \in [1..n -> {"point"}] PROVE l \in Seq(LightKinds)
  <2>1. n \in Nat
    BY ShadersAssumption
  <2>2. l \in [1..n -> LightKinds]
    BY DEF LightKinds
  <2> QED BY <2>1, <2>2
<1>2. <<"point", "spot">> \in Seq(LightKinds)
  BY DEF LightKinds
<1> QED BY <1>1, <1>2 DEF LightLists

LEMMA ShadersStep == ShadersInv /\ [ShadersNext]_shaderVars => ShadersInv'
<1> SUFFICES ASSUME ShadersInv, [ShadersNext]_shaderVars PROVE ShadersInv'
  OBVIOUS
<1>1. CASE UNCHANGED shaderVars
  BY <1>1 DEF shaderVars, ShadersInv, ShadersTypeOK, MadeIsKnown, OutcomeIsKnown, Writable, IsNull, FindsUniform
<1>2. ASSUME NEW type \in {"ambient", "diffuse"}, NEW source \in {"path", "texture", "nothing"},
             AddTexture(type, source)
      PROVE  ShadersInv'
  BY <1>2, AddTextureKeeps
<1>3. ASSUME NEW type \in {"vec2", "vec3", "vec4"}, AddColor(type) PROVE ShadersInv'
  BY <1>3, AddColorKeeps DEF Colors
<1>4. ASSUME NEW model \in {"none", "gouraud"}, SetShading(model) PROVE ShadersInv'
  BY <1>4, SetShadingKeeps
<1>5. CASE MakeBindable
  BY <1>5, MakeBindableKeeps
<1>6. ASSUME NEW lights \in LightLists, BindShaders(lights) PROVE ShadersInv'
  BY <1>6, BindShadersKeeps, LightListsFact
<1> QED BY <1>1, <1>2, <1>3, <1>4, <1>5, <1>6 DEF ShadersNext

LEMMA ToSetConcat ==
    ASSUME NEW S, NEW a \in Seq(S), NEW b \in Seq(S)
    PROVE  a \o b \in Seq(S) /\ ToSet(a \o b) = ToSet(a) \cup ToSet(b)
<1> DEFINE c == a \o b
<1>1. /\ c \in Seq(S) /\ Len(c) = Len(a) + Len(b) /\ Len(a) \in Nat /\ Len(b) \in Nat
      /\ DOMAIN a = 1..Len(a) /\ DOMAIN b = 1..Len(b) /\ DOMAIN c = 1..(Len(a) + Len(b))
      /\ \A i \in 1..(Len(a) + Len(b)) : c[i] = IF i <= Len(a) THEN a[i] ELSE b[i - Len(a)]
  OBVIOUS
<1> HIDE DEF c
<1>2. ASSUME NEW i \in DOMAIN c PROVE c[i] \in ToSet(a) \cup ToSet(b)
  <2>1. CASE i <= Len(a)
    BY <1>1, <2>1 DEF ToSet
  <2>2. CASE ~ (i <= Len(a))
    <3>1. i - Len(a) \in DOMAIN b /\ c[i] = b[i - Len(a)]
      BY <1>1, <2>2
    <3> QED BY <3>1 DEF ToSet
  <2> QED BY <2>1, <2>2
<1>3. ASSUME NEW i \in DOMAIN a PROVE a[i] \in ToSet(c)
  <2>1. i \in DOMAIN c /\ c[i] = a[i]
    BY <1>1
  <2> QED BY <2>1 DEF ToSet
<1>4. ASSUME NEW i \in DOMAIN b PROVE b[i] \in ToSet(c)
  <2>1. i + Len(a) \in DOMAIN c /\ c[i + Len(a)] = b[i]
    BY <1>1
  <2> QED BY <2>1 DEF ToSet
<1>5. \A x \in ToSet(c) : x \in ToSet(a) \cup ToSet(b)
  BY <1>2 DEF ToSet
<1>6. \A x \in ToSet(a) \cup ToSet(b) : x \in ToSet(c)
  BY <1>3, <1>4 DEF ToSet
<1> QED BY <1>1, <1>5, <1>6 DEF c

VarNames ==
    {"MVP", "Ambient", "Diffuse", "Specular", "Shininess", "ModelView", "Normal", "PointLightCount",
     "PointLightPosition", "PointLightSpecular", "PointLightDiffuse", "Texture", "not implemented"}
Variables == VarNames \X Int

LEMMA VariablesFact ==
    /\ \A n \in VarNames, i \in Int : <<n, i>> \in Variables
    /\ \A n \in VarNames : Var(n) \in Variables
<1>1. \A n \in VarNames, i \in Int : <<n, i>> \in Variables
  BY DEF Variables
<1>2. 0 \in Int
  OBVIOUS
<1> QED BY <1>1, <1>2 DEF Var

\* The uniforms that are the material's own, and those of a list of lights.
Own(m) ==
    {Var("MVP"), Var("Ambient")}
      \cup (IF m.shading = "none" THEN {}
            ELSE {Var("Diffuse"), Var("Specular"), Var("Shininess"), Var("ModelView"), Var("Normal"),
                  Var("PointLightCount")})
OfLights(m, lights) ==
    IF m.shading = "none" THEN {}
    ELSE {LightUniform(lights, (k - 1) \div 3, k % 3) : k \in 1..(3 * Len(lights))}

LEMMA LightUniformFact ==
    ASSUME NEW lights \in Seq(LightKinds), NEW k \in 1..(3 * Len(lights))
    PROVE  \E i \in 0..(Len(lights) - 1) :
              LET u == LightUniform(lights, (k - 1) \div 3, k % 3) IN
              \/ lights[i + 1] # "point" /\ u = <<"not implemented", 0>>
              \/ lights[i + 1] = "point" /\ u \in {<<"PointLightSpecular", i>>, <<"PointLightPosition", i>>,
                                                   <<"PointLightDiffuse", i>>}
<1> DEFINE i == (k - 1) \div 3
           r == k % 3
           n == Len(lights)
<1>1. n \in Nat
  OBVIOUS
<1>2. k \in Int /\ k >= 1 /\ k <= 3 * n
  OBVIOUS
<1> HIDE DEF n
<1>3. r \in 0..2
  BY <1>2
<1>4. i \in 0..(n - 1)
  BY <1>1, <1>2
<1> HIDE DEF i, r
<1>5. CASE lights[i + 1] # "point"
  BY <1>4, <1>5 DEF LightUniform, i, r, n
<1>6. CASE lights[i + 1] = "point"
  <2>1. r = 0 \/ r = 1 \/ r = 2
    BY <1>3
  <2>2. <<"PointLightSpecular", "PointLightPosition", "PointLightDiffuse">>[r + 1]
          \in {"PointLightSpecular", "PointLightPosition", "PointLightDiffuse"}
    BY <2>1
  <2>3. LightUniform(lights, i, r) \in
          {<<"PointLightSpecular", i>>, <<"PointLightPosition", i>>, <<"PointLightDiffuse", i>>}
    BY <1>6, <2>2 DEF LightUniform
  <2> QED BY <1>4, <1>6, <2>3 DEF i, r, n
<1> QED BY <1>5, <1>6

LEMMA SettingsFact ==
    ASSUME NEW m \in MaterialRecs, NEW lights \in Seq(LightKinds)
    PROVE  /\ Settings(m, lights) \in Seq(Variables)
           /\ ToSet(Settings(m, lights)) = Own(m) \cup OfLights(m, lights) \cup Samplers(m)
<1> DEFINE V == Variables
           a == <<Var("MVP"), Var("Ambient")>>
           b == <<Var("Diffuse"), Var("Specular"), Var("Shininess"), Var("ModelView"), Var("Normal")>>
           c == [k \in 1..(3 * Len(lights)) |-> LightUniform(lights, (k - 1) \div 3, k % 3)]
           d == <<Var("PointLightCount")>>
           e == [i \in DOMAIN m.textures |-> <<"Texture", i - 1>>]
<1>1. a \in Seq(V) /\ ToSet(a) = {Var("MVP"), Var("Ambient")}
  <2>1. Var("MVP") \in V /\ Var("Ambient") \in V
    BY VariablesFact DEF V, VarNames
  <2> HIDE DEF V
  <2>2. a \in Seq(V) /\ Len(a) = 2 /\ DOMAIN a = 1..2
    BY <2>1
  <2>3. a[1] = Var("MVP") /\ a[2] = Var("Ambient")
    OBVIOUS
  <2> HIDE DEF a
  <2>4. \A i \in 1..2 : i = 1 \/ i = 2
    OBVIOUS
  <2>5. 1 \in 1..2 /\ 2 \in 1..2
    OBVIOUS
  <2>6. \A i \in 1..2 : a[i] \in {Var("MVP"), Var("Ambient")}
    BY <2>3, <2>4
  <2>7. \A x \in {Var("MVP"), Var("Ambient")} :
           \E i \in 1..2 : a[i] = x
    BY <2>3, <2>5
  <2> QED BY <2>2, <2>6, <2>7, Zenon DEF ToSet
<1>2. b \in Seq(V) /\ ToSet(b) = {Var("Diffuse"), Var("Specular"), Var("Shininess"), Var("ModelView"), Var("Normal")}
  <2>1. Var("Diffuse") \in V /\ Var("Specular") \in V /\ Var("Shininess") \in V
        /\ Var("ModelView") \in V /\ Var("Normal") \in V
    BY VariablesFact DEF V, VarNames
  <2> HIDE DEF V
  <2>2. b \in Seq(V) /\ Len(b) = 5 /\ DOMAIN b = 1..5
    BY <2>1
  <2>3. b[1] = Var("Diffuse") /\ b[2] = Var("Specular") /\ b[3] = Var("Shininess")
        /\ b[4] = Var("ModelView") /\ b[5] = Var("Normal")
    OBVIOUS
  <2> HIDE DEF b
  <2>4. \A i \in 1..5 : i = 1 \/ i = 2 \/ i = 3 \/ i = 4 \/ i = 5
    OBVIOUS
  <2>5. 1 \in 1..5 /\ 2 \in 1..5 /\ 3 \in 1..5 /\ 4 \in 1..5 /\ 5 \in 1..5
    OBVIOUS
  <2>6. \A i \in 1..5 : b[i] \in {Var("Diffuse"), Var("Specular"), Var("Shininess"), Var("ModelView"), Var("Normal")}
    BY <2>3, <2>4
  <2>7. \A x \in {Var("Diffuse"), Var("Specular"), Var("Shininess"), Var("ModelView"), Var("Normal")} :
           \E i \in 1..5 : b[i] = x
    BY <2>3, <2>5
  <2> QED BY <2>2, <2>6, <2>7, Zenon DEF ToSet
<1>3. c \in Seq(V) /\ ToSet(c) = {LightUniform(lights, (k - 1) \div 3, k % 3) : k \in 1..(3 * Len(lights))}
  <2> DEFINE l == 3 * Len(lights)
             u(k) == LightUniform(lights, (k - 1) \div 3, k % 3)
  <2>1. l \in Nat
    OBVIOUS
  <2>2. \A k \in 1..l : u(k) \in V
    <3> TAKE k \in 1..l
    <3>1. PICK i \in 0..(Len(lights) - 1) :
             u(k) \in {<<"not implemented", 0>>, <<"PointLightSpecular", i>>, <<"PointLightPosition", i>>,
                       <<"PointLightDiffuse", i>>}
      BY LightUniformFact
    <3>2. i \in Int /\ 0 \in Int
      OBVIOUS
    <3> HIDE DEF u
    <3> QED BY <3>1, <3>2, VariablesFact DEF V, VarNames
  <2> HIDE DEF l, u, V
  <2>3. [k \in 1..l |-> u(k)] \in Seq(V) /\ DOMAIN [k \in 1..l |-> u(k)] = 1..l
    BY <2>1, <2>2
  <2>4. c = [k \in 1..l |-> u(k)]
    BY DEF l, u
  <2>5. ToSet([k \in 1..l |-> u(k)]) = {u(k) : k \in 1..l}
    BY DEF ToSet
  <2> QED BY <2>3, <2>4, <2>5 DEF l, u
<1>4. d \in Seq(V) /\ ToSet(d) = {Var("PointLightCount")}
  <2>1. Var("PointLightCount") \in V
    BY VariablesFact DEF V, VarNames
  <2> HIDE DEF V
  <2>2. d \in Seq(V) /\ Len(d) = 1 /\ DOMAIN d = 1..1
    BY <2>1
  <2>3. d[1] = Var("PointLightCount")
    OBVIOUS
  <2> HIDE DEF d
  <2>4. \A i \in 1..1 : i = 1
    OBVIOUS
  <2>5. 1 \in 1..1
    OBVIOUS
  <2>6. \A i \in 1..1 : d[i] \in {Var("PointLightCount")}
    BY <2>3, <2>4
  <2>7. \A x \in {Var("PointLightCount")} :
           \E i \in 1..1 : d[i] = x
    BY <2>3, <2>5
  <2> QED BY <2>2, <2>6, <2>7, Zenon DEF ToSet
<1>5. e \in Seq(V) /\ ToSet(e) = Samplers(m)
  <2>1. Len(m.textures) \in Nat /\ DOMAIN m.textures = 1..Len(m.textures)
    BY DEF MaterialRecs
  <2>2. e \in [1..Len(m.textures) -> V]
    <3>1. \A i \in 1..Len(m.textures) : <<"Texture", i - 1>> \in V
      <4>1. "Texture" \in VarNames /\ \A i \in 1..Len(m.textures) : i - 1 \in Int
        BY <2>1 DEF VarNames
      <4> QED BY <4>1, VariablesFact DEF V
    <3> HIDE DEF V
    <3> QED BY <2>1, <3>1
  <2>3. ToSet(e) = Samplers(m)
    BY DEF Samplers, Channels, ToSet
  <2> HIDE DEF e, V
  <2> QED BY <2>1, <2>2, <2>3
<1> DEFINE f == IF m.shading = "none" THEN <<>> ELSE b \o c \o d
<1>6. Settings(m, lights) = a \o f \o e
  BY DEF Settings
<1> HIDE DEF a, b, c, d, e, V
<1> DEFINE g == b \o c
           h == g \o d
<1>7. g \in Seq(V) /\ ToSet(g) = ToSet(b) \cup ToSet(c)
  BY <1>2, <1>3, ToSetConcat
<1> HIDE DEF g
<1>8. h \in Seq(V) /\ ToSet(h) = ToSet(b) \cup ToSet(c) \cup ToSet(d)
  BY <1>4, <1>7, ToSetConcat
<1> HIDE DEF h
<1>f. f = IF m.shading = "none" THEN <<>> ELSE h
  BY DEF g, h
<1>9. f \in Seq(V) /\ ToSet(f) = IF m.shading = "none" THEN {} ELSE ToSet(b) \cup ToSet(c) \cup ToSet(d)
  <2>1. <<>> \in Seq(V) /\ ToSet(<<>>) = {}
    BY DEF ToSet
  <2> QED BY <1>8, <1>f, <2>1
<1> HIDE DEF f
<1> DEFINE j == a \o f
           s == j \o e
<1>10. j \in Seq(V) /\ ToSet(j) = ToSet(a) \cup ToSet(f)
  BY <1>1, <1>9, ToSetConcat
<1> HIDE DEF j
<1>11. s \in Seq(V) /\ ToSet(s) = ToSet(a) \cup ToSet(f) \cup ToSet(e)
  BY <1>5, <1>10, ToSetConcat
<1>s. Settings(m, lights) = s
  BY <1>6 DEF s, j
<1> HIDE DEF s
<1>12. ToSet(a) \cup ToSet(f) \cup ToSet(e) = Own(m) \cup OfLights(m, lights) \cup Samplers(m)
  <2>1. CASE m.shading = "none"
    BY <1>1, <1>5, <1>9, <2>1 DEF Own, OfLights
  <2>2. CASE m.shading # "none"
    BY <1>1, <1>2, <1>3, <1>4, <1>5, <1>9, <2>2 DEF Own, OfLights
  <2> QED BY <2>1, <2>2
<1> QED BY <1>s, <1>11, <1>12 DEF V

\* What a program keeps is its material's own, the lights, and one texture.
LEMMA UniformsFact ==
    ASSUME NEW m \in MaterialRecs
    PROVE  /\ Own(m) \subseteq Uniforms(m)
           /\ Uniforms(m) \ Lights \subseteq Own(m) \cup Samplers(m)
           /\ m.shading # "none" => Lights \subseteq Uniforms(m)
           /\ m.textures # <<>> => Var("Texture") \in Uniforms(m)
<1>1. Own(m) \subseteq VertexUniforms /\ Own(m) \subseteq VertexReads(m)
  <2>1. CASE m.shading = "none"
    BY <2>1 DEF Own, VertexUniforms, VertexReads, Var
  <2>2. CASE m.shading # "none"
    BY <2>2 DEF Own, VertexUniforms, VertexReads, Var
  <2> QED BY <2>1, <2>2
<1>2. m.shading # "none" => Lights \subseteq VertexUniforms \cap VertexReads(m)
  BY DEF VertexUniforms, VertexReads
<1>3. m.textures # <<>> => Var("Texture") \in Samplers(m) \cap FragmentReads(m)
  <2> SUFFICES ASSUME m.textures # <<>> PROVE Var("Texture") \in Samplers(m) \cap FragmentReads(m)
    OBVIOUS
  <2>1. Var("Texture") \in FragmentReads(m)
    BY DEF FragmentReads, First
  <2>2. m.textures \in Seq(TextureRecs)
    BY DEF MaterialRecs
  <2>3. 1 \in DOMAIN m.textures
    BY <2>2
  <2>4. <<"Texture", 1 - 1>> \in Channels("Texture", m.textures) /\ 1 - 1 = 0
    BY <2>3 DEF Channels
  <2> QED BY <2>1, <2>4 DEF Samplers, Var
<1>4. ASSUME NEW v \in VertexUniforms \cap VertexReads(m), v \notin Lights PROVE v \in Own(m)
  <2>1. v \in {Var("Shininess"), Var("Opacity"), Var("Diffuse"), Var("Ambient"), Var("Specular"), Var("MVP"),
               Var("ModelView"), Var("Normal"), Var("PointLightCount")}
    BY <1>4 DEF VertexUniforms
  <2>2. v # Var("Opacity")
    <3>1. Var("Opacity") \notin VertexReads(m)
      BY DEF VertexReads, Var, First, Lights
    <3> QED BY <3>1
  <2>3. CASE m.shading = "none"
    <3>1. VertexReads(m) = {Var("Vertex"), Var("MVP"), Var("Ambient")}
             \cup First(m.colors, "VertexColor") \cup First(m.textures, "VertexTexCoord")
      BY <2>3 DEF VertexReads
    <3>2. v \in {Var("MVP"), Var("Ambient")}
      BY <2>1, <3>1 DEF First, Var
    <3> QED BY <3>2 DEF Own
  <2>4. CASE m.shading # "none"
    BY <2>1, <2>2, <2>4 DEF Own
  <2> QED BY <2>3, <2>4
<1> QED BY <1>1, <1>2, <1>3, <1>4 DEF Uniforms

\* A bind that fails meets a light that is not a point, or one too many.
LEMMA SettingIsFound ==
    ASSUME NEW m \in MaterialRecs, Len(m.textures) <= 1,
           NEW lights \in Seq(LightKinds), NEW i \in DOMAIN Settings(m, lights),
           m.shading # "none" => Len(lights) <= ArraySize /\ "spot" \notin ToSet(lights)
    PROVE  FindsUniform(Settings(m, lights)[i], Uniforms(m))
<1> DEFINE v == Settings(m, lights)[i]
<1>1. v \in Own(m) \cup OfLights(m, lights) \cup Samplers(m)
  BY SettingsFact DEF ToSet
<1> HIDE DEF v
<1>2. ArraySize \in Nat /\ ArraySize > 0
  BY ShadersAssumption
<1>3. CASE v \in Own(m)
  <2>1. v \in Uniforms(m)
    BY <1>3, UniformsFact
  <2>2. \E n \in VarNames \ {"Texture"} : v = Var(n)
    BY <1>3 DEF Own, VarNames
  <2>3. v[1] # "Texture" /\ v[2] = 0 /\ Var(v[1]) = v
    BY <2>2 DEF Var
  <2> QED BY <1>2, <2>1, <2>3 DEF FindsUniform, v
<1>4. CASE v \in OfLights(m, lights)
  <2>1. m.shading # "none" /\ \E k \in 1..(3 * Len(lights)) : v = LightUniform(lights, (k - 1) \div 3, k % 3)
    BY <1>4 DEF OfLights
  <2>2. PICK k \in 1..(3 * Len(lights)) : v = LightUniform(lights, (k - 1) \div 3, k % 3)
    BY <2>1
  <2>3. PICK j \in 0..(Len(lights) - 1) :
           \/ lights[j + 1] # "point" /\ v = <<"not implemented", 0>>
           \/ lights[j + 1] = "point" /\ v \in {<<"PointLightSpecular", j>>, <<"PointLightPosition", j>>,
                                                <<"PointLightDiffuse", j>>}
    BY <2>2, LightUniformFact
  <2>4. j + 1 \in DOMAIN lights /\ Len(lights) \in Nat /\ j \in Nat /\ j < ArraySize
    BY <1>2, <2>1
  <2>5. lights[j + 1] = "point"
    <3>1. lights[j + 1] \in LightKinds /\ lights[j + 1] \in ToSet(lights)
      BY <2>4 DEF ToSet
    <3> QED BY <2>1, <3>1 DEF LightKinds
  <2>6. v[2] = j /\ v[1] # "Texture" /\ Var(v[1]) \in Lights
    BY <2>3, <2>5 DEF Lights
  <2>7. Var(v[1]) \in Uniforms(m)
    BY <2>1, <2>6, UniformsFact
  <2> QED BY <2>4, <2>6, <2>7 DEF FindsUniform, v
<1>5. CASE v \in Samplers(m)
  <2>1. PICK t \in DOMAIN m.textures : v = <<"Texture", t - 1>>
    BY <1>5 DEF Samplers, Channels
  <2>2. m.textures \in Seq(TextureRecs)
    BY DEF MaterialRecs
  <2>3. t = 1 /\ m.textures # <<>>
    BY <2>1, <2>2
  <2>4. v = Var("Texture") /\ v[1] = "Texture"
    BY <2>1, <2>3 DEF Var
  <2>5. v \in Uniforms(m)
    BY <2>3, <2>4, UniformsFact
  <2> QED BY <2>4, <2>5 DEF FindsUniform, v
<1> QED BY <1>1, <1>3, <1>4, <1>5

LEMMA UniformsStaySet == ShadersInv => UniformsAreSet
<1> SUFFICES ASSUME ShadersInv, AsMade
             PROVE  /\ outcome.result # "crashed"
                    /\ outcome.result = "bound" => Uniforms(bindable) \ WasSet \subseteq Lights
                    /\ outcome.result = "thrown" =>
                          material.shading # "none"
                          /\ (Len(outcome.lights) > ArraySize \/ "spot" \in ToSet(outcome.lights))
  BY DEF UniformsAreSet
<1> DEFINE s == Settings(material, outcome.lights)
<1>1. /\ bindable # NoBindable /\ material = bindable /\ Len(material.textures) <= 1
      /\ material \in MaterialRecs /\ \A i \in DOMAIN material.textures : material.textures[i].loaded
  BY DEF AsMade, ShadersInv, MadeIsKnown
<1>2. outcome.result # "none" =>
         /\ outcome.lights \in Seq(LightKinds)
         /\ outcome.result = "bound" => outcome.done = Len(s)
         /\ outcome.result = "crashed" => \E i \in DOMAIN s : IsNull(s[i])
         /\ outcome.result = "thrown" => \E i \in DOMAIN s : ~ FindsUniform(s[i], Uniforms(bindable))
  BY DEF ShadersInv, OutcomeIsKnown
<1>3. outcome.lights \in Seq(LightKinds) =>
         s \in Seq(Variables)
         /\ ToSet(s) = Own(material) \cup OfLights(material, outcome.lights) \cup Samplers(material)
  BY <1>1, SettingsFact
<1>4. ASSUME outcome.result = "crashed" PROVE FALSE
  <2>1. PICK i \in DOMAIN s : IsNull(s[i])
    BY <1>2, <1>4
  <2>2. outcome.lights \in Seq(LightKinds)
    BY <1>2, <1>4
  <2>3. s[i] \in Own(material) \cup OfLights(material, outcome.lights) \cup Samplers(material)
    BY <1>3, <2>2 DEF ToSet
  <2> DEFINE v == s[i]
  <2>4. v[1] = "Texture" /\ ~ material.textures[v[2] + 1].loaded
    BY <2>1 DEF IsNull
  <2> HIDE DEF v
  <2>5. v \notin Own(material)
    BY <2>4 DEF Own, Var
  <2>6. v \notin OfLights(material, outcome.lights)
    <3>1. SUFFICES ASSUME NEW k \in 1..(3 * Len(outcome.lights)),
                          v = LightUniform(outcome.lights, (k - 1) \div 3, k % 3)
                   PROVE  FALSE
      BY DEF OfLights
    <3>2. PICK j \in 0..(Len(outcome.lights) - 1) :
             \/ v = <<"not implemented", 0>> \/ v = <<"PointLightSpecular", j>>
             \/ v = <<"PointLightPosition", j>> \/ v = <<"PointLightDiffuse", j>>
      BY <2>2, <3>1, LightUniformFact
    <3>3. CASE v = <<"not implemented", 0>>
      BY <2>4, <3>3
    <3>4. CASE v = <<"PointLightSpecular", j>>
      BY <2>4, <3>4
    <3>5. CASE v = <<"PointLightPosition", j>>
      BY <2>4, <3>5
    <3>6. CASE v = <<"PointLightDiffuse", j>>
      BY <2>4, <3>6
    <3> QED BY <3>2, <3>3, <3>4, <3>5, <3>6
  <2>7. PICK t \in DOMAIN material.textures : v = <<"Texture", t - 1>>
    BY <2>3, <2>5, <2>6 DEF Samplers, Channels, v
  <2>8. v[2] + 1 = t
    <3>1. t \in Int
      BY <1>1 DEF MaterialRecs
    <3> QED BY <2>7, <3>1
  <2> QED BY <1>1, <2>4, <2>8
<1>5. ASSUME outcome.result = "bound" PROVE Uniforms(bindable) \ WasSet \subseteq Lights
  <2>1. outcome.lights \in Seq(LightKinds) /\ outcome.done = Len(s) /\ s \in Seq(Variables)
    BY <1>2, <1>3, <1>5
  <2>2. WasSet = ToSet(s)
    <3>1. WasSet = ToSet(SubSeq(s, 1, Len(s)))
      BY <2>1 DEF WasSet
    <3> HIDE DEF s
    <3>2. SubSeq(s, 1, Len(s)) = s
      BY <2>1
    <3> QED BY <3>1, <3>2
  <2>3. Own(material) \cup Samplers(material) \subseteq WasSet
    BY <1>3, <2>1, <2>2
  <2> QED BY <1>1, <2>3, UniformsFact
<1>6. ASSUME outcome.result = "thrown",
             ~ (material.shading # "none"
                /\ (Len(outcome.lights) > ArraySize \/ "spot" \in ToSet(outcome.lights)))
      PROVE  FALSE
  <2>1. outcome.lights \in Seq(LightKinds)
    BY <1>2, <1>6
  <2>2. material.shading # "none" => Len(outcome.lights) <= ArraySize /\ "spot" \notin ToSet(outcome.lights)
    <3>1. Len(outcome.lights) \in Nat /\ ArraySize \in Nat
      BY <2>1, ShadersAssumption
    <3> QED BY <1>6, <3>1
  <2>3. PICK i \in DOMAIN s : ~ FindsUniform(s[i], Uniforms(bindable))
    BY <1>2, <1>6
  <2>4. FindsUniform(s[i], Uniforms(material))
    BY <1>1, <2>1, <2>2, SettingIsFound
  <2>5. Uniforms(material) = Uniforms(bindable)
    BY <1>1
  <2> QED BY <2>3, <2>4, <2>5
<1> QED BY <1>4, <1>5, <1>6

LEMMA AttributesStayApart == AttributesAreApart
<1> SUFFICES ASSUME NEW v \in Inputs(bindable), NEW w \in Inputs(bindable), Location(v) = Location(w)
             PROVE  v = w
  BY DEF AttributesAreApart
<1>1. ASSUME NEW x \in Inputs(bindable)
      PROVE  x \in {Var("Vertex"), Var("VertexNormal"), Var("VertexColor"), Var("VertexTexCoord")}
  <2>1. x \in InputsOf(bindable) /\ x \in VertexReads(bindable)
    BY DEF Inputs
  <2>2. x[1] \in {"Vertex", "VertexNormal", "VertexColor", "VertexTexCoord"}
    BY <2>1 DEF InputsOf, Channels, Var
  <2>3. \/ x \in {Var("Vertex"), Var("MVP"), Var("Ambient")}
        \/ x \in First(bindable.colors, "VertexColor") \/ x \in First(bindable.textures, "VertexTexCoord")
        \/ x \in Lights
        \/ x \in {Var("Normal"), Var("VertexNormal"), Var("ModelView"), Var("Diffuse"), Var("Specular"),
                  Var("Shininess"), Var("PointLightCount")}
    BY <2>1 DEF VertexReads
  <2>4. x \notin Lights
    BY <2>2 DEF Lights, Var
  <2>5. x \notin {Var("MVP"), Var("Ambient"), Var("Normal"), Var("ModelView"), Var("Diffuse"), Var("Specular"),
                  Var("Shininess"), Var("PointLightCount")}
    BY <2>2 DEF Var
  <2> QED BY <2>3, <2>4, <2>5 DEF First
<1>2. ASSUME NEW x, x \in {Var("Vertex"), Var("VertexNormal"), Var("VertexColor"), Var("VertexTexCoord")}
      PROVE  /\ Location(x)[2] = KindOfInput(x)
             /\ KindOfInput(x) = CASE x = Var("Vertex") -> "vertex" [] x = Var("VertexNormal") -> "normal"
                                   [] x = Var("VertexColor") -> "color" [] OTHER -> "tex_coord"
  <2>1. Location(x)[2] = KindOfInput(x)
    BY DEF Location, Named
  <2>2. x[1] \in {"Vertex", "VertexNormal", "VertexColor", "VertexTexCoord"} /\ x = Var(x[1])
    BY <1>2 DEF Var
  <2> QED BY <2>1, <2>2 DEF KindOfInput, Var
<1>3. KindOfInput(v) = KindOfInput(w)
  BY <1>1, <1>2
<1> QED BY <1>1, <1>2, <1>3

\* What a material says is what its shaders read and are given, for any version of
\* GLSL and any number of channels and lights: a material that is as its bindable
\* was made binds, with every uniform its shaders read set, unless a light is not a
\* point or is one too many, and the attributes that are read are at places of
\* their own (Material::bindable, ShaderRoutine, ShaderGenerator, Bindable::_bind).
THEOREM ShadersStayFaithful == ShadersSpec => []ShadersFollowMaterials
<1>1. ShadersInit => ShadersInv
  BY ShadersStart
<1>2. ShadersInv /\ [ShadersNext]_shaderVars => ShadersInv'
  BY ShadersStep
<1>3. ShadersInv => ShadersFollowMaterials
  BY UniformsStaySet, AttributesStayApart DEF ShadersInv, ShadersFollowMaterials
<1> QED BY <1>1, <1>2, <1>3, PTL DEF ShadersSpec

(* Textures                                                                  *)

\* A surface has the format of the pixels that SDL says it has; so had the surface that
\* a texture was made of.
IsPicture(s) ==
    /\ s = [sdl |-> s.sdl, pf |-> s.pf, bytes |-> s.bytes, owned |-> s.owned]
    /\ s.sdl \in DOMAIN SDLBytes /\ Supported(s.sdl)
    /\ s.pf = PixelFormatOf(s.sdl)

IsTexture(t) ==
    /\ t = [made |-> t.made, shown |-> t.shown, mips |-> t.mips, filter |-> t.filter]
    /\ DOMAIN t.shown = 1..Columns /\ t.shown = [x \in 1..Columns |-> t.shown[x]]
    /\ Arrives(t.made) => \A x \in 1..Columns : t.shown[x] \subseteq {Right}
    /\ t.filter \in {"bilinear", "trilinear"} => t.mips

PicturesInv ==
    /\ dataHeld \in BOOLEAN
    /\ surface # NoPicture => IsPicture(surface)
    /\ texture # NoPicture => IsTexture(texture)

LEMMA SameOrder ==
    /\ Sampled(RGB, RGB) = Right /\ Sampled(RGBA, RGBA) = Right
    /\ Sampled(BGR, BGR) = Right /\ Sampled(BGRA, BGRA) = Right
<1>1. Sampled(RGB, RGB) = Right
  <2>1. \A i \in DOMAIN RGB : RGB[i] = "r" <=> i = 1
    BY DEF RGB
  <2>2. \A i \in DOMAIN RGB : RGB[i] = "g" <=> i = 2
    BY DEF RGB
  <2>3. \A i \in DOMAIN RGB : RGB[i] = "b" <=> i = 3
    BY DEF RGB
  <2>4. 1 \in DOMAIN RGB /\ 2 \in DOMAIN RGB /\ 3 \in DOMAIN RGB
        /\ RGB[1] = "r" /\ RGB[2] = "g" /\ RGB[3] = "b"
    BY DEF RGB
  <2>5. /\ (CHOOSE n \in DOMAIN RGB : RGB[n] = "r") = 1
        /\ (CHOOSE n \in DOMAIN RGB : RGB[n] = "g") = 2
        /\ (CHOOSE n \in DOMAIN RGB : RGB[n] = "b") = 3
    BY <2>1, <2>2, <2>3, <2>4
  <2> QED BY <2>4, <2>5 DEF Sampled, Right
<1>2. Sampled(RGBA, RGBA) = Right
  <2>0. RGBA = <<"r", "g", "b", "a">>
    BY DEF RGBA
  <2>1. \A i \in DOMAIN RGBA : RGBA[i] = "r" <=> i = 1
    BY <2>0
  <2>2. \A i \in DOMAIN RGBA : RGBA[i] = "g" <=> i = 2
    BY <2>0
  <2>3. \A i \in DOMAIN RGBA : RGBA[i] = "b" <=> i = 3
    BY <2>0
  <2>4. 1 \in DOMAIN RGBA /\ 2 \in DOMAIN RGBA /\ 3 \in DOMAIN RGBA
        /\ RGBA[1] = "r" /\ RGBA[2] = "g" /\ RGBA[3] = "b"
    BY <2>0
  <2>5. /\ (CHOOSE n \in DOMAIN RGBA : RGBA[n] = "r") = 1
        /\ (CHOOSE n \in DOMAIN RGBA : RGBA[n] = "g") = 2
        /\ (CHOOSE n \in DOMAIN RGBA : RGBA[n] = "b") = 3
    BY <2>1, <2>2, <2>3, <2>4
  <2> QED BY <2>4, <2>5 DEF Sampled, Right
<1>3. Sampled(BGR, BGR) = Right
  <2>1. \A i \in DOMAIN BGR : BGR[i] = "r" <=> i = 3
    BY DEF BGR
  <2>2. \A i \in DOMAIN BGR : BGR[i] = "g" <=> i = 2
    BY DEF BGR
  <2>3. \A i \in DOMAIN BGR : BGR[i] = "b" <=> i = 1
    BY DEF BGR
  <2>4. 1 \in DOMAIN BGR /\ 2 \in DOMAIN BGR /\ 3 \in DOMAIN BGR
        /\ BGR[3] = "r" /\ BGR[2] = "g" /\ BGR[1] = "b"
    BY DEF BGR
  <2>5. /\ (CHOOSE n \in DOMAIN BGR : BGR[n] = "r") = 3
        /\ (CHOOSE n \in DOMAIN BGR : BGR[n] = "g") = 2
        /\ (CHOOSE n \in DOMAIN BGR : BGR[n] = "b") = 1
    BY <2>1, <2>2, <2>3, <2>4
  <2> QED BY <2>4, <2>5 DEF Sampled, Right
<1>4. Sampled(BGRA, BGRA) = Right
  <2>0. BGRA = <<"b", "g", "r", "a">>
    BY DEF BGRA
  <2>1. \A i \in DOMAIN BGRA : BGRA[i] = "r" <=> i = 3
    BY <2>0
  <2>2. \A i \in DOMAIN BGRA : BGRA[i] = "g" <=> i = 2
    BY <2>0
  <2>3. \A i \in DOMAIN BGRA : BGRA[i] = "b" <=> i = 1
    BY <2>0
  <2>4. 1 \in DOMAIN BGRA /\ 2 \in DOMAIN BGRA /\ 3 \in DOMAIN BGRA
        /\ BGRA[3] = "r" /\ BGRA[2] = "g" /\ BGRA[1] = "b"
    BY <2>0
  <2>5. /\ (CHOOSE n \in DOMAIN BGRA : BGRA[n] = "r") = 3
        /\ (CHOOSE n \in DOMAIN BGRA : BGRA[n] = "g") = 2
        /\ (CHOOSE n \in DOMAIN BGRA : BGRA[n] = "b") = 1
    BY <2>1, <2>2, <2>3, <2>4
  <2> QED BY <2>4, <2>5 DEF Sampled, Right
<1> QED BY <1>1, <1>2, <1>3, <1>4

LEMMA ArrivalsAreRead ==
    ASSUME NEW s, IsPicture(s), Arrives(s)
    PROVE  \A b \in s.bytes : Sampled(b, ReadAs(s.pf)) = Right
<1>1. CASE s.sdl = "RGB24" /\ s.bytes \subseteq {SDLBytes[s.sdl]}
  <2>1. s.pf = "rgb8" /\ SDLBytes[s.sdl] = RGB
    BY <1>1 DEF IsPicture, PixelFormatOf, SDLBytes
  <2>2. ReadAs(s.pf) = RGB
    BY <2>1 DEF ReadAs
  <2> QED BY <1>1, <2>1, <2>2, SameOrder
<1>2. CASE s.sdl = "BGR24" /\ s.bytes \subseteq {SDLBytes[s.sdl]}
  <2>1. s.pf = "bgr8" /\ SDLBytes[s.sdl] = BGR
    BY <1>2 DEF IsPicture, PixelFormatOf, SDLBytes
  <2>2. ReadAs(s.pf) = BGR
    BY <2>1 DEF ReadAs
  <2> QED BY <1>2, <2>1, <2>2, SameOrder
<1>3. CASE s.sdl = "ARGB8888" /\ s.bytes \subseteq {SDLBytes[s.sdl]}
  <2>1. s.pf = "argb8" /\ SDLBytes[s.sdl] = BGRA
    BY <1>3 DEF IsPicture, PixelFormatOf, SDLBytes
  <2>2. ReadAs(s.pf) = BGRA
    BY <2>1 DEF ReadAs
  <2> QED BY <1>3, <2>1, <2>2, SameOrder
<1>4. CASE s.sdl = "ABGR8888" /\ s.bytes \subseteq {SDLBytes[s.sdl]}
  <2>1. s.pf = "abgr8" /\ SDLBytes[s.sdl] = RGBA
    BY <1>4 DEF IsPicture, PixelFormatOf, SDLBytes
  <2>2. ReadAs(s.pf) = RGBA
    BY <2>1 DEF ReadAs
  <2> QED BY <1>4, <2>1, <2>2, SameOrder
<1>5. CASE s.sdl = "RGBA8888" /\ s.bytes \subseteq {Mask(s.pf)}
  <2>1. s.pf = "rgba8"
    BY <1>5 DEF IsPicture, PixelFormatOf
  <2>2. ReadAs(s.pf) = RGBA /\ Mask(s.pf) = RGBA
    BY <2>1 DEF ReadAs, Mask
  <2> QED BY <1>5, <2>1, <2>2, SameOrder
<1> QED BY <1>1, <1>2, <1>3, <1>4, <1>5 DEF Arrives

\* The base formats that OpenGL is given are those at the places of their own names.
LEMMA BasesAreTheirOwn ==
    /\ GLFormat("red") = "red" /\ GLFormat("rgb") = "rgb"
    /\ ~ IsBase(GLFormat("rgba8")) /\ ~ IsBase(GLFormat("bgr8"))
    /\ GLFormat("rgba") = "rgba"
<1>1. /\ DOMAIN PixelFormats = 1..35
      /\ \A i \in 1..35 : /\ PixelFormats[i] = "red" <=> i = 3
                          /\ PixelFormats[i] = "rgb" <=> i = 5
                          /\ PixelFormats[i] = "rgba" <=> i = 6
                          /\ PixelFormats[i] = "rgba8" <=> i = 35
                          /\ PixelFormats[i] = "bgr8" <=> i = 21
  BY DEF PixelFormats
<1>2. /\ PixelFormatMap[3] = "red" /\ PixelFormatMap[5] = "rgb" /\ PixelFormatMap[6] = "rgba"
      /\ PixelFormatMap[35] = "rg16f" /\ PixelFormatMap[21] = "rgb12"
  BY DEF PixelFormatMap, PixelFormats
<1>3. GLFormat("red") = PixelFormatMap[3]
  BY <1>1 DEF GLFormat
<1>4. GLFormat("rgb") = PixelFormatMap[5]
  BY <1>1 DEF GLFormat
<1>5. GLFormat("rgba") = PixelFormatMap[6]
  BY <1>1 DEF GLFormat
<1>6. GLFormat("rgba8") = PixelFormatMap[35]
  BY <1>1 DEF GLFormat
<1>7. GLFormat("bgr8") = PixelFormatMap[21]
  BY <1>1 DEF GLFormat
<1> QED BY <1>2, <1>3, <1>4, <1>5, <1>6, <1>7 DEF IsBase

LEMMA PicturesStart == PicturesInit => PicturesInv
BY DEF PicturesInit, PicturesInv

LEMMA SurfacesKeep ==
    ASSUME PicturesInv, UNCHANGED texture,
           \/ \E sdl \in DOMAIN SDLBytes : Load(sdl)
           \/ \E pf \in {"r8", "rg", "rgb", "rgb8", "bgr8", "rgba", "rgba8", "argb8", "rgb4"},
                 sdl \in DOMAIN SDLBytes : Blank(pf, sdl) \/ FromData(pf, sdl)
           \/ FillRect \/ FreeData
    PROVE  PicturesInv'
<1>1. dataHeld' \in BOOLEAN
  BY DEF Load, Blank, FromData, FillRect, FreeData, PicturesInv
<1>2. texture' # NoPicture => IsTexture(texture')
  BY DEF PicturesInv
<1>3. surface' # NoPicture => IsPicture(surface')
  <2>1. CASE \E sdl \in DOMAIN SDLBytes : Load(sdl)
    BY <2>1 DEF Load, IsPicture
  <2>2. CASE \E pf \in {"r8", "rg", "rgb", "rgb8", "bgr8", "rgba", "rgba8", "argb8", "rgb4"},
                sdl \in DOMAIN SDLBytes : Blank(pf, sdl) \/ FromData(pf, sdl)
    <3>1. PICK pf \in {"r8", "rg", "rgb", "rgb8", "bgr8", "rgba", "rgba8", "argb8", "rgb4"},
               sdl \in DOMAIN SDLBytes : Blank(pf, sdl) \/ FromData(pf, sdl)
      BY <2>2
    <3> QED BY <3>1 DEF Blank, FromData, IsPicture
  <2>3. CASE FillRect
    BY <2>3 DEF FillRect, IsPicture, PicturesInv
  <2>4. CASE FreeData
    BY <2>4 DEF FreeData, PicturesInv
  <2> QED BY <2>1, <2>2, <2>3, <2>4
<1> QED BY <1>1, <1>2, <1>3 DEF PicturesInv, IsTexture, IsPicture

LEMMA MakeTextureKeeps == ASSUME PicturesInv, MakeTexture PROVE PicturesInv'
<1>1. IsPicture(surface) /\ UNCHANGED <<surface, dataHeld>>
  BY DEF MakeTexture, PicturesInv
<1> DEFINE row == [x \in 1..Columns |-> {Sampled(b, ReadAs(surface.pf)) : b \in surface.bytes}]
<1>2. texture' = [made |-> surface, shown |-> row, mips |-> FALSE, filter |-> "nearest"]
  BY DEF MakeTexture
<1>3. Arrives(surface) => \A x \in 1..Columns : row[x] \subseteq {Right}
  BY <1>1, ArrivalsAreRead
<1>4. DOMAIN row = 1..Columns /\ row = [x \in 1..Columns |-> row[x]]
  OBVIOUS
<1> HIDE DEF row
<1>5. IsTexture(texture')
  BY <1>2, <1>3, <1>4 DEF IsTexture
<1> QED BY <1>1, <1>5 DEF PicturesInv

LEMMA SetDataKeeps ==
    ASSUME PicturesInv, NEW x \in 0..Columns, NEW width \in 0..Columns,
           NEW pf \in {"red", "rgb", "rgba", "rgba8", "bgr8"}, SetData(x, width, pf)
    PROVE  PicturesInv'
<1> DEFINE set == IF Len(Mask(pf)) >= 3 THEN {Sampled(Mask(pf), Mask(GLFormat(pf)))} ELSE {}
           row == [c \in 1..Columns |-> IF c \in (x + 1)..(x + width) THEN set ELSE texture.shown[c]]
<1>1. IsTexture(texture) /\ UNCHANGED <<surface, dataHeld>>
  BY DEF SetData, PicturesInv
<1>2. texture' = [texture EXCEPT !.shown = row]
  BY DEF SetData
<1>3. set \subseteq {Right}
  <2>1. CASE pf = "red"
    <3>1. Len(Mask(pf)) = 1
      BY <2>1 DEF Mask
    <3> QED BY <3>1
  <2>2. CASE pf = "rgb"
    BY <2>2, BasesAreTheirOwn, SameOrder DEF Mask
  <2>3. CASE pf = "rgba"
    BY <2>3, BasesAreTheirOwn, SameOrder DEF Mask
  <2>4. CASE pf \in {"rgba8", "bgr8"}
    BY <2>4, BasesAreTheirOwn DEF SetData
  <2> QED BY <2>1, <2>2, <2>3, <2>4
<1> HIDE DEF set
<1>4. Arrives(texture.made) => \A c \in 1..Columns : row[c] \subseteq {Right}
  BY <1>1, <1>3 DEF IsTexture
<1>5. DOMAIN row = 1..Columns /\ row = [c \in 1..Columns |-> row[c]]
  OBVIOUS
<1> HIDE DEF row
<1>6. texture' = [made |-> texture.made, shown |-> row, mips |-> texture.mips, filter |-> texture.filter]
  BY <1>1, <1>2 DEF IsTexture
<1>7. IsTexture(texture')
  BY <1>1, <1>4, <1>5, <1>6 DEF IsTexture
<1> QED BY <1>1, <1>7 DEF PicturesInv

LEMMA TexturesKeep ==
    ASSUME PicturesInv, UNCHANGED <<surface, dataHeld>>,
           \/ DropTexture \/ GenerateMipmap
           \/ \E filter \in {"nearest", "linear", "bilinear", "trilinear"} : MinFilter(filter)
    PROVE  PicturesInv'
<1>1. texture' # NoPicture => IsTexture(texture')
  <2>1. CASE DropTexture
    BY <2>1 DEF DropTexture
  <2>2. CASE GenerateMipmap
    <3>1. IsTexture(texture) /\ texture' = [texture EXCEPT !.mips = TRUE]
      BY <2>2 DEF GenerateMipmap, PicturesInv
    <3>2. texture' = [made |-> texture.made, shown |-> texture.shown, mips |-> TRUE, filter |-> texture.filter]
      BY <3>1 DEF IsTexture
    <3> QED BY <3>1, <3>2 DEF IsTexture
  <2>3. CASE \E filter \in {"nearest", "linear", "bilinear", "trilinear"} : MinFilter(filter)
    <3>1. PICK filter \in {"nearest", "linear", "bilinear", "trilinear"} : MinFilter(filter)
      BY <2>3
    <3>2. /\ IsTexture(texture) /\ texture' = [texture EXCEPT !.filter = filter]
          /\ filter \in {"bilinear", "trilinear"} => texture.mips
      BY <3>1 DEF MinFilter, PicturesInv
    <3>3. texture' = [made |-> texture.made, shown |-> texture.shown, mips |-> texture.mips, filter |-> filter]
      BY <3>2 DEF IsTexture
    <3> QED BY <3>2, <3>3 DEF IsTexture
  <2> QED BY <2>1, <2>2, <2>3
<1> QED BY <1>1 DEF PicturesInv

LEMMA PicturesStep == PicturesInv /\ [PicturesNext]_pictureVars => PicturesInv'
<1> SUFFICES ASSUME PicturesInv, [PicturesNext]_pictureVars PROVE PicturesInv'
  OBVIOUS
<1>1. CASE \/ \E sdl \in DOMAIN SDLBytes : Load(sdl)
           \/ \E pf \in {"r8", "rg", "rgb", "rgb8", "bgr8", "rgba", "rgba8", "argb8", "rgb4"},
                 sdl \in DOMAIN SDLBytes : Blank(pf, sdl) \/ FromData(pf, sdl)
           \/ FillRect \/ FreeData
  <2>1. UNCHANGED texture
    BY <1>1 DEF Load, Blank, FromData, FillRect, FreeData
  <2> QED BY <1>1, <2>1, SurfacesKeep
<1>2. CASE MakeTexture
  BY <1>2, MakeTextureKeeps
<1>3. CASE \E x \in 0..Columns, width \in 0..Columns, pf \in {"red", "rgb", "rgba", "rgba8", "bgr8"} :
              SetData(x, width, pf)
  BY <1>3, SetDataKeeps
<1>4. CASE \/ DropTexture \/ GenerateMipmap
           \/ \E filter \in {"nearest", "linear", "bilinear", "trilinear"} : MinFilter(filter)
  <2>1. UNCHANGED <<surface, dataHeld>>
    BY <1>4 DEF DropTexture, GenerateMipmap, MinFilter
  <2> QED BY <1>4, <2>1, TexturesKeep
<1>5. CASE UNCHANGED pictureVars
  BY <1>5 DEF pictureVars, PicturesInv, IsTexture, IsPicture
<1> QED BY <1>1, <1>2, <1>3, <1>4, <1>5 DEF PicturesNext

LEMMA PicturesInvAlways == PicturesSpec => []PicturesInv
<1>1. PicturesInit => PicturesInv
  BY PicturesStart
<1>2. PicturesInv /\ [PicturesNext]_pictureVars => PicturesInv'
  BY PicturesStep
<1> QED BY <1>1, <1>2, PTL DEF PicturesSpec

\* A texture shows the colours of the picture it was made of, at every place where no
\* other data was set, and of that data at the others, whatever formats SDL, the code
\* and OpenGL say (Texture.cpp, Surface.cpp, constants.cpp); and no filter reads
\* mipmaps that were never made.
THEOREM ColorsStayKept == PicturesSpec => []ColorsAreKept
<1>1. PicturesInv => ColorsAreKept
  <2> SUFFICES ASSUME PicturesInv PROVE ColorsAreKept
    OBVIOUS
  <2>1. PicturesTypeOK
    BY DEF PicturesInv, PicturesTypeOK, IsPicture, IsTexture
  <2> QED BY <2>1 DEF PicturesInv, IsTexture, ColorsAreKept
<1> QED BY <1>1, PicturesInvAlways, PTL
=============================================================================
