------------------------------ MODULE GameProofs ------------------------------
(***************************************************************************)
(* Proofs about the program that plays a game: what its inputs tell the    *)
(* game, which components its systems work on, which events its            *)
(* controllers get, what several launches at once leave of the installed   *)
(* release and of the temporary files, and what the game sees of its       *)
(* world.                                                                  *)
(***************************************************************************)
EXTENDS EntityManager, GameInputs, EventManager, Launcher, Octree, SequenceLemmas,
        FiniteSetTheorems

-----------------------------------------------------------------------------
(* GameInputs, for any keys, modifiers, bindings and maximum of a poll *)

Types == {"pressed", "released"}
Tellings == Types \X Names
InputEvents ==
    [type : Types, mask : SUBSET KeyMods, key : Keys]
      \cup [type : {"other", "motion", "resize", "expose", "escape", "close"}]

\* The sequence of a set of no element or one.
LEMMA SetToSeqFact ==
    /\ SetToSeq({}) = <<>>
    /\ \A x : SetToSeq({x}) = <<x>>
<1>1. SetToSeq({}) = <<>>
  <2>1. Cardinality({}) = 0
    BY FS_EmptySet
  <2>2. <<>> \in [1..0 -> {}] /\ IsInjective(<<>>)
    BY DEF IsInjective
  <2>3. \A f \in [1..0 -> {}] : f = <<>>
    OBVIOUS
  <2> QED BY <2>1, <2>2, <2>3 DEF SetToSeq
<1>2. ASSUME NEW x PROVE SetToSeq({x}) = <<x>>
  <2>1. Cardinality({x}) = 1
    BY FS_Singleton
  <2>2. <<x>> \in [1..1 -> {x}] /\ IsInjective(<<x>>)
    BY DEF IsInjective
  <2>3. \A f \in [1..1 -> {x}] : f = <<x>>
    OBVIOUS
  <2> QED BY <2>1, <2>2, <2>3 DEF SetToSeq
<1> QED BY <1>1, <1>2

\* A key under some modifiers is one binding at most.
LEMMA OneBinding ==
    ASSUME NEW mask, NEW key, NEW n \in KeyboardInput(mask, key), NEW o \in KeyboardInput(mask, key)
    PROVE  n = o
BY InputAssumption DEF KeyboardInput

LEMMA BindingFact ==
    ASSUME NEW type, NEW mask, NEW key
    PROVE  LET t == SetToSeq({<<type, n>> : n \in KeyboardInput(mask, key)}) IN
           \/ KeyboardInput(mask, key) = {} /\ t = <<>>
           \/ \E n \in Names : KeyboardInput(mask, key) = {n} /\ t = << <<type, n>> >>
<1> DEFINE s == KeyboardInput(mask, key)
<1>1. s \subseteq Names /\ \A n, o \in s : n = o
  BY OneBinding DEF KeyboardInput
<1> HIDE DEF s
<1>2. CASE s = {}
  <2>1. {<<type, n>> : n \in s} = {}
    BY <1>2
  <2> QED BY <1>2, <2>1, SetToSeqFact DEF s
<1>3. CASE s # {}
  <2>1. PICK n \in s : TRUE
    BY <1>3
  <2>2. s = {n} /\ n \in Names
    BY <1>1, <2>1
  <2>3. {<<type, m>> : m \in s} = {<<type, n>>}
    BY <2>2
  <2>4. SetToSeq({<<type, m>> : m \in s}) = << <<type, n>> >>
    BY <2>3, SetToSeqFact
  <2> QED BY <2>2, <2>4 DEF s
<1> QED BY <1>2, <1>3

\* What the window hands over as a key of the game is what the player meant by it.
LEMMA MeantFact ==
    ASSUME NEW type \in Types, NEW k, mods \subseteq KeyMods
    PROVE  Translation(KeyEvent(type, k)) = Meant(type, k)
<1> DEFINE held == mods \ {"num"}
           fits(m) == IF m = Ctrl THEN held \subseteq Ctrl /\ Cardinality(held) = 1 ELSE held = m
<1>1. ASSUME NEW n \in Names
      PROVE  fits(BoundTo[n][1]) <=> held \in Masks(n)
  <2>1. CASE BoundTo[n][1] = Ctrl
    <3>1. held \subseteq Ctrl /\ Cardinality(held) = 1 <=> \E c \in Ctrl : held = {c}
      <4>1. ASSUME NEW c \in Ctrl, held = {c}
            PROVE  held \subseteq Ctrl /\ Cardinality(held) = 1
        BY <4>1, FS_Singleton
      <4>2. ASSUME held \subseteq Ctrl, Cardinality(held) = 1
            PROVE  \E c \in Ctrl : held = {c}
        <5>1. IsFiniteSet(Ctrl)
          <6>1. IsFiniteSet({"lctrl"})
            BY FS_Singleton
          <6>2. IsFiniteSet({"lctrl"} \cup {"rctrl"})
            BY <6>1, FS_AddElement
          <6> QED BY <6>2 DEF Ctrl
        <5>2. IsFiniteSet(held)
          BY <4>2, <5>1, FS_Subset
        <5>3. PICK c : held = {c}
          BY <4>2, <5>2, FS_Singleton
        <5> QED BY <4>2, <5>3
      <4> QED BY <4>1, <4>2
    <3>2. held \in Masks(n) <=> \E c \in Ctrl : held = {c}
      BY <2>1 DEF Masks
    <3> QED BY <2>1, <3>1, <3>2
  <2>2. CASE BoundTo[n][1] # Ctrl
    BY <2>2 DEF Masks
  <2> QED BY <2>1, <2>2
<1>2. KeyboardInput(mods, k) = {n \in Names : BoundTo[n][2] = k /\ fits(BoundTo[n][1])}
  <2> HIDE DEF fits, held
  <2>1. KeyboardInput(mods, k) = {n \in Names : held \in Masks(n) /\ k = BoundTo[n][2]}
    BY DEF KeyboardInput, held
  <2> QED BY <1>1, <2>1
<1>3. Translation(KeyEvent(type, k)) = SetToSeq({<<type, n>> : n \in KeyboardInput(mods, k)})
  BY DEF Translation, KeyEvent, Types
<1>4. Meant(type, k) =
        SetToSeq({<<type, n>> : n \in {n \in Names : BoundTo[n][2] = k /\ fits(BoundTo[n][1])}})
  BY DEF Meant
<1> QED BY <1>2, <1>3, <1>4

\* The translations of what is queued.
Translations(q) == [i \in DOMAIN q |-> Translation(q[i])]
Queued(q) == FlattenSeq(Translations(q))

LEMMA TranslationType ==
    ASSUME NEW e \in InputEvents
    PROVE  Translation(e) \in Seq(Tellings)
<1>1. CASE e.type \in Types
  <2>1. Translation(e) = SetToSeq({<<e.type, n>> : n \in KeyboardInput(e.mask, e.key)})
    BY <1>1 DEF Translation, Types
  <2>2. \A n \in Names : << <<e.type, n>> >> \in Seq(Tellings)
    BY <1>1 DEF Tellings
  <2>3. <<>> \in Seq(Tellings)
    BY EmptySeq
  <2> DEFINE t == Translation(e)
  <2>4. t = <<>> \/ \E n \in Names : t = << <<e.type, n>> >>
    <3> DEFINE type == e.type
               mask == e.mask
               key == e.key
    <3>1. t = SetToSeq({<<type, n>> : n \in KeyboardInput(mask, key)})
      BY <2>1
    <3> HIDE DEF t, type, mask, key
    <3>2. LET x == SetToSeq({<<type, n>> : n \in KeyboardInput(mask, key)}) IN
          \/ KeyboardInput(mask, key) = {} /\ x = <<>>
          \/ \E n \in Names : KeyboardInput(mask, key) = {n} /\ x = << <<type, n>> >>
      BY BindingFact
    <3>3. t = <<>> \/ \E n \in Names : t = << <<type, n>> >>
      BY <3>1, <3>2
    <3> QED BY <3>3 DEF type
  <2> HIDE DEF t
  <2>5. t \in Seq(Tellings)
    BY <2>2, <2>3, <2>4
  <2> QED BY <2>5 DEF t
<1>2. CASE e.type \notin Types
  BY <1>2 DEF Translation, Types
<1> QED BY <1>1, <1>2

LEMMA TranslationsType ==
    ASSUME NEW q \in Seq(InputEvents)
    PROVE  /\ Translations(q) \in Seq(Seq(Tellings)) /\ Len(Translations(q)) = Len(q)
           /\ Queued(q) \in Seq(Tellings)
<1>1. Len(q) \in Nat /\ DOMAIN q = 1..Len(q) /\ \A i \in 1..Len(q) : q[i] \in InputEvents
  OBVIOUS
<1>2. \A i \in 1..Len(q) : Translation(q[i]) \in Seq(Tellings)
  BY <1>1, TranslationType
<1> DEFINE n == Len(q)
<1> HIDE DEF n
<1>3. Translations(q) \in [1..n -> Seq(Tellings)] /\ n \in Nat
  BY <1>1, <1>2 DEF Translations, n
<1>4. Translations(q) \in Seq(Seq(Tellings)) /\ Len(Translations(q)) = n
  BY <1>3
<1> QED BY <1>4, FlattenType DEF Queued, n

LEMMA QueuedAppend ==
    ASSUME NEW q \in Seq(InputEvents), NEW e \in InputEvents
    PROVE  Queued(Append(q, e)) = Queued(q) \o Translation(e)
<1> DEFINE ts == Translations(q)
           x == Translation(e)
           n == Len(q)
<1>1. ts \in Seq(Seq(Tellings)) /\ Len(ts) = n /\ x \in Seq(Tellings)
  BY TranslationsType, TranslationType
<1>2. Translations(Append(q, e)) = Append(ts, x)
  <2> DEFINE l == Translations(Append(q, e))
             r == Append(ts, x)
  <2>1. Append(q, e) \in Seq(InputEvents) /\ Len(Append(q, e)) = n + 1 /\ n \in Nat
    OBVIOUS
  <2>2. l \in Seq(Seq(Tellings)) /\ Len(l) = n + 1
    BY <2>1, TranslationsType
  <2>3. \A i \in 1..(n + 1) : l[i] = Translation(Append(q, e)[i])
    BY <2>1 DEF Translations
  <2>4. \A i \in 1..n : ts[i] = Translation(q[i])
    BY DEF Translations
  <2> HIDE DEF ts, l
  <2>5. r \in Seq(Seq(Tellings)) /\ Len(r) = n + 1 /\ r[n + 1] = x /\ \A i \in 1..n : r[i] = ts[i]
    <3> HIDE DEF x, n
    <3> QED BY <1>1, <2>1
  <2>6. \A i \in 1..n : Append(q, e)[i] = q[i]
    OBVIOUS
  <2>7. Append(q, e)[n + 1] = e
    OBVIOUS
  <2> HIDE DEF r
  <2>8. \A i \in 1..(n + 1) : l[i] = r[i]
    <3> TAKE i \in 1..(n + 1)
    <3>1. CASE i = n + 1
      BY <2>3, <2>5, <2>7, <3>1
    <3>2. CASE i # n + 1
      <4>1. i \in 1..n
        <5> HIDE DEF n
        <5> QED BY <2>1, <3>2
      <4> QED BY <2>3, <2>4, <2>5, <2>6, <4>1
    <3> QED BY <3>1, <3>2
  <2>9. l = r
    BY <2>2, <2>5, <2>8, SeqEqual
  <2> QED BY <2>9 DEF l, r
<1> HIDE DEF ts, x
<1>3. FlattenSeq(Append(ts, x)) = FlattenSeq(ts) \o x
  BY <1>1, FlattenAppend
<1> QED BY <1>2, <1>3 DEF Queued, ts, x

LEMMA QueuedTail ==
    ASSUME NEW q \in Seq(InputEvents), q # <<>>
    PROVE  Queued(q) = Translation(Head(q)) \o Queued(Tail(q))
<1> DEFINE ts == Translations(q)
<1>1. ts \in Seq(Seq(Tellings)) /\ Len(ts) = Len(q)
  BY TranslationsType
<1>2. Len(q) \in Nat \ {0} /\ Tail(q) \in Seq(InputEvents) /\ Len(Tail(q)) = Len(q) - 1
  OBVIOUS
<1>3. \A i \in 1..Len(q) : ts[i] = Translation(q[i])
  BY DEF Translations
<1>4. ts # <<>> /\ Head(ts) = Translation(Head(q))
  <2>1. 1 \in 1..Len(q)
    BY <1>2
  <2> HIDE DEF ts
  <2> QED BY <1>1, <1>2, <1>3, <2>1
<1>5. Tail(ts) = Translations(Tail(q))
  <2> DEFINE l == Tail(ts)
             r == Translations(Tail(q))
             n == Len(q) - 1
  <2>1. r \in Seq(Seq(Tellings)) /\ Len(r) = n /\ n \in Nat
    <3> DEFINE t == Tail(q)
    <3>1. t \in Seq(InputEvents) /\ Len(t) = n /\ n \in Nat
      BY <1>2
    <3> HIDE DEF t
    <3>2. Translations(t) \in Seq(Seq(Tellings)) /\ Len(Translations(t)) = Len(t)
      BY <3>1, TranslationsType
    <3> QED BY <3>1, <3>2 DEF t
  <2>2. \A i \in 1..n : r[i] = Translation(Tail(q)[i])
    BY <1>2 DEF Translations
  <2>3. \A i \in 1..n : Tail(q)[i] = q[i + 1] /\ i + 1 \in 1..Len(q)
    BY <1>2
  <2> HIDE DEF ts, r
  <2>4. l \in Seq(Seq(Tellings)) /\ Len(l) = n /\ \A i \in 1..n : l[i] = ts[i + 1]
    BY <1>1, <1>2, <1>4
  <2> HIDE DEF l, n
  <2>5. \A i \in 1..n : l[i] = r[i]
    BY <1>3, <2>2, <2>3, <2>4
  <2>6. l = r
    BY <2>1, <2>4, <2>5, SeqEqual
  <2> QED BY <2>6 DEF l, r
<1> HIDE DEF ts
<1>6. FlattenSeq(ts) = Head(ts) \o FlattenSeq(Tail(ts))
  BY <1>1, <1>4, FlattenTail
<1> QED BY <1>4, <1>5, <1>6 DEF Queued, ts
-----------------------------------------------------------------------------
(* The state *)

Phases == {"update", "window", "fire", "held", "events", "over"}

TypesAre ==
    /\ osQueue \in Seq(InputEvents)
    /\ typed \in Seq(Tellings) /\ told \in Seq(Tellings)
    /\ toFire \in Seq(Tellings) /\ firing \in Seq(Tellings)
    /\ heldKeys \subseteq Names /\ mods \subseteq KeyMods
    /\ phase \in Phases

\* The events that the translator has are told before it takes more.
FiringIsOver == phase \notin {"fire", "over"} => firing = <<>>

\* The size is known but while Window::_poll has a resize to tell.
SizeIsKnown ==
    /\ SizeIsTold
    /\ phase = "window" /\ ~redraw => size = IF newSize # NoSize THEN newSize ELSE viewport
    /\ size \in {0, 1}

\* What the translator knows of the keys.
Known == told \o firing \o toFire

\* A binding held: its last event in a sequence of them is a press.
LastIsPress(s, n) == \E i \in DOMAIN s : s[i] = <<"pressed", n>> /\ \A j \in DOMAIN s : j > i => s[j][2] # n

InputInv ==
    /\ TypesAre /\ FiringIsOver
    /\ KeysAreTold /\ HeldIsPressed /\ MotionIsKept /\ SizeIsKnown

\* Both states of a step.
LEMMA HeldFact ==
    /\ HeldIsPressed <=> \A n \in heldKeys : LastIsPress(Known, n)
    /\ HeldIsPressed' <=> \A n \in heldKeys' : LastIsPress(Known', n)
BY DEF HeldIsPressed, LastIsPress, Known

\* A further event of another binding leaves a last press the last one.
LEMMA LastStays ==
    ASSUME NEW s \in Seq(Tellings), NEW n \in Names, NEW x \in Tellings,
           x[2] # n \/ x = <<"pressed", n>>, x = <<"pressed", n>> \/ LastIsPress(s, n)
    PROVE  LastIsPress(s \o <<x>>, n)
<1> DEFINE r == s \o <<x>>
           l == Len(s)
<1>1. l \in Nat /\ Len(r) = l + 1 /\ DOMAIN r = 1..(l + 1) /\ DOMAIN s = 1..l
  OBVIOUS
<1>2. r[l + 1] = x /\ \A i \in 1..l : r[i] = s[i]
  OBVIOUS
<1> HIDE DEF r, l
<1>3. CASE x = <<"pressed", n>>
  <2>1. l + 1 \in DOMAIN r /\ r[l + 1] = <<"pressed", n>> /\ \A j \in DOMAIN r : ~(j > l + 1)
    BY <1>1, <1>2, <1>3
  <2> QED BY <2>1 DEF LastIsPress, r
<1>4. CASE x # <<"pressed", n>>
  <2>1. PICK i \in 1..l : s[i] = <<"pressed", n>> /\ \A j \in 1..l : j > i => s[j][2] # n
    BY <1>1, <1>4 DEF LastIsPress
  <2>2. i \in DOMAIN r /\ r[i] = <<"pressed", n>>
    BY <1>1, <1>2, <2>1
  <2>3. ASSUME NEW j \in DOMAIN r, j > i PROVE r[j][2] # n
    <3>1. j \in 1..l \/ j = l + 1
      BY <1>1
    <3> QED BY <1>2, <1>4, <2>1, <2>3, <3>1
  <2> QED BY <2>2, <2>3 DEF LastIsPress, r
<1> QED BY <1>3, <1>4

LEMMA Regrouped ==
    \A a, b, c, d \in Seq(Tellings) :
        /\ Concat(a, Concat(b, c)) = Concat(Concat(a, b), c)
        /\ Concat(a, Concat(Concat(b, c), d)) = Concat(Concat(Concat(a, b), c), d)
        /\ Concat(a, b) \in Seq(Tellings)
<1> HIDE DEF Tellings
<1> QED
  BY ConcatFact

\* All that was typed, as the translator and the window's queue have it.
LEMMA ToldFact ==
    /\ TypesAre => (KeysAreTold <=> (phase # "over" => Known \o Queued(osQueue) = typed))
    /\ TypesAre' => (KeysAreTold' <=> (phase' # "over" => Known' \o Queued(osQueue') = typed'))
<1>1. ASSUME TypesAre PROVE told \o Untold = Known \o Queued(osQueue)
  <2> DEFINE q == Queued(osQueue)
  <2>1. Untold = firing \o toFire \o q
    BY DEF Untold, Queued, Translations
  <2>2. q \in Seq(Tellings)
    BY <1>1, TranslationsType DEF TypesAre
  <2> HIDE DEF q
  <2>3. told \in Seq(Tellings) /\ firing \in Seq(Tellings) /\ toFire \in Seq(Tellings)
    BY <1>1 DEF TypesAre
  <2>4. Concat(told, Concat(Concat(firing, toFire), q)) =
          Concat(Concat(Concat(told, firing), toFire), q)
    BY <2>2, <2>3, Regrouped
  <2>5. told \o ((firing \o toFire) \o q) = ((told \o firing) \o toFire) \o q
    BY <2>4 DEF Concat
  <2> QED BY <2>1, <2>5 DEF Known, q
<1>2. ASSUME TypesAre' PROVE told' \o Untold' = Known' \o Queued(osQueue')
  <2> DEFINE q == Queued(osQueue')
  <2>1. Untold' = firing' \o toFire' \o q
    BY DEF Untold, Queued, Translations
  <2>2. q \in Seq(Tellings)
    BY <1>2, TranslationsType DEF TypesAre
  <2> HIDE DEF q
  <2>3. told' \in Seq(Tellings) /\ firing' \in Seq(Tellings) /\ toFire' \in Seq(Tellings)
    BY <1>2 DEF TypesAre
  <2>4. Concat(told', Concat(Concat(firing', toFire'), q)) =
          Concat(Concat(Concat(told', firing'), toFire'), q)
    BY <2>2, <2>3, Regrouped
  <2>5. told' \o ((firing' \o toFire') \o q) = ((told' \o firing') \o toFire') \o q
    BY <2>4 DEF Concat
  <2> QED BY <2>1, <2>5 DEF Known, q
<1> QED BY <1>1, <1>2 DEF KeysAreTold

THEOREM InitIsFaithful == InputInit => InputInv
<1> SUFFICES ASSUME InputInit PROVE InputInv
  OBVIOUS
<1> USE DEF InputInit
<1>1. TypesAre
  BY EmptySeq DEF TypesAre, Phases
<1>2. Known = <<>>
  BY DEF Known
<1>3. Queued(osQueue) = <<>>
  <2>1. Translations(osQueue) = <<>>
    BY DEF Translations
  <2> QED BY <2>1, FlattenEmpty DEF Queued
<1>4. KeysAreTold
  BY <1>1, <1>2, <1>3, ToldFact
<1>5. HeldIsPressed
  BY HeldFact
<1>6. FiringIsOver /\ MotionIsKept /\ SizeIsKnown
  BY DEF FiringIsOver, MotionIsKept, SizeIsKnown, SizeIsTold, NoSize
<1> QED BY <1>1, <1>4, <1>5, <1>6 DEF InputInv

(* The devices *)

LEMMA KeyType ==
    ASSUME NEW type \in Types, NEW k \in Keys, mods \subseteq KeyMods
    PROVE  KeyEvent(type, k) \in InputEvents /\ Meant(type, k) \in Seq(Tellings)
<1>1. KeyEvent(type, k) \in InputEvents
  BY DEF KeyEvent, InputEvents
<1> QED BY <1>1, TranslationType, MeantFact

LEMMA PlainFact ==
    ASSUME NEW type \in {"other", "motion", "resize", "expose", "escape", "close"}
    PROVE  Plain(type) \in InputEvents /\ Translation(Plain(type)) = <<>>
<1>1. Plain(type) \in InputEvents
  BY DEF Plain, InputEvents
<1>2. Plain(type).type = type
  BY DEF Plain
<1> QED BY <1>1, <1>2 DEF Translation

\* An event in SDL's queue, with what the player meant by it.
LEMMA ArrivesStep ==
    ASSUME InputInv, NEW e \in InputEvents, Arrives(e),
           typed' = typed \o Translation(e), mods' \subseteq KeyMods
    PROVE  InputInv'
<1> USE DEF Arrives, windowVars, keyVars, mouseVars, appVars
<1> DEFINE x == Translation(e)
           q == Queued(osQueue)
<1>0. x \in Seq(Tellings) /\ q \in Seq(Tellings)
  BY TranslationType, TranslationsType DEF InputInv, TypesAre
<1>1. TypesAre'
  <2>1. typed' \in Seq(Tellings)
    <3>1. typed \in Seq(Tellings) /\ typed' = typed \o x
      BY DEF InputInv, TypesAre
    <3> HIDE DEF x
    <3> QED BY <1>0, <3>1
  <2>2. osQueue' \in Seq(InputEvents)
    BY DEF InputInv, TypesAre
  <2> QED BY <2>1, <2>2 DEF InputInv, TypesAre
<1>2. KeysAreTold'
  <2>1. Queued(osQueue') = q \o x
    BY QueuedAppend DEF InputInv, TypesAre
  <2>2. Known' = Known /\ Known \in Seq(Tellings)
    BY DEF Known, InputInv, TypesAre
  <2>3. Known \o q = typed
    BY ToldFact DEF InputInv
  <2> HIDE DEF x, q
  <2>4. Concat(Known, Concat(q, x)) = Concat(Concat(Known, q), x)
    BY <1>0, <2>2, Regrouped
  <2>5. typed' = typed \o x
    BY DEF x
  <2>6. Known \o (q \o x) = (Known \o q) \o x
    BY <2>4 DEF Concat
  <2> QED BY <1>1, <2>1, <2>2, <2>3, <2>5, <2>6, ToldFact
<1>3. HeldIsPressed'
  BY HeldFact DEF InputInv, Known
<1>4. FiringIsOver' /\ MotionIsKept' /\ SizeIsKnown'
  BY DEF InputInv, FiringIsOver, MotionIsKept, SizeIsKnown, SizeIsTold
<1> QED BY <1>1, <1>2, <1>3, <1>4 DEF InputInv

LEMMA DevicesStep ==
    ASSUME InputInv, Devices
    PROVE  InputInv'
<1>0. mods \subseteq KeyMods /\ typed \in Seq(Tellings)
  BY DEF InputInv, TypesAre
<1>1. ASSUME NEW k \in Keys, Press(k) PROVE InputInv'
  <2>1. KeyEvent("pressed", k) \in InputEvents
    BY <1>0, KeyType DEF Types
  <2>2. Translation(KeyEvent("pressed", k)) = Meant("pressed", k)
    BY <1>0, MeantFact DEF Types
  <2> QED BY <1>0, <1>1, <2>1, <2>2, ArrivesStep DEF Press
<1>2. ASSUME NEW k \in Keys, Release(k) PROVE InputInv'
  <2>1. KeyEvent("released", k) \in InputEvents
    BY <1>0, KeyType DEF Types
  <2>2. Translation(KeyEvent("released", k)) = Meant("released", k)
    BY <1>0, MeantFact DEF Types
  <2> QED BY <1>0, <1>2, <2>1, <2>2, ArrivesStep DEF Release
<1>3. ASSUME NEW m \in KeyMods, Modify(m) PROVE InputInv'
  <2>1. typed' = typed \o Translation(Plain("other"))
    BY <1>0, <1>3, PlainFact DEF Modify
  <2>2. mods' \subseteq KeyMods
    BY <1>0, <1>3 DEF Modify
  <2> QED BY <1>3, <2>1, <2>2, PlainFact, ArrivesStep DEF Modify
<1>4. ASSUME NEW type \in {"motion", "resize", "expose", "escape", "close"}, Happens(type)
      PROVE  InputInv'
  <2>1. typed' = typed \o Translation(Plain(type))
    BY <1>0, <1>4, PlainFact DEF Happens
  <2> QED BY <1>0, <1>4, <2>1, PlainFact, ArrivesStep DEF Happens
<1> QED BY <1>1, <1>2, <1>3, <1>4 DEF Devices

(* Window::_poll and Translator.poll *)

LEMMA PollEventStep ==
    ASSUME InputInv, PollEvent
    PROVE  InputInv'
<1> DEFINE e == Head(osQueue)
           x == Translation(e)
           q == Queued(Tail(osQueue))
<1>1. /\ osQueue \in Seq(InputEvents) /\ osQueue # <<>>
      /\ e \in InputEvents /\ Tail(osQueue) \in Seq(InputEvents)
  BY DEF InputInv, TypesAre, PollEvent
<1>2. x \in Seq(Tellings) /\ q \in Seq(Tellings)
  BY <1>1, TranslationType, TranslationsType
<1>3. /\ told \in Seq(Tellings) /\ firing \in Seq(Tellings) /\ toFire \in Seq(Tellings)
      /\ heldKeys \subseteq Names
  BY DEF InputInv, TypesAre
<1>4. toFire' = toFire \o x /\ told' = told /\ firing' = firing
  <2>1. CASE e.type \in {"pressed", "released"}
    BY <2>1 DEF PollEvent, Translate
  <2>2. CASE e.type \notin {"pressed", "released"}
    <3>1. x = <<>>
      BY <2>2 DEF Translation
    <3>2. UNCHANGED keyVars
      BY <2>2 DEF PollEvent, Translate
    <3> QED BY <1>3, <3>1, <3>2 DEF keyVars
  <2> QED BY <2>1, <2>2
<1>5. heldKeys' \subseteq Names /\ \A n \in heldKeys' : LastIsPress(Known \o x, n)
  <2>1. Known \in Seq(Tellings) /\ \A n \in heldKeys : LastIsPress(Known, n)
    BY <1>3, HeldFact DEF Known, InputInv
  <2>2. Known \o <<>> = Known
    BY <2>1
  <2>3. CASE e.type \notin {"pressed", "released"}
    <3>1. x = <<>> /\ heldKeys' = heldKeys
      BY <2>3 DEF Translation, PollEvent, Translate, keyVars
    <3> QED BY <1>3, <2>1, <2>2, <3>1
  <2>4. CASE e.type \in {"pressed", "released"}
    <3> DEFINE type == e.type
               mask == e.mask
               key == e.key
               names == KeyboardInput(mask, key)
    <3>1. heldKeys' = HeldAfter(type, names)
      BY <2>4 DEF PollEvent, Translate
    <3>2. x = SetToSeq({<<type, n>> : n \in names})
      BY <2>4 DEF Translation
    <3> HIDE DEF x, type, mask, key
    <3>3. LET t == SetToSeq({<<type, n>> : n \in KeyboardInput(mask, key)}) IN
          \/ KeyboardInput(mask, key) = {} /\ t = <<>>
          \/ \E n \in Names : KeyboardInput(mask, key) = {n} /\ t = << <<type, n>> >>
      BY BindingFact
    <3>4. \/ names = {} /\ x = <<>>
          \/ \E n \in Names : names = {n} /\ x = << <<type, n>> >>
      BY <3>2, <3>3
    <3>5. type \in Types
      BY <2>4 DEF Types, type
    <3> HIDE DEF names
    <3>6. CASE names = {} /\ x = <<>>
      <4>1. heldKeys' = heldKeys
        BY <3>1, <3>6 DEF HeldAfter
      <4> QED BY <1>3, <2>1, <2>2, <3>6, <4>1
    <3>7. CASE \E n \in Names : names = {n} /\ x = << <<type, n>> >>
      <4>1. PICK n \in Names : names = {n} /\ x = << <<type, n>> >>
        BY <3>7
      <4>2. heldKeys' \subseteq heldKeys \cup {n}
        BY <3>1, <4>1 DEF HeldAfter
      <4>3. type # "pressed" => n \notin heldKeys'
        BY <3>1, <4>1 DEF HeldAfter
      <4>4. <<type, n>> \in Tellings /\ <<type, n>>[2] = n
        BY <3>5 DEF Tellings
      <4>5. ASSUME NEW m \in heldKeys' PROVE LastIsPress(Known \o << <<type, n>> >>, m)
        <5>1. CASE m = n
          BY <2>1, <4>3, <4>4, <5>1, LastStays
        <5>2. CASE m # n
          <6>1. m \in heldKeys /\ m \in Names
            BY <1>3, <4>2, <5>2
          <6> QED BY <2>1, <4>4, <5>2, <6>1, LastStays
        <5> QED BY <5>1, <5>2
      <4> QED BY <1>3, <4>1, <4>2, <4>5
    <3> QED BY <3>4, <3>6, <3>7
  <2> QED BY <2>3, <2>4
<1>6. TypesAre'
  <2> HIDE DEF x, q, e
  <2>1. toFire' \in Seq(Tellings)
    BY <1>2, <1>3, <1>4
  <2>2. /\ osQueue' = Tail(osQueue)
        /\ UNCHANGED <<typed, told, firing, mods, phase>>
    BY DEF PollEvent
  <2> QED BY <1>1, <1>5, <2>1, <2>2 DEF TypesAre, InputInv
<1>7. Known' = Known \o x
  <2>1. Known' = (told \o firing) \o (toFire \o x)
    BY <1>4 DEF Known
  <2> HIDE DEF x
  <2>2. (told \o firing) \o (toFire \o x) = ((told \o firing) \o toFire) \o x
    <3>1. Concat(Concat(told, firing), Concat(toFire, x)) = Concat(Concat(Concat(told, firing), toFire), x)
      BY <1>2, <1>3, Regrouped
    <3> QED BY <3>1 DEF Concat
  <2> QED BY <2>1, <2>2 DEF Known
<1>8. KeysAreTold'
  <2>1. Queued(osQueue) = x \o q
    BY <1>1, QueuedTail
  <2>2. osQueue' = Tail(osQueue) /\ typed' = typed /\ phase # "over"
    BY DEF PollEvent
  <2>3. Known \o Queued(osQueue) = typed /\ Known \in Seq(Tellings)
    BY <1>3, <2>2, ToldFact DEF InputInv, Known
  <2> HIDE DEF x
  <2>4. Queued(osQueue') = q
    BY <2>2
  <2> HIDE DEF q
  <2>5. Concat(Known, Concat(x, q)) = Concat(Concat(Known, x), q)
    BY <1>2, <2>3, Regrouped
  <2>6. Known \o (x \o q) = (Known \o x) \o q
    BY <2>5 DEF Concat
  <2> QED BY <1>6, <1>7, <2>1, <2>2, <2>3, <2>4, <2>6, ToldFact
<1>9. HeldIsPressed'
  BY <1>5, <1>7, HeldFact
<1>10. FiringIsOver' /\ MotionIsKept' /\ SizeIsKnown'
  <2>1. /\ phase = "window" /\ UNCHANGED <<phase, firing, newSize, viewport>>
        /\ motion' = IF e.type = "motion" THEN motion + 1 ELSE motion
        /\ moved' = IF e.type = "motion" THEN moved + 1 ELSE moved
        /\ size' = IF e.type = "resize" THEN 1 - size ELSE size
        /\ redraw' = (redraw \/ e.type \in {"resize", "expose"})
    BY DEF PollEvent
  <2> HIDE DEF e
  <2>2. FiringIsOver' /\ MotionIsKept'
    BY <2>1 DEF InputInv, FiringIsOver, MotionIsKept
  <2>3. SizeIsTold' /\ size' \in {0, 1}
    BY <2>1 DEF InputInv, SizeIsKnown, SizeIsTold
  <2>4. ~redraw' => ~redraw /\ size' = size
    BY <2>1
  <2>5. ~redraw' => size' = IF newSize' # NoSize THEN newSize' ELSE viewport'
    BY <2>1, <2>4 DEF InputInv, SizeIsKnown
  <2> QED BY <2>2, <2>3, <2>5 DEF SizeIsKnown
<1> QED BY <1>6, <1>8, <1>9, <1>10 DEF InputInv

LEMMA EndPollStep ==
    ASSUME InputInv, EndPoll
    PROVE  InputInv'
<1> USE DEF EndPoll, osVars, mouseVars, appVars
<1>1. /\ told \in Seq(Tellings) /\ toFire \in Seq(Tellings)
      /\ firing = <<>> /\ firing' = toFire /\ toFire' = <<>> /\ told' = told
  BY DEF InputInv, TypesAre, FiringIsOver
<1>2. TypesAre'
  BY <1>1, EmptySeq DEF InputInv, TypesAre, Phases
<1>3. Known' = Known
  BY <1>1 DEF Known
<1>4. KeysAreTold'
  BY <1>2, <1>3, ToldFact DEF InputInv
<1>5. HeldIsPressed'
  BY <1>3, HeldFact DEF InputInv
<1>6. FiringIsOver' /\ MotionIsKept' /\ SizeIsKnown'
  BY DEF InputInv, FiringIsOver, MotionIsKept, SizeIsKnown, SizeIsTold, NoSize
<1> QED BY <1>2, <1>4, <1>5, <1>6 DEF InputInv

LEMMA FireStep ==
    ASSUME InputInv, NEW reads, Fire(reads)
    PROVE  InputInv'
<1> USE DEF Fire, osVars, windowVars, appVars
<1>1. /\ told \in Seq(Tellings) /\ toFire \in Seq(Tellings)
      /\ firing \in Seq(Tellings) /\ firing # <<>> /\ toFire' = toFire
      /\ told' = Append(told, Head(firing)) /\ firing' = Tail(firing)
  BY DEF InputInv, TypesAre
<1>2. TypesAre'
  <2>1. told' \in Seq(Tellings) /\ firing' \in Seq(Tellings)
    BY <1>1
  <2> QED BY <1>1, <2>1 DEF InputInv, TypesAre
<1>3. Known' = Known
  <2>1. told' \o firing' = told \o firing
    BY <1>1
  <2> QED BY <1>1, <2>1 DEF Known
<1>4. KeysAreTold'
  BY <1>2, <1>3, ToldFact DEF InputInv
<1>5. HeldIsPressed'
  BY <1>3, HeldFact DEF InputInv
<1>6. FiringIsOver' /\ MotionIsKept' /\ SizeIsKnown'
  BY DEF InputInv, FiringIsOver, MotionIsKept, SizeIsKnown, SizeIsTold, ReadsMouse, mouseVars
<1> QED BY <1>2, <1>4, <1>5, <1>6 DEF InputInv

(* The rest of the frame *)

\* A step that leaves the keys alone.
LEMMA QuietStep ==
    ASSUME InputInv, UNCHANGED <<osQueue, typed, mods, keyVars>>,
           phase' \in Phases, phase' = "over" \/ phase # "over",
           FiringIsOver', MotionIsKept', SizeIsKnown'
    PROVE  InputInv'
<1> USE DEF keyVars
<1>1. TypesAre'
  BY DEF InputInv, TypesAre
<1>2. Known' = Known
  BY DEF Known
<1>3. KeysAreTold'
  BY <1>1, <1>2, ToldFact DEF InputInv
<1>4. HeldIsPressed'
  BY <1>2, HeldFact DEF InputInv
<1> QED BY <1>1, <1>3, <1>4 DEF InputInv

LEMMA FrameStep ==
    ASSUME InputInv, Frame \/ Raises
    PROVE  InputInv'
<1> USE DEF osVars, windowVars, keyVars, mouseVars, appVars, Phases
<1>1. ASSUME NEW reads \in BOOLEAN, Update(reads) PROVE InputInv'
  <2>1. FiringIsOver' /\ MotionIsKept' /\ SizeIsKnown'
    BY <1>1 DEF Update, ReadsMouse, InputInv, FiringIsOver, MotionIsKept, SizeIsKnown, SizeIsTold
  <2> QED BY <1>1, <2>1, QuietStep DEF Update
<1>2. ASSUME NEW reads \in BOOLEAN, Held(reads) PROVE InputInv'
  <2>1. FiringIsOver' /\ MotionIsKept' /\ SizeIsKnown'
    BY <1>2 DEF Held, ReadsMouse, InputInv, FiringIsOver, MotionIsKept, SizeIsKnown, SizeIsTold
  <2> QED BY <1>2, <2>1, QuietStep DEF Held
<1>3. CASE Fired
  <2>1. FiringIsOver' /\ MotionIsKept' /\ SizeIsKnown'
    BY <1>3 DEF Fired, InputInv, FiringIsOver, MotionIsKept, SizeIsKnown, SizeIsTold
  <2> QED BY <1>3, <2>1, QuietStep DEF Fired
<1>4. CASE HandleEscape
  <2>1. FiringIsOver' /\ MotionIsKept' /\ SizeIsKnown'
    BY <1>4 DEF HandleEscape, InputInv, FiringIsOver, MotionIsKept, SizeIsKnown, SizeIsTold
  <2> QED BY <1>4, <2>1, QuietStep DEF HandleEscape, InputInv, TypesAre
<1>5. CASE HandleShutdown
  <2>1. FiringIsOver' /\ MotionIsKept' /\ SizeIsKnown'
    BY <1>5 DEF HandleShutdown, Shutdown, InputInv, FiringIsOver, MotionIsKept, SizeIsKnown, SizeIsTold
  <2> QED BY <1>5, <2>1, QuietStep DEF HandleShutdown, Shutdown
<1>6. CASE EndFrame
  <2>1. FiringIsOver' /\ MotionIsKept' /\ SizeIsKnown'
    BY <1>6 DEF EndFrame, InputInv, FiringIsOver, MotionIsKept, SizeIsKnown, SizeIsTold
  <2> QED BY <1>6, <2>1, QuietStep DEF EndFrame
<1>7. CASE Raises
  <2>1. FiringIsOver' /\ MotionIsKept' /\ SizeIsKnown'
    BY <1>7 DEF Raises, Shutdown, InputInv, FiringIsOver, MotionIsKept, SizeIsKnown, SizeIsTold
  <2> QED BY <1>7, <2>1, QuietStep DEF Raises, Shutdown
<1> QED BY <1>1, <1>2, <1>3, <1>4, <1>5, <1>6, <1>7, PollEventStep, EndPollStep, FireStep DEF Frame

LEMMA StutterStep ==
    ASSUME InputInv, UNCHANGED inputVars
    PROVE  InputInv'
<1> USE DEF inputVars, osVars, windowVars, keyVars, mouseVars, appVars
<1>1. CASE phase # "over"
  <2>1. FiringIsOver' /\ MotionIsKept' /\ SizeIsKnown'
    BY DEF InputInv, FiringIsOver, MotionIsKept, SizeIsKnown, SizeIsTold
  <2> QED BY <1>1, <2>1, QuietStep DEF InputInv, TypesAre
<1>2. CASE phase = "over"
  <2>1. FiringIsOver' /\ MotionIsKept' /\ SizeIsKnown'
    BY DEF InputInv, FiringIsOver, MotionIsKept, SizeIsKnown, SizeIsTold
  <2> QED BY <1>2, <2>1, QuietStep DEF InputInv, TypesAre
<1> QED BY <1>1, <1>2

\* While a game runs, every key typed is told to the bindings it was meant for,
\* once and in order, whatever the window has queued and wherever its poll
\* stops; held bindings are those whose last event is a press, and neither mouse
\* motion nor the window's size is lost.
THEOREM InputsStayFaithful == InputSpec => []InputsAreFaithful
<1>1. InputInv /\ [InputNext]_inputVars => InputInv'
  BY DevicesStep, FrameStep, StutterStep DEF InputNext
<1>2. InputInv => InputsAreFaithful
  BY DEF InputInv, InputsAreFaithful, SizeIsKnown
<1> QED BY InitIsFaithful, <1>1, <1>2, PTL DEF InputSpec

-----------------------------------------------------------------------------
(* EntityManager, for any entities, components and graph of nodes *)

\* The ancestors of a node are the least set that holds it and, with every node, the
\* node above: there is one, whatever the parents are.
AncestorsIn(c) ==
    {d \in Visible : \A S \in SUBSET Visible :
        c \in S /\ (\A x \in S : parent[x] \in Visible => parent[x] \in S) => d \in S}

LEMMA AncestorsExist ==
    ASSUME NEW c \in Visible
    PROVE  AncestorsIn(c) = {c} \cup IF parent[c] \in Visible THEN AncestorsIn(parent[c]) ELSE {}
<1> DEFINE above == IF parent[c] \in Visible THEN AncestorsIn(parent[c]) ELSE {}
<1>1. c \in AncestorsIn(c)
  BY DEF AncestorsIn
<1>2. above \subseteq AncestorsIn(c)
  <2> SUFFICES ASSUME parent[c] \in Visible, NEW d \in AncestorsIn(parent[c])
               PROVE  d \in AncestorsIn(c)
    OBVIOUS
  <2> QED BY DEF AncestorsIn
<1>3. AncestorsIn(c) \subseteq {c} \cup above
  <2> DEFINE S == {c} \cup above
  <2>1. above \subseteq Visible
    BY DEF AncestorsIn
  <2>2. ASSUME NEW x \in S, parent[x] \in Visible
        PROVE  parent[x] \in S
    <3>1. CASE x = c
      BY <2>2, <3>1 DEF AncestorsIn
    <3>2. CASE x # c
      <4>1. parent[c] \in Visible /\ x \in AncestorsIn(parent[c])
        BY <2>2, <3>2
      <4>2. parent[x] \in AncestorsIn(parent[c])
        BY <2>2, <4>1 DEF AncestorsIn
      <4> QED BY <4>1, <4>2
    <3> QED BY <3>1, <3>2
  <2>3. S \in SUBSET Visible /\ c \in S
    BY <2>1
  <2> HIDE DEF S
  <2>4. ASSUME NEW d \in AncestorsIn(c)
        PROVE  d \in S
    BY <2>2, <2>3, <2>4 DEF AncestorsIn
  <2> QED BY <2>4 DEF S
<1> QED BY <1>1, <1>2, <1>3

LEMMA AncestorsAre ==
    ASSUME NEW c \in Visible
    PROVE  Ancestors[c] = {c} \cup IF parent[c] \in Visible THEN Ancestors[parent[c]] ELSE {}
<1> DEFINE Step(f) == [d \in Visible |->
                          {d} \cup IF parent[d] \in Visible THEN f[parent[d]] ELSE {}]
           g == [d \in Visible |-> AncestorsIn(d)]
<1>1. g = Step(g)
  <2>1. ASSUME NEW d \in Visible
        PROVE  g[d] = Step(g)[d]
    BY AncestorsExist
  <2> QED BY <2>1
<1>2. Ancestors = CHOOSE f : f = Step(f)
  BY DEF Ancestors
<1> HIDE DEF g, Step
<1>3. Ancestors = Step(Ancestors)
  BY <1>1, <1>2
<1> QED BY <1>3 DEF Step

\* Whoever is not uprooted is not gone, and its parent is not uprooted either.
LEMMA UprootedFact ==
    ASSUME NEW gone, NEW c \in Visible, c \notin Uprooted(gone)
    PROVE  c \notin gone /\ (parent[c] \in Visible => parent[c] \notin Uprooted(gone))
<1>1. Ancestors[c] \cap gone = {}
  BY DEF Uprooted
<1>2. Ancestors[c] = {c} \cup IF parent[c] \in Visible THEN Ancestors[parent[c]] ELSE {}
  BY AncestorsAre
<1>3. c \notin gone
  BY <1>1, <1>2
<1>4. ASSUME parent[c] \in Visible
      PROVE  Ancestors[parent[c]] \cap gone = {}
  BY <1>1, <1>2, <1>4
<1> QED BY <1>3, <1>4 DEF Uprooted

LEMMA WithoutFact ==
    ASSUME NEW list \in Seq(Components), NEW gone
    PROVE  /\ Without(list, gone) \in Seq(Components)
           /\ ToSet(Without(list, gone)) = ToSet(list) \ gone
           /\ IsInjective(list) => IsInjective(Without(list, gone))
<1> DEFINE n == Len(list)
           ss == [i \in 1..n |-> IF list[i] \in gone THEN <<>> ELSE <<list[i]>>]
           p == FlattenSeq(ss)
<1>1. n \in Nat /\ DOMAIN list = 1..n /\ \A i \in 1..n : list[i] \in Components
  OBVIOUS
<1>2. Without(list, gone) = p
  BY <1>1 DEF Without
<1>3. \A i \in 1..n : ss[i] = IF list[i] \in gone THEN <<>> ELSE <<list[i]>>
  OBVIOUS
<1>4. \A i \in 1..n : ss[i] \in Seq(Components) /\ Len(ss[i]) <= 1
  <2> TAKE i \in 1..n
  <2>1. <<list[i]>> \in Seq(Components) /\ Len(<<list[i]>>) = 1 /\ Len(<<>>) = 0
    BY <1>1
  <2> QED BY <1>3, <2>1, EmptySeq
<1>5. ss \in Seq(Seq(Components)) /\ Len(ss) = n
  BY <1>1, <1>4
<1>6. p \in Seq(Components) /\ Picks(ss, n, p)
  BY <1>4, <1>5, FlattenPicks
<1>7. \A i \in 1..n : (Len(ss[i]) = 1 <=> list[i] \notin gone)
                      /\ (list[i] \notin gone => ss[i][1] = list[i])
  BY <1>3
<1> HIDE DEF p, ss, n
<1>8. ToSet(p) = ToSet(list) \ gone
  <2>1. ToSet(p) \subseteq ToSet(list) \ gone
    <3>1. ASSUME NEW x \in ToSet(p)
          PROVE  x \in ToSet(list) \ gone
      <4>1. PICK a \in 1..Len(p) : x = p[a]
        BY <1>6 DEF ToSet
      <4>2. PICK i \in 1..n : Len(ss[i]) = 1 /\ p[a] = ss[i][1]
        BY <1>6 DEF Picks
      <4>3. x = list[i] /\ list[i] \notin gone
        BY <1>7, <4>1, <4>2
      <4> QED BY <1>1, <4>3 DEF ToSet
    <3> QED BY <3>1
  <2>2. ASSUME NEW x \in ToSet(list) \ gone
        PROVE  x \in ToSet(p)
    <3>1. PICK i \in 1..n : x = list[i]
      BY <1>1 DEF ToSet
    <3>2. Len(ss[i]) = 1 /\ ss[i][1] = x
      BY <1>7, <2>2, <3>1
    <3>3. PICK a \in 1..Len(p) : p[a] = ss[i][1]
      BY <1>6, <3>2 DEF Picks
    <3> QED BY <1>6, <3>2, <3>3 DEF ToSet
  <2> QED BY <2>1, <2>2
<1>9. ASSUME IsInjective(list)
      PROVE  IsInjective(p)
  <2> SUFFICES ASSUME NEW a \in 1..Len(p), NEW b \in 1..Len(p), p[a] = p[b], a # b
               PROVE  FALSE
    BY <1>6 DEF IsInjective
  <2>1. PICK i, j \in 1..n : /\ i # j /\ Len(ss[i]) = 1 /\ Len(ss[j]) = 1
                             /\ p[a] = ss[i][1] /\ p[b] = ss[j][1]
    BY <1>6 DEF Picks
  <2>2. list[i] = list[j]
    BY <1>7, <2>1
  <2> QED BY <1>1, <1>9, <2>1, <2>2 DEF IsInjective
<1> QED BY <1>2, <1>6, <1>8, <1>9

\* The invariant is the property itself, its types included.
LEMMA AgreeParts ==
    SystemsAgree <=> TypeOK /\ ListedAreServed /\ NothingLeftBehind /\ AttachedToRoot /\ EntitiesKeepApart
BY DEF SystemsAgree

LEMMA ListedFact ==
    ASSUME TypeOK, NEW e \in Entities
    PROVE  listed[e] \in Seq(Components) /\ Listed(e) \subseteq Components
<1>1. listed[e] \in Seq(Components)
  BY DEF TypeOK
<1>2. \A i \in 1..Len(listed[e]) : listed[e][i] \in Components
  BY <1>1
<1> QED BY <1>1, <1>2 DEF Listed, ToSet

LEMMA AppendedFact ==
    ASSUME NEW list \in Seq(Components), NEW c \in Components
    PROVE  /\ Append(list, c) \in Seq(Components)
           /\ ToSet(Append(list, c)) = ToSet(list) \cup {c}
           /\ IsInjective(list) /\ c \notin ToSet(list) => IsInjective(Append(list, c))
<1> DEFINE n == Len(list)
           l == Append(list, c)
<1>1. /\ n \in Nat /\ DOMAIN list = 1..n /\ DOMAIN l = 1..(n + 1)
      /\ l \in Seq(Components) /\ l[n + 1] = c
      /\ \A i \in 1..n : l[i] = list[i]
  OBVIOUS
<1> HIDE DEF n, l
<1>2. \A i \in 1..(n + 1) : i \in 1..n \/ i = n + 1
  BY <1>1
<1>3. 1..n \subseteq 1..(n + 1) /\ n + 1 \in 1..(n + 1) /\ n + 1 \notin 1..n
  BY <1>1
<1>4. ToSet(l) = ToSet(list) \cup {c}
  BY <1>1, <1>2, <1>3 DEF ToSet
<1>5. ASSUME IsInjective(list), c \notin ToSet(list)
      PROVE  IsInjective(l)
  BY <1>1, <1>2, <1>3, <1>5 DEF ToSet, IsInjective
<1> QED BY <1>1, <1>4, <1>5 DEF l

\* The node a content goes under is one of its entity, or the root.
LEMMA DefaultFact ==
    ASSUME TypeOK, NEW e \in Entities, NEW c \in Components
    PROVE  DefaultFor(e, c) = Root \/ DefaultFor(e, c) \in Listed(e) \cap Visible
<1> DEFINE s == Without(listed[e], Controllers)
<1>1. listed[e] \in Seq(Components) /\ Listed(e) \subseteq Components
  BY ListedFact
<1>2. s \in Seq(Components) /\ ToSet(s) = Listed(e) \ Controllers
  BY <1>1, WithoutFact DEF Listed
<1>3. ASSUME s # <<>>
      PROVE  Last(s) \in ToSet(s)
  BY <1>2, <1>3 DEF Last, ToSet
<1>4. Listed(e) \ Controllers \subseteq Listed(e) \cap Visible
  BY <1>1 DEF Components
<1> HIDE DEF s
<1> QED BY <1>2, <1>3, <1>4 DEF DefaultFor, DefaultParent, s

LEMMA EntityInit ==
    ASSUME Init
    PROVE  SystemsAgree
<1>1. TypeOK
  BY EmptySeq, EntityAssumption DEF Init, TypeOK, Attached
<1>2. AllListed = {}
  BY DEF Init, AllListed
<1>3. ListedAreServed /\ AttachedToRoot /\ EntitiesKeepApart
  BY DEF Init, ListedAreServed, AttachedToRoot, EntitiesKeepApart, Attached, Components
<1>4. NothingLeftBehind
  BY DEF Init, NothingLeftBehind, Attached
<1> QED BY <1>1, <1>3, <1>4 DEF SystemsAgree

LEMMA CreateStep ==
    ASSUME SystemsAgree, NEW e \in Entities, Create(e)
    PROVE  SystemsAgree'
<1>1. /\ e \notin created /\ created' = created \cup {e}
      /\ listed' = [listed EXCEPT ![e] = <<>>]
      /\ UNCHANGED <<served, node, parent, registered, failed, adopted>>
  BY DEF Create
<1>2. TypeOK /\ ListedAreServed /\ NothingLeftBehind /\ AttachedToRoot /\ EntitiesKeepApart
  BY DEF SystemsAgree
<1>3. TypeOK'
  BY <1>1, <1>2, EmptySeq DEF TypeOK, Attached
<1>4. /\ Listed(e)' = {} /\ listed'[e] = <<>>
      /\ \A f \in created : Listed(f)' = Listed(f) /\ listed'[f] = listed[f]
  <2>1. listed'[e] = <<>> /\ \A f \in created : listed'[f] = listed[f]
    BY <1>1, <1>2 DEF TypeOK
  <2> QED BY <2>1 DEF Listed, ToSet
<1>5. AllListed' = AllListed
  BY <1>1, <1>4 DEF AllListed
<1>6. ListedAreServed'
  <2>1. IsInjective(<<>>)
    BY DEF IsInjective
  <2>2. \A f \in created' : IsInjective(listed'[f])
    BY <1>1, <1>2, <1>4, <2>1 DEF ListedAreServed
  <2>3. \A f \in created' : \A c \in Listed(f)' :
            (\A s \in SystemsOf(c) : c \in served'[s]) /\ (c \in Visible => c \in node')
    BY <1>1, <1>2, <1>4 DEF ListedAreServed
  <2>4. \A f, g \in created' : f # g => Listed(f)' \cap Listed(g)' = {}
    BY <1>1, <1>2, <1>4 DEF ListedAreServed
  <2> QED BY <2>2, <2>3, <2>4 DEF ListedAreServed
<1>7. NothingLeftBehind'
  BY <1>1, <1>2, <1>5 DEF NothingLeftBehind, Attached
<1>8. AttachedToRoot' /\ EntitiesKeepApart'
  BY <1>1, <1>2, <1>4 DEF AttachedToRoot, EntitiesKeepApart, Attached
<1> QED BY <1>3, <1>6, <1>7, <1>8 DEF SystemsAgree

\* What the lists are after a component was added to one, or refused.
LEMMA ListIfFact ==
    ASSUME SystemsAgree, NEW e \in created, NEW c \in Components, Fresh(c), NEW ok \in BOOLEAN,
           ListIf(e, c, ok), created' = created
    PROVE  /\ listed' \in [Entities -> Seq(Components)] /\ failed' \subseteq Components
           /\ \A f \in created : IsInjective(listed'[f])
           /\ \A f \in created : Listed(f)' = Listed(f) \cup IF f = e /\ ok THEN {c} ELSE {}
           /\ AllListed' \cup failed' = AllListed \cup failed \cup {c}
<1>1. /\ TypeOK /\ ListedAreServed /\ e \in Entities
      /\ c \notin AllListed /\ c \notin failed
  BY DEF SystemsAgree, TypeOK, Fresh
<1>2. /\ listed[e] \in Seq(Components) /\ IsInjective(listed[e]) /\ c \notin ToSet(listed[e])
      /\ listed \in [Entities -> Seq(Components)] /\ failed \subseteq Components
      /\ created \subseteq Entities
  BY <1>1 DEF TypeOK, ListedAreServed, AllListed, Listed
<1>3. CASE ok
  <2>1. listed' = [listed EXCEPT ![e] = Append(@, c)] /\ failed' = failed
    BY <1>3 DEF ListIf
  <2> DEFINE l == Append(listed[e], c)
  <2>2. l \in Seq(Components) /\ ToSet(l) = Listed(e) \cup {c} /\ IsInjective(l)
    BY <1>2, AppendedFact DEF Listed
  <2>3. listed'[e] = l /\ \A f \in created \ {e} : listed'[f] = listed[f]
    BY <1>2, <2>1
  <2> HIDE DEF l
  <2>4. listed' \in [Entities -> Seq(Components)]
    BY <1>2, <2>1, <2>2 DEF l
  <2>5. \A f \in created : IsInjective(listed'[f])
    BY <1>1, <2>2, <2>3 DEF ListedAreServed
  <2>6. \A f \in created : Listed(f)' = Listed(f) \cup IF f = e THEN {c} ELSE {}
    BY <2>2, <2>3 DEF Listed
  <2>7. AllListed' = AllListed \cup {c}
    BY <2>6 DEF AllListed
  <2> QED BY <1>2, <1>3, <2>1, <2>4, <2>5, <2>6, <2>7
<1>4. CASE ~ok
  <2>1. failed' = failed \cup {c} /\ listed' = listed
    BY <1>4 DEF ListIf
  <2>2. \A f \in created : Listed(f)' = Listed(f)
    BY <2>1 DEF Listed
  <2>3. AllListed' = AllListed
    BY <2>2 DEF AllListed
  <2> QED BY <1>1, <1>2, <1>4, <2>1, <2>2, <2>3 DEF ListedAreServed
<1> QED BY <1>3, <1>4

LEMMA AddControllerStep ==
    ASSUME SystemsAgree, NEW e \in Entities, NEW c \in Components, NEW known \in BOOLEAN,
           AddController(e, c, known)
    PROVE  SystemsAgree'
<1>1. /\ e \in created /\ c \in Controllers /\ Fresh(c)
      /\ registered' = registered \cup {c} /\ served' = Serve(c, {"event"})
      /\ ListIf(e, c, known)
      /\ UNCHANGED <<created, node, parent, adopted>>
  BY DEF AddController
<1>2. TypeOK /\ ListedAreServed /\ NothingLeftBehind /\ AttachedToRoot /\ EntitiesKeepApart
  BY DEF SystemsAgree
<1>3. /\ listed' \in [Entities -> Seq(Components)] /\ failed' \subseteq Components
      /\ \A f \in created : IsInjective(listed'[f])
      /\ \A f \in created : Listed(f)' = Listed(f) \cup IF f = e /\ known THEN {c} ELSE {}
      /\ AllListed' \cup failed' = AllListed \cup failed \cup {c}
  BY <1>1, ListIfFact
<1>4. c \notin Visible /\ SystemsOf(c) = {"event"}
  BY <1>1, EntityAssumption DEF Visible, SystemsOf
<1>5. \A s \in Systems : served'[s] = IF s = "event" THEN served[s] \cup {c} ELSE served[s]
  BY <1>1 DEF Serve
<1>6. served' \in [Systems -> SUBSET Components]
  BY <1>1, <1>2 DEF TypeOK, Serve
<1>7. TypeOK'
  BY <1>1, <1>2, <1>3, <1>6 DEF TypeOK, Attached
<1>8. c \notin AllListed
  BY <1>1 DEF Fresh
<1>9. ListedAreServed'
  <2>1. ASSUME NEW f \in created, NEW d \in Listed(f)'
        PROVE  (\A s \in SystemsOf(d) : d \in served'[s]) /\ (d \in Visible => d \in node')
    <3>1. CASE d = c
      BY <1>4, <1>5, <3>1 DEF Systems
    <3>2. CASE d # c
      <4>1. d \in Listed(f)
        BY <1>3, <2>1, <3>2
      <4>2. \A s \in SystemsOf(d) : s \in Systems /\ d \in served[s]
        BY <1>2, <4>1 DEF ListedAreServed, SystemsOf, Systems
      <4> QED BY <1>1, <1>2, <1>5, <4>1, <4>2 DEF ListedAreServed
    <3> QED BY <3>1, <3>2
  <2>2. ASSUME NEW f \in created, NEW g \in created, f # g
        PROVE  Listed(f)' \cap Listed(g)' = {}
    <3>1. Listed(f) \cap Listed(g) = {} /\ c \notin Listed(f) /\ c \notin Listed(g)
      BY <1>2, <1>8, <2>2 DEF ListedAreServed, AllListed
    <3> QED BY <1>3, <2>2, <3>1
  <2> QED BY <1>1, <1>3, <2>1, <2>2 DEF ListedAreServed
<1>10. NothingLeftBehind'
  <2>1. ASSUME NEW x \in UNION {served'[s] : s \in Systems}, x # c
        PROVE  x \in UNION {served[s] : s \in Systems}
    <3>1. PICK s \in Systems : x \in served'[s]
      BY <2>1
    <3> QED BY <1>5, <2>1, <3>1
  <2> QED BY <1>1, <1>2, <1>3, <2>1 DEF NothingLeftBehind, Attached
<1>11. AttachedToRoot'
  BY <1>1, <1>2 DEF AttachedToRoot, Attached
<1>12. EntitiesKeepApart'
  <2> SUFFICES ASSUME NEW f \in created, NEW d \in Listed(f)', d \notin adopted,
                      parent[d] \in Components
               PROVE  parent[d] \in Listed(f)'
    BY <1>1 DEF EntitiesKeepApart
  <2>1. d # c
    <3>1. c \notin node /\ c \in Components
      BY <1>2, <1>4 DEF TypeOK
    <3>2. parent[c] = NoParent
      BY <1>2, <3>1 DEF TypeOK, Attached
    <3> QED BY <3>2, EntityAssumption
  <2>2. d \in Listed(f)
    BY <1>3, <2>1
  <2> QED BY <1>2, <1>3, <2>2 DEF EntitiesKeepApart
<1> QED BY <1>7, <1>9, <1>10, <1>11, <1>12 DEF SystemsAgree

LEMMA AddVisibleStep ==
    ASSUME SystemsAgree, NEW e \in Entities, NEW c \in Components,
           NEW p \in {DefaultFor(e, c)} \cup (node \ {c}),
           NEW hasContent \in BOOLEAN, NEW known \in BOOLEAN,
           AddVisible(e, c, p, hasContent, known)
    PROVE  SystemsAgree'
<1> DEFINE inits == hasContent /\ InGraph(p)
           serving == IF inits THEN SystemsOf(c) ELSE SystemsOf(c) \ {"scene"}
<1>1. /\ e \in created /\ c \in Visible /\ Fresh(c)
      /\ served' = Serve(c, serving)
      /\ node' = IF inits THEN node \cup {c} ELSE node
      /\ parent' = IF inits THEN [parent EXCEPT ![c] = p] ELSE parent
      /\ ListIf(e, c, inits /\ known)
      /\ adopted' = IF p = DefaultFor(e, c) THEN adopted \ {c} ELSE adopted \cup {c}
      /\ UNCHANGED <<created, registered>>
  BY DEF AddVisible
<1>2. TypeOK /\ ListedAreServed /\ NothingLeftBehind /\ AttachedToRoot /\ EntitiesKeepApart
  BY DEF SystemsAgree
<1>3. inits \in BOOLEAN /\ (inits => InGraph(p)) /\ (inits => serving = SystemsOf(c))
  OBVIOUS
<1> HIDE DEF inits, serving
<1>4. /\ listed' \in [Entities -> Seq(Components)] /\ failed' \subseteq Components
      /\ \A f \in created : IsInjective(listed'[f])
      /\ \A f \in created : Listed(f)' = Listed(f) \cup IF f = e /\ inits /\ known THEN {c} ELSE {}
      /\ AllListed' \cup failed' = AllListed \cup failed \cup {c}
  <2>1. (inits /\ known) \in BOOLEAN
    BY <1>3
  <2> DEFINE ok == inits /\ known
  <2>2. ok \in BOOLEAN /\ ListIf(e, c, ok)
    BY <1>1, <2>1
  <2> HIDE DEF ok
  <2>3. /\ listed' \in [Entities -> Seq(Components)] /\ failed' \subseteq Components
        /\ \A f \in created : IsInjective(listed'[f])
        /\ \A f \in created : Listed(f)' = Listed(f) \cup IF f = e /\ ok THEN {c} ELSE {}
        /\ AllListed' \cup failed' = AllListed \cup failed \cup {c}
    BY <1>1, <2>2, ListIfFact
  <2> QED BY <2>3 DEF ok
<1>5. c \notin AllListed /\ c \notin failed /\ ~ Attached(c)
  BY <1>1, <1>2 DEF Fresh, NothingLeftBehind
<1>6. p \in Visible \cup {Root}
  <2>1. Listed(e) \cap Visible \subseteq Visible /\ node \subseteq Visible
    BY <1>2 DEF TypeOK
  <2> QED BY <1>2, <2>1, DefaultFact
<1>7. \A s \in Systems : served'[s] = IF s \in serving THEN served[s] \cup {c} ELSE served[s]
  BY <1>1 DEF Serve
<1>8. \A d \in Components : parent'[d] = IF d = c /\ inits THEN p ELSE parent[d]
  BY <1>1, <1>2 DEF TypeOK
<1>9. TypeOK'
  <2>1. served' \in [Systems -> SUBSET Components]
    BY <1>1, <1>2 DEF TypeOK, Serve
  <2>2. parent' \in [Components -> Visible \cup {Root, NoParent}]
    BY <1>1, <1>2, <1>6 DEF TypeOK
  <2>3. node' \subseteq Visible /\ registered' \subseteq Controllers /\ adopted' \subseteq Visible
    BY <1>1, <1>2 DEF TypeOK
  <2>4. {d \in Components : Attached(d)'} \subseteq node'
    BY <1>1, <1>2, <1>8 DEF TypeOK, Attached
  <2> QED BY <1>1, <1>2, <1>4, <2>1, <2>2, <2>3, <2>4 DEF TypeOK
<1>10. ListedAreServed'
  <2>1. ASSUME NEW f \in created, NEW d \in Listed(f)'
        PROVE  (\A s \in SystemsOf(d) : d \in served'[s]) /\ (d \in Visible => d \in node')
    <3>1. CASE d = c
      <4>1. inits
        BY <1>4, <1>5, <2>1, <3>1 DEF AllListed
      <4>2. SystemsOf(c) \subseteq Systems
        BY DEF SystemsOf, Systems
      <4> QED BY <1>1, <1>3, <1>7, <3>1, <4>1, <4>2
    <3>2. CASE d # c
      <4>1. d \in Listed(f)
        BY <1>4, <2>1, <3>2
      <4>2. \A s \in SystemsOf(d) : s \in Systems /\ d \in served[s]
        BY <1>2, <4>1 DEF ListedAreServed, SystemsOf, Systems
      <4>3. d \in Visible => d \in node'
        BY <1>1, <1>2, <4>1 DEF ListedAreServed
      <4> QED BY <1>7, <4>2, <4>3
    <3> QED BY <3>1, <3>2
  <2>2. ASSUME NEW f \in created, NEW g \in created, f # g
        PROVE  Listed(f)' \cap Listed(g)' = {}
    <3>1. Listed(f) \cap Listed(g) = {} /\ c \notin Listed(f) /\ c \notin Listed(g)
      BY <1>2, <1>5, <2>2 DEF ListedAreServed, AllListed
    <3> QED BY <1>4, <2>2, <3>1
  <2> QED BY <1>1, <1>4, <2>1, <2>2 DEF ListedAreServed
<1>11. NothingLeftBehind'
  <2>1. ASSUME NEW x \in UNION {served'[s] : s \in Systems}, x # c
        PROVE  x \in UNION {served[s] : s \in Systems}
    <3>1. PICK s \in Systems : x \in served'[s]
      BY <2>1
    <3> QED BY <1>7, <2>1, <3>1
  <2>2. {d \in Components : Attached(d)'} \subseteq {d \in Components : Attached(d)} \cup {c}
    BY <1>8 DEF Attached
  <2> QED BY <1>1, <1>2, <1>4, <2>1, <2>2 DEF NothingLeftBehind
<1>12. AttachedToRoot'
  <2> SUFFICES ASSUME NEW d \in Visible, Attached(d)', parent'[d] # Root
               PROVE  parent'[parent'[d]] # NoParent
    BY DEF AttachedToRoot, Attached
  <2>1. Visible \subseteq Components
    BY DEF Components
  <2>2. parent'[d] \in Visible
    BY <1>9, <2>1 DEF TypeOK, Attached
  <2>3. \A x \in Components : Attached(x) => parent'[x] # NoParent
    BY <1>5, <1>8 DEF Attached
  <2>4. CASE d = c /\ inits
    BY <1>3, <1>8, <2>1, <2>2, <2>3, <2>4 DEF InGraph, Attached
  <2>5. CASE ~(d = c /\ inits)
    <3>1. parent'[d] = parent[d] /\ Attached(d)
      BY <1>8, <2>1, <2>5 DEF Attached
    <3> QED BY <1>2, <2>1, <2>2, <2>3, <3>1 DEF AttachedToRoot
  <2> QED BY <2>4, <2>5
<1>13. EntitiesKeepApart'
  <2> SUFFICES ASSUME NEW f \in created, NEW d \in Listed(f)', d \notin adopted',
                      parent'[d] \in Components
               PROVE  parent'[d] \in Listed(f)'
    BY <1>1 DEF EntitiesKeepApart
  <2>1. f \in Entities /\ Listed(f)' \subseteq Components
    <3>1. f \in Entities
      BY <1>2 DEF TypeOK
    <3> QED BY <1>2, <1>4, <3>1, ListedFact
  <2>2. CASE d = c
    <3>1. f = e /\ inits
      BY <1>4, <1>5, <2>2 DEF AllListed
    <3>2. p = DefaultFor(e, c) /\ parent'[d] = p
      BY <1>1, <1>8, <2>2, <3>1
    <3>3. p # Root
      BY <3>2, EntityAssumption
    <3> QED BY <1>2, <1>4, <3>1, <3>2, <3>3, DefaultFact
  <2>3. CASE d # c
    <3>1. d \in Listed(f) /\ parent'[d] = parent[d] /\ d \notin adopted
      BY <1>1, <1>4, <1>8, <2>1, <2>3
    <3> QED BY <1>2, <1>4, <3>1 DEF EntitiesKeepApart
  <2> QED BY <2>2, <2>3
<1> QED BY <1>9, <1>10, <1>11, <1>12, <1>13 DEF SystemsAgree

\* A removal, whatever is removed: of one component, of all of an entity, or of the first
\* of them.
LEMMA ShutDownFact ==
    ASSUME SystemsAgree, NEW gone \in SUBSET Components, ShutDown(gone),
           created' \subseteq created, failed' = failed, adopted' = adopted,
           listed' \in [Entities -> Seq(Components)],
           \A f \in created' : IsInjective(listed'[f]) /\ Listed(f)' = Listed(f) \ gone,
           AllListed \ gone \subseteq AllListed'
    PROVE  SystemsAgree'
<1>1. TypeOK /\ ListedAreServed /\ NothingLeftBehind /\ AttachedToRoot /\ EntitiesKeepApart
  BY DEF SystemsAgree
<1>2. /\ served' = [s \in Systems |-> served[s] \ gone] /\ node' = node \ gone
      /\ parent' = [c \in Components |-> IF c \in Visible /\ c \in Uprooted(gone)
                                         THEN NoParent ELSE parent[c]]
      /\ registered' = registered \ gone
  BY DEF ShutDown, Unregistered
<1>3. Visible \subseteq Components /\ Root \notin Components /\ NoParent \notin Components
  BY EntityAssumption DEF Components
<1>4. ASSUME NEW c \in Components, parent'[c] # NoParent
      PROVE  /\ parent'[c] = parent[c] /\ Attached(c) /\ c \in Visible /\ c \notin gone
             /\ c \in node'
             /\ parent[c] \in Visible => parent[c] \notin gone /\ parent'[parent[c]] = parent[parent[c]]
  <2>1. parent'[c] = parent[c] /\ ~(c \in Visible /\ c \in Uprooted(gone)) /\ Attached(c)
    BY <1>2, <1>4 DEF Attached
  <2>2. c \in node /\ c \in Visible
    BY <1>1, <2>1 DEF TypeOK
  <2>3. c \notin gone /\ (parent[c] \in Visible => parent[c] \notin Uprooted(gone))
    BY <2>1, <2>2, UprootedFact
  <2>4. parent[c] \in Visible => parent[c] \notin gone /\ parent'[parent[c]] = parent[parent[c]]
    BY <1>2, <1>3, <2>3, UprootedFact
  <2> QED BY <1>2, <2>1, <2>2, <2>3, <2>4
<1>5. TypeOK'
  <2>1. parent' \in [Components -> Visible \cup {Root, NoParent}]
    BY <1>1, <1>2 DEF TypeOK
  <2>2. served' \in [Systems -> SUBSET Components]
    BY <1>1, <1>2 DEF TypeOK
  <2>3. {c \in Components : Attached(c)'} \subseteq node'
    BY <1>4 DEF Attached
  <2> QED BY <1>1, <1>2, <2>1, <2>2, <2>3 DEF TypeOK
<1>6. ListedAreServed'
  <2>1. ASSUME NEW f \in created', NEW d \in Listed(f)'
        PROVE  (\A s \in SystemsOf(d) : d \in served'[s]) /\ (d \in Visible => d \in node')
    <3>1. d \in Listed(f) /\ d \notin gone /\ f \in created
      BY <2>1
    <3>2. \A s \in SystemsOf(d) : s \in Systems /\ d \in served[s]
      BY <1>1, <3>1 DEF ListedAreServed, SystemsOf, Systems
    <3>3. d \in Visible => d \in node
      BY <1>1, <3>1 DEF ListedAreServed
    <3> QED BY <1>2, <3>1, <3>2, <3>3
  <2>2. ASSUME NEW f \in created', NEW g \in created', f # g
        PROVE  Listed(f)' \cap Listed(g)' = {}
    <3>1. Listed(f) \cap Listed(g) = {}
      BY <1>1, <2>2 DEF ListedAreServed
    <3>2. Listed(f)' \subseteq Listed(f) /\ Listed(g)' \subseteq Listed(g)
      OBVIOUS
    <3> QED BY <3>1, <3>2
  <2>3. \A f \in created' : IsInjective(listed'[f])
    OBVIOUS
  <2> QED BY <2>1, <2>2, <2>3 DEF ListedAreServed
<1>7. NothingLeftBehind'
  <2>1. ASSUME NEW x \in UNION {served'[s] : s \in Systems}
        PROVE  x \in AllListed' \cup failed'
    <3>1. x \notin gone /\ x \in UNION {served[s] : s \in Systems}
      BY <1>2, <2>1
    <3> QED BY <1>1, <3>1 DEF NothingLeftBehind
  <2>2. ASSUME NEW x \in registered'
        PROVE  x \in AllListed' \cup failed'
    BY <1>1, <1>2, <2>2 DEF NothingLeftBehind
  <2>3. ASSUME NEW x \in Components, parent'[x] # NoParent
        PROVE  x \in AllListed' \cup failed'
    <3>1. Attached(x) /\ x \notin gone
      BY <1>4, <2>3
    <3> QED BY <1>1, <3>1 DEF NothingLeftBehind
  <2> QED BY <2>1, <2>2, <2>3 DEF NothingLeftBehind, Attached
<1>8. AttachedToRoot'
  <2> SUFFICES ASSUME NEW c \in Visible, parent'[c] # NoParent, parent'[c] # Root
               PROVE  parent'[parent'[c]] # NoParent
    BY DEF AttachedToRoot, Attached
  <2>1. parent'[c] = parent[c] /\ Attached(c) /\ (parent[c] \in Visible =>
            parent'[parent[c]] = parent[parent[c]])
    BY <1>3, <1>4
  <2>2. parent[c] \in Visible /\ parent[parent[c]] # NoParent
    BY <1>1, <1>3, <2>1 DEF TypeOK, AttachedToRoot, Attached
  <2> QED BY <2>1, <2>2
<1>9. EntitiesKeepApart'
  <2> SUFFICES ASSUME NEW f \in created', NEW c \in Listed(f)', c \notin adopted,
                      parent'[c] \in Components
               PROVE  parent'[c] \in Listed(f)'
    BY DEF EntitiesKeepApart
  <2>1. f \in Entities /\ f \in created /\ c \in Listed(f) /\ c \in Components
    <3>1. f \in Entities /\ f \in created /\ c \in Listed(f)
      BY <1>1 DEF TypeOK
    <3> QED BY <1>1, <3>1, ListedFact
  <2>2. parent'[c] # NoParent /\ parent'[c] \in Visible
    BY <1>3, <1>5, <2>1 DEF TypeOK
  <2>3. parent'[c] = parent[c] /\ parent[c] \notin gone
    BY <1>4, <2>1, <2>2
  <2>4. parent[c] \in Listed(f)
    BY <1>1, <2>1, <2>3 DEF EntitiesKeepApart
  <2> QED BY <2>3, <2>4
<1> QED BY <1>5, <1>6, <1>7, <1>8, <1>9 DEF SystemsAgree

LEMMA RemoveStep ==
    ASSUME SystemsAgree, NEW e \in Entities, NEW c \in Components, RemoveComponent(e, c)
    PROVE  SystemsAgree'
<1>1. /\ e \in created /\ c \in Listed(e) /\ ShutDown({c})
      /\ listed' = [listed EXCEPT ![e] = Without(@, {c})]
      /\ UNCHANGED <<created, failed, adopted>>
  BY DEF RemoveComponent
<1>2. TypeOK /\ ListedAreServed
  BY DEF SystemsAgree
<1> DEFINE l == Without(listed[e], {c})
<1>3. listed[e] \in Seq(Components) /\ IsInjective(listed[e])
  BY <1>1, <1>2 DEF TypeOK, ListedAreServed
<1>4. l \in Seq(Components) /\ ToSet(l) = Listed(e) \ {c} /\ IsInjective(l)
  BY <1>3, WithoutFact DEF Listed
<1>5. listed' = [listed EXCEPT ![e] = l]
  BY <1>1
<1> HIDE DEF l
<1>6. listed' \in [Entities -> Seq(Components)]
  BY <1>2, <1>4, <1>5 DEF TypeOK
<1>7. ASSUME NEW f \in created
      PROVE  IsInjective(listed'[f]) /\ Listed(f)' = Listed(f) \ {c}
  <2>1. listed \in [Entities -> Seq(Components)] /\ f \in Entities
    BY <1>2 DEF TypeOK
  <2>2. CASE f = e
    BY <1>4, <1>5, <2>1, <2>2 DEF Listed
  <2>3. CASE f # e
    <3>1. listed'[f] = listed[f]
      BY <1>5, <2>1, <2>3
    <3>2. c \notin Listed(f) /\ IsInjective(listed[f])
      BY <1>1, <1>2, <2>3 DEF ListedAreServed
    <3> QED BY <3>1, <3>2 DEF Listed
  <2> QED BY <2>2, <2>3
<1>8. AllListed \ {c} \subseteq AllListed'
  BY <1>1, <1>7 DEF AllListed
<1> QED BY <1>1, <1>6, <1>7, <1>8, ShutDownFact

LEMMA DestroyFact ==
    ASSUME SystemsAgree, NEW e \in Entities, Destroy(e)
    PROVE  /\ SystemsAgree'
           /\ \A f \in created \ created' : f = e /\ GoneWith(e) = Listed(e)
<1> DEFINE gone == GoneWith(e)
           raises == \E c \in Listed(e) : Refused(c)
<1>1. /\ e \in created /\ ShutDown(gone)
      /\ listed' = [listed EXCEPT ![e] = IF raises THEN Without(@, gone) ELSE <<>>]
      /\ created' = IF raises THEN created ELSE created \ {e}
      /\ UNCHANGED <<failed, adopted>>
  BY DEF Destroy
<1>2. TypeOK /\ ListedAreServed
  BY DEF SystemsAgree
<1>3. listed[e] \in Seq(Components) /\ IsInjective(listed[e]) /\ Listed(e) \subseteq Components
  BY <1>1, <1>2, ListedFact DEF ListedAreServed
<1>4. gone \subseteq Listed(e)
  BY DEF GoneWith, Listed, ToSet
<1>5. ~raises => gone = Listed(e)
  <2> SUFFICES ASSUME ~raises, NEW c \in Listed(e)
               PROVE  c \in gone
    BY <1>4
  <2>1. DOMAIN listed[e] = 1..Len(listed[e]) /\ Len(listed[e]) \in Nat
    BY <1>3
  <2>2. PICK i \in DOMAIN listed[e] : c = listed[e][i]
    BY DEF Listed, ToSet
  <2>3. \A k \in 1..i : k \in DOMAIN listed[e]
    BY <2>1
  <2>4. \A k \in 1..i : ~Refused(listed[e][k])
    BY <2>3 DEF Listed, ToSet
  <2> QED BY <2>2, <2>4 DEF GoneWith
<1> DEFINE l == IF raises THEN Without(listed[e], gone) ELSE <<>>
<1>6. l \in Seq(Components) /\ ToSet(l) = Listed(e) \ gone /\ IsInjective(l)
  <2>1. CASE raises
    <3> HIDE DEF gone, raises
    <3> QED BY <1>3, <2>1, WithoutFact DEF Listed
  <2>2. CASE ~raises
    <3>1. l = <<>> /\ gone = Listed(e)
      BY <1>5, <2>2
    <3>2. ToSet(<<>>) = {} /\ IsInjective(<<>>)
      BY DEF ToSet, IsInjective
    <3> HIDE DEF l, gone
    <3> QED BY <3>1, <3>2, EmptySeq
  <2> QED BY <2>1, <2>2
<1>7. listed' = [listed EXCEPT ![e] = l]
  BY <1>1
<1> HIDE DEF l, raises, gone
<1>8. listed' \in [Entities -> Seq(Components)]
  BY <1>2, <1>6, <1>7 DEF TypeOK
<1>9. ASSUME NEW f \in created
      PROVE  IsInjective(listed'[f]) /\ Listed(f)' = Listed(f) \ gone
  <2>1. listed \in [Entities -> Seq(Components)] /\ f \in Entities
    BY <1>2 DEF TypeOK
  <2>2. CASE f = e
    BY <1>6, <1>7, <2>1, <2>2 DEF Listed
  <2>3. CASE f # e
    <3>1. listed'[f] = listed[f]
      BY <1>7, <2>1, <2>3
    <3>2. Listed(f) \cap Listed(e) = {} /\ IsInjective(listed[f])
      BY <1>1, <1>2, <2>3 DEF ListedAreServed
    <3>3. Listed(f)' = Listed(f)
      BY <3>1 DEF Listed
    <3> QED BY <1>4, <3>1, <3>2, <3>3
  <2> QED BY <2>2, <2>3
<1>10. AllListed \ gone \subseteq AllListed'
  <2> SUFFICES ASSUME NEW f \in created, NEW c \in Listed(f), c \notin gone
               PROVE  c \in AllListed'
    BY DEF AllListed
  <2>1. f \in created'
    BY <1>1, <1>5
  <2>2. c \in Listed(f)'
    BY <1>9
  <2> QED BY <2>1, <2>2 DEF AllListed
<1>11. created' \subseteq created /\ gone \in SUBSET Components
  BY <1>1, <1>3, <1>4
<1>12. SystemsAgree'
  BY <1>1, <1>8, <1>9, <1>10, <1>11, ShutDownFact
<1>13. \A f \in created \ created' : f = e /\ gone = Listed(e)
  BY <1>1, <1>5
<1> QED BY <1>12, <1>13 DEF gone

LEMMA EntitySteps ==
    ASSUME SystemsAgree, [Next]_vars
    PROVE  SystemsAgree'
<1>1. ASSUME NEW e \in Entities, NEW c \in Components, AddComponent(e, c)
      PROVE  SystemsAgree'
  BY <1>1, AddControllerStep, AddVisibleStep DEF AddComponent
<1>2. CASE ClearEvents
  <2>1. registered' = {} /\ UNCHANGED <<created, listed, served, node, parent, failed, adopted>>
    BY <1>2 DEF ClearEvents
  <2>2. TypeOK /\ ListedAreServed /\ NothingLeftBehind /\ AttachedToRoot /\ EntitiesKeepApart
    BY DEF SystemsAgree
  <2>3. TypeOK'
    BY <2>1, <2>2 DEF TypeOK, Attached
  <2>4. ListedAreServed' /\ NothingLeftBehind'
    BY <2>1, <2>2 DEF ListedAreServed, NothingLeftBehind, Listed, AllListed, Attached
  <2>5. AttachedToRoot' /\ EntitiesKeepApart'
    BY <2>1, <2>2 DEF AttachedToRoot, EntitiesKeepApart, Listed, Attached
  <2> QED BY <2>3, <2>4, <2>5 DEF SystemsAgree
<1>3. CASE UNCHANGED vars
  <2>1. UNCHANGED <<created, listed, served, node, parent, registered, failed, adopted>>
    BY <1>3 DEF vars
  <2>2. TypeOK /\ ListedAreServed /\ NothingLeftBehind /\ AttachedToRoot /\ EntitiesKeepApart
    BY DEF SystemsAgree
  <2>3. TypeOK'
    BY <2>1, <2>2 DEF TypeOK, Attached
  <2>4. ListedAreServed' /\ NothingLeftBehind'
    BY <2>1, <2>2 DEF ListedAreServed, NothingLeftBehind, Listed, AllListed, Attached
  <2>5. AttachedToRoot' /\ EntitiesKeepApart'
    BY <2>1, <2>2 DEF AttachedToRoot, EntitiesKeepApart, Listed, Attached
  <2> QED BY <2>3, <2>4, <2>5 DEF SystemsAgree
<1> QED BY <1>1, <1>2, <1>3, CreateStep, RemoveStep, DestroyFact DEF Next

\* The systems and the entities agree on the components, and the nodes of the entities
\* are one tree in which none holds another's: for any entities and components, and
\* whatever additions and removals failed (manager.py, system/*.py).
THEOREM SystemsStayAgreed == Spec => []SystemsAgree
<1>1. Init => SystemsAgree
  BY EntityInit
<1>2. SystemsAgree /\ [Next]_vars => SystemsAgree'
  BY EntitySteps
<1> QED BY <1>1, <1>2, PTL DEF Spec

\* An entity that is destroyed leaves nothing of its components to a system, to the
\* scene or to the event manager (Manager.__destroy).
THEOREM DestroysStayComplete == Spec => DestroyIsComplete
<1>1. Init => SystemsAgree
  BY EntityInit
<1>2. SystemsAgree /\ [Next]_vars => SystemsAgree'
  BY EntitySteps
<1>3. ASSUME SystemsAgree, [Next]_vars
      PROVE  [\A e \in created \ created' : \A c \in Listed(e) :
                /\ \A s \in Systems : c \notin served'[s]
                /\ c \notin node' \cup registered'
                /\ parent'[c] = NoParent]_vars
  <2> SUFFICES ASSUME NEW e \in created, e \notin created', NEW c \in Listed(e)
               PROVE  /\ \A s \in Systems : c \notin served'[s]
                      /\ c \notin node' \cup registered'
                      /\ parent'[c] = NoParent
    OBVIOUS
  <2>1. PICK f \in Entities : Destroy(f)
    <3>1. ASSUME NEW f \in Entities, NEW d \in Components, AddComponent(f, d)
          PROVE  created' = created
      BY <3>1 DEF AddComponent, AddController, AddVisible
    <3>2. ASSUME NEW f \in Entities, NEW d \in Components, RemoveComponent(f, d)
          PROVE  created' = created
      BY <3>2 DEF RemoveComponent
    <3>3. ASSUME NEW f \in Entities, Create(f)
          PROVE  created \subseteq created'
      BY <3>3 DEF Create
    <3>4. ClearEvents \/ UNCHANGED vars => created' = created
      BY DEF ClearEvents, vars
    <3> QED BY <1>3, <3>1, <3>2, <3>3, <3>4 DEF Next
  <2>2. f = e /\ GoneWith(e) = Listed(e) /\ SystemsAgree'
    BY <1>3, <2>1, DestroyFact
  <2>3. ShutDown(Listed(e))
    BY <2>1, <2>2 DEF Destroy
  <2>4. /\ served' = [s \in Systems |-> served[s] \ Listed(e)]
        /\ node' = node \ Listed(e) /\ registered' = registered \ Listed(e)
    BY <2>3 DEF ShutDown, Unregistered
  <2>5. c \in Components
    BY <1>3, <2>1, <2>2, ListedFact DEF SystemsAgree
  <2>6. parent'[c] = NoParent
    BY <2>2, <2>4, <2>5 DEF SystemsAgree, TypeOK, Attached
  <2> QED BY <2>4, <2>6
<1> QED BY <1>1, <1>2, <1>3, PTL DEF Spec, DestroyIsComplete

-----------------------------------------------------------------------------
(* EventManager, for any controllers, channels, delays and bounds *)

\* What is pushed, what waits, and what a poll has taken.
Pushes == [id : 1..MaxEvents, channel : Channels, due : {-1}]
Laters == [id : 1..MaxEvents, channel : {Later}, due : Nat]
Entries == [left : Int, event : Laters]
Lists == Seq(Callables)
Polls == [phase : {"idle", "event", "tick"}, rest : Seq(Events), next : Nat \ {0},
          old : Lists, detached : BOOLEAN]

ManagerTypes ==
    /\ controllers \in [AllChannels -> Lists]
    /\ \A ch \in AllChannels : IsInjective(controllers[ch])
    /\ Caller \in Range(controllers[Later])
    /\ queue \in Seq(Pushes) /\ delayed \in Seq(Entries) /\ cleared \in BOOLEAN
    /\ poll \in Polls /\ IsInjective(poll.old)
    /\ callee \in Callables \cup {Idle}
    /\ poll.phase = "idle" => callee = Idle
    /\ poll.phase = "event" <=> poll.rest # <<>>
    /\ made \in 0..MaxEvents /\ clock \in 0..MaxClock

\* An id is found once in each of the places it may be in.
Apart(s) == \A i, j \in DOMAIN s : s[i].id = s[j].id => i = j
IdsAreApart ==
    /\ Apart(queue) /\ Apart(poll.rest)
    /\ \A i, j \in DOMAIN delayed : delayed[i].event.id = delayed[j].event.id => i = j

\* The times, by index.
TimesAreKnown ==
    /\ \A i \in DOMAIN delayed : delayed[i].left = delayed[i].event.due - clock /\ delayed[i].left >= 0
    /\ \A i \in DOMAIN poll.rest : poll.rest[i].due < clock \/ poll.rest[i].due = -1

EventsInv == ManagerTypes /\ IdsAreApart /\ TimesAreKnown /\ EveryEventAccountedFor

\* Five places that share no id and have those made.
Accounted(q, d, r, n, l, m) ==
    /\ q \cup d \cup r \cup n \cup l = 1..m
    /\ q \cap d = {} /\ q \cap r = {} /\ q \cap n = {} /\ q \cap l = {}
    /\ d \cap r = {} /\ d \cap n = {} /\ d \cap l = {}
    /\ r \cap n = {} /\ r \cap l = {} /\ n \cap l = {}

LEMMA PlacesFact ==
    ASSUME NEW q, NEW d, NEW r, NEW n, NEW l, NEW m
    PROVE  LET places == <<q, d, r, n, l>> IN
           Accounted(q, d, r, n, l, m) <=>
             /\ UNION Range(places) = 1..m
             /\ \A i, j \in DOMAIN places : i # j => places[i] \cap places[j] = {}
<1> DEFINE places == <<q, d, r, n, l>>
<1>1. DOMAIN places = {1, 2, 3, 4, 5}
  OBVIOUS
<1>2. places[1] = q /\ places[2] = d /\ places[3] = r /\ places[4] = n /\ places[5] = l
  OBVIOUS
<1> HIDE DEF places
<1>3. Range(places) = {q, d, r, n, l}
  BY <1>1, <1>2 DEF Range
<1>4. UNION Range(places) = q \cup d \cup r \cup n \cup l
  BY <1>3
<1>5. (\A i, j \in DOMAIN places : i # j => places[i] \cap places[j] = {}) <=>
        /\ q \cap d = {} /\ q \cap r = {} /\ q \cap n = {} /\ q \cap l = {}
        /\ d \cap r = {} /\ d \cap n = {} /\ d \cap l = {}
        /\ r \cap n = {} /\ r \cap l = {} /\ n \cap l = {}
  <2>1. ASSUME \A i, j \in DOMAIN places : i # j => places[i] \cap places[j] = {}
        PROVE  /\ q \cap d = {} /\ q \cap r = {} /\ q \cap n = {} /\ q \cap l = {}
               /\ d \cap r = {} /\ d \cap n = {} /\ d \cap l = {}
               /\ r \cap n = {} /\ r \cap l = {} /\ n \cap l = {}
    <3>1. \A i, j \in {1, 2, 3, 4, 5} : i # j => places[i] \cap places[j] = {}
      BY <1>1, <2>1
    <3> QED BY <1>2, <3>1
  <2>2. ASSUME /\ q \cap d = {} /\ q \cap r = {} /\ q \cap n = {} /\ q \cap l = {}
               /\ d \cap r = {} /\ d \cap n = {} /\ d \cap l = {}
               /\ r \cap n = {} /\ r \cap l = {} /\ n \cap l = {},
               NEW i \in {1, 2, 3, 4, 5}, NEW j \in {1, 2, 3, 4, 5}, i # j
        PROVE  places[i] \cap places[j] = {}
    BY <1>2, <2>2
  <2> QED BY <1>1, <2>1, <2>2
<1> QED BY <1>4, <1>5 DEF Accounted, places

\* Both states of a step.
LEMMA AccountsFact ==
    /\ EveryEventAccountedFor <=>
         Accounted(Ids(queue), Waiting(delayed), Ids(poll.rest), done, dropped, made)
    /\ EveryEventAccountedFor' <=>
         Accounted(Ids(queue'), Waiting(delayed'), Ids(poll'.rest), done', dropped', made')
BY PlacesFact DEF EveryEventAccountedFor

LEMMA IdsFact ==
    /\ \A s : Ids(s) = {s[i].id : i \in DOMAIN s}
    /\ \A s : Waiting(s) = {s[i].event.id : i \in DOMAIN s}
    /\ Ids(<<>>) = {} /\ Waiting(<<>>) = {}
<1>1. \A s : Ids(s) = {s[i].id : i \in DOMAIN s}
  BY DEF Ids, Range
<1>2. \A s : Waiting(s) = {s[i].event.id : i \in DOMAIN s}
  BY DEF Waiting, Range
<1>3. Ids(<<>>) = {} /\ Waiting(<<>>) = {}
  BY <1>1, <1>2
<1> QED BY <1>1, <1>2, <1>3

LEMMA TimesFact ==
    /\ DelaysAreKept <=> TimesAreKnown
    /\ DelaysAreKept' <=> TimesAreKnown'
BY DEF DelaysAreKept, TimesAreKnown, Range

LEMMA AppendFact ==
    ASSUME NEW S, NEW s \in Seq(S), NEW x \in S
    PROVE  /\ Append(s, x) \in Seq(S)
           /\ Len(s) \in Nat /\ DOMAIN s = 1..Len(s) /\ DOMAIN Append(s, x) = 1..(Len(s) + 1)
           /\ \A i \in DOMAIN s : Append(s, x)[i] = s[i] /\ i \in DOMAIN Append(s, x)
           /\ Append(s, x)[Len(s) + 1] = x /\ Len(s) + 1 \in DOMAIN Append(s, x)
           /\ \A i \in DOMAIN Append(s, x) : i \in DOMAIN s \/ i = Len(s) + 1
<1>1. /\ Append(s, x) \in Seq(S)
      /\ Len(s) \in Nat /\ DOMAIN s = 1..Len(s) /\ DOMAIN Append(s, x) = 1..(Len(s) + 1)
  OBVIOUS
<1>2. \A i \in DOMAIN s : Append(s, x)[i] = s[i]
  OBVIOUS
<1>3. Append(s, x)[Len(s) + 1] = x
  OBVIOUS
<1> DEFINE l == Len(s)
<1> HIDE DEF l
<1>4. l \in Nat /\ DOMAIN s = 1..l /\ DOMAIN Append(s, x) = 1..(l + 1)
  BY <1>1 DEF l
<1>5. (\A i \in 1..l : i \in 1..(l + 1)) /\ l + 1 \in 1..(l + 1) /\ \A i \in 1..(l + 1) : i \in 1..l \/ i = l + 1
  BY <1>4
<1> QED BY <1>1, <1>2, <1>3, <1>4, <1>5 DEF l

\* One more event with a new id.
LEMMA IdsAppend ==
    ASSUME NEW S, NEW s \in Seq(S), NEW x \in S
    PROVE  /\ Ids(Append(s, x)) = Ids(s) \cup {x.id}
           /\ Apart(s) /\ x.id \notin Ids(s) => Apart(Append(s, x))
           /\ Waiting(Append(s, x)) = Waiting(s) \cup {x.event.id}
<1> DEFINE t == Append(s, x)
           n == Len(s) + 1
<1>1. /\ \A i \in DOMAIN s : t[i] = s[i] /\ i \in DOMAIN t
      /\ t[n] = x /\ n \in DOMAIN t
      /\ \A i \in DOMAIN t : i \in DOMAIN s \/ i = n
  BY AppendFact
<1> HIDE DEF t, n
<1>2. Ids(t) = Ids(s) \cup {x.id}
  <2>1. \A y \in Ids(t) : y \in Ids(s) \cup {x.id}
    BY <1>1, IdsFact
  <2>2. \A y \in Ids(s) \cup {x.id} : y \in Ids(t)
    BY <1>1, IdsFact
  <2> QED BY <2>1, <2>2
<1>3. Waiting(t) = Waiting(s) \cup {x.event.id}
  <2>1. \A y \in Waiting(t) : y \in Waiting(s) \cup {x.event.id}
    BY <1>1, IdsFact
  <2>2. \A y \in Waiting(s) \cup {x.event.id} : y \in Waiting(t)
    BY <1>1, IdsFact
  <2> QED BY <2>1, <2>2
<1>4. ASSUME Apart(s), x.id \notin Ids(s) PROVE Apart(t)
  <2>1. \A i \in DOMAIN s : s[i].id # x.id
    BY <1>4, IdsFact
  <2>2. ASSUME NEW i \in DOMAIN t, NEW j \in DOMAIN t, t[i].id = t[j].id PROVE i = j
    BY <1>1, <1>4, <2>1, <2>2 DEF Apart
  <2> QED BY <2>2 DEF Apart
<1> QED BY <1>2, <1>3, <1>4 DEF t

\* The first event of a sequence gone.
LEMMA IdsTail ==
    ASSUME NEW S, NEW s \in Seq(S), s # <<>>
    PROVE  /\ Tail(s) \in Seq(S) /\ Head(s) \in S
           /\ Ids(s) = {Head(s).id} \cup Ids(Tail(s))
           /\ Apart(s) => Apart(Tail(s)) /\ Head(s).id \notin Ids(Tail(s))
           /\ \A i \in DOMAIN Tail(s) : \E j \in DOMAIN s : Tail(s)[i] = s[j]
<1> DEFINE t == Tail(s)
           h == Head(s)
           n == Len(s)
<1>1. t \in Seq(S) /\ h \in S /\ h = s[1] /\ n \in Nat /\ n # 0 /\ DOMAIN s = 1..n
  OBVIOUS
<1>2. DOMAIN t = 1..(n - 1)
  OBVIOUS
<1>3. \A i \in 1..(n - 1) : t[i] = s[i + 1]
  OBVIOUS
<1> HIDE DEF t, h, n
<1>4. \A i \in 1..(n - 1) : i + 1 \in 1..n /\ i + 1 # 1
  BY <1>1
<1>5. \A j \in 1..n : j = 1 \/ (j - 1 \in 1..(n - 1) /\ (j - 1) + 1 = j)
  BY <1>1
<1>6. 1 \in 1..n
  BY <1>1
<1>7. Ids(s) = {h.id} \cup Ids(t)
  <2>1. ASSUME NEW y \in Ids(s) PROVE y \in {h.id} \cup Ids(t)
    <3>1. PICK j \in 1..n : y = s[j].id
      BY <1>1, <2>1, IdsFact
    <3>2. CASE j = 1
      BY <1>1, <3>1, <3>2
    <3>3. CASE j # 1
      <4>1. j - 1 \in DOMAIN t /\ t[j - 1] = s[j]
        BY <1>2, <1>3, <1>5, <3>3
      <4> QED BY <3>1, <4>1, IdsFact
    <3> QED BY <3>2, <3>3
  <2>2. ASSUME NEW y \in {h.id} \cup Ids(t) PROVE y \in Ids(s)
    <3>1. CASE y = h.id
      BY <1>1, <1>6, <3>1, IdsFact
    <3>2. CASE y \in Ids(t)
      <4>1. PICK i \in 1..(n - 1) : y = t[i].id
        BY <1>2, <3>2, IdsFact
      <4>2. i + 1 \in 1..n /\ t[i] = s[i + 1]
        BY <1>3, <1>4
      <4> QED BY <1>1, <4>1, <4>2, IdsFact
    <3> QED BY <2>2, <3>1, <3>2
  <2> QED BY <2>1, <2>2
<1>8. ASSUME Apart(s) PROVE Apart(t) /\ h.id \notin Ids(t)
  <2>1. ASSUME NEW i \in 1..(n - 1), NEW j \in 1..(n - 1), t[i].id = t[j].id PROVE i = j
    <3>1. i + 1 \in 1..n /\ j + 1 \in 1..n /\ s[i + 1].id = s[j + 1].id
      BY <1>3, <1>4, <2>1
    <3>2. i + 1 = j + 1
      BY <1>1, <1>8, <3>1 DEF Apart
    <3> QED BY <3>2
  <2>2. ASSUME h.id \in Ids(t) PROVE FALSE
    <3>1. PICK i \in 1..(n - 1) : h.id = t[i].id
      BY <1>2, <2>2, IdsFact
    <3>2. i + 1 \in 1..n /\ s[1].id = s[i + 1].id /\ i + 1 # 1
      BY <1>1, <1>3, <1>4, <3>1
    <3> QED BY <1>1, <1>6, <1>8, <3>2 DEF Apart
  <2> QED BY <1>2, <2>1, <2>2 DEF Apart
<1>9. \A i \in DOMAIN t : \E j \in DOMAIN s : t[i] = s[j]
  BY <1>1, <1>2, <1>3, <1>4
<1> QED BY <1>1, <1>7, <1>8, <1>9 DEF t, h

\* Two sequences of events in a row.
LEMMA IdsConcat ==
    ASSUME NEW S, NEW s \in Seq(S), NEW t \in Seq(S)
    PROVE  /\ s \o t \in Seq(S)
           /\ Ids(s \o t) = Ids(s) \cup Ids(t)
           /\ Apart(s) /\ Apart(t) /\ Ids(s) \cap Ids(t) = {} => Apart(s \o t)
           /\ \A i \in DOMAIN (s \o t) :
                (\E j \in DOMAIN s : (s \o t)[i] = s[j]) \/ (\E j \in DOMAIN t : (s \o t)[i] = t[j])
<1> DEFINE r == s \o t
           m == Len(s)
           n == Len(t)
<1>1. r \in Seq(S) /\ m \in Nat /\ n \in Nat /\ DOMAIN s = 1..m /\ DOMAIN t = 1..n
  OBVIOUS
<1>2. DOMAIN r = 1..(m + n)
  OBVIOUS
<1>3. \A i \in 1..m : r[i] = s[i]
  OBVIOUS
<1>4. \A i \in 1..n : r[m + i] = t[i]
  OBVIOUS
<1> HIDE DEF r, m, n
<1>5. \A i \in 1..(m + n) : i \in 1..m \/ (i - m \in 1..n /\ m + (i - m) = i)
  BY <1>1
<1>6. (\A i \in 1..m : i \in 1..(m + n)) /\ (\A i \in 1..n : m + i \in 1..(m + n))
  BY <1>1
<1>7. \A i \in DOMAIN r : \/ i \in DOMAIN s /\ r[i] = s[i]
                          \/ i - m \in DOMAIN t /\ r[i] = t[i - m] /\ m + (i - m) = i
  BY <1>1, <1>2, <1>3, <1>4, <1>5
<1>8. Ids(r) = Ids(s) \cup Ids(t)
  <2>1. \A y \in Ids(r) : y \in Ids(s) \cup Ids(t)
    BY <1>7, IdsFact
  <2>2. \A y \in Ids(s) : y \in Ids(r)
    BY <1>1, <1>2, <1>3, <1>6, IdsFact
  <2>3. \A y \in Ids(t) : y \in Ids(r)
    BY <1>1, <1>2, <1>4, <1>6, IdsFact
  <2> QED BY <2>1, <2>2, <2>3
<1>9. ASSUME Apart(s), Apart(t), Ids(s) \cap Ids(t) = {} PROVE Apart(r)
  <2>1. ASSUME NEW i \in DOMAIN r, NEW j \in DOMAIN r, r[i].id = r[j].id PROVE i = j
    <3>1. \A x \in DOMAIN s, y \in DOMAIN t : s[x].id # t[y].id
      BY <1>9, IdsFact
    <3>2. CASE i \in DOMAIN s /\ r[i] = s[i]
      <4>1. j \in DOMAIN s /\ r[j] = s[j]
        BY <1>7, <2>1, <3>1, <3>2
      <4> QED BY <1>9, <2>1, <3>2, <4>1 DEF Apart
    <3>3. CASE i - m \in DOMAIN t /\ r[i] = t[i - m] /\ m + (i - m) = i
      <4>1. j - m \in DOMAIN t /\ r[j] = t[j - m] /\ m + (j - m) = j
        BY <1>7, <2>1, <3>1, <3>3
      <4>2. i - m = j - m
        BY <1>9, <2>1, <3>3, <4>1 DEF Apart
      <4> QED BY <3>3, <4>1, <4>2
    <3> QED BY <1>7, <3>2, <3>3
  <2> QED BY <2>1 DEF Apart
<1>10. \A i \in DOMAIN r : (\E j \in DOMAIN s : r[i] = s[j]) \/ (\E j \in DOMAIN t : r[i] = t[j])
  BY <1>7
<1> QED BY <1>1, <1>8, <1>9, <1>10 DEF r

\* The entries of the delayed queue, older: those due give their events, those
\* kept stay, and no entry does both.
LEMMA DueFact ==
    ASSUME NEW entries \in Seq(Entries), NEW elapsed \in Nat,
           \A i, j \in DOMAIN entries : entries[i].event.id = entries[j].event.id => i = j
    PROVE  LET due == Due(entries, elapsed)
               kept == Kept(entries, elapsed) IN
           /\ due \in Seq(Laters) /\ kept \in Seq(Entries)
           /\ Apart(due)
           /\ \A i, j \in DOMAIN kept : kept[i].event.id = kept[j].event.id => i = j
           /\ Ids(due) \cup Waiting(kept) = Waiting(entries)
           /\ Ids(due) \cap Waiting(kept) = {}
           /\ \A a \in DOMAIN due : \E i \in DOMAIN entries :
                  due[a] = entries[i].event /\ entries[i].left - elapsed < 0
           /\ \A a \in DOMAIN kept : \E i \in DOMAIN entries :
                  /\ kept[a].event = entries[i].event
                  /\ kept[a].left = entries[i].left - elapsed /\ kept[a].left >= 0
<1> DEFINE older == Older(entries, elapsed)
           n == Len(entries)
           ds == [i \in DOMAIN older |-> IF IsDue(older[i]) THEN <<older[i].event>> ELSE <<>>]
           ks == [i \in DOMAIN older |-> IF IsKept(older[i]) THEN <<older[i]>> ELSE <<>>]
           due == FlattenSeq(ds)
           kept == FlattenSeq(ks)
<1>1. n \in Nat /\ DOMAIN entries = 1..n /\ \A i \in 1..n : entries[i] \in Entries
  OBVIOUS
<1>2. DOMAIN older = 1..n /\ \A i \in 1..n : older[i] = [entries[i] EXCEPT !.left = @ - elapsed]
  BY <1>1 DEF Older
<1> HIDE DEF older, n
<1>3. ASSUME NEW i \in 1..n
      PROVE  /\ older[i] \in Entries /\ older[i].event = entries[i].event
             /\ older[i].left = entries[i].left - elapsed /\ older[i].left \in Int
             /\ older[i].event \in Laters
  <2>1. entries[i] \in Entries /\ older[i] = [entries[i] EXCEPT !.left = @ - elapsed]
    BY <1>1, <1>2
  <2> QED BY <2>1 DEF Entries
<1>4. ASSUME NEW i \in 1..n
      PROVE  /\ IF older[i].left < 0 THEN ds[i] = <<older[i].event>> ELSE ds[i] = <<>>
             /\ IF older[i].left >= 0 THEN ks[i] = <<older[i]>> ELSE ks[i] = <<>>
  BY <1>2 DEF IsDue, IsKept
<1>5. ds \in [1..n -> Seq(Laters)]
  <2>1. \A i \in 1..n : ds[i] \in Seq(Laters)
    <3> TAKE i \in 1..n
    <3>1. <<older[i].event>> \in Seq(Laters) /\ <<>> \in Seq(Laters)
      BY <1>3, EmptySeq
    <3> HIDE DEF ds
    <3> QED BY <1>4, <3>1
  <2> QED BY <1>2, <2>1
<1>6. ks \in [1..n -> Seq(Entries)]
  <2>1. \A i \in 1..n : ks[i] \in Seq(Entries)
    <3> TAKE i \in 1..n
    <3>1. <<older[i]>> \in Seq(Entries) /\ <<>> \in Seq(Entries)
      BY <1>3, EmptySeq
    <3> HIDE DEF ks
    <3> QED BY <1>4, <3>1
  <2> QED BY <1>2, <2>1
<1> HIDE DEF ds, ks
<1>7. /\ ds \in Seq(Seq(Laters)) /\ Len(ds) = n
      /\ ks \in Seq(Seq(Entries)) /\ Len(ks) = n
  <2>0. n \in Nat
    BY <1>1 DEF n
  <2>1. ds \in Seq(Seq(Laters)) /\ Len(ds) = n
    BY <1>5, <2>0
  <2>2. ks \in Seq(Seq(Entries)) /\ Len(ks) = n
    BY <1>6, <2>0
  <2> QED BY <2>1, <2>2
<1>8. ASSUME NEW i \in 1..n
      PROVE  /\ Len(ds[i]) <= 1 /\ Len(ks[i]) <= 1
             /\ Len(ds[i]) = 1 <=> older[i].left < 0
             /\ Len(ds[i]) = 1 => ds[i][1] = older[i].event
             /\ Len(ks[i]) = 1 <=> older[i].left >= 0
             /\ Len(ks[i]) = 1 => ks[i][1] = older[i]
  <2>1. Len(<<older[i]>>) = 1 /\ <<older[i]>>[1] = older[i]
    OBVIOUS
  <2>2. Len(<<older[i].event>>) = 1 /\ <<older[i].event>>[1] = older[i].event
    OBVIOUS
  <2>3. Len(<<>>) = 0
    OBVIOUS
  <2>4. CASE older[i].left < 0
    <3>1. ds[i] = <<older[i].event>> /\ ks[i] = <<>> /\ ~(older[i].left >= 0)
      BY <1>3, <1>4, <2>4
    <3> QED BY <2>2, <2>3, <2>4, <3>1
  <2>5. CASE older[i].left >= 0
    <3>1. ds[i] = <<>> /\ ks[i] = <<older[i]>> /\ ~(older[i].left < 0)
      BY <1>3, <1>4, <2>5
    <3> QED BY <2>1, <2>3, <2>5, <3>1
  <2> QED BY <1>3, <2>4, <2>5
<1>9. due \in Seq(Laters) /\ Picks(ds, n, due)
  BY <1>7, <1>8, FlattenPicks
<1>10. kept \in Seq(Entries) /\ Picks(ks, n, kept)
  BY <1>7, <1>8, FlattenPicks
<1>11. Due(entries, elapsed) = due /\ Kept(entries, elapsed) = kept
  BY DEF Due, Kept, older, ds, ks
<1> HIDE DEF due, kept
<1>12. /\ DOMAIN due = 1..Len(due) /\ DOMAIN kept = 1..Len(kept)
  BY <1>9, <1>10
<1>13. /\ \A i \in 1..n : older[i].left < 0 => \E a \in DOMAIN due : due[a] = older[i].event
       /\ \A a \in DOMAIN due : \E i \in 1..n : older[i].left < 0 /\ due[a] = older[i].event
       /\ \A a, b \in DOMAIN due : a # b =>
            \E i, j \in 1..n : i # j /\ due[a] = older[i].event /\ due[b] = older[j].event
  <2>1. \A i \in 1..n : Len(ds[i]) = 1 => \E a \in DOMAIN due : due[a] = ds[i][1]
    BY <1>9, <1>12 DEF Picks
  <2>2. \A a \in DOMAIN due : \E i \in 1..n : Len(ds[i]) = 1 /\ due[a] = ds[i][1]
    BY <1>9, <1>12 DEF Picks
  <2>3. \A a, b \in DOMAIN due : a # b =>
           \E i, j \in 1..n : /\ i # j /\ Len(ds[i]) = 1 /\ Len(ds[j]) = 1
                              /\ due[a] = ds[i][1] /\ due[b] = ds[j][1]
    <3>1. \A a, b \in 1..Len(due) : a # b =>
             \E i, j \in 1..n : /\ i # j /\ Len(ds[i]) = 1 /\ Len(ds[j]) = 1
                                /\ due[a] = ds[i][1] /\ due[b] = ds[j][1]
      BY <1>9, Zenon DEF Picks
    <3> TAKE a, b \in DOMAIN due
    <3>2. a \in 1..Len(due) /\ b \in 1..Len(due)
      BY <1>12, Zenon
    <3> QED BY <3>1, <3>2, Zenon
  <2>4. \A i \in 1..n : older[i].left < 0 => \E a \in DOMAIN due : due[a] = older[i].event
    BY <1>8, <2>1
  <2>5. \A a \in DOMAIN due : \E i \in 1..n : older[i].left < 0 /\ due[a] = older[i].event
    BY <1>8, <2>2
  <2>6. \A a, b \in DOMAIN due : a # b =>
           \E i, j \in 1..n : i # j /\ due[a] = older[i].event /\ due[b] = older[j].event
    BY <1>8, <2>3
  <2> QED BY <2>4, <2>5, <2>6
<1>14. /\ \A i \in 1..n : older[i].left >= 0 => \E a \in DOMAIN kept : kept[a] = older[i]
       /\ \A a \in DOMAIN kept : \E i \in 1..n : older[i].left >= 0 /\ kept[a] = older[i]
       /\ \A a, b \in DOMAIN kept : a # b =>
            \E i, j \in 1..n : i # j /\ kept[a] = older[i] /\ kept[b] = older[j]
  <2>1. \A i \in 1..n : Len(ks[i]) = 1 => \E a \in DOMAIN kept : kept[a] = ks[i][1]
    BY <1>10, <1>12 DEF Picks
  <2>2. \A a \in DOMAIN kept : \E i \in 1..n : Len(ks[i]) = 1 /\ kept[a] = ks[i][1]
    BY <1>10, <1>12 DEF Picks
  <2>3. \A a, b \in DOMAIN kept : a # b =>
           \E i, j \in 1..n : /\ i # j /\ Len(ks[i]) = 1 /\ Len(ks[j]) = 1
                              /\ kept[a] = ks[i][1] /\ kept[b] = ks[j][1]
    <3>1. \A a, b \in 1..Len(kept) : a # b =>
             \E i, j \in 1..n : /\ i # j /\ Len(ks[i]) = 1 /\ Len(ks[j]) = 1
                                /\ kept[a] = ks[i][1] /\ kept[b] = ks[j][1]
      BY <1>10, Zenon DEF Picks
    <3> TAKE a, b \in DOMAIN kept
    <3>2. a \in 1..Len(kept) /\ b \in 1..Len(kept)
      BY <1>12, Zenon
    <3> QED BY <3>1, <3>2, Zenon
  <2>4. \A i \in 1..n : older[i].left >= 0 => \E a \in DOMAIN kept : kept[a] = older[i]
    BY <1>8, <2>1
  <2>5. \A a \in DOMAIN kept : \E i \in 1..n : older[i].left >= 0 /\ kept[a] = older[i]
    BY <1>8, <2>2
  <2>6. \A a, b \in DOMAIN kept : a # b =>
           \E i, j \in 1..n : i # j /\ kept[a] = older[i] /\ kept[b] = older[j]
    BY <1>8, <2>3
  <2> QED BY <2>4, <2>5, <2>6
<1>15. \A i, j \in 1..n : older[i].event.id = older[j].event.id => i = j
  BY <1>1, <1>3
<1>16. Apart(due)
  <2>1. ASSUME NEW a \in DOMAIN due, NEW b \in DOMAIN due, a # b PROVE due[a].id # due[b].id
    <3>1. PICK i \in 1..n, j \in 1..n : i # j /\ due[a] = older[i].event /\ due[b] = older[j].event
      BY <1>13, <2>1
    <3> QED BY <1>15, <3>1
  <2> QED BY <2>1 DEF Apart
<1>17. \A i, j \in DOMAIN kept : kept[i].event.id = kept[j].event.id => i = j
  <2>1. ASSUME NEW a \in DOMAIN kept, NEW b \in DOMAIN kept, a # b
        PROVE  kept[a].event.id # kept[b].event.id
    <3>1. PICK i \in 1..n, j \in 1..n : i # j /\ kept[a] = older[i] /\ kept[b] = older[j]
      BY <1>14, <2>1
    <3> QED BY <1>15, <3>1
  <2> QED BY <2>1
<1>18. Ids(due) = {older[i].event.id : i \in {j \in 1..n : older[j].left < 0}}
  <2>1. ASSUME NEW y \in Ids(due) PROVE \E i \in 1..n : older[i].left < 0 /\ y = older[i].event.id
    <3>1. PICK a \in DOMAIN due : y = due[a].id
      BY IdsFact
    <3> QED BY <1>13, <3>1
  <2>2. ASSUME NEW i \in 1..n, older[i].left < 0 PROVE older[i].event.id \in Ids(due)
    <3>1. PICK a \in DOMAIN due : due[a] = older[i].event
      BY <1>13, <2>2
    <3> QED BY <3>1, IdsFact
  <2> QED BY <2>1, <2>2
<1>19. Waiting(kept) = {older[i].event.id : i \in {j \in 1..n : older[j].left >= 0}}
  <2>1. ASSUME NEW y \in Waiting(kept) PROVE \E i \in 1..n : older[i].left >= 0 /\ y = older[i].event.id
    <3>1. PICK a \in DOMAIN kept : y = kept[a].event.id
      BY IdsFact
    <3> QED BY <1>14, <3>1
  <2>2. ASSUME NEW i \in 1..n, older[i].left >= 0 PROVE older[i].event.id \in Waiting(kept)
    <3>1. PICK a \in DOMAIN kept : kept[a] = older[i]
      BY <1>14, <2>2
    <3> QED BY <3>1, IdsFact
  <2> QED BY <2>1, <2>2
<1>20. \A i \in 1..n : (older[i].left < 0 \/ older[i].left >= 0) /\ ~(older[i].left < 0 /\ older[i].left >= 0)
  BY <1>3
<1>21. Waiting(entries) = {older[i].event.id : i \in 1..n}
  <2>1. Waiting(entries) = {entries[i].event.id : i \in 1..n}
    BY <1>1, IdsFact
  <2> QED BY <1>3, <2>1
<1>22. Ids(due) \cup Waiting(kept) = Waiting(entries)
  BY <1>18, <1>19, <1>20, <1>21
<1>23. Ids(due) \cap Waiting(kept) = {}
  BY <1>15, <1>18, <1>19, <1>20
<1>24. \A a \in DOMAIN due : \E i \in DOMAIN entries :
           due[a] = entries[i].event /\ entries[i].left - elapsed < 0
  <2> TAKE a \in DOMAIN due
  <2>1. PICK i \in 1..n : older[i].left < 0 /\ due[a] = older[i].event
    BY <1>13
  <2>2. i \in DOMAIN entries /\ due[a] = entries[i].event /\ entries[i].left - elapsed < 0
    BY <1>1, <1>3, <2>1
  <2> QED BY <2>2
<1>25. \A a \in DOMAIN kept : \E i \in DOMAIN entries :
           /\ kept[a].event = entries[i].event
           /\ kept[a].left = entries[i].left - elapsed /\ kept[a].left >= 0
  <2> TAKE a \in DOMAIN kept
  <2>1. PICK i \in 1..n : older[i].left >= 0 /\ kept[a] = older[i]
    BY <1>14
  <2>2. i \in DOMAIN entries /\ kept[a].event = entries[i].event
    BY <1>1, <1>3, <2>1
  <2>3. kept[a].left = entries[i].left - elapsed /\ kept[a].left >= 0
    BY <1>3, <2>1
  <2> QED BY <2>2, <2>3
<1> QED BY <1>9, <1>10, <1>11, <1>16, <1>17, <1>22, <1>23, <1>24, <1>25

-----------------------------------------------------------------------------
(* The steps of the game's own calls *)

LEMMA EventsFact ==
    /\ Pushes \subseteq Events
    /\ \A e \in Laters : e.due < MaxClock => e \in Events
<1>1. MaxClock \in Nat /\ MaxEvents \in Nat
  BY TimesAssumption
<1>2. Channels \subseteq AllChannels /\ Later \in AllChannels
  BY DEF AllChannels
<1>3. ASSUME NEW e \in Pushes PROVE e \in Events
  BY <1>1, <1>2 DEF Pushes, Events
<1>4. ASSUME NEW e \in Laters, e.due < MaxClock PROVE e \in Events
  BY <1>1, <1>2, <1>4 DEF Laters, Events
<1> QED BY <1>3, <1>4

LEMMA RegisteredFact ==
    /\ Registered \in [AllChannels -> Lists]
    /\ \A ch \in AllChannels : IsInjective(Registered[ch])
    /\ Caller \in Range(Registered[Later])
<1>1. <<>> \in Lists /\ <<Caller>> \in Lists
  BY EmptySeq DEF Lists, Callables
<1>2. IsInjective(<<>>) /\ IsInjective(<<Caller>>)
  BY DEF IsInjective
<1>3. Later \in AllChannels /\ Registered[Later] = <<Caller>>
  BY DEF Registered, AllChannels
<1>4. Caller \in Range(<<Caller>>)
  BY DEF Range
<1>5. Registered \in [AllChannels -> Lists]
  BY <1>1 DEF Registered
<1>6. \A ch \in AllChannels : IsInjective(Registered[ch])
  BY <1>2 DEF Registered
<1> QED BY <1>3, <1>4, <1>5, <1>6

LEMMA NoPollFact ==
    /\ NoPoll \in Polls /\ NoPoll.phase = "idle" /\ NoPoll.rest = <<>>
    /\ NoPoll.old = <<>> /\ NoPoll.detached = FALSE /\ NoPoll.next = 1
    /\ IsInjective(<<>>)
BY EmptySeq DEF NoPoll, Polls, IsInjective, Lists

THEOREM EventsBegin == EventsInit => EventsInv
<1> SUFFICES ASSUME EventsInit PROVE EventsInv
  OBVIOUS
<1>1. ManagerTypes
  BY RegisteredFact, NoPollFact, EmptySeq, TimesAssumption DEF EventsInit, ManagerTypes
<1>2. IdsAreApart
  BY NoPollFact DEF EventsInit, IdsAreApart, Apart
<1>3. TimesAreKnown
  BY NoPollFact DEF EventsInit, TimesAreKnown
<1>4. EveryEventAccountedFor
  <2>1. Accounted({}, {}, {}, {}, {}, 0)
    <3>1. 1..0 = {}
      OBVIOUS
    <3> QED BY <3>1 DEF Accounted
  <2> QED BY <2>1, NoPollFact, IdsFact, AccountsFact DEF EventsInit
<1> QED BY <1>1, <1>2, <1>3, <1>4 DEF EventsInv

\* A step that changes the lists at most.
LEMMA ListsStep ==
    ASSUME EventsInv, UNCHANGED <<queue, delayed, cleared, poll, callee, made, ghosts>>,
           controllers' \in [AllChannels -> Lists],
           \A ch \in AllChannels : IsInjective(controllers'[ch]),
           Caller \in Range(controllers'[Later])
    PROVE  EventsInv'
<1> USE DEF ghosts
<1>1. ManagerTypes'
  BY DEF EventsInv, ManagerTypes
<1>2. IdsAreApart' /\ TimesAreKnown'
  BY DEF EventsInv, IdsAreApart, TimesAreKnown, Apart
<1>3. EveryEventAccountedFor'
  BY AccountsFact DEF EventsInv
<1> QED BY <1>1, <1>2, <1>3 DEF EventsInv

LEMMA RegisterStep ==
    ASSUME EventsInv, NEW c \in Subscribers, NEW ch \in Channels \cup {Tick}, Register(c, ch)
    PROVE  EventsInv'
<1> DEFINE l == controllers[ch]
           n == Len(l) + 1
           m == Append(l, c)
<1>1. /\ controllers \in [AllChannels -> Lists] /\ ch \in AllChannels /\ Later \in AllChannels
      /\ c \in Callables /\ l \in Seq(Callables) /\ IsInjective(l)
      /\ Caller \in Range(controllers[Later]) /\ ch # Later
      /\ \A d \in AllChannels : IsInjective(controllers[d])
  BY NamesAssumption DEF EventsInv, ManagerTypes, AllChannels, Callables, Lists
<1>2. /\ controllers' = [controllers EXCEPT ![ch] = m] /\ c \notin Range(l)
      /\ UNCHANGED <<queue, delayed, cleared, poll, callee, made, ghosts>>
  BY DEF Register, MayRegister
<1>3. /\ m \in Seq(Callables)
      /\ \A i \in DOMAIN l : m[i] = l[i] /\ i \in DOMAIN m
      /\ m[n] = c /\ n \in DOMAIN m
      /\ \A i \in DOMAIN m : i \in DOMAIN l \/ i = n
  BY <1>1, AppendFact
<1> HIDE DEF l, m, n
<1>4. IsInjective(m)
  <2>1. \A i \in DOMAIN l : l[i] # c
    BY <1>2 DEF Range
  <2>2. ASSUME NEW i \in DOMAIN m, NEW j \in DOMAIN m, m[i] = m[j] PROVE i = j
    BY <1>1, <1>3, <2>1, <2>2 DEF IsInjective
  <2> QED BY <2>2 DEF IsInjective
<1>5. /\ controllers' \in [AllChannels -> Lists]
      /\ \A d \in AllChannels : IsInjective(controllers'[d])
      /\ Caller \in Range(controllers'[Later])
  BY <1>1, <1>2, <1>3, <1>4 DEF Lists
<1> QED BY <1>2, <1>5, ListsStep

LEMMA UnregisterStep ==
    ASSUME EventsInv, NEW c \in Subscribers, NEW ch \in Channels \cup {Tick}, Unregister(c, ch)
    PROVE  EventsInv'
<1> DEFINE l == controllers[ch]
           n == Len(l)
<1>1. /\ controllers \in [AllChannels -> Lists] /\ ch \in AllChannels /\ Later \in AllChannels
      /\ l \in Seq(Callables) /\ IsInjective(l)
      /\ Caller \in Range(controllers[Later]) /\ ch # Later
      /\ \A d \in AllChannels : IsInjective(controllers[d])
  BY NamesAssumption DEF EventsInv, ManagerTypes, AllChannels, Lists
<1>2. PICK i \in DOMAIN l :
          /\ controllers' = [controllers EXCEPT ![ch] = RemoveAt(l, i)]
          /\ UNCHANGED <<queue, delayed, cleared, poll, callee, made, ghosts>>
  BY DEF Unregister
<1> DEFINE a == SubSeq(l, 1, i - 1)
           b == SubSeq(l, i + 1, n)
           m == RemoveAt(l, i)
<1>3. n \in Nat /\ i \in 1..n /\ DOMAIN l = 1..n /\ i \in Nat
  BY <1>1
<1>4. /\ a \in Seq(Callables) /\ Len(a) = i - 1
      /\ \A x \in 1..(i - 1) : a[x] = l[x]
  <2> HIDE DEF l, n
  <2> QED BY <1>1, <1>3 DEF n
<1>5. /\ b \in Seq(Callables) /\ Len(b) = n - i
      /\ \A x \in 1..(n - i) : b[x] = l[x + i]
  <2> HIDE DEF l, n
  <2> QED BY <1>1, <1>3 DEF n
<1>6. m = a \o b
  BY DEF RemoveAt
<1> HIDE DEF a, b, m, l, n
<1>7. /\ m \in Seq(Callables) /\ DOMAIN m = 1..((i - 1) + (n - i))
      /\ \A x \in 1..(i - 1) : m[x] = a[x]
      /\ \A x \in 1..(n - i) : m[(i - 1) + x] = b[x]
  <2>1. m \in Seq(Callables)
    BY <1>4, <1>5, <1>6
  <2>2. DOMAIN m = 1..((i - 1) + (n - i))
    BY <1>4, <1>5, <1>6
  <2>3. \A x \in 1..(i - 1) : m[x] = a[x]
    BY <1>4, <1>5, <1>6
  <2>4. \A x \in 1..(n - i) : m[(i - 1) + x] = b[x]
    BY <1>4, <1>5, <1>6
  <2> QED BY <2>1, <2>2, <2>3, <2>4
<1>8. \A x \in DOMAIN m : IF x < i THEN m[x] = l[x] /\ x \in 1..n ELSE m[x] = l[x + 1] /\ x + 1 \in 1..n
  <2> SUFFICES ASSUME NEW x \in 1..((i - 1) + (n - i))
               PROVE  IF x < i THEN m[x] = l[x] /\ x \in 1..n ELSE m[x] = l[x + 1] /\ x + 1 \in 1..n
    BY <1>7
  <2>1. CASE x < i
    <3>1. x \in 1..(i - 1) /\ x \in 1..n
      BY <1>3, <2>1
    <3> QED BY <1>4, <1>7, <2>1, <3>1
  <2>2. CASE ~(x < i)
    <3> DEFINE y == x - (i - 1)
    <3>1. y \in 1..(n - i) /\ (i - 1) + y = x /\ y + i = x + 1 /\ x + 1 \in 1..n
      BY <1>3, <2>2
    <3> HIDE DEF y
    <3>2. m[x] = b[y] /\ b[y] = l[x + 1]
      BY <1>5, <1>7, <3>1
    <3> QED BY <2>2, <3>1, <3>2
  <2> QED BY <2>1, <2>2
<1>9. IsInjective(m)
  <2>1. ASSUME NEW x \in DOMAIN m, NEW y \in DOMAIN m, m[x] = m[y] PROVE x = y
    <3>1. x \in Int /\ y \in Int
      BY <1>3, <1>7
    <3>2. \A u, v \in 1..n : l[u] = l[v] => u = v
      BY <1>1, <1>3 DEF IsInjective
    <3> QED BY <1>3, <1>8, <2>1, <3>1, <3>2
  <2> QED BY <2>1 DEF IsInjective
<1>10. /\ controllers' \in [AllChannels -> Lists]
       /\ \A d \in AllChannels : IsInjective(controllers'[d])
       /\ Caller \in Range(controllers'[Later])
  BY <1>1, <1>2, <1>7, <1>9 DEF Lists, m
<1> QED BY <1>2, <1>10, ListsStep

LEMMA PushStep ==
    ASSUME EventsInv, NEW ch \in Channels, Push(ch)
    PROVE  EventsInv'
<1> DEFINE e == NewEvent(ch, -1)
<1>1. /\ queue' = Append(queue, e) /\ made' = made + 1 /\ made < MaxEvents
      /\ UNCHANGED <<controllers, delayed, cleared, poll, callee, ghosts>>
  BY DEF Push
<1>2. made \in Nat /\ made' \in 0..MaxEvents /\ made + 1 \in 1..MaxEvents /\ MaxEvents \in Nat
  BY <1>1, TimesAssumption DEF EventsInv, ManagerTypes
<1>3. e \in Pushes /\ e.id = made + 1
  BY <1>2 DEF NewEvent, Pushes
<1> HIDE DEF e
<1>4. ManagerTypes'
  <2>1. queue' \in Seq(Pushes)
    BY <1>1, <1>3 DEF EventsInv, ManagerTypes
  <2> QED BY <1>1, <1>2, <2>1 DEF EventsInv, ManagerTypes, ghosts
<1>5. Accounted(Ids(queue), Waiting(delayed), Ids(poll.rest), done, dropped, made)
  BY AccountsFact DEF EventsInv
<1>6. made + 1 \notin 1..made /\ 1..(made + 1) = (1..made) \cup {made + 1}
  BY <1>2
<1>7. queue \in Seq(Pushes) /\ Apart(queue)
  BY DEF EventsInv, ManagerTypes, IdsAreApart
<1>8. Ids(queue') = Ids(queue) \cup {made + 1}
  BY <1>1, <1>3, <1>7, IdsAppend
<1>9. IdsAreApart'
  <2>1. Apart(queue')
    BY <1>1, <1>3, <1>5, <1>6, <1>7, IdsAppend DEF Accounted
  <2> QED BY <1>1, <2>1 DEF EventsInv, IdsAreApart, Apart
<1>10. TimesAreKnown'
  BY <1>1 DEF EventsInv, TimesAreKnown, ghosts
<1>11. EveryEventAccountedFor'
  <2>1. Accounted(Ids(queue'), Waiting(delayed), Ids(poll.rest), done, dropped, made + 1)
    BY <1>5, <1>6, <1>8 DEF Accounted
  <2> QED BY <1>1, <2>1, AccountsFact DEF ghosts
<1> QED BY <1>4, <1>9, <1>10, <1>11 DEF EventsInv

LEMMA CallLaterStep ==
    ASSUME EventsInv, NEW delay \in Delays, CallLater(delay)
    PROVE  EventsInv'
<1> DEFINE e == [left |-> delay, event |-> NewEvent(Later, clock + delay)]
<1>1. /\ delayed' = Append(delayed, e) /\ made' = made + 1 /\ made < MaxEvents
      /\ UNCHANGED <<controllers, queue, cleared, poll, callee, ghosts>>
  BY DEF CallLater
<1>2. /\ made \in Nat /\ made' \in 0..MaxEvents /\ made + 1 \in 1..MaxEvents /\ MaxEvents \in Nat
      /\ delay \in Nat /\ clock \in Nat
  BY <1>1, TimesAssumption DEF EventsInv, ManagerTypes
<1>3. /\ e \in Entries /\ e.event.id = made + 1
      /\ e.left = e.event.due - clock /\ e.left >= 0
  BY <1>2 DEF NewEvent, Laters, Entries
<1> HIDE DEF e
<1>4. ManagerTypes'
  <2>1. delayed' \in Seq(Entries)
    BY <1>1, <1>3 DEF EventsInv, ManagerTypes
  <2> QED BY <1>1, <1>2, <2>1 DEF EventsInv, ManagerTypes, ghosts
<1>5. Accounted(Ids(queue), Waiting(delayed), Ids(poll.rest), done, dropped, made)
  BY AccountsFact DEF EventsInv
<1>6. made + 1 \notin 1..made /\ 1..(made + 1) = (1..made) \cup {made + 1}
  BY <1>2
<1>7. delayed \in Seq(Entries)
  BY DEF EventsInv, ManagerTypes
<1>8. Waiting(delayed') = Waiting(delayed) \cup {made + 1}
  BY <1>1, <1>3, <1>7, IdsAppend
<1> DEFINE n == Len(delayed) + 1
<1>9. /\ \A i \in DOMAIN delayed : delayed'[i] = delayed[i] /\ i \in DOMAIN delayed'
      /\ delayed'[n] = e /\ n \in DOMAIN delayed'
      /\ \A i \in DOMAIN delayed' : i \in DOMAIN delayed \/ i = n
  BY <1>1, <1>3, <1>7, AppendFact
<1> HIDE DEF n
<1>10. IdsAreApart'
  <2>1. \A i \in DOMAIN delayed : delayed[i].event.id # made + 1
    BY <1>5, <1>6, IdsFact DEF Accounted
  <2>2. ASSUME NEW i \in DOMAIN delayed', NEW j \in DOMAIN delayed',
               delayed'[i].event.id = delayed'[j].event.id
        PROVE  i = j
    BY <1>3, <1>9, <2>1, <2>2 DEF EventsInv, IdsAreApart
  <2> QED BY <1>1, <2>2 DEF EventsInv, IdsAreApart, Apart
<1>11. TimesAreKnown'
  BY <1>1, <1>3, <1>9 DEF EventsInv, TimesAreKnown, ghosts
<1>12. EveryEventAccountedFor'
  <2>1. Accounted(Ids(queue), Waiting(delayed'), Ids(poll.rest), done, dropped, made + 1)
    BY <1>5, <1>6, <1>8 DEF Accounted
  <2> QED BY <1>1, <2>1, AccountsFact DEF ghosts
<1> QED BY <1>4, <1>10, <1>11, <1>12 DEF EventsInv

\* The list that poll() goes through.
LEMMA ListenersFact ==
    ASSUME ManagerTypes, poll.phase # "idle"
    PROVE  Listened \in AllChannels /\ Listeners \in Lists /\ IsInjective(Listeners)
<1>1. poll.rest \in Seq(Events) /\ poll.old \in Lists /\ IsInjective(poll.old)
  BY DEF ManagerTypes, Polls
<1>2. Listened \in AllChannels
  <2>1. CASE poll.phase = "tick"
    BY <2>1 DEF Listened, AllChannels
  <2>2. CASE poll.phase # "tick"
    <3>1. poll.rest # <<>>
      BY <2>2 DEF ManagerTypes, Polls
    <3>2. Head(poll.rest) \in Events
      BY <1>1, <3>1
    <3> QED BY <2>2, <3>2 DEF Listened, Events
  <2> QED BY <2>1, <2>2
<1>3. controllers[Listened] \in Lists /\ IsInjective(controllers[Listened])
  BY <1>2 DEF ManagerTypes
<1> QED BY <1>1, <1>2, <1>3 DEF Listeners

LEMMA DispatchingFact ==
    ASSUME NEW rest \in Seq(Events)
    PROVE  /\ Dispatching(rest) \in Polls /\ Dispatching(rest).rest = rest
           /\ Dispatching(rest).phase = (IF rest = <<>> THEN "tick" ELSE "event")
           /\ Dispatching(rest).old = <<>> /\ Dispatching(rest).next = 1
           /\ Dispatching(rest).detached = FALSE
<1> DEFINE stage == IF rest = <<>> THEN "tick" ELSE "event"
<1>1. Dispatching(rest) = [NoPoll EXCEPT !.phase = stage, !.rest = rest]
  BY DEF Dispatching
<1>2. stage \in {"idle", "event", "tick"}
  OBVIOUS
<1>3. NoPoll \in Polls /\ NoPoll.old = <<>> /\ NoPoll.next = 1 /\ NoPoll.detached = FALSE
  BY NoPollFact
<1> HIDE DEF stage
<1>4. /\ Dispatching(rest) \in Polls /\ Dispatching(rest).rest = rest
      /\ Dispatching(rest).phase = stage
      /\ Dispatching(rest).old = <<>> /\ Dispatching(rest).next = 1
      /\ Dispatching(rest).detached = FALSE
  BY <1>1, <1>2, <1>3 DEF Polls
<1> QED BY <1>4 DEF stage

LEMMA ClearStep ==
    ASSUME EventsInv, Clear
    PROVE  EventsInv'
<1>1. /\ queue' = <<>> /\ delayed' = <<>> /\ controllers' = Registered /\ cleared' = TRUE
      /\ dropped' = dropped \cup Ids(queue) \cup Waiting(delayed)
      /\ UNCHANGED <<callee, clock, made, done>>
  BY DEF Clear
<1>2. /\ poll' \in Polls /\ IsInjective(poll'.old)
      /\ poll'.phase = poll.phase /\ poll'.rest = poll.rest
  <2>1. poll \in Polls /\ IsInjective(poll.old)
    BY DEF EventsInv, ManagerTypes
  <2>2. CASE InController
    <3>1. Listeners \in Lists /\ IsInjective(Listeners)
      BY <2>2, ListenersFact DEF EventsInv, ManagerTypes, InController
    <3> DEFINE l == Listeners
    <3>2. poll' = [poll EXCEPT !.detached = TRUE, !.old = l]
      BY <2>2 DEF Clear
    <3> HIDE DEF l
    <3>3. l \in Lists /\ IsInjective(l)
      BY <3>1 DEF l
    <3> QED BY <2>1, <3>2, <3>3 DEF Polls
  <2>3. CASE ~InController
    BY <2>1, <2>3 DEF Clear
  <2> QED BY <2>2, <2>3
<1>3. ManagerTypes'
  BY <1>1, <1>2, RegisteredFact, EmptySeq DEF EventsInv, ManagerTypes
<1>4. IdsAreApart'
  BY <1>1, <1>2 DEF EventsInv, IdsAreApart, Apart
<1>5. TimesAreKnown'
  BY <1>1, <1>2 DEF EventsInv, TimesAreKnown
<1>6. EveryEventAccountedFor'
  <2>1. Accounted(Ids(queue), Waiting(delayed), Ids(poll.rest), done, dropped, made)
    BY AccountsFact DEF EventsInv
  <2>2. Accounted({}, {}, Ids(poll.rest), done, dropped \cup Ids(queue) \cup Waiting(delayed), made)
    BY <2>1 DEF Accounted
  <2>3. Ids(queue') = {} /\ Waiting(delayed') = {} /\ Ids(poll'.rest) = Ids(poll.rest)
    BY <1>1, <1>2, IdsFact
  <2> QED BY <1>1, <2>2, <2>3, AccountsFact
<1> QED BY <1>3, <1>4, <1>5, <1>6 DEF EventsInv

(* The steps of poll() *)

LEMMA StartPollStep ==
    ASSUME EventsInv, NEW elapsed \in Steps, StartPoll(elapsed)
    PROVE  EventsInv'
<1> DEFINE due == Due(delayed, elapsed)
           kept == Kept(delayed, elapsed)
           all == queue \o due
<1>1. /\ elapsed \in Nat /\ clock \in Nat /\ MaxClock \in Nat /\ clock' = clock + elapsed
      /\ clock + elapsed <= MaxClock /\ queue \in Seq(Pushes) /\ delayed \in Seq(Entries)
      /\ poll.phase = "idle" /\ poll.rest = <<>>
  BY TimesAssumption DEF StartPoll, EventsInv, ManagerTypes
<1>2. /\ queue' = <<>> /\ delayed' = kept /\ poll' = Dispatching(all) /\ cleared' = FALSE
      /\ UNCHANGED <<controllers, callee, made, done, dropped>>
  BY DEF StartPoll
<1>3. /\ due \in Seq(Laters) /\ kept \in Seq(Entries) /\ Apart(due)
      /\ \A i, j \in DOMAIN kept : kept[i].event.id = kept[j].event.id => i = j
      /\ Ids(due) \cup Waiting(kept) = Waiting(delayed)
      /\ Ids(due) \cap Waiting(kept) = {}
      /\ \A a \in DOMAIN due : \E i \in DOMAIN delayed :
             due[a] = delayed[i].event /\ delayed[i].left - elapsed < 0
      /\ \A a \in DOMAIN kept : \E i \in DOMAIN delayed :
             /\ kept[a].event = delayed[i].event
             /\ kept[a].left = delayed[i].left - elapsed /\ kept[a].left >= 0
  <2>1. \A i, j \in DOMAIN delayed : delayed[i].event.id = delayed[j].event.id => i = j
    BY DEF EventsInv, IdsAreApart
  <2> QED BY <1>1, <2>1, DueFact
<1> HIDE DEF due, kept
<1>4. \A i \in DOMAIN delayed : /\ delayed[i] \in Entries
                                /\ delayed[i].left = delayed[i].event.due - clock
  BY <1>1 DEF EventsInv, TimesAreKnown
<1>5. \A a \in DOMAIN due : due[a] \in Laters /\ due[a].due < clock'
  <2> TAKE a \in DOMAIN due
  <2>1. PICK i \in DOMAIN delayed : due[a] = delayed[i].event /\ delayed[i].left - elapsed < 0
    BY <1>3
  <2>2. delayed[i].event \in Laters /\ delayed[i].event.due \in Nat
    BY <1>4 DEF Entries, Laters
  <2> QED BY <1>1, <1>4, <2>1, <2>2
<1>6. due \in Seq(Events)
  <2>1. \A a \in DOMAIN due : due[a] \in Events
    <3> TAKE a \in DOMAIN due
    <3>1. due[a] \in Laters /\ due[a].due < MaxClock
      <4>1. due[a].due \in Nat
        BY <1>5 DEF Laters
      <4> QED BY <1>1, <1>5, <4>1
    <3> QED BY <3>1, EventsFact
  <2> QED BY <1>3, <2>1
<1>7. queue \in Seq(Events)
  <2>1. \A i \in DOMAIN queue : queue[i] \in Events
    BY <1>1, EventsFact
  <2> QED BY <1>1, <2>1
<1>8. Accounted(Ids(queue), Waiting(delayed), {}, done, dropped, made)
  BY <1>1, IdsFact, AccountsFact DEF EventsInv
<1>9. /\ all \in Seq(Events) /\ Ids(all) = Ids(queue) \cup Ids(due) /\ Apart(all)
      /\ \A i \in DOMAIN all :
           (\E j \in DOMAIN queue : all[i] = queue[j]) \/ (\E j \in DOMAIN due : all[i] = due[j])
  <2>1. Apart(queue) /\ Ids(queue) \cap Ids(due) = {}
    BY <1>3, <1>8 DEF EventsInv, IdsAreApart, Accounted
  <2> QED BY <1>3, <1>6, <1>7, <2>1, IdsConcat
<1> HIDE DEF all
<1>10. /\ poll' \in Polls /\ poll'.rest = all /\ IsInjective(poll'.old)
       /\ poll'.phase = (IF all = <<>> THEN "tick" ELSE "event")
  BY <1>2, <1>9, DispatchingFact, NoPollFact
<1>11. ManagerTypes'
  <2>1. queue' \in Seq(Pushes) /\ delayed' \in Seq(Entries) /\ cleared' \in BOOLEAN
    BY <1>2, <1>3, EmptySeq
  <2>2. clock' \in 0..MaxClock
    BY <1>1
  <2> QED BY <1>2, <1>10, <2>1, <2>2 DEF EventsInv, ManagerTypes
<1>12. IdsAreApart'
  BY <1>2, <1>3, <1>9, <1>10 DEF IdsAreApart, Apart
<1>13. TimesAreKnown'
  <2>1. ASSUME NEW a \in DOMAIN kept
        PROVE  kept[a].left = kept[a].event.due - clock' /\ kept[a].left >= 0
    <3>1. PICK i \in DOMAIN delayed :
             /\ kept[a].event = delayed[i].event
             /\ kept[a].left = delayed[i].left - elapsed /\ kept[a].left >= 0
      BY <1>3
    <3>2. delayed[i].event.due \in Nat /\ delayed[i].left \in Int
      BY <1>4 DEF Entries, Laters
    <3> QED BY <1>1, <1>4, <3>1, <3>2
  <2>2. ASSUME NEW i \in DOMAIN all PROVE all[i].due < clock' \/ all[i].due = -1
    <3>1. \A j \in DOMAIN queue : queue[j].due = -1
      <4>1. \A j \in DOMAIN queue : queue[j] \in Pushes
        BY <1>1
      <4> QED BY <4>1 DEF Pushes
    <3> QED BY <1>5, <1>9, <3>1
  <2> QED BY <1>2, <1>10, <2>1, <2>2 DEF TimesAreKnown
<1>14. EveryEventAccountedFor'
  <2>1. Accounted({}, Waiting(kept), Ids(all), done, dropped, made)
    BY <1>3, <1>8, <1>9 DEF Accounted
  <2>2. Ids(queue') = {} /\ delayed' = kept /\ Ids(poll'.rest) = Ids(all)
    BY <1>2, <1>10, IdsFact
  <2> QED BY <1>2, <2>1, <2>2, AccountsFact
<1> QED BY <1>11, <1>12, <1>13, <1>14 DEF EventsInv

LEMMA CallStep ==
    ASSUME EventsInv, Call
    PROVE  EventsInv'
<1> DEFINE l == Listeners
<1>1. /\ poll.phase # "idle" /\ callee = Idle /\ callee' = l[poll.next]
      /\ poll' = [poll EXCEPT !.next = @ + 1] /\ ~(poll.next > Len(l))
      /\ UNCHANGED <<manager, made, ghosts>>
  BY DEF Call, Exhausted
<1>2. l \in Lists
  BY <1>1, ListenersFact DEF EventsInv
<1> HIDE DEF l
<1>3. poll \in Polls /\ poll.next \in Nat \ {0}
  BY DEF EventsInv, ManagerTypes, Polls
<1>4. callee' \in Callables
  <2>1. Len(l) \in Nat /\ \A i \in 1..Len(l) : l[i] \in Callables
    BY <1>2 DEF Lists
  <2>2. poll.next \in 1..Len(l)
    BY <1>1, <1>3, <2>1
  <2> QED BY <1>1, <2>1, <2>2
<1>5. /\ poll' \in Polls /\ poll'.rest = poll.rest /\ poll'.phase = poll.phase
      /\ poll'.old = poll.old
  BY <1>1, <1>3 DEF Polls
<1> USE DEF manager, ghosts
<1>6. ManagerTypes'
  BY <1>1, <1>4, <1>5 DEF EventsInv, ManagerTypes
<1>7. IdsAreApart' /\ TimesAreKnown'
  BY <1>1, <1>5 DEF EventsInv, IdsAreApart, TimesAreKnown, Apart
<1>8. EveryEventAccountedFor'
  BY <1>1, <1>5, AccountsFact DEF EventsInv
<1> QED BY <1>6, <1>7, <1>8 DEF EventsInv

\* A poll that ends, with the events it still had dropped.
LEMMA LeaveStep ==
    ASSUME EventsInv, UNCHANGED <<manager, clock, made, done>>, callee' = Idle, poll' = NoPoll,
           dropped' = dropped \cup Ids(poll.rest)
    PROVE  EventsInv'
<1> USE DEF manager
<1>1. ManagerTypes'
  BY NoPollFact DEF EventsInv, ManagerTypes
<1>2. IdsAreApart' /\ TimesAreKnown'
  BY NoPollFact DEF EventsInv, IdsAreApart, TimesAreKnown, Apart
<1>3. EveryEventAccountedFor'
  <2>1. Accounted(Ids(queue), Waiting(delayed), Ids(poll.rest), done, dropped, made)
    BY AccountsFact DEF EventsInv
  <2>2. Accounted(Ids(queue), Waiting(delayed), {}, done, dropped \cup Ids(poll.rest), made)
    BY <2>1 DEF Accounted
  <2>3. Ids(queue') = Ids(queue) /\ Waiting(delayed') = Waiting(delayed) /\ Ids(poll'.rest) = {}
    BY NoPollFact, IdsFact
  <2> QED BY <2>2, <2>3, AccountsFact
<1> QED BY <1>1, <1>2, <1>3 DEF EventsInv

LEMMA ReturnStep ==
    ASSUME EventsInv, Return
    PROVE  EventsInv'
<1>1. CASE StopsPoll
  BY <1>1, LeaveStep DEF Return
<1>2. CASE ~StopsPoll
  <2>1. callee' = Idle /\ UNCHANGED <<manager, clock, made, done, poll, dropped>>
    BY <1>2 DEF Return
  <2> USE DEF manager
  <2>2. ManagerTypes'
    BY <2>1 DEF EventsInv, ManagerTypes
  <2>3. IdsAreApart' /\ TimesAreKnown'
    BY <2>1 DEF EventsInv, IdsAreApart, TimesAreKnown, Apart
  <2>4. EveryEventAccountedFor'
    BY <2>1, AccountsFact DEF EventsInv
  <2> QED BY <2>2, <2>3, <2>4 DEF EventsInv
<1> QED BY <1>1, <1>2

LEMMA RaiseStep ==
    ASSUME EventsInv, Raise
    PROVE  EventsInv'
BY LeaveStep DEF Raise

LEMMA EndEventPollStep ==
    ASSUME EventsInv, EndEventPoll
    PROVE  EventsInv'
<1>1. /\ poll.rest = <<>> /\ poll' = NoPoll /\ callee' = Idle
      /\ UNCHANGED <<manager, made, ghosts>>
  BY DEF EndEventPoll, EventsInv, ManagerTypes
<1>2. dropped' = dropped \cup Ids(poll.rest)
  BY <1>1, IdsFact DEF ghosts
<1> QED BY <1>1, <1>2, LeaveStep DEF ghosts

LEMMA NextEventStep ==
    ASSUME EventsInv, NextEvent
    PROVE  EventsInv'
<1> DEFINE rest == poll.rest
           t == Tail(rest)
           h == Head(rest).id
<1>1. /\ rest \in Seq(Events) /\ rest # <<>> /\ Apart(rest)
  BY DEF NextEvent, EventsInv, ManagerTypes, IdsAreApart, Polls
<1>2. /\ callee = Idle /\ done' = done \cup {h} /\ poll' = Dispatching(t)
      /\ UNCHANGED <<manager, callee, clock, made, dropped>>
  BY DEF NextEvent, LeftAfter
<1>3. /\ t \in Seq(Events) /\ Ids(rest) = {h} \cup Ids(t)
      /\ Apart(t) /\ h \notin Ids(t)
      /\ \A i \in DOMAIN t : \E j \in DOMAIN rest : t[i] = rest[j]
  BY <1>1, IdsTail
<1> HIDE DEF t, h
<1>4. /\ poll' \in Polls /\ poll'.rest = t /\ IsInjective(poll'.old)
      /\ poll'.phase = (IF t = <<>> THEN "tick" ELSE "event")
  BY <1>2, <1>3, DispatchingFact, NoPollFact
<1> USE DEF manager
<1>5. ManagerTypes'
  BY <1>2, <1>4 DEF EventsInv, ManagerTypes
<1>6. IdsAreApart'
  BY <1>2, <1>3, <1>4 DEF EventsInv, IdsAreApart, Apart
<1>7. TimesAreKnown'
  BY <1>2, <1>3, <1>4 DEF EventsInv, TimesAreKnown
<1>8. EveryEventAccountedFor'
  <2>1. Accounted(Ids(queue), Waiting(delayed), Ids(rest), done, dropped, made)
    BY AccountsFact DEF EventsInv
  <2>2. Accounted(Ids(queue), Waiting(delayed), Ids(t), done \cup {h}, dropped, made)
    BY <1>3, <2>1 DEF Accounted
  <2> QED BY <1>2, <1>4, <2>2, AccountsFact
<1> QED BY <1>5, <1>6, <1>7, <1>8 DEF EventsInv

LEMMA EventsStep == EventsInv /\ [EventsNext]_eventVars => EventsInv'
<1> SUFFICES ASSUME EventsInv, [EventsNext]_eventVars PROVE EventsInv'
  OBVIOUS
<1>1. CASE UNCHANGED eventVars
  <2> USE <1>1 DEF eventVars, manager, ghosts
  <2>1. ManagerTypes'
    BY DEF EventsInv, ManagerTypes
  <2>2. IdsAreApart' /\ TimesAreKnown'
    BY DEF EventsInv, IdsAreApart, TimesAreKnown, Apart
  <2>3. EveryEventAccountedFor'
    BY AccountsFact DEF EventsInv
  <2> QED BY <2>1, <2>2, <2>3 DEF EventsInv
<1>2. CASE EventsNext
  BY <1>2, RegisterStep, UnregisterStep, PushStep, CallLaterStep, ClearStep, StartPollStep,
     CallStep, ReturnStep, RaiseStep, NextEventStep, EndEventPollStep DEF EventsNext
<1> QED BY <1>1, <1>2

\* Whatever controllers do while they are called, registering and clearing the
\* manager included, no event is lost or dispatched twice, and none that was
\* delayed comes early.
THEOREM EventsAreNotLost == EventsSpec => [](EventsTypeOK /\ EveryEventAccountedFor /\ DelaysAreKept)
<1>1. ManagerTypes => EventsTypeOK
  <2> SUFFICES ASSUME ManagerTypes PROVE EventsTypeOK
    OBVIOUS
  <2>1. queue \in Seq(Events)
    <3>1. queue \in Seq(Pushes)
      BY DEF ManagerTypes
    <3>2. \A i \in DOMAIN queue : queue[i] \in Events
      BY <3>1, EventsFact
    <3> QED BY <3>1, <3>2
  <2> QED BY <2>1 DEF ManagerTypes, EventsTypeOK, Polls, Lists
<1>2. EventsInv => EventsTypeOK /\ EveryEventAccountedFor /\ DelaysAreKept
  BY <1>1, TimesFact DEF EventsInv
<1> QED BY EventsBegin, EventsStep, <1>2, PTL DEF EventsSpec
-----------------------------------------------------------------------------
(* Who has been called *)

\* The controllers called with an event are the first of the list that poll()
\* goes through, however that has grown or been let go.
HeardFirst ==
    /\ heard \in Lists
    /\ poll.phase # "idle" =>
         /\ Len(heard) = poll.next - 1
         /\ \A i \in DOMAIN heard : i \in DOMAIN Listeners /\ heard[i] = Listeners[i]

HeardInv == HeardFirst /\ HeardOnce

LEMMA HeardKept ==
    ASSUME HeardInv, heard' = heard,
           poll'.phase # "idle" =>
             /\ poll.phase # "idle" /\ poll'.next = poll.next
             /\ \A i \in DOMAIN Listeners : i \in DOMAIN Listeners' /\ Listeners'[i] = Listeners[i]
    PROVE  HeardInv'
BY DEF HeardInv, HeardFirst, HeardOnce, IsInjective

LEMMA HeardNobody ==
    ASSUME heard' = <<>>, poll'.next = 1
    PROVE  HeardInv'
<1>1. <<>> \in Lists /\ Len(<<>>) = 0 /\ DOMAIN <<>> = {}
  BY EmptySeq DEF Lists
<1>2. HeardFirst'
  BY <1>1 DEF HeardFirst
<1>3. HeardOnce'
  BY <1>1 DEF HeardOnce, IsInjective
<1> QED BY <1>2, <1>3 DEF HeardInv

LEMMA HeardRegister ==
    ASSUME EventsInv, HeardInv,
           NEW c \in Subscribers, NEW ch \in Channels \cup {Tick}, Register(c, ch)
    PROVE  HeardInv'
<1>1. /\ controllers' = [controllers EXCEPT ![ch] = Append(controllers[ch], c)]
      /\ UNCHANGED <<poll, heard>> /\ controllers \in [AllChannels -> Lists]
      /\ ch \in AllChannels /\ c \in Callables
  BY DEF Register, EventsInv, ManagerTypes, AllChannels, Callables
<1>2. ASSUME poll.phase # "idle", NEW i \in DOMAIN Listeners
      PROVE  i \in DOMAIN Listeners' /\ Listeners'[i] = Listeners[i]
  <2>1. CASE poll.detached
    BY <1>1, <2>1 DEF Listeners
  <2>2. CASE ~poll.detached
    <3>1. Listened \in AllChannels
      BY <1>2, ListenersFact DEF EventsInv
    <3>2. Listened' = Listened
      BY <1>1 DEF Listened
    <3> DEFINE d == Listened
               l == controllers[d]
    <3>3. Listeners = l /\ Listeners' = controllers'[d]
      BY <1>1, <2>2, <3>2 DEF Listeners
    <3>4. d \in AllChannels /\ l \in Seq(Callables)
      BY <1>1, <3>1 DEF Lists
    <3> HIDE DEF d
    <3>5. CASE ch # d
      BY <1>1, <1>2, <3>3, <3>4, <3>5
    <3>6. CASE ch = d
      <4>1. controllers'[d] = Append(l, c)
        BY <1>1, <3>4, <3>6
      <4> HIDE DEF l
      <4>2. i \in DOMAIN l
        BY <1>2, <3>3
      <4>3. Append(l, c)[i] = l[i] /\ i \in DOMAIN Append(l, c)
        BY <1>1, <3>4, <4>2, AppendFact
      <4> QED BY <3>3, <4>1, <4>3
    <3> QED BY <3>5, <3>6
  <2> QED BY <2>1, <2>2
<1> QED BY <1>1, <1>2, HeardKept

LEMMA HeardClear ==
    ASSUME EventsInv, HeardInv, Clear
    PROVE  HeardInv'
<1>1. poll \in Polls /\ heard' = heard /\ (poll.phase = "idle" => ~InController)
  BY DEF Clear, EventsInv, ManagerTypes, InController
<1>2. CASE InController
  <2> DEFINE l == Listeners
  <2>1. poll' = [poll EXCEPT !.detached = TRUE, !.old = l] /\ poll.phase # "idle"
    BY <1>1, <1>2 DEF Clear
  <2> HIDE DEF l
  <2>2. poll'.detached /\ poll'.old = l /\ poll'.next = poll.next
    BY <1>1, <2>1 DEF Polls
  <2>3. Listeners' = Listeners
    BY <2>2 DEF Listeners, l
  <2> QED BY <1>1, <2>1, <2>2, <2>3, HeardKept
<1>3. CASE ~InController
  <2>1. poll' = poll /\ poll.phase = "idle"
    BY <1>3 DEF Clear, MayCall, InController
  <2> QED BY <1>1, <2>1, HeardKept
<1> QED BY <1>2, <1>3

LEMMA HeardCall ==
    ASSUME EventsInv, HeardInv, Call
    PROVE  HeardInv'
<1> DEFINE l == Listeners
           n == poll.next
           x == l[n]
<1>1. /\ poll.phase # "idle" /\ heard' = Append(heard, x)
      /\ poll' = [poll EXCEPT !.next = @ + 1] /\ ~(n > Len(l))
      /\ UNCHANGED controllers
  BY DEF Call, Exhausted, manager
<1>2. poll \in Polls /\ n \in Nat \ {0}
  BY DEF EventsInv, ManagerTypes, Polls
<1>3. /\ poll'.phase = poll.phase /\ poll'.rest = poll.rest /\ poll'.old = poll.old
      /\ poll'.detached = poll.detached /\ poll'.next = n + 1
  BY <1>1, <1>2 DEF Polls
<1>4. Listeners' = l
  <2>1. Listened' = Listened
    BY <1>3 DEF Listened
  <2> QED BY <1>1, <1>3, <2>1 DEF Listeners
<1>5. l \in Seq(Callables) /\ IsInjective(l)
  BY <1>1, ListenersFact DEF EventsInv, Lists
<1>6. /\ heard \in Seq(Callables) /\ Len(heard) = n - 1
      /\ \A i \in DOMAIN heard : i \in DOMAIN l /\ heard[i] = l[i]
  BY <1>1 DEF HeardInv, HeardFirst, Lists
<1> HIDE DEF l, n
<1>7. n \in DOMAIN l /\ x \in Callables
  <2>1. Len(l) \in Nat /\ DOMAIN l = 1..Len(l) /\ \A i \in 1..Len(l) : l[i] \in Callables
    BY <1>5
  <2>2. n \in 1..Len(l)
    BY <1>1, <1>2, <2>1
  <2> QED BY <2>1, <2>2
<1> DEFINE h == Append(heard, x)
<1> HIDE DEF x
<1>8. /\ h \in Seq(Callables) /\ Len(h) = n
      /\ \A i \in DOMAIN heard : h[i] = heard[i]
      /\ h[n] = x
      /\ \A i \in DOMAIN h : i \in DOMAIN heard \/ i = n
  <2>1. Len(heard) + 1 = n
    BY <1>2, <1>6
  <2>2. Len(h) = Len(heard) + 1
    BY <1>6, <1>7
  <2> QED BY <1>6, <1>7, <2>1, <2>2, AppendFact
<1> HIDE DEF h
<1>9. \A i \in DOMAIN h : i \in DOMAIN l /\ h[i] = l[i]
  BY <1>6, <1>7, <1>8 DEF x
<1>10. HeardFirst'
  <2>1. heard' = h
    BY <1>1 DEF h
  <2>2. n + 1 - 1 = n
    BY <1>2
  <2> QED BY <1>3, <1>4, <1>8, <1>9, <2>1, <2>2 DEF HeardFirst, Lists
<1>11. HeardOnce'
  <2>1. IsInjective(h)
    BY <1>5, <1>9 DEF IsInjective
  <2> QED BY <1>1, <2>1 DEF HeardOnce, h
<1> QED BY <1>10, <1>11 DEF HeardInv

LEMMA HeardStep ==
    ASSUME ~Unregisters, EventsInv, HeardInv, [EventsNext]_eventVars
    PROVE  HeardInv'
<1>1. ASSUME NEW c \in Subscribers, NEW ch \in Channels \cup {Tick}, Unregister(c, ch)
      PROVE  HeardInv'
  <2>1. poll' = poll /\ heard' = heard /\ poll.phase = "idle"
    BY <1>1 DEF Unregister, MayUnregister, MayCall, InController
  <2> QED BY <2>1, HeardKept
<1>2. CASE UNCHANGED <<poll, heard, controllers>>
  <2>1. Listeners' = Listeners
    BY <1>2 DEF Listeners, Listened
  <2> QED BY <1>2, <2>1, HeardKept
<1>3. ASSUME NEW elapsed \in Steps, StartPoll(elapsed) PROVE HeardInv'
  <2>1. poll'.next = 1 /\ heard' = <<>>
    BY <1>3 DEF StartPoll, Dispatching, NoPoll
  <2> QED BY <2>1, HeardNobody
<1>4. CASE NextEvent
  <2>1. poll'.next = 1 /\ heard' = <<>>
    BY <1>4 DEF NextEvent, Dispatching, NoPoll
  <2> QED BY <2>1, HeardNobody
<1>5. CASE Return \/ Raise \/ EndEventPoll
  <2>1. heard' = heard /\ controllers' = controllers /\ (poll' = poll \/ poll' = NoPoll)
    BY <1>5 DEF Return, Raise, EndEventPoll, manager
  <2>2. CASE poll' = poll
    BY <1>2, <2>1, <2>2
  <2>3. CASE poll' = NoPoll
    BY <2>1, <2>3, NoPollFact, HeardKept
  <2> QED BY <2>1, <2>2, <2>3
<1>6. ASSUME NEW ch \in Channels, Push(ch) PROVE HeardInv'
  BY <1>2, <1>6 DEF Push
<1>7. ASSUME NEW delay \in Delays, CallLater(delay) PROVE HeardInv'
  BY <1>2, <1>7 DEF CallLater
<1>8. CASE UNCHANGED eventVars
  BY <1>2, <1>8 DEF eventVars, manager
<1> QED BY <1>1, <1>3, <1>4, <1>5, <1>6, <1>7, <1>8, HeardRegister, HeardClear, HeardCall DEF EventsNext

\* As long as controllers do not unregister while they are called, no controller
\* is called twice with an event either, however the list grows that poll() goes
\* through.
THEOREM EventsStayKept == ~Unregisters => (EventsSpec => []EventsAreKept)
<1> SUFFICES ASSUME ~Unregisters PROVE EventsSpec => []EventsAreKept
  OBVIOUS
<1>1. EventsInit => HeardInv
  <2> SUFFICES ASSUME EventsInit PROVE HeardInv
    OBVIOUS
  <2>1. heard = <<>> /\ poll.phase = "idle"
    BY NoPollFact DEF EventsInit
  <2> QED BY <2>1, NoPollFact, EmptySeq DEF HeardInv, HeardFirst, HeardOnce, Lists
<1>2. EventsInv /\ HeardInv /\ [EventsNext]_eventVars => HeardInv'
  BY HeardStep
<1>3. EventsSpec => []HeardInv
  BY EventsBegin, EventsStep, <1>1, <1>2, PTL DEF EventsSpec
<1>4. EventsTypeOK /\ EveryEventAccountedFor /\ DelaysAreKept /\ HeardInv => EventsAreKept
  BY DEF HeardInv, EventsAreKept
<1> QED BY <1>3, <1>4, EventsAreNotLost, PTL

-----------------------------------------------------------------------------
(* Launcher, for any launches at once, names of temporary files, versions and *)
(* installs *)

LaunchTypes ==
    /\ install \in Installs
    /\ disk = [m \in DOMAIN disk |-> disk[m]]
    /\ bouncer \in [Launches -> {"begin", "open", "copy", "wait", "over"}]
    /\ copy \in [Launches -> {"none", "exec", "search", "wait", "over"}]
    /\ play \in [Launches -> {"none", "runs", "fails", "over"}]
    /\ temp \in [Launches -> TempNames \cup {NoName}]
    /\ status \in [Launches -> {-1, 0, 1}]
    /\ DOMAIN started = Launches

\* A temporary file belongs to a bouncer that will remove it: another one may
\* have drawn the same name, and whoever ends last leaves nothing.
FilesAreOwned ==
    \A m \in DOMAIN disk : \E l \in Launches : temp[l] = m /\ bouncer[l] \in {"copy", "wait"}

\* The game that runs, as it was found.
WasFound(s) ==
    /\ s.framework \in Installed
    /\ install.asked # NoVersion => s.framework = Framework("root", install.asked)
    /\ s.framework.dir = "near" => install.root = {}
    /\ s.game = "" <=> ~ install.nearGame /\ ~ install.rootGame
    /\ install.nearGame => s.game = "near"

\* How far the three processes of a launch are: one is begun by the one before,
\* which waits for it.
Nested(l) ==
    /\ bouncer[l] \in {"begin", "open", "copy"} => copy[l] = "none" /\ status[l] = -1
    /\ bouncer[l] = "over" => copy[l] \in {"none", "over"}
    /\ status[l] = 1 => bouncer[l] = "over" /\ copy[l] = "none"
    /\ copy[l] \in {"none", "exec", "search"} => play[l] = "none" /\ started[l] = NoName
    /\ copy[l] = "over" => play[l] \in {"none", "over"}
    /\ play[l] # "none" /\ Frameworks \subseteq Installed => started[l] # NoName
    /\ started[l] # NoName => WasFound(started[l])

ProcessesAreNested == \A l \in Launches : Nested(l)

LaunchInv == LaunchTypes /\ FilesAreOwned /\ ProcessesAreNested

-----------------------------------------------------------------------------
(* What is chosen is there to be chosen.                                    *)

LEMMA ChosenFact ==
    ASSUME LaunchTypes, NEW f \in Frameworks
    PROVE  LET s == [framework |-> f, game |-> GamePath]
           IN  s # NoName /\ (f \in Installed => WasFound(s))
<1> DEFINE s == [framework |-> f, game |-> GamePath]
<1>1. /\ install.root \subseteq Versions /\ install.near \subseteq Versions
      /\ install.asked \in Versions \cup {NoVersion}
      /\ install.rootGame \in BOOLEAN /\ install.nearGame \in BOOLEAN
    BY InstallsAssumption DEF LaunchTypes
<1>2. /\ GamePath \in {"near", "root", ""}
      /\ GamePath = "" <=> ~ install.nearGame /\ ~ install.rootGame
      /\ install.nearGame => GamePath = "near"
  <2>1. CASE install.nearGame
    <3>1. GamePath = "near"
        BY <2>1 DEF GamePath
    <3> QED
        BY <2>1, <3>1
  <2>2. CASE ~ install.nearGame /\ install.rootGame
    <3>1. GamePath = "root"
        BY <2>2 DEF GamePath
    <3> QED
        BY <2>2, <3>1
  <2>3. CASE ~ install.nearGame /\ ~ install.rootGame
    <3>1. GamePath = ""
        BY <2>3 DEF GamePath
    <3> QED
        BY <2>3, <3>1
  <2> QED
      BY <1>1, <2>1, <2>2, <2>3
<1>3. /\ f \in [dir : {"root", "near"}, version : Versions \cup {NoVersion}]
      /\ install.asked # NoVersion => f = Framework("root", install.asked)
      /\ f.dir = "near" => install.root = {}
    BY <1>1 DEF Frameworks, Framework
<1>4. s.framework = f /\ s.game = GamePath
    OBVIOUS
<1>5. s \in [framework : [dir : {"root", "near"}, version : Versions \cup {NoVersion}],
             game : {"near", "root", ""}]
    BY <1>2, <1>3
<1> HIDE DEF s
<1>6. s # NoName
    BY <1>5, NoNameAssumption
<1>7. f \in Installed => WasFound(s)
    BY <1>2, <1>3, <1>4 DEF WasFound
<1> QED
    BY <1>6, <1>7 DEF s

-----------------------------------------------------------------------------
(* Every step keeps the invariant.                                          *)

LEMMA TypesStep ==
    ASSUME LaunchTypes, [LaunchNext]_launchVars
    PROVE  LaunchTypes'
<1> USE DEF LaunchTypes
<1>1. CASE UNCHANGED launchVars
    BY <1>1 DEF launchVars
<1>2. ASSUME NEW l \in Launches, DrawName(l)
      PROVE  LaunchTypes'
    BY <1>2 DEF DrawName
<1>3. ASSUME NEW l \in Launches, OpenTemp(l)
      PROVE  LaunchTypes'
    BY <1>3 DEF OpenTemp, Returns, Removed, Put
<1>4. ASSUME NEW l \in Launches, NEW all \in BOOLEAN, CopySelf(l, all)
      PROVE  LaunchTypes'
    BY <1>4 DEF CopySelf, Put
<1>5. ASSUME NEW l \in Launches, ExecCopy(l) \/ ExecCopyFails(l)
      PROVE  LaunchTypes'
    BY <1>5 DEF ExecCopy, ExecCopyFails, Removed
<1>6. ASSUME NEW l \in Launches, BouncerEnds(l)
      PROVE  LaunchTypes'
    BY <1>6 DEF BouncerEnds, Returns, Removed
<1>7. ASSUME NEW l \in Launches, Search(l)
      PROVE  LaunchTypes'
    BY <1>7 DEF Search
<1>8. ASSUME NEW l \in Launches, PlayEnds(l) \/ CopyEnds(l)
      PROVE  LaunchTypes'
    BY <1>8 DEF PlayEnds, CopyEnds
<1> QED
    BY <1>1, <1>2, <1>3, <1>4, <1>5, <1>6, <1>7, <1>8 DEF LaunchNext

LEMMA FilesStep ==
    ASSUME LaunchTypes, FilesAreOwned, [LaunchNext]_launchVars
    PROVE  FilesAreOwned'
<1> USE DEF FilesAreOwned, LaunchTypes
<1>1. ASSUME UNCHANGED <<temp, bouncer>>, DOMAIN disk' \subseteq DOMAIN disk
      PROVE  FilesAreOwned'
    BY <1>1
<1>2. ASSUME NEW l \in Launches, DrawName(l)
      PROVE  FilesAreOwned'
    BY <1>2 DEF DrawName
\* A bouncer that returns takes its file with it.
<1>3. ASSUME NEW l \in Launches, NEW code, Returns(l, code), UNCHANGED temp
      PROVE  FilesAreOwned'
  <2>1. /\ \A m \in DOMAIN disk' : m \in DOMAIN disk /\ m # temp[l]
        /\ bouncer' = [bouncer EXCEPT ![l] = "over"]
      BY <1>3 DEF Returns, Removed
  <2> QED
      BY <1>3, <2>1
<1>4. ASSUME NEW l \in Launches, OpenTemp(l)
      PROVE  FilesAreOwned'
  <2>1. CASE temp[l] \in DOMAIN disk /\ disk[temp[l]].closed
      BY <1>3, <1>4, <2>1 DEF OpenTemp
  <2>2. CASE ~ (temp[l] \in DOMAIN disk /\ disk[temp[l]].closed)
    <3>1. /\ DOMAIN disk' = DOMAIN disk \cup {temp[l]}
          /\ bouncer' = [bouncer EXCEPT ![l] = "copy"] /\ temp' = temp
        BY <1>4, <2>2 DEF OpenTemp, Put
    <3> QED
        BY <3>1
  <2> QED
      BY <2>1, <2>2
<1>5. ASSUME NEW l \in Launches, NEW all \in BOOLEAN, CopySelf(l, all)
      PROVE  FilesAreOwned'
  <2>1. /\ DOMAIN disk' = DOMAIN disk
        /\ bouncer' = [bouncer EXCEPT ![l] = "wait"] /\ temp' = temp
      BY <1>5 DEF CopySelf, Put
  <2> QED
      BY <2>1
<1>6. ASSUME NEW l \in Launches, BouncerEnds(l)
      PROVE  FilesAreOwned'
    BY <1>3, <1>6 DEF BouncerEnds
<1>7. ASSUME NEW l \in Launches, ExecCopyFails(l)
      PROVE  FilesAreOwned'
    BY <1>1, <1>7 DEF ExecCopyFails, Removed
<1>8. ASSUME NEW l \in Launches, ExecCopy(l) \/ Search(l) \/ PlayEnds(l) \/ CopyEnds(l)
      PROVE  FilesAreOwned'
    BY <1>1, <1>8 DEF ExecCopy, Search, PlayEnds, CopyEnds
<1>9. CASE UNCHANGED launchVars
    BY <1>1, <1>9 DEF launchVars
<1> QED
    BY <1>2, <1>4, <1>5, <1>6, <1>7, <1>8, <1>9 DEF LaunchNext

LEMMA NestedStep ==
    ASSUME LaunchTypes, ProcessesAreNested, [LaunchNext]_launchVars
    PROVE  ProcessesAreNested'
<1> SUFFICES ASSUME NEW q \in Launches
             PROVE  Nested(q)'
    BY DEF ProcessesAreNested
<1>1. Nested(q)
    BY DEF ProcessesAreNested
<1>2. install' = install
    BY DEF LaunchNext, launchVars, DrawName, OpenTemp, CopySelf, ExecCopy, ExecCopyFails, BouncerEnds,
           Search, PlayEnds, CopyEnds
<1>3. /\ Frameworks' = Frameworks /\ Installed' = Installed
      /\ \A s : WasFound(s)' <=> WasFound(s)
    BY <1>2 DEF Frameworks, Installed, WasFound
<1>4. ASSUME bouncer'[q] = bouncer[q], copy'[q] = copy[q], play'[q] = play[q],
             status'[q] = status[q], started'[q] = started[q]
      PROVE  Nested(q)'
    BY <1>1, <1>3, <1>4 DEF Nested
<1> USE DEF LaunchTypes
<1>5. ASSUME NEW l \in Launches, DrawName(l)
      PROVE  Nested(q)'
    BY <1>1, <1>3, <1>5 DEF DrawName, Nested
<1>6. ASSUME NEW l \in Launches, OpenTemp(l)
      PROVE  Nested(q)'
    BY <1>1, <1>3, <1>6 DEF OpenTemp, Returns, Nested
<1>7. ASSUME NEW l \in Launches, NEW all \in BOOLEAN, CopySelf(l, all)
      PROVE  Nested(q)'
    BY <1>1, <1>3, <1>7 DEF CopySelf, Nested
<1>8. ASSUME NEW l \in Launches, ExecCopy(l) \/ ExecCopyFails(l)
      PROVE  Nested(q)'
    BY <1>1, <1>3, <1>8 DEF ExecCopy, ExecCopyFails, Nested
<1>9. ASSUME NEW l \in Launches, BouncerEnds(l)
      PROVE  Nested(q)'
    BY <1>1, <1>3, <1>9 DEF BouncerEnds, Returns, Awaited, Nested
<1>10. ASSUME NEW l \in Launches, Search(l)
       PROVE  Nested(q)'
  <2>1. CASE q # l
      BY <1>4, <1>10, <2>1 DEF Search
  <2>2. CASE q = l
    <3>1. /\ copy[q] = "search" /\ bouncer'[q] = bouncer[q] /\ status'[q] = status[q]
          /\ play[q] = "none" /\ started[q] = NoName
          /\ bouncer[q] = "wait" /\ status[q] # 1
        BY <1>1, <1>10, <2>2 DEF Search, Nested
    <3>2. CASE Frameworks = {}
        BY <1>3, <1>10, <2>2, <3>1, <3>2 DEF Search, Nested
    <3>3. CASE Frameworks # {}
      <4>1. PICK f \in Frameworks :
              /\ copy' = [copy EXCEPT ![l] = "wait"]
              /\ IF f \in Installed
                 THEN /\ play' = [play EXCEPT ![l] = "runs"]
                      /\ started' = [started EXCEPT ![l] = [framework |-> f, game |-> GamePath]]
                 ELSE play' = [play EXCEPT ![l] = "fails"] /\ UNCHANGED started
          BY <1>10, <3>3 DEF Search
      <4>2. CASE f \in Installed
        <5> DEFINE s == [framework |-> f, game |-> GamePath]
        <5>1. s # NoName /\ WasFound(s)
          <6>1. f \in Frameworks
              BY <4>1
          <6> HIDE DEF s, LaunchTypes
          <6>2. s # NoName /\ (f \in Installed => WasFound(s))
              BY <6>1, ChosenFact DEF s
          <6> QED
              BY <4>2, <6>2
        <5>2. started' = [started EXCEPT ![l] = s]
            BY <4>1, <4>2
        <5> HIDE DEF s
        <5>3. copy'[q] = "wait" /\ play'[q] = "runs" /\ started'[q] = s
            BY <2>2, <4>1, <4>2, <5>2
        <5> QED
            BY <1>3, <3>1, <5>1, <5>3 DEF Nested
      <4>3. CASE f \notin Installed
        <5>1. copy'[q] = "wait" /\ play'[q] = "fails" /\ started'[q] = started[q]
            BY <2>2, <4>1, <4>3
        <5> QED
            BY <1>3, <3>1, <4>3, <5>1 DEF Nested
      <4> QED
          BY <4>2, <4>3
    <3> QED
        BY <3>2, <3>3
  <2> QED
      BY <2>1, <2>2
<1>11. ASSUME NEW l \in Launches, PlayEnds(l)
       PROVE  Nested(q)'
    BY <1>1, <1>3, <1>11 DEF PlayEnds, Nested
<1>12. ASSUME NEW l \in Launches, CopyEnds(l)
       PROVE  Nested(q)'
    BY <1>1, <1>3, <1>12 DEF CopyEnds, Awaited, Nested
<1>13. CASE UNCHANGED launchVars
    BY <1>4, <1>13 DEF launchVars
<1> QED
    BY <1>5, <1>6, <1>7, <1>8, <1>9, <1>10, <1>11, <1>12, <1>13 DEF LaunchNext

-----------------------------------------------------------------------------
\* Launches leave no file, nobody returns before what it runs, what runs was
\* there and had been asked for, and what fails is told, however many launches
\* share the names of their files (launch/main.cpp, etc/temp/File.hpp).
THEOREM LaunchesStayClean == LaunchSpec => []LaunchesAreClean
<1>1. LaunchInit => LaunchInv
  <2> SUFFICES ASSUME LaunchInit
               PROVE  LaunchInv
      OBVIOUS
  <2>1. DOMAIN disk = {} /\ disk = [m \in DOMAIN disk |-> disk[m]]
    <3>1. <<>> = [i \in {} |-> i]
        OBVIOUS
    <3> QED
        BY <3>1 DEF LaunchInit
  <2>2. LaunchTypes
      BY <2>1 DEF LaunchInit, LaunchTypes
  <2>3. FilesAreOwned
      BY <2>1 DEF FilesAreOwned
  <2>4. ProcessesAreNested
      BY DEF LaunchInit, ProcessesAreNested, Nested
  <2> QED
      BY <2>2, <2>3, <2>4 DEF LaunchInv
<1>2. LaunchInv /\ [LaunchNext]_launchVars => LaunchInv'
    BY TypesStep, FilesStep, NestedStep DEF LaunchInv
<1>3. LaunchInv => LaunchesAreClean
  <2> SUFFICES ASSUME LaunchInv
               PROVE  LaunchesAreClean
      OBVIOUS
  <2> USE DEF LaunchInv
  <2>1. NothingIsLeft
    <3>1. SUFFICES ASSUME \A l \in Launches : bouncer[l] = "over"
                   PROVE  disk = <<>>
        BY DEF NothingIsLeft
    <3>2. DOMAIN disk = {}
        BY <3>1 DEF FilesAreOwned
    <3>3. disk = [m \in {} |-> disk[m]]
        BY <3>2 DEF LaunchTypes
    <3> QED
        BY <3>3
  <2>2. ParentsOutlive
      BY DEF ProcessesAreNested, Nested, ParentsOutlive
  <2>3. WhatRunsWasFound
      BY DEF ProcessesAreNested, Nested, WasFound, WhatRunsWasFound
  <2>4. FailuresAreTold
      BY DEF ProcessesAreNested, Nested, FailuresAreTold
  <2> QED
      BY <2>1, <2>2, <2>3, <2>4 DEF LaunchesAreClean
<1> QED
    BY <1>1, <1>2, <1>3, PTL DEF LaunchSpec

-----------------------------------------------------------------------------
(* Camera *)

\* A frame: front and up go two ways of the world, at a right angle to one another.
IsFrame(right, up, front) ==
    /\ front \in Ways /\ up \in Ways
    /\ right = Cross(front, up) /\ up = Cross(right, front)

\* The third vector of a frame goes a way of the world, too.
LEMMA RightIsAWay ==
    ASSUME NEW front \in Ways, NEW up \in Ways, up = Cross(Cross(front, up), front)
    PROVE Cross(front, up) \in Ways
<1> QED
  BY SMTT(30) DEF Ways, Cross

\* A way is a vector of three integers, and not what is left of one that is lost.
LEMMA WaysAreThere ==
    ASSUME NEW v \in Ways
    PROVE v \in Points /\ v # Nowhere
<1>1. v \in Points
  BY DEF Ways, Points, Axes
<1> QED
  BY <1>1, CameraAssumption

\* What a way becomes when it is turned around an axis by one right angle or two.
Quarter(v, axis) == Plus(Times(Dot(axis, v), axis), Cross(v, axis))
Half(v, axis) == Minus(Times(2, Times(Dot(axis, v), axis)), v)

LEMMA TurnedIs ==
    ASSUME NEW v \in Ways, NEW axis \in Ways, NEW angles \in 1..2
    PROVE Turned(v, axis, angles) = IF angles = 1 THEN Quarter(v, axis) ELSE Half(v, axis)
  BY WaysAreThere DEF Turned, Quarter, Half

\* Turned vectors are at the angle that they were at before.
LEMMA QuarterKeepsCross ==
    ASSUME NEW u \in Ways, NEW v \in Ways, NEW axis \in Ways
    PROVE /\ Quarter(v, axis) \in Ways
          /\ Quarter(Cross(u, v), axis) = Cross(Quarter(u, axis), Quarter(v, axis))
<1>1. Quarter(v, axis) \in Ways
  BY SMTT(30) DEF Quarter, Ways, Cross, Plus, Times, Dot
<1>2. Quarter(Cross(u, v), axis) = Cross(Quarter(u, axis), Quarter(v, axis))
  <2> SUFFICES ASSUME NEW u1 \in Int, NEW u2 \in Int, NEW u3 \in Int, u = <<u1, u2, u3>>,
                      NEW v1 \in Int, NEW v2 \in Int, NEW v3 \in Int, v = <<v1, v2, v3>>
               PROVE Quarter(Cross(u, v), axis) = Cross(Quarter(u, axis), Quarter(v, axis))
    BY DEF Ways
  <2> DEFINE c1 == u2 * v3 - u3 * v2
             c2 == u3 * v1 - u1 * v3
             c3 == u1 * v2 - u2 * v1
  <2>1. Cross(u, v) = <<c1, c2, c3>> /\ c1 \in Int /\ c2 \in Int /\ c3 \in Int
    BY DEF Cross
  <2>2. CASE axis = <<1, 0, 0>>
    <3>1. /\ Quarter(u, axis) = <<u1, u3, -u2>>
          /\ Quarter(v, axis) = <<v1, v3, -v2>>
      BY <2>2 DEF Quarter, Cross, Plus, Times, Dot
    <3>2. Quarter(Cross(u, v), axis) = <<c1, c3, -c2>>
      <4> HIDE DEF c1, c2, c3
      <4>1. Quarter(<<c1, c2, c3>>, axis) = <<c1, c3, -c2>>
        BY <2>1, <2>2 DEF Quarter, Cross, Plus, Times, Dot
      <4> QED
        BY <2>1, <4>1
    <3>3. Cross(<<u1, u3, -u2>>, <<v1, v3, -v2>>) = <<c1, c3, -c2>>
      BY DEF Cross
    <3> QED
      BY <3>1, <3>2, <3>3
  <2>3. CASE axis = <<-1, 0, 0>>
    <3>1. /\ Quarter(u, axis) = <<u1, -u3, u2>>
          /\ Quarter(v, axis) = <<v1, -v3, v2>>
      BY <2>3 DEF Quarter, Cross, Plus, Times, Dot
    <3>2. Quarter(Cross(u, v), axis) = <<c1, -c3, c2>>
      <4> HIDE DEF c1, c2, c3
      <4>1. Quarter(<<c1, c2, c3>>, axis) = <<c1, -c3, c2>>
        BY <2>1, <2>3 DEF Quarter, Cross, Plus, Times, Dot
      <4> QED
        BY <2>1, <4>1
    <3>3. Cross(<<u1, -u3, u2>>, <<v1, -v3, v2>>) = <<c1, -c3, c2>>
      BY DEF Cross
    <3> QED
      BY <3>1, <3>2, <3>3
  <2>4. CASE axis = <<0, 1, 0>>
    <3>1. /\ Quarter(u, axis) = <<-u3, u2, u1>>
          /\ Quarter(v, axis) = <<-v3, v2, v1>>
      BY <2>4 DEF Quarter, Cross, Plus, Times, Dot
    <3>2. Quarter(Cross(u, v), axis) = <<-c3, c2, c1>>
      <4> HIDE DEF c1, c2, c3
      <4>1. Quarter(<<c1, c2, c3>>, axis) = <<-c3, c2, c1>>
        BY <2>1, <2>4 DEF Quarter, Cross, Plus, Times, Dot
      <4> QED
        BY <2>1, <4>1
    <3>3. Cross(<<-u3, u2, u1>>, <<-v3, v2, v1>>) = <<-c3, c2, c1>>
      BY DEF Cross
    <3> QED
      BY <3>1, <3>2, <3>3
  <2>5. CASE axis = <<0, -1, 0>>
    <3>1. /\ Quarter(u, axis) = <<u3, u2, -u1>>
          /\ Quarter(v, axis) = <<v3, v2, -v1>>
      BY <2>5 DEF Quarter, Cross, Plus, Times, Dot
    <3>2. Quarter(Cross(u, v), axis) = <<c3, c2, -c1>>
      <4> HIDE DEF c1, c2, c3
      <4>1. Quarter(<<c1, c2, c3>>, axis) = <<c3, c2, -c1>>
        BY <2>1, <2>5 DEF Quarter, Cross, Plus, Times, Dot
      <4> QED
        BY <2>1, <4>1
    <3>3. Cross(<<u3, u2, -u1>>, <<v3, v2, -v1>>) = <<c3, c2, -c1>>
      BY DEF Cross
    <3> QED
      BY <3>1, <3>2, <3>3
  <2>6. CASE axis = <<0, 0, 1>>
    <3>1. /\ Quarter(u, axis) = <<u2, -u1, u3>>
          /\ Quarter(v, axis) = <<v2, -v1, v3>>
      BY <2>6 DEF Quarter, Cross, Plus, Times, Dot
    <3>2. Quarter(Cross(u, v), axis) = <<c2, -c1, c3>>
      <4> HIDE DEF c1, c2, c3
      <4>1. Quarter(<<c1, c2, c3>>, axis) = <<c2, -c1, c3>>
        BY <2>1, <2>6 DEF Quarter, Cross, Plus, Times, Dot
      <4> QED
        BY <2>1, <4>1
    <3>3. Cross(<<u2, -u1, u3>>, <<v2, -v1, v3>>) = <<c2, -c1, c3>>
      BY DEF Cross
    <3> QED
      BY <3>1, <3>2, <3>3
  <2>7. CASE axis = <<0, 0, -1>>
    <3>1. /\ Quarter(u, axis) = <<-u2, u1, u3>>
          /\ Quarter(v, axis) = <<-v2, v1, v3>>
      BY <2>7 DEF Quarter, Cross, Plus, Times, Dot
    <3>2. Quarter(Cross(u, v), axis) = <<-c2, c1, c3>>
      <4> HIDE DEF c1, c2, c3
      <4>1. Quarter(<<c1, c2, c3>>, axis) = <<-c2, c1, c3>>
        BY <2>1, <2>7 DEF Quarter, Cross, Plus, Times, Dot
      <4> QED
        BY <2>1, <4>1
    <3>3. Cross(<<-u2, u1, u3>>, <<-v2, v1, v3>>) = <<-c2, c1, c3>>
      BY DEF Cross
    <3> QED
      BY <3>1, <3>2, <3>3
  <2> QED
    BY <2>2, <2>3, <2>4, <2>5, <2>6, <2>7 DEF Ways
<1> QED
  BY <1>1, <1>2

\* Two right angles are one and another.
LEMMA HalfIsTwoQuarters ==
    ASSUME NEW v \in Ways, NEW axis \in Ways
    PROVE Half(v, axis) = Quarter(Quarter(v, axis), axis)
<1> SUFFICES ASSUME NEW v1 \in Int, NEW v2 \in Int, NEW v3 \in Int, v = <<v1, v2, v3>>
             PROVE Half(v, axis) = Quarter(Quarter(v, axis), axis)
  BY DEF Ways
<1>1. CASE axis = <<1, 0, 0>>
  <2>1. Quarter(v, axis) = <<v1, v3, -v2>>
    BY <1>1 DEF Quarter, Cross, Plus, Times, Dot
  <2>2. Quarter(<<v1, v3, -v2>>, axis) = <<v1, -v2, -v3>>
    BY <1>1 DEF Quarter, Cross, Plus, Times, Dot
  <2>3. Half(v, axis) = <<v1, -v2, -v3>>
    BY <1>1 DEF Half, Minus, Times, Dot
  <2> QED
    BY <2>1, <2>2, <2>3
<1>2. CASE axis = <<-1, 0, 0>>
  <2>1. Quarter(v, axis) = <<v1, -v3, v2>>
    BY <1>2 DEF Quarter, Cross, Plus, Times, Dot
  <2>2. Quarter(<<v1, -v3, v2>>, axis) = <<v1, -v2, -v3>>
    BY <1>2 DEF Quarter, Cross, Plus, Times, Dot
  <2>3. Half(v, axis) = <<v1, -v2, -v3>>
    BY <1>2 DEF Half, Minus, Times, Dot
  <2> QED
    BY <2>1, <2>2, <2>3
<1>3. CASE axis = <<0, 1, 0>>
  <2>1. Quarter(v, axis) = <<-v3, v2, v1>>
    BY <1>3 DEF Quarter, Cross, Plus, Times, Dot
  <2>2. Quarter(<<-v3, v2, v1>>, axis) = <<-v1, v2, -v3>>
    BY <1>3 DEF Quarter, Cross, Plus, Times, Dot
  <2>3. Half(v, axis) = <<-v1, v2, -v3>>
    BY <1>3 DEF Half, Minus, Times, Dot
  <2> QED
    BY <2>1, <2>2, <2>3
<1>4. CASE axis = <<0, -1, 0>>
  <2>1. Quarter(v, axis) = <<v3, v2, -v1>>
    BY <1>4 DEF Quarter, Cross, Plus, Times, Dot
  <2>2. Quarter(<<v3, v2, -v1>>, axis) = <<-v1, v2, -v3>>
    BY <1>4 DEF Quarter, Cross, Plus, Times, Dot
  <2>3. Half(v, axis) = <<-v1, v2, -v3>>
    BY <1>4 DEF Half, Minus, Times, Dot
  <2> QED
    BY <2>1, <2>2, <2>3
<1>5. CASE axis = <<0, 0, 1>>
  <2>1. Quarter(v, axis) = <<v2, -v1, v3>>
    BY <1>5 DEF Quarter, Cross, Plus, Times, Dot
  <2>2. Quarter(<<v2, -v1, v3>>, axis) = <<-v1, -v2, v3>>
    BY <1>5 DEF Quarter, Cross, Plus, Times, Dot
  <2>3. Half(v, axis) = <<-v1, -v2, v3>>
    BY <1>5 DEF Half, Minus, Times, Dot
  <2> QED
    BY <2>1, <2>2, <2>3
<1>6. CASE axis = <<0, 0, -1>>
  <2>1. Quarter(v, axis) = <<-v2, v1, v3>>
    BY <1>6 DEF Quarter, Cross, Plus, Times, Dot
  <2>2. Quarter(<<-v2, v1, v3>>, axis) = <<-v1, -v2, v3>>
    BY <1>6 DEF Quarter, Cross, Plus, Times, Dot
  <2>3. Half(v, axis) = <<-v1, -v2, v3>>
    BY <1>6 DEF Half, Minus, Times, Dot
  <2> QED
    BY <2>1, <2>2, <2>3
<1> QED
  BY <1>1, <1>2, <1>3, <1>4, <1>5, <1>6 DEF Ways

\* A frame turned by one right angle is a frame.
LEMMA QuarterFrame ==
    ASSUME NEW right, NEW up, NEW front, NEW axis \in Ways, IsFrame(right, up, front)
    PROVE IsFrame(Quarter(right, axis), Quarter(up, axis), Quarter(front, axis))
<1>1. front \in Ways /\ up \in Ways /\ right = Cross(front, up) /\ up = Cross(right, front)
  BY DEF IsFrame
<1>2. right \in Ways
  BY <1>1, RightIsAWay
<1>3. Quarter(front, axis) \in Ways /\ Quarter(up, axis) \in Ways
  BY <1>1, QuarterKeepsCross
<1>4. Quarter(right, axis) = Cross(Quarter(front, axis), Quarter(up, axis))
  BY <1>1, QuarterKeepsCross
<1>5. Quarter(up, axis) = Cross(Quarter(right, axis), Quarter(front, axis))
  BY <1>1, <1>2, QuarterKeepsCross
<1> QED
  BY <1>3, <1>4, <1>5 DEF IsFrame

\* A frame turned around a way of the world is a frame.
LEMMA TurnedFrame ==
    ASSUME NEW right, NEW up, NEW front, NEW axis \in Ways, NEW angles \in 1..2,
           IsFrame(right, up, front)
    PROVE IsFrame(Turned(right, axis, angles), Turned(up, axis, angles),
                Turned(front, axis, angles))
<1>1. front \in Ways /\ up \in Ways /\ right \in Ways
  BY RightIsAWay DEF IsFrame
<1>2. CASE angles = 1
  BY <1>1, <1>2, TurnedIs, QuarterFrame
<1>3. CASE angles # 1
  <2>1. IsFrame(Half(right, axis), Half(up, axis), Half(front, axis))
    BY <1>1, HalfIsTwoQuarters, QuarterFrame
  <2> QED
    BY <1>1, <1>3, <2>1, TurnedIs
<1> QED
  BY <1>2, <1>3

\* Looking a way with an up that goes another gives a frame.
LEMMA LookedFrame ==
    ASSUME NEW way \in Ways, NEW up \in Ways, Cross(way, up) # <<0, 0, 0>>
    PROVE IsFrame(Cross(way, up), Cross(Cross(way, up), way), way)
<1> QED
  BY SMTT(60) DEF Ways, Cross, IsFrame

\* Lost is lost for all three, and otherwise they are a frame.
LEMMA RigidIs ==
    CameraIsRigid <=>
        \/ camera.right = Nowhere /\ camera.up = Nowhere /\ camera.front = Nowhere
        \/ IsFrame(camera.right, camera.up, camera.front)
  BY DEF CameraIsRigid, IsFrame

\* The camera is a record of its five fields.
IsRecord ==
    \E position, right, up, front, lens :
        camera = [position |-> position, right |-> right, up |-> up, front |-> front,
                  lens |-> lens]

RigidInv == IsRecord /\ CameraIsRigid

\* Rotations turn a frame as a whole, and what is lost stays so.
LEMMA RotateKeepsRigid ==
    ASSUME NEW axis \in Ways, NEW angles \in 1..2, RigidInv, Rotate(axis, angles)
    PROVE RigidInv'
<1>1. /\ IsRecord' /\ camera'.right = Turned(camera.right, axis, angles)
      /\ camera'.up = Turned(camera.up, axis, angles)
      /\ camera'.front = Turned(camera.front, axis, angles)
  BY DEF RigidInv, IsRecord, Rotate, Set
<1>2. CASE camera.right = Nowhere /\ camera.up = Nowhere /\ camera.front = Nowhere
  BY <1>1, <1>2 DEF RigidInv, CameraIsRigid, Turned
<1>3. CASE IsFrame(camera.right, camera.up, camera.front)
  <2>1. IsFrame(camera'.right, camera'.up, camera'.front)
    BY <1>1, <1>3, TurnedFrame
  <2>2. CameraIsRigid'
    BY <2>1 DEF CameraIsRigid, IsFrame
  <2> QED
    BY <1>1, <2>2 DEF RigidInv
<1> QED
  BY <1>2, <1>3, RigidIs DEF RigidInv

\* The up that look_at takes is a way of the world, if the camera has a frame.
LEMMA UpForIsAWay ==
    ASSUME NEW way \in Ways, camera.up \in Ways, camera.front \in Ways
    PROVE UpFor(way) \in Ways
<1>1. Times(-1, camera.front) \in Ways
  BY DEF Ways, Times
<1> QED
  BY <1>1 DEF UpFor, Ways, CAMERA_UP

\* A look makes a new frame, or none.
LEMMA LookAtKeepsRigid ==
    ASSUME NEW way \in Ways, RigidInv, LookAt(way)
    PROVE RigidInv'
<1>1. CASE IsLost(camera) \/ Cross(way, UpFor(way)) = Zero
  <2>1. IsRecord' /\ camera'.right = Nowhere /\ camera'.up = Nowhere /\ camera'.front = Nowhere
    BY <1>1 DEF RigidInv, IsRecord, LookAt, Set
  <2> QED
    BY <2>1 DEF RigidInv, CameraIsRigid
<1>2. CASE ~(IsLost(camera) \/ Cross(way, UpFor(way)) = Zero)
  <2>1. UpFor(way) \in Ways
    BY <1>2, UpForIsAWay DEF RigidInv, CameraIsRigid, IsLost
  <2>2. IsFrame(Cross(way, UpFor(way)), Cross(Cross(way, UpFor(way)), way), way)
    BY <1>2, <2>1, LookedFrame DEF Zero
  <2>3. /\ IsRecord' /\ camera'.right = Cross(way, UpFor(way))
        /\ camera'.up = Cross(Cross(way, UpFor(way)), way) /\ camera'.front = way
    BY <1>2 DEF RigidInv, IsRecord, LookAt, Set
  <2> QED
    BY <2>2, <2>3 DEF RigidInv, CameraIsRigid, IsFrame
<1> QED
  BY <1>1, <1>2

LEMMA InitIsRigid == CameraInit => RigidInv
<1> SUFFICES ASSUME CameraInit PROVE RigidInv
  OBVIOUS
<1>1. /\ IsRecord /\ camera.right = <<1, 0, 0>>
      /\ camera.up = <<0, 1, 0>> /\ camera.front = <<0, 0, -1>>
  BY DEF CameraInit, IsRecord, CAMERA_RIGHT, CAMERA_UP, CAMERA_FRONT
<1>2. Cross(camera.front, camera.up) = <<1, 0, 0>>
  BY <1>1 DEF Cross
<1>3. Cross(camera.right, camera.front) = <<0, 1, 0>>
  BY <1>1 DEF Cross
<1> QED
  BY <1>1, <1>2, <1>3 DEF RigidInv, CameraIsRigid, Ways

LEMMA NextKeepsRigid == RigidInv /\ [CameraNext]_cameraVars => RigidInv'
<1> SUFFICES ASSUME RigidInv, [CameraNext]_cameraVars
             PROVE RigidInv'
  OBVIOUS
<1>1. ASSUME NEW v \in Moves, Move(v) PROVE RigidInv'
  BY <1>1 DEF Move, Set, RigidInv, IsRecord, CameraIsRigid
<1>2. ASSUME NEW p \in Places, Place(p) PROVE RigidInv'
  BY <1>2 DEF Place, Set, RigidInv, IsRecord, CameraIsRigid
<1>3. ASSUME NEW lens \in Lenses, InitFrustum(lens) PROVE RigidInv'
  BY <1>3 DEF InitFrustum, Set, RigidInv, IsRecord, CameraIsRigid
<1>4. CASE UNCHANGED cameraVars
  BY <1>4 DEF cameraVars, RigidInv, IsRecord, CameraIsRigid
<1> QED
  BY <1>1, <1>2, <1>3, <1>4, RotateKeepsRigid, LookAtKeepsRigid DEF CameraNext

\* Right, up and front stay a frame, or are lost together, whatever the camera is
\* told, in any order and as often as one likes (Camera::rotate, Camera::look_at).
THEOREM CamerasAreRigid == CameraSpec => []CameraIsRigid
<1> QED
  BY InitIsRigid, NextKeepsRigid, PTL DEF CameraSpec, RigidInv

\* It stays so between the searches of the world that take its frustum (find_nodes).
THEOREM CamerasOfWorldsAreRigid == OctreeSpec => []CameraIsRigid
<1>1. OctreeInit => RigidInv
  BY InitIsRigid DEF OctreeInit
<1>2. RigidInv /\ [OctreeNext]_octreeVars => RigidInv'
  <2>1. [OctreeNext]_octreeVars => [CameraNext]_cameraVars
    BY DEF OctreeNext, octreeVars, SetCamera, FindNodes, VisitNode, FindCloseNodes
  <2> QED
    BY <2>1, NextKeepsRigid
<1> QED
  BY <1>1, <1>2, PTL DEF OctreeSpec, RigidInv

-----------------------------------------------------------------------------
(* Octree *)

\* Two multiples of a size leave room for the size between them.
LEMMA MultiplesAreApart ==
    ASSUME NEW a \in Int, NEW b \in Int, NEW s \in Nat, a < b
    PROVE a * s + s <= b * s
<1>1. (b - a - 1) * s >= 0
  OBVIOUS
<1>2. (b - a - 1) * s = b * s - (a * s + s)
  OBVIOUS
<1> QED
  BY <1>1, <1>2

\* A square is not smaller than what it is the square of.
LEMMA SquareIsLarge ==
    ASSUME NEW s \in Nat \ {0}
    PROVE s * s \in Nat /\ s <= s * s
<1>1. (s - 1) * s >= 0
  OBVIOUS
<1>2. (s - 1) * s = s * s - s
  OBVIOUS
<1> QED
  BY <1>1, <1>2

\* Cubes of one size at different multiples of it.
LEMMA SameSizeApart ==
    ASSUME NEW corner \in Points, NEW s \in Nat \ {0},
           NEW v \in [Axes -> Int], NEW w \in [Axes -> Int], v # w
    PROVE ~Overlaps(Placed(corner, v, s), s, Placed(corner, w, s), s)
<1>1. PICK x \in Axes : v[x] # w[x]
  OBVIOUS
<1>2. v[x] \in Int /\ w[x] \in Int /\ corner[x] \in Int
  BY DEF Points
<1>3. CASE v[x] < w[x]
  <2>1. v[x] * s + s <= w[x] * s
    BY <1>2, <1>3, MultiplesAreApart
  <2>2. v[x] * s \in Int /\ w[x] * s \in Int
    BY <1>2
  <2>3. ~(corner[x] + w[x] * s < corner[x] + v[x] * s + s)
    BY <1>2, <2>1, <2>2
  <2> QED
    BY <2>3 DEF Overlaps, Placed
<1>4. CASE w[x] < v[x]
  <2>1. w[x] * s + s <= v[x] * s
    BY <1>2, <1>4, MultiplesAreApart
  <2>2. v[x] * s \in Int /\ w[x] * s \in Int
    BY <1>2
  <2>3. ~(corner[x] + v[x] * s < corner[x] + w[x] * s + s)
    BY <1>2, <2>1, <2>2
  <2> QED
    BY <2>3 DEF Overlaps, Placed
<1> QED
  BY <1>1, <1>2, <1>3, <1>4

\* A far cube begins after the near ones end, or ends before they begin.
LEMMA FarFromNear ==
    ASSUME NEW corner \in Points, NEW s \in Nat \ {0},
           NEW v \in NearOffsets, NEW w \in FarOffsets
    PROVE /\ ~Overlaps(Placed(corner, v, s), s, Placed(corner, w, s * s), s * s)
          /\ ~Overlaps(Placed(corner, w, s * s), s * s, Placed(corner, v, s), s)
<1> DEFINE S == s * s
<1>1. S \in Nat /\ s <= S
  BY SquareIsLarge
<1>2. corner[1] \in Int /\ v[1] \in -2..2 /\ w[1] \in {-4, -3, 3, 4} /\ 1 \in Axes
  BY DEF Points, NearOffsets, FarOffsets, Axes
<1>3. v[1] * s \in Int /\ -2 * s <= v[1] * s /\ v[1] * s <= 2 * s
  BY <1>2
<1> HIDE DEF S
<1>4. w[1] * S \in Int /\ (3 * S <= w[1] * S \/ w[1] * S + S <= -2 * S)
  BY <1>1, <1>2
<1>5. \/ ~(corner[1] + w[1] * S < corner[1] + v[1] * s + s)
      \/ ~(corner[1] + v[1] * s < corner[1] + w[1] * S + S)
  BY <1>1, <1>2, <1>3, <1>4
<1> QED
  BY <1>2, <1>5 DEF Overlaps, Placed, S

\* Any two cubes around a node, of any size.
LEMMA CloseToIsApart ==
    ASSUME NEW corner \in Points, NEW s \in Nat \ {0},
           NEW v \in NearOffsets \cup FarOffsets, NEW w \in NearOffsets \cup FarOffsets, v # w
    PROVE ~Overlaps(CloseTo(corner, s)[v].corner, CloseTo(corner, s)[v].size,
                    CloseTo(corner, s)[w].corner, CloseTo(corner, s)[w].size)
<1>1. \A u \in FarOffsets : u \notin NearOffsets
  BY DEF NearOffsets, FarOffsets, Axes
<1>2. v \in [Axes -> Int] /\ w \in [Axes -> Int]
  BY DEF NearOffsets, FarOffsets, Axes
<1>3. s * s \in Nat \ {0}
  BY SquareIsLarge
<1>4. \A u \in NearOffsets :
        /\ CloseTo(corner, s)[u].size = s
        /\ CloseTo(corner, s)[u].corner = Placed(corner, u, s)
  BY DEF CloseTo, CloseSize
<1>5. \A u \in FarOffsets :
        /\ CloseTo(corner, s)[u].size = s * s
        /\ CloseTo(corner, s)[u].corner = Placed(corner, u, s * s)
  BY <1>1 DEF CloseTo, CloseSize
<1>6. CASE v \in NearOffsets /\ w \in NearOffsets
  BY <1>2, <1>4, <1>6, SameSizeApart
<1>7. CASE v \in FarOffsets /\ w \in FarOffsets
  BY <1>2, <1>3, <1>5, <1>7, SameSizeApart
<1>8. CASE v \in NearOffsets /\ w \in FarOffsets
  BY <1>4, <1>5, <1>8, FarFromNear
<1>9. CASE v \in FarOffsets /\ w \in NearOffsets
  BY <1>4, <1>5, <1>9, FarFromNear
<1> QED
  BY <1>6, <1>7, <1>8, <1>9

\* closeNodes is empty or one answer of find_close_nodes.
CloseInv ==
    closeNodes = <<>>
    \/ \E corner \in Points, s \in Nat \ {0} : closeNodes = CloseTo(corner, s)

\* No place is in two of the cubes that find_close_nodes returns (tree.cpp).
THEOREM CloseNodesApart == OctreeSpec => []CloseNodesAreApart
<1>1. OctreeInit => CloseInv
  BY DEF OctreeInit, CloseInv
<1>2. CloseInv /\ [OctreeNext]_octreeVars => CloseInv'
  <2> SUFFICES ASSUME CloseInv, [OctreeNext]_octreeVars
               PROVE CloseInv'
    OBVIOUS
  <2>1. ASSUME NEW corner \in CloseCorners, NEW s \in CloseSizes, FindCloseNodes(corner, s)
        PROVE CloseInv'
    BY <2>1, OctreeAssumption DEF FindCloseNodes, CloseInv
  <2>2. CASE UNCHANGED closeNodes
    BY <2>2 DEF CloseInv
  <2> QED
    BY <2>1, <2>2 DEF OctreeNext, SetCamera, FindNodes, VisitNode, octreeVars
<1>3. CloseInv => CloseNodesAreApart
  <2>1. ASSUME NEW corner \in Points, NEW s \in Nat \ {0}, closeNodes = CloseTo(corner, s)
        PROVE CloseNodesAreApart
    <3>1. DOMAIN closeNodes = NearOffsets \cup FarOffsets
      BY <2>1 DEF CloseTo
    <3> QED
      BY <2>1, <3>1, CloseToIsApart DEF CloseNodesAreApart
  <2>2. CASE closeNodes = <<>>
    BY <2>2 DEF CloseNodesAreApart
  <2> QED
    BY <2>1, <2>2 DEF CloseInv
<1> QED
  BY <1>1, <1>2, <1>3, PTL DEF OctreeSpec
=============================================================================
