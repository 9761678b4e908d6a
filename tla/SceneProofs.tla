----------------------------- MODULE SceneProofs -----------------------------
(* Proofs about SceneGraph, for any nodes and any number of operations: a     *)
(* removal takes a subtree and nothing else, for vertices of two children;    *)
(* about Scenes: a view draws what is in the tree, as it is there; and about  *)
(* Bindings, the guards it is drawn under: they are counted, and what they    *)
(* guard is what OpenGL has bound.                                            *)
EXTENDS SceneGraph, Scenes, Bindings, SequenceLemmas, FiniteSetTheorems

(* SceneGraph                                                                *)

\* Vectors of edges without a node.
LEMMA WithoutFact ==
    ASSUME NEW list \in Seq(Nodes), NEW n \in Nodes
    PROVE  /\ Without(list, n) \in Seq(Nodes)
           /\ \A a \in DOMAIN Without(list, n) :
                 \E i \in DOMAIN list : Without(list, n)[a] = list[i] /\ list[i] # n
           /\ \A i \in DOMAIN list : list[i] # n =>
                 \E a \in DOMAIN Without(list, n) : Without(list, n)[a] = list[i]
           /\ \A a, b \in DOMAIN Without(list, n) : a # b =>
                 \E i, j \in DOMAIN list : /\ i # j /\ list[i] # n /\ list[j] # n
                                           /\ Without(list, n)[a] = list[i]
                                           /\ Without(list, n)[b] = list[j]
<1> DEFINE ss == [i \in DOMAIN list |-> IF list[i] = n THEN <<>> ELSE <<list[i]>>]
<1>1. ss \in Seq(Seq(Nodes)) /\ Len(ss) = Len(list) /\ DOMAIN list = 1..Len(list) /\ Len(list) \in Nat
  <2>1. DOMAIN list = 1..Len(list) /\ Len(list) \in Nat /\ \A i \in 1..Len(list) : list[i] \in Nodes
    OBVIOUS
  <2>2. <<>> \in Seq(Nodes) /\ \A x \in Nodes : <<x>> \in Seq(Nodes)
    OBVIOUS
  <2>3. ss \in [1..Len(list) -> Seq(Nodes)]
    BY <2>1, <2>2
  <2> HIDE DEF ss
  <2> QED BY <2>1, <2>3
<1>2. \A i \in 1..Len(list) : /\ Len(ss[i]) <= 1
                              /\ Len(ss[i]) = 1 <=> list[i] # n
                              /\ list[i] # n => ss[i][1] = list[i]
  OBVIOUS
<1> HIDE DEF ss
<1>3. FlattenSeq(ss) \in Seq(Nodes) /\ Picks(ss, Len(list), FlattenSeq(ss))
  <2>1. \A i \in 1..Len(ss) : Len(ss[i]) <= 1
    BY <1>1, <1>2
  <2> QED BY <1>1, <2>1, FlattenPicks
<1>4. Without(list, n) = FlattenSeq(ss)
  BY DEF Without, ss
<1> DEFINE w == FlattenSeq(ss)
<1>5. DOMAIN w = 1..Len(w) /\ w \in Seq(Nodes) /\ Picks(ss, Len(list), w)
  BY <1>3
<1> HIDE DEF w
<1> DEFINE l == Len(list)
<1>p. /\ \A i \in 1..l : Len(ss[i]) = 1 => \E a \in 1..Len(w) : w[a] = ss[i][1]
      /\ \A a \in 1..Len(w) : \E i \in 1..l : Len(ss[i]) = 1 /\ w[a] = ss[i][1]
      /\ \A a, b \in 1..Len(w) : a # b =>
           \E i, j \in 1..l : /\ i # j /\ Len(ss[i]) = 1 /\ Len(ss[j]) = 1
                              /\ w[a] = ss[i][1] /\ w[b] = ss[j][1]
  BY <1>5 DEF Picks
<1>d. DOMAIN w = 1..Len(w) /\ DOMAIN list = 1..l
  BY <1>1, <1>5
<1> HIDE DEF l
<1>2a. \A i \in 1..l : (Len(ss[i]) = 1 <=> list[i] # n) /\ (list[i] # n => ss[i][1] = list[i])
  BY <1>2 DEF l
<1>6. \A a \in DOMAIN w : \E i \in DOMAIN list : w[a] = list[i] /\ list[i] # n
  <2> TAKE a \in DOMAIN w
  <2>1. a \in 1..Len(w)
    BY <1>d
  <2>2. PICK i \in 1..l : Len(ss[i]) = 1 /\ w[a] = ss[i][1]
    BY <1>p, <2>1
  <2> QED BY <1>d, <1>2a, <2>2
<1>7. \A i \in DOMAIN list : list[i] # n => \E a \in DOMAIN w : w[a] = list[i]
  BY <1>d, <1>2a, <1>p
<1>8. \A a, b \in DOMAIN w : a # b =>
         \E i, j \in DOMAIN list : i # j /\ list[i] # n /\ list[j] # n /\ w[a] = list[i] /\ w[b] = list[j]
  <2> TAKE a, b \in DOMAIN w
  <2> HAVE a # b
  <2>1. PICK i, j \in 1..l : /\ i # j /\ Len(ss[i]) = 1 /\ Len(ss[j]) = 1
                                    /\ w[a] = ss[i][1] /\ w[b] = ss[j][1]
    <3>1. a \in 1..Len(w) /\ b \in 1..Len(w) /\ a # b
      BY <1>d
    <3>2. \A c, e \in 1..Len(w) : c # e =>
             \E i, j \in 1..l : /\ i # j /\ Len(ss[i]) = 1 /\ Len(ss[j]) = 1
                                /\ w[c] = ss[i][1] /\ w[e] = ss[j][1]
      BY <1>p
    <3> QED BY <3>1, <3>2, SMTT(30)
  <2>2. list[i] # n /\ list[j] # n /\ w[a] = list[i] /\ w[b] = list[j]
    BY <1>2a, <2>1
  <2> QED BY <1>d, <2>1, <2>2
<1>9. Without(list, n) = w
  BY <1>4 DEF w
<1> QED BY <1>5, <1>6, <1>7, <1>8, <1>9

LEMMA WithoutNone ==
    ASSUME NEW list \in Seq(Nodes), NEW n \in Nodes, \A i \in DOMAIN list : list[i] # n
    PROVE  Without(list, n) = list
<1> DEFINE ss == [i \in DOMAIN list |-> <<list[i]>>]
<1>1. Without(list, n) = FlattenSeq(ss)
  <2>1. ss = [i \in DOMAIN list |-> IF list[i] = n THEN <<>> ELSE <<list[i]>>]
    OBVIOUS
  <2> QED BY <2>1 DEF Without
<1>2. ss \in Seq(Seq(Nodes)) /\ Len(ss) = Len(list) /\ DOMAIN list = 1..Len(list) /\ Len(list) \in Nat
      /\ \A i \in 1..Len(list) : ss[i] = <<list[i]>> /\ list[i] \in Nodes
  <2>1. DOMAIN list = 1..Len(list) /\ Len(list) \in Nat /\ \A i \in 1..Len(list) : list[i] \in Nodes
    OBVIOUS
  <2>2. \A x \in Nodes : <<x>> \in Seq(Nodes)
    OBVIOUS
  <2>3. ss \in [1..Len(list) -> Seq(Nodes)] /\ \A i \in 1..Len(list) : ss[i] = <<list[i]>>
    BY <2>1, <2>2
  <2> HIDE DEF ss
  <2> QED BY <2>1, <2>3
<1> HIDE DEF ss
<1>3. CASE Len(list) = 0
  <2>1. FlattenSeq(ss) = ss /\ ss = <<>> /\ list = <<>>
    BY <1>2, <1>3, FlattenIs
  <2> QED BY <1>1, <2>1
<1>4. CASE Len(list) # 0
  <2>1. PICK F : Flattens(F, ss, Len(list)) /\ FlattenSeq(ss) = F[Len(list)]
    BY <1>2, <1>4, FlattenIs
  <2>2. \A i \in 1..Len(list) : F[i] = IF i = 1 THEN ss[i] ELSE F[i - 1] \o ss[i]
    BY <2>1 DEF Flattens
  <2> DEFINE IsFirsts(i) == F[i] \in Seq(Nodes) /\ Len(F[i]) = i /\ \A j \in 1..i : F[i][j] = list[j]
             T == {i \in 1..Len(list) : ~ IsFirsts(i)}
  <2>a. T \in SUBSET Nat
    BY <1>2
  <2>3. T = {}
    <3>1. SUFFICES ASSUME T # {} PROVE FALSE
      OBVIOUS
    <3>2. PICK i \in T : \A j \in T : i <= j
      BY <3>1, <2>a, LeastFact
    <3>3. CASE i = 1
      <4>1. F[1] = <<list[1]>> /\ list[1] \in Nodes
        BY <1>2, <2>2, <3>2, <3>3
      <4>2. F[1] \in Seq(Nodes) /\ Len(F[1]) = 1 /\ F[1][1] = list[1]
        BY <4>1
      <4>3. \A j \in 1..1 : j = 1
        OBVIOUS
      <4>4. IsFirsts(1)
        BY <4>2, <4>3
      <4> QED BY <4>4, <3>2, <3>3
    <3>4. CASE i # 1
      <4>1. i - 1 \in 1..Len(list) /\ i - 1 \notin T /\ i \in 1..Len(list) /\ i \in Nat
        BY <1>2, <3>2, <3>4
      <4>2. IsFirsts(i - 1)
        BY <4>1
      <4>3. F[i] = F[i - 1] \o <<list[i]>> /\ list[i] \in Nodes
        <5>1. ss[i] = <<list[i]>> /\ list[i] \in Nodes /\ F[i] = IF i = 1 THEN ss[i] ELSE F[i - 1] \o ss[i]
          BY <1>2, <2>2, <4>1
        <5> QED BY <3>4, <5>1
      <4>4. IsFirsts(i)
        BY <4>1, <4>2, <4>3
      <4> QED BY <3>2, <4>4
    <3> QED BY <3>3, <3>4
  <2>4. Len(list) \in 1..Len(list)
    BY <1>2, <1>4
  <2>5. IsFirsts(Len(list))
    BY <2>3, <2>4
  <2>6. FlattenSeq(ss) = list
    BY <2>1, <2>5, SeqEqual, <1>2
  <2> QED BY <1>1, <2>6
<1> QED BY <1>3, <1>4

\* The first of two edges, or of one, goes.
LEMMA WithoutFirst ==
    ASSUME NEW list \in Seq(Nodes), Len(list) \in {1, 2}, Len(list) = 2 => list[2] # list[1]
    PROVE  /\ Len(Without(list, list[1])) = Len(list) - 1
           /\ Len(list) = 2 => Without(list, list[1])[1] = list[2]
<1> DEFINE n == list[1]
           w == Without(list, n)
<1>1. n \in Nodes /\ DOMAIN list = 1..Len(list)
  OBVIOUS
<1> HIDE DEF n
<1>2. /\ w \in Seq(Nodes)
      /\ \A a \in DOMAIN w : \E i \in DOMAIN list : w[a] = list[i] /\ list[i] # n
      /\ \A i \in DOMAIN list : list[i] # n => \E a \in DOMAIN w : w[a] = list[i]
      /\ \A a, b \in DOMAIN w : a # b =>
            \E i, j \in DOMAIN list : i # j /\ list[i] # n /\ list[j] # n
  <2> HIDE DEF w
  <2>1. n \in Nodes /\ w = Without(list, n)
    BY <1>1 DEF w
  <2>2. /\ Without(list, n) \in Seq(Nodes)
        /\ \A a \in DOMAIN Without(list, n) :
              \E i \in DOMAIN list : Without(list, n)[a] = list[i] /\ list[i] # n
        /\ \A i \in DOMAIN list : list[i] # n =>
              \E a \in DOMAIN Without(list, n) : Without(list, n)[a] = list[i]
        /\ \A a, b \in DOMAIN Without(list, n) : a # b =>
              \E i, j \in DOMAIN list : /\ i # j /\ list[i] # n /\ list[j] # n
                                        /\ Without(list, n)[a] = list[i]
                                        /\ Without(list, n)[b] = list[j]
    BY <2>1, WithoutFact
  <2>3. \A a, b \in DOMAIN w : a # b => \E i, j \in DOMAIN list : i # j /\ list[i] # n /\ list[j] # n
    <3> TAKE a, b \in DOMAIN w
    <3> HAVE a # b
    <3> QED BY <2>1, <2>2, SMTT(30)
  <2> QED BY <2>1, <2>2, <2>3, Zenon
<1> HIDE DEF w
<1>3. DOMAIN w = 1..Len(w) /\ Len(w) \in Nat /\ list[1] = n
  BY <1>2 DEF n
<1>4. \A i \in DOMAIN list : list[i] # n => Len(list) = 2 /\ i = 2
  BY <1>1, <1>3
<1>5. Len(w) <= 1
  <2>1. SUFFICES ASSUME Len(w) > 1 PROVE FALSE
    BY <1>3
  <2>2. 1 \in DOMAIN w /\ 2 \in DOMAIN w
    BY <1>3, <2>1
  <2> QED BY <1>2, <1>4, <2>2
<1>6. CASE Len(list) = 1
  BY <1>2, <1>3, <1>4, <1>5, <1>6 DEF w, n
<1>7. CASE Len(list) = 2
  <2>1. 2 \in DOMAIN list /\ list[2] # n
    BY <1>1, <1>3, <1>7
  <2>2. PICK a \in DOMAIN w : w[a] = list[2]
    BY <1>2, <2>1
  <2>3. a = 1 /\ Len(w) = 1
    BY <1>3, <1>5, <2>2
  <2> QED BY <1>7, <2>2, <2>3 DEF w, n
<1> QED BY <1>6, <1>7
-----------------------------------------------------------------------------
\* No edge leads to a node twice, and none to the root.
EachOnce(edges) ==
    /\ \A m, n \in Nodes : \A i \in DOMAIN edges[m], j \in DOMAIN edges[n] :
          edges[m][i] = edges[n][j] => m = n /\ i = j
    /\ \A m \in Nodes : \A i \in DOMAIN edges[m] : edges[m][i] # Root

\* A call has removed the children before its iterator: those it has still to
\* remove are in its memory and in the vector.
Walks(f, list) ==
    /\ Len(f.memory) <= 2 /\ f.at \in 1..(Len(f.memory) + 1)
    /\ Len(list) = Len(f.memory) - f.at + 1
    /\ f.at = 1 => list = f.memory
    /\ f.at = 2 /\ Len(f.memory) = 2 => f.memory[2] = list[1]

\* The calls are of one path down the tree, from anywhere but the root.
CallsNest ==
    /\ \A k \in DOMAIN frames : /\ frames[k].node \in vertices \ {Root}
                                /\ Walks(frames[k], out[frames[k].node])
    /\ \A k, l \in DOMAIN frames : frames[k].node = frames[l].node => k = l
    /\ \A k \in DOMAIN frames : k + 1 \in DOMAIN frames =>
          /\ frames[k].at <= Len(frames[k].memory)
          /\ frames[k + 1].node = frames[k].memory[frames[k].at]

\* As long as nothing makes it another graph.
IsTree ==
    /\ ~ crashed
    /\ known = vertices /\ attached = vertices /\ Root \in vertices
    /\ \A n \in Nodes : Len(out[n]) <= MaxChildren
    /\ EachOnce(out)
    /\ \A s \in SUBSET vertices : IsClosed(s) => s = vertices
    /\ CallsNest

EdgesInside ==
    \A n \in Nodes : /\ ToSet(out[n]) \subseteq vertices
                     /\ n \notin vertices => out[n] = <<>>

GraphInv == GraphTypeOK /\ EdgesInside /\ (tricks = 0 /\ MaxChildren <= 2 => IsTree)

LEMMA GraphStart == GraphInit => GraphInv
<1> SUFFICES ASSUME GraphInit PROVE GraphInv
  OBVIOUS
<1> USE NodesAssumption
<1>1. \A n \in Nodes : out[n] = <<>>
  BY DEF GraphInit, NoEdges
<1>2. GraphTypeOK
  <2>1. out \in [Nodes -> Seq(Nodes)]
    BY DEF GraphInit, NoEdges
  <2>2. frames \in Seq([node : Nodes, at : Nat, memory : Seq(Nodes)])
    BY DEF GraphInit
  <2>3. MaxTricks \in Nat /\ Root \in Nodes
    OBVIOUS
  <2>4. /\ known \subseteq vertices /\ vertices \subseteq Nodes
        /\ attached \subseteq Nodes /\ removed \subseteq Nodes \ attached
        /\ crashed \in BOOLEAN /\ tricks \in 0..MaxTricks
    <3>1. tricks \in 0..MaxTricks /\ crashed \in BOOLEAN
      <4>1. tricks = 0 /\ crashed = FALSE
        BY DEF GraphInit
      <4>2. 0 \in 0..MaxTricks
        BY <2>3
      <4> QED BY <4>1, <4>2
    <3>2. known \subseteq vertices /\ vertices \subseteq Nodes /\ attached \subseteq Nodes
      BY <2>3 DEF GraphInit
    <3>3. removed \subseteq Nodes \ attached
      BY DEF GraphInit
    <3> QED BY <3>1, <3>2, <3>3
  <2> QED BY <2>1, <2>2, <2>4 DEF GraphTypeOK
<1>3. EdgesInside
  BY <1>1 DEF EdgesInside, ToSet
<1>4. EachOnce(out) /\ CallsNest /\ \A n \in Nodes : Len(out[n]) <= MaxChildren
  BY <1>1 DEF EachOnce, CallsNest, GraphInit
<1>5. \A s \in SUBSET vertices : IsClosed(s) => s = vertices
  BY DEF GraphInit, IsClosed
<1> QED BY <1>2, <1>3, <1>4, <1>5 DEF GraphInv, IsTree, GraphInit
-----------------------------------------------------------------------------
(* The steps                                                                 *)

LEMMA GraphStutters == GraphInv /\ UNCHANGED graphVars => GraphInv'
<1> SUFFICES ASSUME GraphInv, UNCHANGED graphVars PROVE GraphInv'
  OBVIOUS
<1>1. GraphTypeOK' /\ EdgesInside'
  BY DEF GraphInv, graphVars, GraphTypeOK, EdgesInside
<1>2. (tricks = 0 /\ MaxChildren <= 2 => IsTree)'
  BY DEF GraphInv, graphVars, IsTree, EachOnce, CallsNest, IsClosed
<1> QED BY <1>1, <1>2 DEF GraphInv

\* No call runs.
LEMMA NoCalls == ASSUME frames = <<>> PROVE CallsNest
BY DEF CallsNest

LEMMA InsertKeeps ==
    ASSUME GraphInv, NEW m \in Nodes, NEW n \in Nodes, InsertChild(m, n)
    PROVE  GraphInv'
<1> USE NodesAssumption
<1>1. /\ ~ crashed /\ frames = <<>> /\ m \in attached /\ n \in Free \cup removed
      /\ Len(out[m]) < MaxChildren
      /\ known' = known \cup {n} /\ vertices' = vertices \cup {n} /\ attached' = attached \cup {n}
      /\ out' = Linked(m, n) /\ removed' = removed \ {n}
      /\ frames' = frames /\ crashed' = crashed /\ tricks' = tricks
  BY DEF InsertChild, Quiet
<1>2. /\ known \subseteq vertices /\ vertices \subseteq Nodes /\ attached \subseteq Nodes
      /\ removed \subseteq Nodes \ attached /\ out \in [Nodes -> Seq(Nodes)]
      /\ crashed \in BOOLEAN /\ tricks \in 0..MaxTricks
      /\ frames \in Seq([node : Nodes, at : Nat, memory : Seq(Nodes)])
  BY DEF GraphInv, GraphTypeOK
<1>3. n \notin attached
  BY <1>1, <1>2 DEF Free
<1>4. out' \in [Nodes -> Seq(Nodes)] /\ \A p \in Nodes : p # m => out'[p] = out[p]
  BY <1>1, <1>2 DEF Linked
<1>5. m \in known => out'[m] = Append(out[m], n)
  BY <1>1, <1>2 DEF Linked
<1>6. m \notin known => out' = out
  BY <1>1 DEF Linked
<1>7. GraphTypeOK'
  BY <1>1, <1>2, <1>3, <1>4 DEF GraphTypeOK
<1>8. EdgesInside'
  <2>1. \A p \in Nodes : ToSet(out[p]) \subseteq vertices /\ (p \notin vertices => out[p] = <<>>)
    BY DEF GraphInv, EdgesInside
  <2>2. CASE m \in known
    <3>1. ToSet(out'[m]) \subseteq vertices \cup {n}
      <4>1. out[m] \in Seq(Nodes)
        BY <1>2
      <4>2. \A i \in DOMAIN out[m] : out[m][i] \in vertices
        BY <2>1 DEF ToSet
      <4> QED BY <1>5, <2>2, <4>1, <4>2 DEF ToSet
    <3>2. m \in vertices
      BY <1>2, <2>2
    <3> QED BY <1>1, <1>4, <2>1, <3>1, <3>2 DEF EdgesInside
  <2>3. CASE m \notin known
    BY <1>1, <1>6, <2>1, <2>3 DEF EdgesInside
  <2> QED BY <2>2, <2>3
<1>9. ASSUME tricks' = 0, MaxChildren <= 2 PROVE IsTree'
  <2>1. IsTree
    BY <1>1, <1>9 DEF GraphInv
  <2>2. /\ ~ crashed /\ known = vertices /\ attached = vertices /\ Root \in vertices
        /\ EachOnce(out) /\ \A s \in SUBSET vertices : IsClosed(s) => s = vertices
        /\ \A p \in Nodes : Len(out[p]) <= MaxChildren
    BY <2>1 DEF IsTree
  <2>3. n \notin vertices /\ m \in known /\ m # n /\ n # Root
    BY <1>1, <1>3, <2>2
  <2>4. out'[m] = Append(out[m], n) /\ out[m] \in Seq(Nodes) /\ out[n] = <<>> /\ out'[n] = <<>>
    BY <1>2, <1>4, <1>5, <2>3 DEF GraphInv, EdgesInside
  <2>5. \A p \in Nodes : \A i \in DOMAIN out[p] : out[p][i] \in vertices
    BY DEF GraphInv, EdgesInside, ToSet
  <2>6. DOMAIN out'[m] = 1..(Len(out[m]) + 1) /\ DOMAIN out[m] = 1..Len(out[m]) /\ Len(out[m]) \in Nat
        /\ Len(out'[m]) = Len(out[m]) + 1
        /\ \A i \in 1..(Len(out[m]) + 1) : out'[m][i] = IF i = Len(out[m]) + 1 THEN n ELSE out[m][i]
    BY <2>4
  <2>7. EachOnce(out')
    <3>1. ASSUME NEW p \in Nodes, NEW i \in DOMAIN out'[p]
          PROVE  \/ p = m /\ i = Len(out[m]) + 1 /\ out'[p][i] = n
                 \/ i \in DOMAIN out[p] /\ out'[p][i] = out[p][i] /\ out[p][i] # n
      <4>1. CASE p = m /\ i = Len(out[m]) + 1
        BY <2>6, <4>1
      <4>2. CASE p = m /\ i # Len(out[m]) + 1
        <5>1. i \in DOMAIN out[p]
          BY <2>6, <4>2
        <5> QED BY <2>3, <2>5, <2>6, <4>2, <5>1
      <4>3. CASE p # m
        BY <1>4, <2>3, <2>5, <4>3
      <4> QED BY <4>1, <4>2, <4>3
    <3>2. ASSUME NEW p \in Nodes, NEW q \in Nodes, NEW i \in DOMAIN out'[p], NEW j \in DOMAIN out'[q],
                 out'[p][i] = out'[q][j]
          PROVE  p = q /\ i = j
      BY <2>2, <3>1, <3>2 DEF EachOnce
    <3>3. ASSUME NEW p \in Nodes, NEW i \in DOMAIN out'[p] PROVE out'[p][i] # Root
      BY <2>2, <2>3, <3>1 DEF EachOnce
    <3> QED BY <3>2, <3>3 DEF EachOnce
  <2>8. \A p \in Nodes : Len(out'[p]) <= MaxChildren
    <3> TAKE p \in Nodes
    <3>1. CASE p = m
      BY <1>1, <2>6, <3>1
    <3>2. CASE p # m
      BY <1>4, <2>2, <3>2
    <3> QED BY <3>1, <3>2
  <2>9. ASSUME NEW s \in SUBSET vertices', IsClosed(s)' PROVE s = vertices'
    <3>1. Root \in s /\ \A p \in s : ToSet(out'[p]) \subseteq s
      BY <2>9 DEF IsClosed
    <3>2. s \ {n} \subseteq vertices
      BY <1>1
    <3>3. IsClosed(s \ {n})
      <4>1. Root \in s \ {n}
        BY <2>3, <3>1
      <4>2. ASSUME NEW p \in s \ {n}, NEW x \in ToSet(out[p]) PROVE x \in s \ {n}
        <5>1. p \in Nodes /\ p \in s
          BY <1>2, <3>2
        <5>2. PICK i \in DOMAIN out[p] : x = out[p][i]
          BY <4>2 DEF ToSet
        <5>3. i \in DOMAIN out'[p] /\ out'[p][i] = x
          <6>1. CASE p = m
            BY <2>6, <5>2, <6>1
          <6>2. CASE p # m
            BY <1>4, <5>1, <5>2, <6>2
          <6> QED BY <6>1, <6>2
        <5>4. x \in s
          BY <3>1, <5>1, <5>3 DEF ToSet
        <5> QED BY <2>3, <2>5, <5>1, <5>2, <5>4
      <4> QED BY <4>1, <4>2 DEF IsClosed
    <3>4. s \ {n} = vertices
      BY <2>2, <3>2, <3>3
    <3>5. m \in s /\ n \in ToSet(out'[m])
      <4>1. m \in s
        BY <2>2, <2>3, <3>4
      <4>2. Len(out[m]) + 1 \in DOMAIN out'[m] /\ out'[m][Len(out[m]) + 1] = n
        BY <2>6
      <4> QED BY <4>1, <4>2 DEF ToSet
    <3>6. n \in s
      BY <3>1, <3>5
    <3> QED BY <1>1, <3>4, <3>6
  <2>10. CallsNest'
    BY <1>1 DEF CallsNest
  <2> QED BY <1>1, <2>2, <2>7, <2>8, <2>9, <2>10 DEF IsTree
<1> QED BY <1>7, <1>8, <1>9 DEF GraphInv

LEMMA ReinsertKeeps ==
    ASSUME GraphInv, NEW n \in Nodes, Reinsert(n)
    PROVE  GraphInv'
<1>1. GraphTypeOK'
  BY NodesAssumption DEF GraphInv, GraphTypeOK, Reinsert, Trick
<1>2. EdgesInside'
  BY DEF GraphInv, EdgesInside, Reinsert
<1>3. tricks' # 0
  BY NodesAssumption DEF GraphInv, GraphTypeOK, Reinsert, Trick
<1> QED BY <1>1, <1>2, <1>3 DEF GraphInv

LEMMA ConnectKeeps ==
    ASSUME GraphInv, NEW m \in Nodes, NEW n \in Nodes, Connect(m, n)
    PROVE  GraphInv'
<1>1. /\ m \in vertices /\ n \in vertices /\ out' = [out EXCEPT ![m] = Append(@, n)]
      /\ out \in [Nodes -> Seq(Nodes)] /\ vertices' = vertices
  BY DEF Connect, GraphInv, GraphTypeOK
<1>2. /\ out' \in [Nodes -> Seq(Nodes)] /\ out'[m] = Append(out[m], n)
      /\ \A p \in Nodes : p # m => out'[p] = out[p]
  BY <1>1
<1>3. GraphTypeOK'
  BY <1>2, NodesAssumption DEF GraphInv, GraphTypeOK, Connect, Trick
<1>4. EdgesInside'
  <2>1. \A p \in Nodes : ToSet(out[p]) \subseteq vertices /\ (p \notin vertices => out[p] = <<>>)
    BY DEF GraphInv, EdgesInside
  <2>2. ToSet(out'[m]) \subseteq vertices
    <3>1. out[m] \in Seq(Nodes)
      BY <1>1
    <3>2. \A i \in DOMAIN out[m] : out[m][i] \in vertices
      BY <2>1 DEF ToSet
    <3> QED BY <1>1, <1>2, <3>1, <3>2 DEF ToSet
  <2> QED BY <1>1, <1>2, <2>1, <2>2 DEF EdgesInside
<1>5. tricks' # 0
  BY NodesAssumption DEF GraphInv, GraphTypeOK, Connect, Trick
<1> QED BY <1>3, <1>4, <1>5 DEF GraphInv

LEMMA DropKeeps ==
    ASSUME GraphInv, NEW n \in Nodes, DropNode(n)
    PROVE  GraphInv'
<1>1. GraphTypeOK'
  BY DEF GraphInv, GraphTypeOK, DropNode
<1>2. EdgesInside'
  BY DEF GraphInv, EdgesInside, DropNode
<1>3. ASSUME tricks' = 0, MaxChildren <= 2 PROVE IsTree'
  <2>1. IsTree
    BY <1>3 DEF GraphInv, DropNode
  <2> QED BY <2>1 DEF IsTree, EachOnce, CallsNest, IsClosed, DropNode
<1> QED BY <1>1, <1>2, <1>3 DEF GraphInv

\* A call that begins has removed nothing.
LEMMA CallFact ==
    ASSUME GraphInv, NEW n \in Nodes
    PROVE  /\ Call(n) \in [node : Nodes, at : Nat, memory : Seq(Nodes)] /\ Call(n).node = n
           /\ Len(out[n]) <= 2 => Walks(Call(n), out[n])
<1>1. out[n] \in Seq(Nodes)
  BY DEF GraphInv, GraphTypeOK
<1>2. Call(n) \in [node : Nodes, at : Nat, memory : Seq(Nodes)] /\ Call(n).node = n
      /\ Call(n).at = 1 /\ Call(n).memory = out[n]
  BY <1>1 DEF Call
<1>3. ASSUME Len(out[n]) <= 2 PROVE Walks(Call(n), out[n])
  BY <1>1, <1>2, <1>3 DEF Walks
<1> QED BY <1>2, <1>3

LEMMA RemoveKeeps ==
    ASSUME GraphInv, NEW n \in Nodes, RemoveNode(n)
    PROVE  GraphInv'
<1>1. /\ frames' = <<Call(n)>> /\ n \in known /\ ~ crashed /\ frames = <<>>
      /\ known' = known /\ vertices' = vertices /\ attached' = attached /\ out' = out
      /\ removed' = removed /\ crashed' = crashed
      /\ IF n = Root THEN tricks < MaxTricks /\ tricks' = tricks + 1 ELSE tricks' = tricks
  BY DEF RemoveNode, Quiet, Trick
<1>2. GraphTypeOK'
  <2>1. frames' \in Seq([node : Nodes, at : Nat, memory : Seq(Nodes)])
    BY <1>1, CallFact
  <2> QED BY <1>1, <2>1, NodesAssumption DEF GraphInv, GraphTypeOK
<1>3. EdgesInside'
  BY <1>1 DEF GraphInv, EdgesInside
<1>4. ASSUME tricks' = 0, MaxChildren <= 2 PROVE IsTree'
  <2>1. tricks = 0 /\ n # Root
    BY <1>1, <1>4, NodesAssumption DEF GraphInv, GraphTypeOK
  <2>2. IsTree
    BY <1>4, <2>1 DEF GraphInv
  <2>3. n \in vertices \ {Root} /\ Len(out[n]) <= MaxChildren /\ Len(out[n]) \in Nat
    BY <1>1, <2>1, <2>2 DEF IsTree, GraphInv, GraphTypeOK
  <2>4. Walks(Call(n), out[n]) /\ Call(n).node = n
    BY <1>4, <2>3, CallFact, NodesAssumption
  <2>5. frames' = <<Call(n)>> /\ DOMAIN frames' = {1} /\ frames'[1] = Call(n)
    BY <1>1
  <2>6. CallsNest'
    BY <1>1, <2>3, <2>4, <2>5 DEF CallsNest
  <2> QED BY <1>1, <2>2, <2>6 DEF IsTree, EachOnce, IsClosed
<1> QED BY <1>2, <1>3, <1>4 DEF GraphInv

\* The frames, typed.
LEMMA FramesFact ==
    ASSUME GraphInv, frames # <<>>
    PROVE  /\ Len(frames) \in Nat /\ Len(frames) >= 1 /\ DOMAIN frames = 1..Len(frames)
           /\ Top \in [node : Nodes, at : Nat, memory : Seq(Nodes)] /\ Top = frames[Len(frames)]
           /\ \A k \in 1..Len(frames) : frames[k] \in [node : Nodes, at : Nat, memory : Seq(Nodes)]
<1>1. frames \in Seq([node : Nodes, at : Nat, memory : Seq(Nodes)])
  BY DEF GraphInv, GraphTypeOK
<1>2. Len(frames) \in Nat /\ Len(frames) # 0 /\ DOMAIN frames = 1..Len(frames)
  BY <1>1
<1>3. \A k \in 1..Len(frames) : frames[k] \in [node : Nodes, at : Nat, memory : Seq(Nodes)]
  <2> DEFINE R == [node : Nodes, at : Nat, memory : Seq(Nodes)]
  <2>1. frames \in Seq(R)
    BY <1>1
  <2> HIDE DEF R
  <2>2. \A k \in 1..Len(frames) : frames[k] \in R
    BY <2>1
  <2> QED BY <2>2 DEF R
<1>4. Len(frames) \in 1..Len(frames)
  BY <1>2
<1> QED BY <1>2, <1>3, <1>4 DEF Top

\* The child that a call is about to remove is the first of the node's that are left.
LEMMA ChildFact ==
    ASSUME GraphInv, IsTree, NEW k \in DOMAIN frames, frames[k].at <= Len(frames[k].memory)
    PROVE  /\ frames[k].node \in Nodes
           /\ out[frames[k].node] \in Seq(Nodes) /\ 1 \in DOMAIN out[frames[k].node]
           /\ Len(out[frames[k].node]) \in {1, 2}
           /\ frames[k].memory[frames[k].at] = out[frames[k].node][1]
           /\ frames[k].memory[frames[k].at] \in vertices \ {Root}
<1> DEFINE f == frames[k]
           list == out[f.node]
<1>1. f \in [node : Nodes, at : Nat, memory : Seq(Nodes)]
  <2>1. frames # <<>>
    OBVIOUS
  <2> QED BY <2>1, FramesFact
<1>2. f.node \in Nodes /\ f.at \in Nat /\ f.memory \in Seq(Nodes)
  BY <1>1
<1>3. list \in Seq(Nodes) /\ f.node \in vertices \ {Root} /\ Walks(f, list)
  BY <1>2 DEF GraphInv, GraphTypeOK, IsTree, CallsNest
<1> HIDE DEF f
<1>4. /\ Len(f.memory) \in Nat /\ Len(f.memory) <= 2 /\ f.at \in 1..(Len(f.memory) + 1)
      /\ f.at <= Len(f.memory)
  BY <1>2, <1>3 DEF Walks, f
<1>5. \/ f.at = 1 /\ Len(f.memory) \in {1, 2}
      \/ f.at = 2 /\ Len(f.memory) = 2
  <2> DEFINE l == Len(f.memory)
             a == f.at
  <2>1. l \in Nat /\ l <= 2 /\ a \in 1..(l + 1) /\ a <= l
    BY <1>4
  <2> HIDE DEF l, a
  <2>2. (a = 1 /\ l \in {1, 2}) \/ (a = 2 /\ l = 2)
    BY <2>1
  <2> QED BY <2>2 DEF l, a
<1>6. f.at = 1 => list = f.memory
  BY <1>3 DEF Walks
<1>7. f.at = 2 /\ Len(f.memory) = 2 => f.memory[2] = list[1]
  BY <1>3 DEF Walks
<1>8. Len(list) = Len(f.memory) - f.at + 1
  BY <1>3 DEF Walks
<1>9. Len(list) \in {1, 2} /\ f.memory[f.at] = list[1]
  BY <1>4, <1>5, <1>6, <1>7, <1>8
<1> HIDE DEF list
<1>10. 1 \in DOMAIN list
  BY <1>3, <1>9
<1>11. list[1] # Root
  BY <1>2, <1>10 DEF IsTree, EachOnce, list
<1>12. list[1] \in vertices
  BY <1>2, <1>10 DEF GraphInv, EdgesInside, ToSet, list
<1> QED BY <1>2, <1>3, <1>9, <1>10, <1>11, <1>12 DEF f, list

\* It is in the graph, and no call on it runs: the calls would be a path down
\* the tree that comes back to a node, and that the root does not reach.
LEMMA ChildIsNew ==
    ASSUME GraphInv, IsTree, frames # <<>>, Top.at <= Len(Top.memory)
    PROVE  Top.memory[Top.at] \in (vertices \ {Root}) \ Running
<1> DEFINE L == Len(frames)
           child(k) == frames[k].memory[frames[k].at]
<1>1. L \in Nat /\ L >= 1 /\ DOMAIN frames = 1..L /\ Top = frames[L] /\ L \in 1..L
  BY FramesFact
<1>2. /\ \A k \in 1..L : frames[k].node \in vertices \ {Root}
      /\ \A k, l \in 1..L : frames[k].node = frames[l].node => k = l
      /\ \A k \in 1..L : k + 1 \in 1..L => /\ frames[k].at <= Len(frames[k].memory)
                                          /\ frames[k + 1].node = child(k)
  BY <1>1 DEF IsTree, CallsNest
<1>3. /\ \A m, n \in Nodes : \A i \in DOMAIN out[m], j \in DOMAIN out[n] :
            out[m][i] = out[n][j] => m = n /\ i = j
  BY DEF IsTree, EachOnce
<1>4. Top.memory[Top.at] \in vertices \ {Root} /\ Top.memory[Top.at] = child(L)
  BY <1>1, ChildFact
<1> HIDE DEF L
<1>5. ASSUME NEW k \in 1..L, k = L \/ k + 1 \in 1..L
      PROVE  /\ frames[k].node \in Nodes /\ 1 \in DOMAIN out[frames[k].node]
             /\ child(k) = out[frames[k].node][1]
  <2>1. frames[k].at <= Len(frames[k].memory) /\ k \in DOMAIN frames
    BY <1>1, <1>2, <1>5
  <2> QED BY <2>1, ChildFact
<1>6. SUFFICES ASSUME NEW j \in 1..L, frames[j].node = child(L) PROVE FALSE
  BY <1>1, <1>4 DEF Running
<1>7. ASSUME NEW k \in 1..L, k > 1
      PROVE  k - 1 \in 1..L /\ frames[k].node = child(k - 1) /\ (k - 1) + 1 \in 1..L
  <2>1. k - 1 \in 1..L /\ (k - 1) + 1 = k
    BY <1>1, <1>7
  <2> QED BY <1>2, <2>1
<1>8. CASE j > 1
  <2>1. child(j - 1) = child(L) /\ j - 1 \in 1..L /\ (j - 1) + 1 \in 1..L
    BY <1>6, <1>7, <1>8
  <2>2. frames[j - 1].node = frames[L].node
    <3>1. /\ frames[j - 1].node \in Nodes /\ 1 \in DOMAIN out[frames[j - 1].node]
          /\ child(j - 1) = out[frames[j - 1].node][1]
      BY <1>5, <2>1
    <3>2. /\ frames[L].node \in Nodes /\ 1 \in DOMAIN out[frames[L].node]
          /\ child(L) = out[frames[L].node][1]
      BY <1>1, <1>5
    <3> HIDE DEF child
    <3> QED BY <1>3, <2>1, <3>1, <3>2
  <2>3. j - 1 = L
    BY <1>1, <1>2, <2>1, <2>2
  <2> QED BY <1>1, <2>3
<1>9. CASE j = 1
  <2> DEFINE s == vertices \ Running
  <2>1. \A x \in Running : \E i \in 1..L : x = frames[i].node
    BY <1>1 DEF Running
  <2>2. \A i \in 1..L : frames[i].node \in Running
    BY <1>1 DEF Running
  <2>3. Root \in s
    BY <1>2, <2>1 DEF IsTree
  <2>4. ASSUME NEW p \in s, NEW x \in ToSet(out[p]) PROVE x \in s
    <3>1. p \in Nodes /\ p \in vertices /\ p \notin Running
      BY DEF GraphInv, GraphTypeOK
    <3>2. x \in vertices
      BY <2>4, <3>1 DEF GraphInv, EdgesInside
    <3>3. SUFFICES ASSUME NEW i \in 1..L, x = frames[i].node PROVE FALSE
      BY <2>1, <3>2
    <3>4. PICK h \in 1..L : x = child(h) /\ (h = L \/ h + 1 \in 1..L)
      <4>1. CASE i = 1
        BY <1>1, <1>6, <1>9, <3>3, <4>1
      <4>2. CASE i > 1
        <5>1. i - 1 \in 1..L /\ x = child(i - 1) /\ (i - 1) + 1 \in 1..L
          BY <1>7, <3>3, <4>2
        <5> QED BY <5>1
      <4>3. i = 1 \/ i > 1
        BY <1>1
      <4> QED BY <4>1, <4>2, <4>3
    <3>5. /\ frames[h].node \in Nodes /\ 1 \in DOMAIN out[frames[h].node]
          /\ x = out[frames[h].node][1]
      BY <1>5, <3>4
    <3>6. PICK a \in DOMAIN out[p] : x = out[p][a]
      BY <2>4 DEF ToSet
    <3>7. p = frames[h].node
      <4> DEFINE q == frames[h].node
      <4>1. q \in Nodes /\ 1 \in DOMAIN out[q] /\ out[p][a] = out[q][1]
        BY <3>5, <3>6
      <4> HIDE DEF q
      <4>2. \A m, n \in Nodes : \A i1 \in DOMAIN out[m], i2 \in DOMAIN out[n] :
               out[m][i1] = out[n][i2] => m = n
        BY <1>3
      <4>3. p = q
        BY <3>1, <3>6, <4>1, <4>2
      <4> QED BY <4>3 DEF q
    <3> QED BY <2>2, <3>1, <3>7
  <2>5. IsClosed(s)
    BY <2>3, <2>4 DEF IsClosed
  <2>6. s = vertices
    BY <2>5 DEF IsTree
  <2>7. frames[1].node \in vertices /\ frames[1].node \in Running
    BY <1>1, <1>2, <2>2
  <2> QED BY <2>6, <2>7
<1> QED BY <1>1, <1>8, <1>9

LEMMA RemoveChildKeeps ==
    ASSUME GraphInv, RemoveChild
    PROVE  GraphInv'
<1> DEFINE c == Top.memory[Top.at]
           L == Len(frames)
<1>1. /\ frames # <<>> /\ Top.at <= Len(Top.memory) /\ c \in (vertices \cap known) \ Running
      /\ frames' = Append(frames, Call(c))
      /\ known' = known /\ vertices' = vertices /\ attached' = attached /\ out' = out
      /\ removed' = removed /\ crashed' = crashed /\ tricks' = tricks
  BY DEF RemoveChild
<1>2. c \in Nodes
  BY <1>1 DEF GraphInv, GraphTypeOK
<1>3. L \in Nat /\ L >= 1 /\ DOMAIN frames = 1..L /\ Top = frames[L]
  BY <1>1, FramesFact
<1>4. Call(c) \in [node : Nodes, at : Nat, memory : Seq(Nodes)] /\ Call(c).node = c
      /\ (Len(out[c]) <= 2 => Walks(Call(c), out[c]))
  BY <1>2, CallFact
<1>5. frames \in Seq([node : Nodes, at : Nat, memory : Seq(Nodes)])
  BY DEF GraphInv, GraphTypeOK
<1>6. /\ frames' \in Seq([node : Nodes, at : Nat, memory : Seq(Nodes)])
      /\ DOMAIN frames' = 1..(L + 1) /\ frames'[L + 1] = Call(c)
      /\ \A k \in 1..L : frames'[k] = frames[k]
  <2> DEFINE R == [node : Nodes, at : Nat, memory : Seq(Nodes)]
             x == Call(c)
  <2>1. frames \in Seq(R) /\ x \in R /\ frames' = Append(frames, x)
    BY <1>1, <1>4, <1>5
  <2> HIDE DEF R, x
  <2>2. frames' \in Seq(R) /\ DOMAIN frames' = 1..(L + 1) /\ frames'[L + 1] = x
        /\ \A k \in 1..L : frames'[k] = frames[k]
    BY <2>1
  <2> QED BY <2>2 DEF R, x
<1>7. GraphTypeOK'
  BY <1>1, <1>6 DEF GraphInv, GraphTypeOK
<1>8. EdgesInside'
  BY <1>1 DEF GraphInv, EdgesInside
<1>9. ASSUME tricks' = 0, MaxChildren <= 2 PROVE IsTree'
  <2>1. IsTree
    BY <1>1, <1>9 DEF GraphInv
  <2>2. c \in vertices \ {Root} /\ c \notin Running
    BY <1>1, <2>1, ChildIsNew
  <2>3. Walks(Call(c), out[c])
    <3>1. Len(out[c]) <= MaxChildren /\ Len(out[c]) \in Nat
      BY <1>2, <2>1 DEF IsTree, GraphInv, GraphTypeOK
    <3> QED BY <1>4, <1>9, <3>1, NodesAssumption
  <2>4. /\ \A k \in 1..L : frames[k].node \in vertices \ {Root} /\ Walks(frames[k], out[frames[k].node])
        /\ \A k, l \in 1..L : frames[k].node = frames[l].node => k = l
        /\ \A k \in 1..L : k + 1 \in 1..L =>
              frames[k].at <= Len(frames[k].memory) /\ frames[k + 1].node = frames[k].memory[frames[k].at]
    BY <1>3, <2>1 DEF IsTree, CallsNest
  <2>5. \A k \in 1..L : frames[k].node # c
    BY <1>3, <2>2 DEF Running
  <2>6. \A k \in 1..(L + 1) :
           k \in 1..L \/ (k = L + 1 /\ frames'[k].node = c /\ Walks(frames'[k], out[c]))
    <3>1. frames'[L + 1].node = c /\ Walks(frames'[L + 1], out[c])
      BY <1>4, <1>6, <2>3
    <3> HIDE DEF L
    <3>2. \A k \in 1..(L + 1) : k \in 1..L \/ k = L + 1
      BY <1>3
    <3> QED BY <3>1, <3>2
  <2>7. \A k \in 1..(L + 1) : /\ frames'[k].node \in vertices \ {Root}
                             /\ Walks(frames'[k], out[frames'[k].node])
    BY <1>6, <2>2, <2>4, <2>6
  <2>8. \A k, l \in 1..(L + 1) : frames'[k].node = frames'[l].node => k = l
    BY <1>6, <2>4, <2>5, <2>6
  <2>9. ASSUME NEW k \in 1..(L + 1), k + 1 \in 1..(L + 1)
        PROVE  /\ frames'[k].at <= Len(frames'[k].memory)
               /\ frames'[k + 1].node = frames'[k].memory[frames'[k].at]
    <3>1. k \in 1..L
      <4> HIDE DEF L
      <4> QED BY <1>3, <2>9
    <3>2. CASE k = L
      BY <1>1, <1>3, <1>4, <1>6, <3>1, <3>2
    <3>3. CASE k # L
      <4>1. k + 1 \in 1..L
        <5> HIDE DEF L
        <5> QED BY <1>3, <3>1, <3>3
      <4> QED BY <1>6, <2>4, <3>1, <4>1
    <3> QED BY <3>2, <3>3
  <2> HIDE DEF L
  <2>10. CallsNest'
    BY <1>1, <1>6, <2>7, <2>8, <2>9 DEF CallsNest
  <2>11. EachOnce(out') /\ (\A s \in SUBSET vertices : IsClosed(s) => s = vertices)'
    BY <1>1, <2>1 DEF IsTree, EachOnce, IsClosed
  <2> QED BY <1>1, <2>1, <2>10, <2>11 DEF IsTree
<1> QED BY <1>7, <1>8, <1>9 DEF GraphInv

\* In a tree a child that a call reads is one that it can remove.
LEMMA CrashesKeeps ==
    ASSUME GraphInv, Crashes
    PROVE  GraphInv'
<1>1. /\ frames # <<>> /\ Top.at <= Len(Top.memory)
      /\ Top.memory[Top.at] \notin vertices \/ Top.memory[Top.at] \in Running
      /\ frames' = <<>> /\ crashed' = TRUE
      /\ known' = known /\ vertices' = vertices /\ attached' = attached /\ out' = out
      /\ removed' = removed /\ tricks' = tricks
  BY DEF Crashes
<1>2. GraphTypeOK'
  BY <1>1 DEF GraphInv, GraphTypeOK
<1>3. EdgesInside'
  BY <1>1 DEF GraphInv, EdgesInside
<1>4. ~ (tricks' = 0 /\ MaxChildren <= 2)
  <2>1. IsTree => Top.memory[Top.at] \in (vertices \ {Root}) \ Running
    BY <1>1, ChildIsNew
  <2> QED BY <1>1, <2>1 DEF GraphInv
<1> QED BY <1>2, <1>3, <1>4 DEF GraphInv

LEMMA RemoveThrowsKeeps ==
    ASSUME GraphInv, RemoveThrows
    PROVE  GraphInv'
<1>1. /\ Top.memory[Top.at] \in vertices \ known
      /\ frames' = <<>> /\ crashed' = crashed
      /\ known' = known /\ vertices' = vertices /\ attached' = attached /\ out' = out
      /\ removed' = removed /\ tricks' = tricks
  BY DEF RemoveThrows
<1>2. GraphTypeOK'
  BY <1>1 DEF GraphInv, GraphTypeOK
<1>3. EdgesInside'
  BY <1>1 DEF GraphInv, EdgesInside
<1>4. ~ (tricks' = 0 /\ MaxChildren <= 2)
  BY <1>1 DEF GraphInv, IsTree
<1> QED BY <1>2, <1>3, <1>4 DEF GraphInv

\* A list of two edges at most does not grow.
LEMMA WithoutShort ==
    ASSUME NEW list \in Seq(Nodes), NEW n \in Nodes, Len(list) <= 2
    PROVE  Len(Without(list, n)) <= Len(list)
<1> DEFINE w == Without(list, n)
           l == Len(list)
<1>1. l \in Nat /\ DOMAIN list = 1..l
  OBVIOUS
<1>2. w \in Seq(Nodes) /\ \A a, b \in DOMAIN w : a # b =>
          \E i, j \in DOMAIN list : i # j /\ list[i] # n /\ list[j] # n
  <2>1. \A a, b \in DOMAIN Without(list, n) : a # b =>
           \E i, j \in DOMAIN list : /\ i # j /\ list[i] # n /\ list[j] # n
                                     /\ Without(list, n)[a] = list[i]
                                     /\ Without(list, n)[b] = list[j]
    BY WithoutFact
  <2>2. Without(list, n) \in Seq(Nodes)
    BY WithoutFact
  <2>3. \A a, b \in DOMAIN Without(list, n) : a # b =>
           \E i, j \in DOMAIN list : i # j /\ list[i] # n /\ list[j] # n
    <3> TAKE a, b \in DOMAIN Without(list, n)
    <3> HAVE a # b
    <3> QED BY <2>1, SMTT(30)
  <2> QED BY <2>2, <2>3
<1> HIDE DEF w
<1>3. Len(w) \in Nat /\ DOMAIN w = 1..Len(w)
  BY <1>2
<1>4. CASE \A i \in DOMAIN list : list[i] # n
  <2>1. w = list
    BY <1>4, WithoutNone DEF w
  <2> QED BY <1>1, <2>1 DEF w
<1>5. CASE \E i \in DOMAIN list : list[i] = n
  <2>1. PICK h \in DOMAIN list : list[h] = n
    BY <1>5
  <2>2. Len(w) <= 1
    <3>1. SUFFICES ASSUME Len(w) > 1 PROVE FALSE
      BY <1>3
    <3>2. 1 \in DOMAIN w /\ 2 \in DOMAIN w
      BY <1>3, <3>1
    <3>3. PICK i, j \in DOMAIN list : i # j /\ list[i] # n /\ list[j] # n
      BY <1>2, <3>2
    <3>4. h \in {1, 2} /\ i \in {1, 2} /\ j \in {1, 2}
      BY <1>1, <2>1
    <3> QED BY <2>1, <3>3, <3>4
  <2>3. l >= 1
    BY <1>1, <2>1
  <2> QED BY <1>1, <1>3, <2>2, <2>3 DEF w
<1> QED BY <1>4, <1>5

\* The memory behind the edges that moved.
LEMMA MovedFact ==
    ASSUME NEW memory \in Seq(Nodes), NEW kept \in Seq(Nodes)
    PROVE  /\ Moved(memory, kept) \in Seq(Nodes) /\ Len(Moved(memory, kept)) = Len(memory)
           /\ \A i \in 1..Len(memory) :
                 Moved(memory, kept)[i] = IF i <= Len(kept) THEN kept[i] ELSE memory[i]
<1> DEFINE l == Len(memory)
           k == Len(kept)
<1>1. /\ l \in Nat /\ DOMAIN memory = 1..l /\ k \in Nat
      /\ \A i \in 1..l : memory[i] \in Nodes
      /\ \A i \in 1..k : kept[i] \in Nodes
  OBVIOUS
<1>2. Moved(memory, kept) = [i \in 1..l |-> IF i <= k THEN kept[i] ELSE memory[i]]
  BY <1>1 DEF Moved
<1> HIDE DEF l, k
<1>3. \A i \in 1..l : (IF i <= k THEN kept[i] ELSE memory[i]) \in Nodes
  <2> TAKE i \in 1..l
  <2>1. CASE i <= k
    BY <1>1, <2>1
  <2>2. CASE ~ (i <= k)
    BY <1>1, <2>2
  <2> QED BY <2>1, <2>2
<1>4. Moved(memory, kept) \in [1..l -> Nodes]
  BY <1>2, <1>3
<1>5. /\ Moved(memory, kept) \in Seq(Nodes) /\ Len(Moved(memory, kept)) = l
      /\ \A i \in 1..l : Moved(memory, kept)[i] = IF i <= k THEN kept[i] ELSE memory[i]
  BY <1>1, <1>2, <1>4
<1> QED BY <1>5 DEF l, k

\* A call's memory keeps what it has still to read.
LEMMA MovedWalks ==
    ASSUME NEW f \in [node : Nodes, at : Nat, memory : Seq(Nodes)],
           NEW list \in Seq(Nodes), Walks(f, list)
    PROVE  /\ Walks([node |-> f.node, at |-> f.at, memory |-> Moved(f.memory, list)], list)
           /\ f.at <= Len(f.memory) => Moved(f.memory, list)[f.at] = f.memory[f.at]
<1> DEFINE l == Len(f.memory)
           mem == Moved(f.memory, list)
           g == [node |-> f.node, at |-> f.at, memory |-> mem]
<1>1. l \in Nat /\ f.at \in Nat /\ f.memory \in Seq(Nodes) /\ Len(list) \in Nat
  OBVIOUS
<1>2. /\ l <= 2 /\ f.at \in 1..(l + 1) /\ Len(list) = l - f.at + 1
      /\ f.at = 1 => list = f.memory
      /\ f.at = 2 /\ l = 2 => f.memory[2] = list[1]
  BY DEF Walks
<1>3. /\ mem \in Seq(Nodes) /\ Len(mem) = l
      /\ \A i \in 1..l : mem[i] = IF i <= Len(list) THEN list[i] ELSE f.memory[i]
  BY <1>1, MovedFact
<1> HIDE DEF l, mem
<1>4. f.at = 1 => mem = f.memory
  <2> SUFFICES ASSUME f.at = 1 PROVE mem = f.memory
    OBVIOUS
  <2>1. list = f.memory /\ Len(list) = l /\ Len(f.memory) = l
    BY <1>1, <1>2 DEF l
  <2>2. \A i \in 1..l : mem[i] = f.memory[i]
    BY <1>3, <2>1
  <2> QED BY <1>1, <1>3, <2>1, <2>2, SeqEqual
<1>5. f.at = 2 /\ l = 2 => mem[2] = f.memory[2]
  BY <1>2, <1>3
<1>6. f.at <= l => mem[f.at] = f.memory[f.at]
  <2>1. f.at <= l => f.at = 1 \/ (f.at = 2 /\ l = 2)
    BY <1>1, <1>2
  <2> QED BY <1>4, <1>5, <2>1
<1>7. g.at = f.at /\ g.memory = mem
  OBVIOUS
<1> HIDE DEF g
<1>8. Walks(g, list)
  <2>1. Len(g.memory) = l
    BY <1>3, <1>7
  <2>2. g.at = 1 => list = g.memory
    BY <1>2, <1>4, <1>7
  <2>3. g.at = 2 /\ Len(g.memory) = 2 => g.memory[2] = list[1]
    BY <1>2, <1>5, <1>7, <2>1
  <2> QED BY <1>2, <1>7, <2>1, <2>2, <2>3 DEF Walks
<1> QED BY <1>6, <1>8 DEF g, mem, l

\* The call whose first child went reads the next.
LEMMA NextWalks ==
    ASSUME NEW f \in [node : Nodes, at : Nat, memory : Seq(Nodes)],
           NEW list \in Seq(Nodes), Walks(f, list), f.at <= Len(f.memory),
           NEW rest \in Seq(Nodes), Len(rest) = Len(list) - 1,
           Len(list) = 2 => rest[1] = list[2]
    PROVE  Walks([node |-> f.node, at |-> f.at + 1, memory |-> Moved(f.memory, rest)], rest)
<1> DEFINE l == Len(f.memory)
           mem == Moved(f.memory, rest)
           g == [node |-> f.node, at |-> f.at + 1, memory |-> mem]
<1>1. l \in Nat /\ f.at \in Nat /\ f.memory \in Seq(Nodes) /\ Len(list) \in Nat /\ Len(rest) \in Nat
      /\ f.at <= l /\ Len(rest) = Len(list) - 1
  OBVIOUS
<1>2. /\ l <= 2 /\ f.at \in 1..(l + 1) /\ Len(list) = l - f.at + 1
      /\ f.at = 1 => list = f.memory
  BY DEF Walks
<1>3. /\ mem \in Seq(Nodes) /\ Len(mem) = l
      /\ \A i \in 1..l : mem[i] = IF i <= Len(rest) THEN rest[i] ELSE f.memory[i]
  BY <1>1, MovedFact
<1> HIDE DEF l, mem
<1>4. g.at = f.at + 1 /\ g.memory = mem
  OBVIOUS
<1> HIDE DEF g
<1>5. f.at + 1 = 2 /\ l = 2 => mem[2] = rest[1]
  <2> SUFFICES ASSUME f.at + 1 = 2, l = 2 PROVE mem[2] = rest[1]
    OBVIOUS
  <2>1. f.at = 1 /\ Len(list) = 2 /\ list = f.memory /\ Len(rest) = 1
    BY <1>1, <1>2
  <2>2. mem[2] = f.memory[2]
    BY <1>3, <2>1
  <2> QED BY <2>1, <2>2
<1>6. Walks(g, rest)
  <2>1. Len(g.memory) = l /\ g.at \in 1..(l + 1) /\ Len(rest) = l - g.at + 1 /\ g.at # 1
    BY <1>1, <1>2, <1>3, <1>4
  <2>2. g.at = 2 /\ Len(g.memory) = 2 => g.memory[2] = rest[1]
    BY <1>4, <1>5, <2>1
  <2> QED BY <1>2, <2>1, <2>2 DEF Walks
<1> QED BY <1>6 DEF g, mem

\* Edges without a node whose own edges are gone.
LEMMA ClearedFact ==
    ASSUME GraphInv, NEW n \in Nodes
    PROVE  /\ Cleared(n) \in [Nodes -> Seq(Nodes)] /\ Cleared(n)[n] = <<>>
           /\ \A m \in Nodes : m # n => Cleared(n)[m] = Without(out[m], n)
           /\ \A m \in Nodes : ToSet(Cleared(n)[m]) \subseteq vertices \ {n}
           /\ \A m \in Nodes : m \notin vertices => Cleared(n)[m] = <<>>
<1>1. out \in [Nodes -> Seq(Nodes)] /\ <<>> \in Seq(Nodes)
  BY DEF GraphInv, GraphTypeOK
<1>2. \A m \in Nodes : Without(out[m], n) \in Seq(Nodes)
  BY <1>1, WithoutFact
<1>3. /\ Cleared(n) \in [Nodes -> Seq(Nodes)] /\ Cleared(n)[n] = <<>>
      /\ \A m \in Nodes : m # n => Cleared(n)[m] = Without(out[m], n)
  BY <1>1, <1>2 DEF Cleared
<1>4. \A m \in Nodes : ToSet(out[m]) \subseteq vertices /\ (m \notin vertices => out[m] = <<>>)
  BY DEF GraphInv, EdgesInside
<1>5. ASSUME NEW m \in Nodes, m # n PROVE ToSet(Cleared(n)[m]) \subseteq vertices \ {n}
  <2>1. \A a \in DOMAIN Without(out[m], n) :
           \E i \in DOMAIN out[m] : Without(out[m], n)[a] = out[m][i] /\ out[m][i] # n
    BY <1>1, WithoutFact
  <2> QED BY <1>3, <1>4, <1>5, <2>1 DEF ToSet
<1>6. ASSUME NEW m \in Nodes, m # n, m \notin vertices PROVE Cleared(n)[m] = <<>>
  <2>1. out[m] = <<>>
    BY <1>4, <1>6
  <2>2. Without(<<>>, n) = <<>>
    <3>1. <<>> \in Seq(Nodes) /\ \A i \in DOMAIN <<>> : <<>>[i] # n
      OBVIOUS
    <3> QED BY <3>1, WithoutNone
  <2> QED BY <1>3, <1>6, <2>1, <2>2
<1>7. ToSet(Cleared(n)[n]) \subseteq vertices \ {n}
  BY <1>3 DEF ToSet
<1> QED BY <1>3, <1>5, <1>6, <1>7

\* The frames of the calls that go on.
LEMMA VanishFrames ==
    ASSUME GraphInv, Vanish
    PROVE  /\ frames # <<>>
           /\ Top.node \in Nodes
           /\ frames' \in Seq([node : Nodes, at : Nat, memory : Seq(Nodes)])
           /\ Len(frames) - 1 \in Nat /\ DOMAIN frames' = 1..(Len(frames) - 1)
           /\ \A k \in 1..(Len(frames) - 1) :
                 frames'[k] = [node   |-> frames[k].node,
                               at     |-> frames[k].at + (IF k = Len(frames) - 1 THEN 1 ELSE 0),
                               memory |-> Moved(frames[k].memory, Cleared(Top.node)[frames[k].node])]
<1> DEFINE R == [node : Nodes, at : Nat, memory : Seq(Nodes)]
           last == Len(frames) - 1
           n == Top.node
           g(k) == [node   |-> frames[k].node,
                    at     |-> frames[k].at + (IF k = last THEN 1 ELSE 0),
                    memory |-> Moved(frames[k].memory, Cleared(n)[frames[k].node])]
<1>1. frames # <<>> /\ frames' = [k \in 1..last |-> g(k)]
  BY DEF Vanish
<1>2. /\ Len(frames) \in Nat /\ Len(frames) >= 1
      /\ Top \in R
      /\ \A k \in 1..Len(frames) : frames[k] \in R
  BY <1>1, FramesFact
<1>3. n \in Nodes
  BY <1>2
<1>4. last \in Nat /\ \A k \in 1..last : k \in 1..Len(frames)
  BY <1>2
<1>5. \A k \in 1..last : g(k) \in R
  <2> TAKE k \in 1..last
  <2>1. frames[k].node \in Nodes /\ frames[k].at \in Nat /\ frames[k].memory \in Seq(Nodes)
    BY <1>2, <1>4
  <2>2. Cleared(n)[frames[k].node] \in Seq(Nodes)
    BY <1>3, <2>1, ClearedFact
  <2>3. Moved(frames[k].memory, Cleared(n)[frames[k].node]) \in Seq(Nodes)
    BY <2>1, <2>2, MovedFact
  <2>4. frames[k].at + (IF k = last THEN 1 ELSE 0) \in Nat
    BY <2>1
  <2> QED BY <2>1, <2>3, <2>4
<1> HIDE DEF R, g, last
<1>6. frames' \in Seq(R) /\ DOMAIN frames' = 1..last /\ \A k \in 1..last : frames'[k] = g(k)
  <2>1. frames' \in [1..last -> R]
    BY <1>1, <1>5
  <2> QED BY <1>1, <1>4, <2>1
<1> QED BY <1>1, <1>3, <1>4, <1>6 DEF R, g, last

LEMMA VanishKeeps ==
    ASSUME GraphInv, Vanish
    PROVE  GraphInv'
<1> DEFINE n == Top.node
           L == Len(frames)
<1> USE NodesAssumption
<1>1. /\ Top.at > Len(Top.memory)
      /\ vertices' = vertices \ {n} /\ out' = Cleared(n)
      /\ known' = known \ {n} /\ attached' = attached \ {n}
      /\ removed' \in {removed, removed \cup {n}}
      /\ crashed' = crashed /\ tricks' = tricks
  BY DEF Vanish
<1>2. /\ frames # <<>> /\ n \in Nodes /\ DOMAIN frames' = 1..(L - 1)
      /\ frames' \in Seq([node : Nodes, at : Nat, memory : Seq(Nodes)])
  BY VanishFrames
<1>3. /\ L \in Nat /\ L >= 1 /\ DOMAIN frames = 1..L /\ Top = frames[L]
      /\ Top \in [node : Nodes, at : Nat, memory : Seq(Nodes)]
  BY <1>2, FramesFact
<1>4. /\ known \subseteq vertices /\ vertices \subseteq Nodes /\ attached \subseteq Nodes
      /\ removed \subseteq Nodes \ attached /\ out \in [Nodes -> Seq(Nodes)]
      /\ crashed \in BOOLEAN /\ tricks \in 0..MaxTricks
  BY DEF GraphInv, GraphTypeOK
<1>5. /\ out' \in [Nodes -> Seq(Nodes)] /\ out'[n] = <<>>
      /\ \A m \in Nodes : m # n => out'[m] = Without(out[m], n)
      /\ \A m \in Nodes : ToSet(out'[m]) \subseteq vertices'
      /\ \A m \in Nodes : m \notin vertices => out'[m] = <<>>
  BY <1>1, <1>2, ClearedFact
<1> HIDE DEF n, L
<1>6. GraphTypeOK'
  BY <1>1, <1>2, <1>4, <1>5 DEF GraphTypeOK
<1>7. EdgesInside'
  BY <1>1, <1>5 DEF EdgesInside
<1>8. ASSUME tricks' = 0, MaxChildren <= 2 PROVE IsTree'
  <2>1. IsTree
    BY <1>1, <1>8 DEF GraphInv
  <2>2. /\ ~ crashed /\ known = vertices /\ attached = vertices /\ Root \in vertices
        /\ \A m \in Nodes : Len(out[m]) <= MaxChildren
        /\ \A s \in SUBSET vertices : IsClosed(s) => s = vertices
    BY <2>1 DEF IsTree
  <2>3. /\ \A m, p \in Nodes : \A i \in DOMAIN out[m], j \in DOMAIN out[p] :
              out[m][i] = out[p][j] => m = p /\ i = j
        /\ \A m \in Nodes : \A i \in DOMAIN out[m] : out[m][i] # Root
    BY <2>1 DEF IsTree, EachOnce
  <2>4. /\ \A k \in 1..L : frames[k].node \in vertices \ {Root} /\ Walks(frames[k], out[frames[k].node])
        /\ \A k, l \in 1..L : frames[k].node = frames[l].node => k = l
        /\ \A k \in 1..L : k + 1 \in 1..L =>
              frames[k].at <= Len(frames[k].memory) /\ frames[k + 1].node = frames[k].memory[frames[k].at]
    BY <1>3, <2>1 DEF IsTree, CallsNest
  <2>5. L \in 1..L /\ n = frames[L].node /\ n \in vertices \ {Root}
    BY <1>3, <2>4 DEF n
  <2>6. out[n] = <<>>
    <3>1. Walks(Top, out[n]) /\ Top.at \in Nat /\ Len(Top.memory) \in Nat /\ out[n] \in Seq(Nodes)
      BY <1>2, <1>3, <1>4, <2>4, <2>5
    <3>2. Len(out[n]) = 0
      BY <1>1, <3>1 DEF Walks
    <3> QED BY <3>1, <3>2
  <2>7. ASSUME NEW m \in Nodes, NEW a \in DOMAIN out'[m]
        PROVE  \E i \in DOMAIN out[m] : out'[m][a] = out[m][i]
    <3>1. m # n
      BY <1>5, <2>7
    <3>2. out'[m] = Without(out[m], n) /\ out[m] \in Seq(Nodes)
      BY <1>4, <1>5, <3>1
    <3>3. \A b \in DOMAIN Without(out[m], n) :
             \E i \in DOMAIN out[m] : Without(out[m], n)[b] = out[m][i] /\ out[m][i] # n
      BY <1>2, <3>2, WithoutFact
    <3> QED BY <2>7, <3>2, <3>3
  <2>8. ASSUME NEW m \in Nodes, NEW a \in DOMAIN out'[m], NEW b \in DOMAIN out'[m], a # b
        PROVE  out'[m][a] # out'[m][b]
    <3>1. m # n
      BY <1>5, <2>8
    <3>2. out'[m] = Without(out[m], n) /\ out[m] \in Seq(Nodes)
      BY <1>4, <1>5, <3>1
    <3>3. \A c, e \in DOMAIN Without(out[m], n) : c # e =>
             \E i, j \in DOMAIN out[m] : /\ i # j /\ out[m][i] # n /\ out[m][j] # n
                                         /\ Without(out[m], n)[c] = out[m][i]
                                         /\ Without(out[m], n)[e] = out[m][j]
      BY <1>2, <3>2, WithoutFact
    <3>4. PICK i, j \in DOMAIN out[m] : i # j /\ out'[m][a] = out[m][i] /\ out'[m][b] = out[m][j]
      BY <2>8, <3>2, <3>3, SMTT(30)
    <3>5. out[m][i] # out[m][j]
      BY <2>3, <3>4
    <3> QED BY <3>4, <3>5
  <2>9. EachOnce(out')
    <3>1. ASSUME NEW m \in Nodes, NEW p \in Nodes, NEW a \in DOMAIN out'[m], NEW b \in DOMAIN out'[p],
                 out'[m][a] = out'[p][b]
          PROVE  m = p /\ a = b
      <4>1. PICK i \in DOMAIN out[m] : out'[m][a] = out[m][i]
        BY <2>7
      <4>2. PICK j \in DOMAIN out[p] : out'[p][b] = out[p][j]
        BY <2>7
      <4>3. m = p
        BY <2>3, <3>1, <4>1, <4>2
      <4> QED BY <2>8, <3>1, <4>3
    <3>2. ASSUME NEW m \in Nodes, NEW a \in DOMAIN out'[m] PROVE out'[m][a] # Root
      BY <2>3, <2>7
    <3> QED BY <3>1, <3>2 DEF EachOnce
  <2>10. \A m \in Nodes : Len(out'[m]) <= MaxChildren
    <3> TAKE m \in Nodes
    <3>1. Len(out[m]) <= MaxChildren /\ out[m] \in Seq(Nodes) /\ Len(out[m]) \in Nat
      BY <1>4, <2>2
    <3>2. CASE m = n
      BY <1>5, <3>1, <3>2
    <3>3. CASE m # n
      <4>1. Len(out'[m]) <= Len(out[m]) /\ Len(out'[m]) \in Nat
        BY <1>2, <1>5, <1>8, <3>1, <3>3, WithoutShort
      <4> QED BY <3>1, <4>1
    <3> QED BY <3>2, <3>3
  <2>11. ASSUME NEW s \in SUBSET vertices', IsClosed(s)' PROVE s = vertices'
    <3>1. Root \in s /\ \A p \in s : ToSet(out'[p]) \subseteq s
      BY <2>11 DEF IsClosed
    <3>2. ASSUME NEW p \in s \cup {n}, NEW x \in ToSet(out[p]) PROVE x \in s \cup {n}
      <4>1. p # n
        BY <2>6, <3>2 DEF ToSet
      <4>2. p \in Nodes /\ p \in s
        BY <1>1, <1>4, <3>2, <4>1
      <4>3. PICK i \in DOMAIN out[p] : x = out[p][i]
        BY <3>2 DEF ToSet
      <4>4. CASE x = n
        BY <4>4
      <4>5. CASE x # n
        <5>1. \A j \in DOMAIN out[p] : out[p][j] # n =>
                 \E a \in DOMAIN Without(out[p], n) : Without(out[p], n)[a] = out[p][j]
          BY <1>2, <1>4, <4>2, WithoutFact
        <5>2. \E a \in DOMAIN out'[p] : out'[p][a] = x
          BY <1>5, <4>1, <4>2, <4>3, <4>5, <5>1
        <5>3. x \in ToSet(out'[p])
          BY <5>2 DEF ToSet
        <5> QED BY <3>1, <4>2, <5>3
      <4> QED BY <4>4, <4>5
    <3>3. IsClosed(s \cup {n})
      BY <3>1, <3>2 DEF IsClosed
    <3>4. s \cup {n} = vertices
      BY <1>1, <2>2, <2>5, <2>11, <3>3
    <3> QED BY <1>1, <2>11, <3>4
  <2>12. ASSUME NEW k \in 1..(L - 1)
         PROVE  /\ k \in 1..L /\ k + 1 \in 1..L /\ k # L
                /\ frames[k] \in [node : Nodes, at : Nat, memory : Seq(Nodes)]
                /\ frames[k].node \in Nodes /\ frames[k].node # n
                /\ frames[k].at <= Len(frames[k].memory)
                /\ frames[k + 1].node = out[frames[k].node][1]
                /\ 1 \in DOMAIN out[frames[k].node] /\ Len(out[frames[k].node]) \in {1, 2}
                /\ out[frames[k].node] \in Seq(Nodes)
    <3>1. k \in 1..L /\ k + 1 \in 1..L /\ k # L
      BY <1>3
    <3>2. frames[k].at <= Len(frames[k].memory) /\ frames[k + 1].node = frames[k].memory[frames[k].at]
      BY <2>4, <3>1
    <3>3. /\ frames[k].node \in Nodes /\ 1 \in DOMAIN out[frames[k].node]
          /\ Len(out[frames[k].node]) \in {1, 2} /\ out[frames[k].node] \in Seq(Nodes)
          /\ frames[k].memory[frames[k].at] = out[frames[k].node][1]
      BY <1>3, <2>1, <3>1, <3>2, ChildFact
    <3>4. frames[k].node # n
      BY <2>4, <2>5, <3>1
    <3>5. frames[k] \in [node : Nodes, at : Nat, memory : Seq(Nodes)]
      BY <1>2, <3>1, FramesFact DEF L
    <3> QED BY <3>1, <3>2, <3>3, <3>4, <3>5
  <2>13. ASSUME NEW k \in 1..(L - 1), k # L - 1
         PROVE  out'[frames[k].node] = out[frames[k].node]
    <3> DEFINE m == frames[k].node
               p == frames[L - 1].node
    <3>1. L - 1 \in 1..(L - 1) /\ (L - 1) + 1 = L /\ L - 1 \in 1..L /\ k \in 1..L
      BY <1>3
    <3>2. p \in Nodes /\ 1 \in DOMAIN out[p] /\ n = out[p][1]
      <4> DEFINE j == L - 1
      <4>1. j \in 1..(L - 1) /\ j + 1 = L
        BY <3>1
      <4> HIDE DEF j
      <4>2. frames[j].node \in Nodes /\ 1 \in DOMAIN out[frames[j].node]
            /\ frames[j + 1].node = out[frames[j].node][1]
        BY <2>12, <4>1
      <4> QED BY <2>5, <4>1, <4>2 DEF j
    <3>3. m \in Nodes /\ m # n /\ out[m] \in Seq(Nodes)
      BY <2>12
    <3>4. m # p
      BY <2>4, <2>13, <3>1
    <3> HIDE DEF m, p
    <3>5. \A i \in DOMAIN out[m] : out[m][i] # n
      BY <2>3, <3>2, <3>3, <3>4
    <3>6. out'[m] = out[m]
      BY <1>2, <1>5, <3>3, <3>5, WithoutNone
    <3> QED BY <3>6 DEF m
  <2>14. ASSUME NEW k \in 1..(L - 1)
         PROVE  frames'[k] = [node   |-> frames[k].node,
                              at     |-> frames[k].at + (IF k = L - 1 THEN 1 ELSE 0),
                              memory |-> Moved(frames[k].memory, out'[frames[k].node])]
    BY <1>1, VanishFrames DEF L, n
  <2>15. ASSUME NEW k \in 1..(L - 1), k # L - 1
         PROVE  /\ frames'[k].node = frames[k].node /\ frames'[k].at = frames[k].at
                /\ Walks(frames'[k], out'[frames[k].node])
                /\ Len(frames'[k].memory) = Len(frames[k].memory)
                /\ frames'[k].memory[frames'[k].at] = frames[k].memory[frames[k].at]
    <3> DEFINE f == frames[k]
               list == out[f.node]
    <3>1. f \in [node : Nodes, at : Nat, memory : Seq(Nodes)] /\ list \in Seq(Nodes) /\ Walks(f, list)
          /\ f.at <= Len(f.memory)
      BY <2>4, <2>12
    <3>2. frames'[k] = [node |-> f.node, at |-> f.at, memory |-> Moved(f.memory, list)]
      <4>1. f.at + 0 = f.at
        BY <3>1
      <4> QED BY <2>13, <2>14, <2>15, <4>1
    <3>3. out'[f.node] = list
      BY <2>13, <2>15
    <3> HIDE DEF f, list
    <3>4. /\ Walks([node |-> f.node, at |-> f.at, memory |-> Moved(f.memory, list)], list)
          /\ Moved(f.memory, list)[f.at] = f.memory[f.at]
          /\ Len(Moved(f.memory, list)) = Len(f.memory)
      <4>1. f.memory \in Seq(Nodes)
        BY <3>1
      <4> QED BY <3>1, <4>1, MovedWalks, MovedFact
    <3>5. /\ frames'[k].node = f.node /\ frames'[k].at = f.at
          /\ frames'[k].memory = Moved(f.memory, list) /\ Walks(frames'[k], out'[f.node])
      BY <3>2, <3>3, <3>4
    <3> QED BY <3>4, <3>5 DEF f
  <2>16. ASSUME NEW k \in 1..(L - 1), k = L - 1
         PROVE  /\ frames'[k].node = frames[k].node
                /\ Walks(frames'[k], out'[frames[k].node])
    <3> DEFINE f == frames[k]
               list == out[f.node]
               rest == out'[f.node]
    <3>1. f \in [node : Nodes, at : Nat, memory : Seq(Nodes)] /\ list \in Seq(Nodes) /\ Walks(f, list)
          /\ f.at <= Len(f.memory) /\ f.node \in Nodes /\ f.node # n /\ Len(list) \in {1, 2}
      BY <2>4, <2>12
    <3>2. frames'[k] = [node |-> f.node, at |-> f.at + 1, memory |-> Moved(f.memory, rest)]
      BY <2>14, <2>16
    <3>3. list[1] = n
      <4>1. k + 1 = L
        BY <1>3, <2>16
      <4> QED BY <2>5, <2>12, <4>1
    <3>4. Len(list) = 2 => list[2] # list[1]
      <4> SUFFICES ASSUME Len(list) = 2 PROVE list[2] # list[1]
        OBVIOUS
      <4>1. 1 \in DOMAIN list /\ 2 \in DOMAIN list /\ 1 # 2
        BY <3>1
      <4> QED BY <2>3, <3>1, <4>1
    <3>5. rest = Without(list, n) /\ rest \in Seq(Nodes)
      BY <1>5, <3>1
    <3> HIDE DEF f, list, rest
    <3>6. Len(rest) = Len(list) - 1 /\ (Len(list) = 2 => rest[1] = list[2])
      BY <3>1, <3>3, <3>4, <3>5, WithoutFirst
    <3>7. Walks([node |-> f.node, at |-> f.at + 1, memory |-> Moved(f.memory, rest)], rest)
      BY <3>1, <3>5, <3>6, NextWalks
    <3>8. frames'[k].node = f.node /\ Walks(frames'[k], rest)
      BY <3>2, <3>7
    <3> QED BY <3>8 DEF f, rest
  <2>17. CallsNest'
    <3>1. ASSUME NEW k \in 1..(L - 1)
          PROVE  /\ frames'[k].node = frames[k].node
                 /\ frames'[k].node \in vertices' \ {Root}
                 /\ Walks(frames'[k], out'[frames'[k].node])
      <4>1. frames'[k].node = frames[k].node /\ Walks(frames'[k], out'[frames[k].node])
        BY <2>15, <2>16
      <4>2. frames[k].node \in vertices \ {Root} /\ frames[k].node # n
        BY <2>4, <2>12
      <4> QED BY <1>1, <4>1, <4>2
    <3>2. ASSUME NEW k \in 1..(L - 1), NEW l \in 1..(L - 1), frames'[k].node = frames'[l].node
          PROVE  k = l
      <4>1. k \in 1..L /\ l \in 1..L
        BY <2>12
      <4>2. frames[k].node = frames[l].node
        BY <3>1, <3>2
      <4> QED BY <2>4, <4>1, <4>2
    <3>3. ASSUME NEW k \in 1..(L - 1), k + 1 \in 1..(L - 1)
          PROVE  /\ frames'[k].at <= Len(frames'[k].memory)
                 /\ frames'[k + 1].node = frames'[k].memory[frames'[k].at]
      <4>1. k # L - 1
        BY <1>3, <3>3
      <4>2. frames'[k + 1].node = frames[k + 1].node
        BY <3>1, <3>3
      <4>3. frames[k].at <= Len(frames[k].memory) /\ frames[k + 1].node = frames[k].memory[frames[k].at]
        BY <2>4, <2>12
      <4> QED BY <2>15, <4>1, <4>2, <4>3
    <3> QED BY <1>2, <3>1, <3>2, <3>3 DEF CallsNest
  <2> QED BY <1>1, <2>2, <2>5, <2>9, <2>10, <2>11, <2>17 DEF IsTree
<1> QED BY <1>6, <1>7, <1>8 DEF GraphInv

LEMMA GraphStep == GraphInv /\ [GraphNext]_graphVars => GraphInv'
<1> SUFFICES ASSUME GraphInv, [GraphNext]_graphVars PROVE GraphInv'
  OBVIOUS
<1>1. CASE UNCHANGED graphVars
  BY <1>1, GraphStutters
<1>2. ASSUME NEW n \in Nodes, NEW m \in Nodes, InsertChild(m, n) \/ Connect(m, n) PROVE GraphInv'
  BY <1>2, InsertKeeps, ConnectKeeps
<1>3. ASSUME NEW n \in Nodes, Reinsert(n) \/ RemoveNode(n) \/ DropNode(n) PROVE GraphInv'
  BY <1>3, ReinsertKeeps, RemoveKeeps, DropKeeps
<1>4. CASE RemoveChild \/ Crashes \/ RemoveThrows \/ Vanish
  BY <1>4, RemoveChildKeeps, CrashesKeeps, RemoveThrowsKeeps, VanishKeeps
<1> QED BY <1>1, <1>2, <1>3, <1>4 DEF GraphNext

LEMMA GraphInvAlways == GraphSpec => []GraphInv
<1>1. GraphInit => GraphInv
  BY GraphStart
<1>2. GraphInv /\ [GraphNext]_graphVars => GraphInv'
  BY GraphStep
<1> QED BY <1>1, <1>2, PTL DEF GraphSpec

\* Whatever is inserted, connected, inserted again or removed, the root or a
\* node of a cycle included, and wherever a removal stops, every edge joins two
\* vertices of the graph (boost's clear_vertex in Graph::remove).
THEOREM EdgesStayInsideAlways == GraphSpec => [](GraphTypeOK /\ EdgesStayInside)
<1>1. GraphInv => GraphTypeOK /\ EdgesStayInside
  BY DEF GraphInv, EdgesInside, EdgesStayInside
<1> QED BY <1>1, GraphInvAlways, PTL

\* Nodes that are inserted under a parent and removed, two children to a
\* node at most, are a tree at every step of a removal: the removal takes the
\* node's subtree and no other, reads no edge of a vertex that is gone, and no
\* node is left that the root does not reach (Graph::remove).  With a third child
\* the code reads past the edges it keeps, and the theorem is false.
THEOREM TreeStaysWhole ==
    ASSUME MaxChildren <= 2
    PROVE  GraphSpec => []TreeIsWhole
<1>1. GraphInv => TreeIsWhole
  <2> SUFFICES ASSUME GraphInv PROVE TreeIsWhole
    OBVIOUS
  <2>1. GraphTypeOK /\ EdgesStayInside
    BY DEF GraphInv, EdgesInside, EdgesStayInside
  <2>2. tricks = 0 => IsTree
    BY DEF GraphInv
  <2>3. NoOrphan
    BY <2>2 DEF IsTree, NoOrphan
  <2>4. TreeNodesAreInGraph /\ RemoveReturns
    BY <2>2 DEF IsTree, TreeNodesAreInGraph, RemoveReturns
  <2> QED BY <2>1, <2>3, <2>4 DEF TreeIsWhole
<1> QED BY <1>1, GraphInvAlways, PTL
-----------------------------------------------------------------------------
(* Scenes                                                                    *)

NodeRecords == [content : Contents \cup {None}, parent : Addresses \cup {None}, born : Nat]

InTree(a) == tree[a] # None

\* A node is younger than its parent, which is there as long as it is.
TreeIsKnown ==
    /\ inserts \in Nat
    /\ \A a \in Addresses : InTree(a) => tree[a] \in NodeRecords /\ tree[a].born <= inserts
    /\ tree = [a \in Addresses |-> tree[a]]
    /\ tree[TreeRoot] = [content |-> None, parent |-> None, born |-> 0]
    /\ \A a \in Addresses \ {TreeRoot} : InTree(a) =>
          /\ tree[a].parent \in Addresses /\ InTree(tree[a].parent)
          /\ tree[tree[a].parent].born < tree[a].born

\* What the types of records give, once.
LEMMA NodeFact ==
    ASSUME TreeIsKnown
    PROVE  /\ \A a \in Addresses : InTree(a) =>
                 /\ tree[a].content \in Contents \cup {None}
                 /\ tree[a].parent \in Addresses \cup {None} /\ tree[a].born \in Nat
           /\ InTree(TreeRoot) /\ tree[TreeRoot].parent = None /\ tree[TreeRoot].content = None
           /\ tree[TreeRoot].born = 0 /\ TreeRoot \in Addresses /\ None \notin Addresses
<1>1. TreeRoot \in Addresses /\ None \notin Addresses
  BY ScenesAssumption
<1>2. tree[TreeRoot].parent = None /\ tree[TreeRoot].content = None /\ tree[TreeRoot].born = 0
  BY DEF TreeIsKnown
<1>3. \A a \in Addresses : InTree(a) =>
         /\ tree[a].content \in Contents \cup {None}
         /\ tree[a].parent \in Addresses \cup {None} /\ tree[a].born \in Nat
  BY DEF TreeIsKnown, NodeRecords
<1>4. InTree(TreeRoot)
  <2>1. None \notin [content : Contents \cup {None}, parent : Addresses \cup {None}, born : Nat]
    BY ScenesAssumption
  <2>2. [content |-> None, parent |-> None, born |-> 0]
           \in [content : Contents \cup {None}, parent : Addresses \cup {None}, born : Nat]
    OBVIOUS
  <2> QED BY <2>1, <2>2 DEF TreeIsKnown, InTree
<1> QED BY <1>1, <1>2, <1>3, <1>4

\* The nodes above a node are the least set with it that holds its parents.
LEMMA AncestorsFact ==
    ASSUME TreeIsKnown, NEW a \in Addresses
    PROVE  /\ a \in Ancestors(a) /\ Ancestors(a) \in SUBSET Addresses
           /\ HoldsParents(Ancestors(a))
           /\ \A s \in SUBSET Addresses : a \in s /\ HoldsParents(s) => Ancestors(a) \subseteq s
<1>1. a \in Ancestors(a) /\ Ancestors(a) \in SUBSET Addresses
  BY DEF Ancestors
<1>2. HoldsParents(Ancestors(a))
  <2> SUFFICES ASSUME NEW x \in Ancestors(a), tree[x] # None, tree[x].parent # None
               PROVE  tree[x].parent \in Ancestors(a)
    BY DEF HoldsParents
  <2>1. x \in Addresses /\ tree[x].parent \in Addresses
    BY <1>1, NodeFact DEF InTree
  <2>2. \A s \in SUBSET Addresses : a \in s /\ HoldsParents(s) => tree[x].parent \in s
    <3> TAKE s \in SUBSET Addresses
    <3> HAVE a \in s /\ HoldsParents(s)
    <3>1. x \in s
      BY DEF Ancestors
    <3> QED BY <3>1 DEF HoldsParents
  <2> QED BY <2>1, <2>2 DEF Ancestors
<1>3. \A s \in SUBSET Addresses : a \in s /\ HoldsParents(s) => Ancestors(a) \subseteq s
  BY DEF Ancestors
<1> QED BY <1>1, <1>2, <1>3

LEMMA AncestorsAreOlder ==
    ASSUME TreeIsKnown, NEW a \in Addresses, InTree(a)
    PROVE  \A b \in Ancestors(a) : /\ b \in Addresses /\ InTree(b)
                                   /\ tree[b].born \in Nat /\ tree[a].born \in Nat
                                   /\ b = a \/ tree[b].born < tree[a].born
<1> DEFINE older == {b \in Addresses : InTree(b) /\ (b = a \/ tree[b].born < tree[a].born)}
<1>1. HoldsParents(older)
  <2> SUFFICES ASSUME NEW x \in older, tree[x] # None, tree[x].parent # None
               PROVE  tree[x].parent \in older
    BY DEF HoldsParents
  <2>1. x \in Addresses /\ x # TreeRoot /\ InTree(x)
    BY NodeFact
  <2>2. /\ tree[x].parent \in Addresses /\ InTree(tree[x].parent)
        /\ tree[tree[x].parent].born < tree[x].born
    BY <2>1 DEF TreeIsKnown
  <2>3. tree[x].born \in Nat /\ tree[a].born \in Nat /\ tree[tree[x].parent].born \in Nat
    BY <2>1, <2>2, NodeFact
  <2> QED BY <2>2, <2>3
<1>2. a \in older /\ older \in SUBSET Addresses
  OBVIOUS
<1>3. Ancestors(a) \subseteq older
  BY <1>1, <1>2, AncestorsFact
<1>4. \A b \in Addresses : InTree(b) => tree[b].born \in Nat
  BY NodeFact
<1> QED BY <1>3, <1>4

LEMMA AncestorsOfChild ==
    ASSUME TreeIsKnown, NEW a \in Addresses, InTree(a), tree[a].parent \in Addresses
    PROVE  /\ Ancestors(a) = {a} \cup Ancestors(tree[a].parent)
           /\ a \notin Ancestors(tree[a].parent) /\ InTree(tree[a].parent)
<1> DEFINE h == tree[a].parent
           s == {a} \cup Ancestors(h)
<1>1. a # TreeRoot
  BY NodeFact
<1>2. h \in Addresses /\ InTree(h) /\ tree[h].born < tree[a].born
  BY <1>1 DEF TreeIsKnown
<1>3. /\ h \in Ancestors(h) /\ Ancestors(h) \in SUBSET Addresses /\ HoldsParents(Ancestors(h))
      /\ a \in Ancestors(a) /\ Ancestors(a) \in SUBSET Addresses /\ HoldsParents(Ancestors(a))
  BY <1>2, AncestorsFact
<1>4. HoldsParents(s)
  BY <1>3 DEF HoldsParents
<1>5. Ancestors(a) \subseteq s
  <2>1. s \in SUBSET Addresses /\ a \in s
    BY <1>3
  <2> HIDE DEF s
  <2> QED BY <1>4, <2>1, AncestorsFact
<1>6. h \in Ancestors(a)
  <2>1. tree[a] # None /\ h # None
    BY <1>2, NodeFact DEF InTree
  <2> QED BY <1>3, <2>1 DEF HoldsParents
<1>7. Ancestors(h) \subseteq Ancestors(a)
  BY <1>2, <1>3, <1>6, AncestorsFact
<1>8. a \notin Ancestors(h)
  <2> SUFFICES ASSUME a \in Ancestors(h) PROVE FALSE
    OBVIOUS
  <2>1. tree[a].born \in Nat /\ tree[h].born \in Nat /\ (a = h \/ tree[a].born < tree[h].born)
    BY <1>2, AncestorsAreOlder
  <2> QED BY <1>2, <2>1
<1> QED BY <1>2, <1>3, <1>5, <1>7, <1>8

\* What is above a child is what is above its parent, and the parent.
LEMMA ModelOfChild ==
    ASSUME TreeIsKnown, NEW a \in Addresses, InTree(a), tree[a].parent \in Addresses
    PROVE  ModelOf(a) = IF KindAt(tree[a].parent) = "transform" THEN tree[tree[a].parent].content
                                                                ELSE ModelOf(tree[a].parent)
<1> DEFINE h == tree[a].parent
<1>1. /\ Ancestors(a) = {a} \cup Ancestors(h) /\ a \notin Ancestors(h) /\ InTree(h)
      /\ h \in Ancestors(h)
  BY AncestorsOfChild, AncestorsFact
<1>2. CASE KindAt(h) = "transform"
  <2>1. h \in Transforms(a)
    BY <1>1, <1>2 DEF Transforms
  <2>2. \A b \in Transforms(a) : /\ tree[b].born \in Nat /\ tree[h].born \in Nat
                                 /\ b = h \/ tree[b].born < tree[h].born
    <3> TAKE b \in Transforms(a)
    <3>1. b \in Ancestors(h)
      BY <1>1 DEF Transforms
    <3> QED BY <1>1, <3>1, AncestorsAreOlder
  <2>3. LastBorn(tree, Transforms(a)) = h
    <3>1. \A c \in Transforms(a) : tree[c].born <= tree[h].born
      BY <2>2
    <3>2. \A b \in Transforms(a) : (\A c \in Transforms(a) : tree[c].born <= tree[b].born) => b = h
      BY <2>1, <2>2
    <3> QED BY <2>1, <3>1, <3>2 DEF LastBorn
  <2> QED BY <1>2, <2>1, <2>3 DEF ModelOf
<1>3. CASE KindAt(h) # "transform"
  <2>1. Transforms(a) = Transforms(h)
    BY <1>1, <1>3 DEF Transforms
  <2> QED BY <1>3, <2>1 DEF ModelOf
<1> QED BY <1>2, <1>3

LEMMA ModelOfRoot ==
    ASSUME TreeIsKnown PROVE ModelOf(TreeRoot) = None /\ KindAt(TreeRoot) = "group"
<1>1. KindAt(TreeRoot) = "group"
  BY NodeFact DEF KindAt
<1>2. \A b \in Ancestors(TreeRoot) : b = TreeRoot
  <2> TAKE b \in Ancestors(TreeRoot)
  <2>1. b = TreeRoot \/ tree[b].born < tree[TreeRoot].born
    BY NodeFact, AncestorsAreOlder
  <2>2. b \in Addresses /\ tree[b].born \in Nat /\ tree[TreeRoot].born = 0
    BY NodeFact, AncestorsAreOlder
  <2> QED BY <2>1, <2>2
<1>3. Transforms(TreeRoot) = {}
  BY <1>2 DEF Transforms
<1> QED BY <1>1, <1>3 DEF ModelOf

LEMMA AppendIs ==
    ASSUME NEW S, NEW list \in Seq(S), NEW x \in S
    PROVE  Append(list, x) = [i \in 1..(Len(list) + 1) |-> IF i = Len(list) + 1 THEN x ELSE list[i]]
<1> DEFINE n == Len(list)
           q == Append(list, x)
<1>1. n \in Nat /\ list \in [1..n -> S]
  OBVIOUS
<1>2. q \in [1..(n + 1) -> S] /\ q[n + 1] = x /\ \A i \in 1..n : q[i] = list[i]
  <2>1. q \in Seq(S) /\ Len(q) = n + 1
    OBVIOUS
  <2>2. q[n + 1] = x /\ \A i \in 1..n : q[i] = list[i]
    OBVIOUS
  <2> HIDE DEF q
  <2>3. q \in [1..Len(q) -> S]
    BY <2>1
  <2> QED BY <2>1, <2>2, <2>3
<1>3. q = [i \in 1..(n + 1) |-> q[i]]
  BY <1>2
<1>4. \A i \in 1..(n + 1) : (IF i = n + 1 THEN x ELSE list[i]) = q[i]
  <2> TAKE i \in 1..(n + 1)
  <2>1. i = n + 1 \/ i \in 1..n
    BY <1>1
  <2> HIDE DEF q
  <2> QED BY <1>2, <2>1
<1> HIDE DEF q, n
<1> QED BY <1>3, <1>4 DEF n, q

\* The nodes of a kind among a list of nodes.
PathOf(p, kind) == FlattenSeq([i \in DOMAIN p |-> IF KindAt(p[i]) = kind THEN <<p[i]>> ELSE <<>>])

LEMMA PathOfAppend ==
    ASSUME NEW p \in Seq(Addresses), NEW a \in Addresses, NEW kind
    PROVE  /\ PathOf(p, kind) \in Seq(Addresses)
           /\ PathOf(Append(p, a), kind) = IF KindAt(a) = kind THEN Append(PathOf(p, kind), a)
                                                               ELSE PathOf(p, kind)
<1> DEFINE ss == [i \in DOMAIN p |-> IF KindAt(p[i]) = kind THEN <<p[i]>> ELSE <<>>]
           q == Append(p, a)
           tt == [i \in DOMAIN q |-> IF KindAt(q[i]) = kind THEN <<q[i]>> ELSE <<>>]
           x == IF KindAt(a) = kind THEN <<a>> ELSE <<>>
<1>1. /\ DOMAIN p = 1..Len(p) /\ Len(p) \in Nat /\ \A i \in 1..Len(p) : p[i] \in Addresses /\ q[i] = p[i]
      /\ DOMAIN q = 1..(Len(p) + 1) /\ q[Len(p) + 1] = a
  OBVIOUS
<1>2. \A b \in Addresses : <<b>> \in Seq(Addresses)
  OBVIOUS
<1>3. <<>> \in Seq(Addresses)
  OBVIOUS
<1>4. ss \in [1..Len(p) -> Seq(Addresses)] /\ x \in Seq(Addresses)
  BY <1>1, <1>2, <1>3
<1>5. ss \in Seq(Seq(Addresses)) /\ Len(ss) = Len(p)
  <2> HIDE DEF ss
  <2> QED BY <1>1, <1>4
<1> HIDE DEF q
<1>6. tt = Append(ss, x)
  <2>1. DOMAIN tt = 1..(Len(p) + 1) /\ tt[Len(p) + 1] = x
    BY <1>1
  <2>2. \A i \in 1..Len(p) : tt[i] = ss[i]
    BY <1>1
  <2>3. tt = [i \in 1..(Len(p) + 1) |-> tt[i]]
    BY <2>1
  <2>4. ss \in Seq(Seq(Addresses)) /\ Len(ss) = Len(p) /\ x \in Seq(Addresses)
    BY <1>4, <1>5
  <2> HIDE DEF tt, ss, x
  <2>5. Append(ss, x) = [i \in 1..(Len(p) + 1) |-> IF i = Len(p) + 1 THEN x ELSE ss[i]]
    BY <2>4, AppendIs
  <2>6. \A i \in 1..(Len(p) + 1) : tt[i] = IF i = Len(p) + 1 THEN x ELSE ss[i]
    <3> TAKE i \in 1..(Len(p) + 1)
    <3>1. i = Len(p) + 1 \/ i \in 1..Len(p)
      BY <1>1
    <3> QED BY <2>1, <2>2, <3>1
  <2> QED BY <2>3, <2>5, <2>6
<1>7. PathOf(p, kind) = FlattenSeq(ss) /\ PathOf(q, kind) = FlattenSeq(tt)
  BY DEF PathOf
<1> HIDE DEF ss, tt
<1>8. PathOf(p, kind) \in Seq(Addresses) /\ PathOf(q, kind) = PathOf(p, kind) \o x
  BY <1>4, <1>5, <1>6, <1>7, FlattenType, FlattenAppend
<1>9. PathOf(q, kind) = IF KindAt(a) = kind THEN Append(PathOf(p, kind), a) ELSE PathOf(p, kind)
  <2> DEFINE r == PathOf(p, kind)
  <2>1. r \in Seq(Addresses)
    BY <1>8
  <2> HIDE DEF r
  <2>2. r \o <<a>> = Append(r, a) /\ r \o <<>> = r
    BY <2>1
  <2> QED BY <1>8, <2>2 DEF r
<1> QED BY <1>8, <1>9 DEF q

\* A way down the tree.
IsPath(p) ==
    /\ p \in Seq(Addresses) /\ Len(p) > 0 /\ p[1] = TreeRoot
    /\ \A i \in 2..Len(p) : InTree(p[i]) /\ tree[p[i]].parent = p[i - 1]

\* The model of the innermost transform of a way.
LastModel(p) ==
    IF PathOf(p, "transform") = <<>> THEN None ELSE tree[Last(PathOf(p, "transform"))].content

LEMMA LastModelAppend ==
    ASSUME NEW p \in Seq(Addresses), NEW a \in Addresses
    PROVE  LastModel(Append(p, a)) = IF KindAt(a) = "transform" THEN tree[a].content ELSE LastModel(p)
<1> DEFINE r == PathOf(p, "transform")
<1>1. /\ r \in Seq(Addresses)
      /\ PathOf(Append(p, a), "transform") = IF KindAt(a) = "transform" THEN Append(r, a) ELSE r
  BY PathOfAppend
<1>2. Append(r, a) # <<>> /\ Last(Append(r, a)) = a
  <2> HIDE DEF r
  <2> QED BY <1>1 DEF Last
<1> QED BY <1>1, <1>2 DEF LastModel

\* On a way down the tree, the innermost transform is the youngest of those above.
LEMMA PathModel ==
    ASSUME TreeIsKnown, NEW p, IsPath(p)
    PROVE  LastModel(p) = IF KindAt(Last(p)) = "transform" THEN tree[Last(p)].content ELSE ModelOf(Last(p))
<1> DEFINE q(n) == SubSeq(p, 1, n)
           Holds(n) == LastModel(q(n)) = IF KindAt(p[n]) = "transform" THEN tree[p[n]].content ELSE ModelOf(p[n])
           T == {n \in 1..Len(p) : ~ Holds(n)}
<1>1. /\ p \in Seq(Addresses) /\ Len(p) \in Nat /\ Len(p) > 0 /\ p[1] = TreeRoot
      /\ \A i \in 1..Len(p) : p[i] \in Addresses
      /\ \A i \in 2..Len(p) : InTree(p[i]) /\ tree[p[i]].parent = p[i - 1]
  BY DEF IsPath
<1>2. \A n \in 1..Len(p) : q(n) \in Seq(Addresses)
  BY <1>1
<1>3. Holds(1)
  <2>1. q(1) = Append(<<>>, TreeRoot) /\ <<>> \in Seq(Addresses) /\ TreeRoot \in Addresses
    <3>1. TreeRoot \in Addresses /\ <<>> \in Seq(Addresses) /\ Len(<<>>) = 0
      BY NodeFact
    <3>2. q(1) \in Seq(Addresses) /\ Len(q(1)) = 1 /\ q(1)[1] = TreeRoot
      BY <1>1
    <3> HIDE DEF q
    <3>3. DOMAIN q(1) = 1..1 /\ q(1) = [i \in 1..1 |-> q(1)[i]]
      BY <3>2
    <3> QED BY <3>1, <3>2, <3>3, AppendIs
  <2>2. LastModel(<<>>) = None
    <3>1. PathOf(<<>>, "transform") = FlattenSeq(<<>>)
      BY DEF PathOf
    <3> QED BY <3>1, FlattenEmpty DEF LastModel
  <2>3. LastModel(q(1)) = None
    <3>1. LastModel(Append(<<>>, TreeRoot)) = IF KindAt(TreeRoot) = "transform" THEN tree[TreeRoot].content
                                              ELSE LastModel(<<>>)
      BY <2>1, LastModelAppend
    <3> QED BY <2>1, <2>2, <3>1, ModelOfRoot
  <2> QED BY <1>1, <2>3, ModelOfRoot
<1>4. ASSUME NEW n \in 1..Len(p), n + 1 \in 1..Len(p), Holds(n) PROVE Holds(n + 1)
  <2>1. /\ p[n] \in Addresses /\ p[n + 1] \in Addresses /\ InTree(p[n + 1])
        /\ tree[p[n + 1]].parent = p[n]
    BY <1>1, <1>4
  <2>2. q(n + 1) = Append(q(n), p[n + 1])
    BY <1>1, <1>4
  <2>3. q(n) \in Seq(Addresses)
    BY <1>2
  <2> HIDE DEF q
  <2>4. LastModel(q(n + 1)) = IF KindAt(p[n + 1]) = "transform" THEN tree[p[n + 1]].content ELSE LastModel(q(n))
    BY <2>1, <2>2, <2>3, LastModelAppend
  <2>5. LastModel(q(n)) = ModelOf(p[n + 1])
    BY <1>4, <2>1, ModelOfChild
  <2> QED BY <2>4, <2>5
<1>5. \A n \in 1..Len(p) : Holds(n)
  <2> HIDE DEF Holds
  <2> SUFFICES ASSUME T # {} PROVE FALSE
    OBVIOUS
  <2>1. T \in SUBSET Nat
    BY <1>1
  <2>2. PICK n \in T : \A m \in T : n <= m
    BY <2>1, LeastFact
  <2>3. n \in 1..Len(p) /\ ~ Holds(n) /\ n # 1
    BY <1>3
  <2>4. n - 1 \in 1..Len(p) /\ n - 1 \notin T /\ (n - 1) + 1 = n
    BY <1>1, <2>2, <2>3
  <2>5. Holds(n - 1)
    BY <2>4
  <2> QED BY <1>4, <2>3, <2>4, <2>5
<1>6. q(Len(p)) = p /\ Last(p) = p[Len(p)]
  BY <1>1 DEF Last
<1>7. Holds(Len(p))
  BY <1>1, <1>5
<1> QED BY <1>6, <1>7

\* So what is pushed for a child is what is above it in the tree.
LEMMA ChildModel ==
    ASSUME TreeIsKnown, NEW p, IsPath(p), NEW a \in Addresses, InTree(a), tree[a].parent = Last(p)
    PROVE  ModelOf(a) = LastModel(p)
<1>1. Last(p) \in Addresses
  BY DEF IsPath, Last
<1> QED BY <1>1, PathModel, ModelOfChild

IsLightNode(a) == InTree(a) /\ KindAt(a) = "light"
Alone(a) == ~ (\E b \in Addresses \ {a} : tree[b] # None /\ tree[b].content = tree[a].content)

\* While the tree stays, all that is read from it does.
LEMMA SameTree ==
    ASSUME tree' = tree
    PROVE  /\ \A a : /\ InTree(a)' <=> InTree(a)
                     /\ KindAt(a)' = KindAt(a)
                     /\ ModelOf(a)' = ModelOf(a)
                     /\ Alone(a)' <=> Alone(a)
           /\ \A p : IsPath(p)' <=> IsPath(p)
           /\ \A p, kind : PathOf(p, kind)' = PathOf(p, kind)
<1>1. \A a : (InTree(a)' <=> InTree(a)) /\ KindAt(a)' = KindAt(a) /\ (Alone(a)' <=> Alone(a))
  BY DEF InTree, KindAt, Alone
<1>2. \A s : HoldsParents(s)' <=> HoldsParents(s)
  BY DEF HoldsParents
<1>3. \A a : Ancestors(a)' = Ancestors(a)
  BY <1>2 DEF Ancestors
<1>4. \A a : Transforms(a)' = Transforms(a)
  BY <1>1, <1>3 DEF Transforms
<1>5. \A a : ModelOf(a)' = ModelOf(a)
  BY <1>4 DEF ModelOf
<1>6. \A p : IsPath(p)' <=> IsPath(p)
  BY <1>1 DEF IsPath
<1>7. \A p, kind : PathOf(p, kind)' = PathOf(p, kind)
  <2> TAKE p, kind
  <2> DEFINE ss == [i \in DOMAIN p |-> IF KindAt(p[i]) = kind THEN <<p[i]>> ELSE <<>>]
             tt == [i \in DOMAIN p |-> IF KindAt(p[i])' = kind THEN <<p[i]>> ELSE <<>>]
  <2>1. ss = tt
    BY <1>1
  <2>2. PathOf(p, kind) = FlattenSeq(ss) /\ PathOf(p, kind)' = FlattenSeq(tt)
    BY DEF PathOf
  <2> HIDE DEF ss, tt
  <2> QED BY <2>1, <2>2
<1> QED BY <1>1, <1>5, <1>6, <1>7

-----------------------------------------------------------------------------
(* The lists of a walk                                                       *)

\* A list of whatever there is in it.
IsList(p) == p \in Seq({p[i] : i \in DOMAIN p})

LEMMA ListFact ==
    ASSUME NEW p, IsList(p)
    PROVE  /\ Len(p) \in Nat
           /\ \A e : IsList(Append(p, e)) /\ Len(Append(p, e)) = Len(p) + 1
           /\ Len(p) > 0 => IsList(Front(p)) /\ Len(Front(p)) = Len(p) - 1
<1>1. Len(p) \in Nat /\ DOMAIN p = 1..Len(p)
  BY DEF IsList
<1>2. ASSUME NEW S, NEW q \in Seq(S) PROVE IsList(q)
  <2>1. Len(q) \in Nat /\ DOMAIN q = 1..Len(q) /\ q = [i \in 1..Len(q) |-> q[i]]
    BY <1>2
  <2> DEFINE R == {q[i] : i \in DOMAIN q}
  <2>2. \A i \in 1..Len(q) : q[i] \in R
    BY <2>1
  <2> HIDE DEF R
  <2>3. q \in [1..Len(q) -> R]
    BY <2>1, <2>2
  <2>4. q \in Seq(R)
    BY <2>1, <2>3
  <2> QED BY <2>4 DEF R, IsList
<1>3. ASSUME NEW e PROVE IsList(Append(p, e)) /\ Len(Append(p, e)) = Len(p) + 1
  <2> DEFINE S == {p[i] : i \in DOMAIN p} \cup {e}
  <2>1. p \in Seq(S) /\ e \in S
    BY DEF IsList
  <2> HIDE DEF S
  <2>2. Append(p, e) \in Seq(S) /\ Len(Append(p, e)) = Len(p) + 1
    BY <2>1
  <2> QED BY <1>2, <2>2
<1>4. ASSUME Len(p) > 0 PROVE IsList(Front(p)) /\ Len(Front(p)) = Len(p) - 1
  <2> DEFINE S == {p[i] : i \in DOMAIN p}
  <2>1. p \in Seq(S)
    BY DEF IsList
  <2> HIDE DEF S
  <2>2. SubSeq(p, 1, Len(p) - 1) \in Seq(S) /\ Len(SubSeq(p, 1, Len(p) - 1)) = Len(p) - 1
    BY <1>1, <1>4, <2>1
  <2> QED BY <1>2, <2>2 DEF Front
<1> QED BY <1>1, <1>3, <1>4

LEMMA FrontIs ==
    ASSUME NEW S, NEW p \in Seq(S), Len(p) > 0
    PROVE  /\ Front(p) \in Seq(S) /\ Last(p) \in S /\ p = Append(Front(p), Last(p))
           /\ Len(Front(p)) = Len(p) - 1 /\ \A i \in 1..(Len(p) - 1) : Front(p)[i] = p[i]
<1> DEFINE f == SubSeq(p, 1, Len(p) - 1)
           e == p[Len(p)]
<1>1. Len(p) \in Nat /\ e \in S /\ p = [i \in 1..Len(p) |-> p[i]]
  OBVIOUS
<1>2. f \in Seq(S) /\ Len(f) = Len(p) - 1 /\ \A i \in 1..(Len(p) - 1) : f[i] = p[i]
  BY <1>1
<1>3. Front(p) = f /\ Last(p) = e
  BY DEF Front, Last
<1> HIDE DEF f, e
<1>4. Append(f, e) = [i \in 1..(Len(f) + 1) |-> IF i = Len(f) + 1 THEN e ELSE f[i]]
  <2>1. f \in Seq(S) /\ e \in S
    BY <1>1, <1>2 DEF e
  <2> QED BY ONLY <2>1, AppendIs
<1>5. Len(f) + 1 = Len(p)
  BY <1>1, <1>2
<1>6. \A i \in 1..Len(p) : p[i] = IF i = Len(p) THEN e ELSE f[i]
  <2> TAKE i \in 1..Len(p)
  <2>1. i = Len(p) \/ i \in 1..(Len(p) - 1)
    BY <1>1
  <2> QED BY <1>2, <2>1 DEF e
<1>7. p = Append(f, e)
  BY <1>1, <1>4, <1>5, <1>6
<1> QED BY <1>1, <1>2, <1>3, <1>7

LEMMA LastOfAppend ==
    ASSUME NEW S, NEW p \in Seq(S), NEW x \in S
    PROVE  /\ Append(p, x) \in Seq(S) /\ Len(Append(p, x)) = Len(p) + 1 /\ Last(Append(p, x)) = x
           /\ Len(p) \in Nat /\ \A i \in 1..Len(p) : Append(p, x)[i] = p[i]
           /\ Front(Append(p, x)) = p /\ Append(p, x) # <<>>
<1> DEFINE q == Append(p, x)
<1>1. q \in Seq(S) /\ Len(q) = Len(p) + 1 /\ q[Len(p) + 1] = x /\ Len(p) \in Nat /\ q # <<>>
  OBVIOUS
<1>2. \A i \in 1..Len(p) : q[i] = p[i]
  OBVIOUS
<1>3. p = [i \in 1..Len(p) |-> p[i]]
  OBVIOUS
<1> HIDE DEF q
<1>4. /\ Front(q) \in Seq(S) /\ Len(Front(q)) = Len(q) - 1
      /\ \A i \in 1..(Len(q) - 1) : Front(q)[i] = q[i]
  <2>1. Len(q) > 0
    BY <1>1
  <2> QED BY <1>1, <2>1, FrontIs
<1>5. Front(q) = p
  <2> DEFINE f == Front(q)
  <2>1. Len(f) = Len(p) /\ \A i \in 1..Len(p) : f[i] = q[i]
    <3>1. Len(q) - 1 = Len(p)
      BY <1>1
    <3> QED BY <1>4, <3>1
  <2> HIDE DEF f
  <2>2. f = [i \in 1..Len(f) |-> f[i]]
    <3>1. f \in Seq(S)
      BY <1>4 DEF f
    <3> QED BY <3>1
  <2> QED BY <1>2, <1>3, <2>1, <2>2 DEF f
<1>6. Last(q) = x
  BY <1>1 DEF Last
<1> QED BY <1>1, <1>2, <1>5, <1>6 DEF q

LEMMA LongerPath ==
    ASSUME NEW p, IsPath(p), NEW a \in Addresses, InTree(a), tree[a].parent = Last(p)
    PROVE  IsPath(Append(p, a))
<1> DEFINE q == Append(p, a)
<1>1. p \in Seq(Addresses) /\ Len(p) > 0 /\ p[1] = TreeRoot /\ Len(p) \in Nat
  BY DEF IsPath
<1>2. /\ q \in Seq(Addresses) /\ Len(q) = Len(p) + 1 /\ Last(q) = a
      /\ \A i \in 1..Len(p) : q[i] = p[i]
  BY <1>1, LastOfAppend
<1> HIDE DEF q
<1>3. q[1] = TreeRoot /\ Len(q) > 0
  BY <1>1, <1>2
<1>4. ASSUME NEW i \in 2..Len(q) PROVE InTree(q[i]) /\ tree[q[i]].parent = q[i - 1]
  <2>1. CASE i = Len(p) + 1
    <3>1. q[i] = a /\ q[i - 1] = Last(p)
      BY <1>1, <1>2, <2>1 DEF Last
    <3> QED BY <3>1
  <2>2. CASE i \in 2..Len(p)
    <3>1. i \in 1..Len(p) /\ i - 1 \in 1..Len(p)
      BY <1>1, <2>2
    <3>2. q[i] = p[i] /\ q[i - 1] = p[i - 1]
      BY <1>2, <3>1
    <3> QED BY <2>2, <3>2 DEF IsPath
  <2> QED BY <1>1, <1>2, <1>4, <2>1, <2>2
<1> QED BY <1>2, <1>3, <1>4 DEF IsPath, q

LEMMA ShorterPath ==
    ASSUME TreeIsKnown, NEW p, IsPath(p)
    PROVE  /\ p \in Seq(Addresses) /\ Len(p) \in Nat /\ Len(p) > 0 /\ Last(p) \in Addresses
           /\ InTree(Last(p))
           /\ Last(p) = TreeRoot => Len(p) = 1
           /\ Last(p) # TreeRoot => IsPath(Front(p)) /\ tree[Last(p)].parent = Last(Front(p))
<1>1. p \in Seq(Addresses) /\ Len(p) \in Nat /\ Len(p) > 0 /\ p[1] = TreeRoot /\ Last(p) = p[Len(p)]
  BY DEF IsPath, Last
<1>2. Last(p) \in Addresses /\ \A i \in 1..Len(p) : p[i] \in Addresses
  BY <1>1
<1>0. \A n \in Nat : n > 0 /\ n # 1 => n \in 2..n /\ n - 1 \in 1..n
  OBVIOUS
<1>3. Len(p) # 1 => InTree(Last(p)) /\ tree[Last(p)].parent = p[Len(p) - 1]
  <2> HAVE Len(p) # 1
  <2>1. Len(p) \in 2..Len(p)
    BY <1>0, <1>1
  <2> QED BY <1>1, <2>1 DEF IsPath
<1>4. Last(p) = TreeRoot => Len(p) = 1
  <2> SUFFICES ASSUME Last(p) = TreeRoot, Len(p) # 1 PROVE FALSE
    OBVIOUS
  <2>1. Len(p) - 1 \in 1..Len(p)
    BY <1>0, <1>1
  <2>2. tree[TreeRoot].parent \in Addresses
    BY <1>2, <1>3, <2>1
  <2> QED BY <2>2, NodeFact
<1>5. ASSUME Last(p) # TreeRoot PROVE IsPath(Front(p)) /\ tree[Last(p)].parent = Last(Front(p))
  <2> DEFINE f == Front(p)
  <2>1. Len(p) # 1
    BY <1>1, <1>5
  <2>2. f \in Seq(Addresses) /\ Len(f) = Len(p) - 1 /\ \A i \in 1..(Len(p) - 1) : f[i] = p[i]
    BY <1>1, FrontIs
  <2> HIDE DEF f
  <2>3. Len(f) > 0 /\ f[1] = TreeRoot /\ Last(f) = p[Len(p) - 1]
    BY <1>1, <2>1, <2>2 DEF Last
  <2>4. ASSUME NEW i \in 2..Len(f) PROVE InTree(f[i]) /\ tree[f[i]].parent = f[i - 1]
    <3>1. i \in 2..Len(p) /\ i \in 1..(Len(p) - 1) /\ i - 1 \in 1..(Len(p) - 1)
      BY <1>1, <2>2, <2>4
    <3>2. InTree(p[i]) /\ tree[p[i]].parent = p[i - 1]
      BY <3>1 DEF IsPath
    <3> QED BY <2>2, <3>1, <3>2
  <2> QED BY <1>3, <2>1, <2>2, <2>3, <2>4 DEF IsPath, f
<1>6. InTree(Last(p))
  BY <1>1, <1>3, NodeFact
<1> QED BY <1>1, <1>2, <1>4, <1>5, <1>6

\* The models that were pushed on a way, below them that of the empty state.
Pushed(p, models) ==
    /\ models \in Seq(Contents \cup {None}) /\ Len(models) > 0 /\ models[1] = None
    /\ Len(models) = Len(PathOf(p, "transform")) + 1
    /\ \A i \in 1..Len(PathOf(p, "transform")) : models[i + 1] = tree[PathOf(p, "transform")[i]].content

\* The guards that are held on a way.
Held(p) == Len(PathOf(p, "material")) + Len(PathOf(p, "bindable"))

LEMMA HeldFact ==
    ASSUME NEW p \in Seq(Addresses), NEW a \in Addresses
    PROVE  /\ Held(p) \in Nat /\ Held(Append(p, a)) \in Nat
           /\ KindAt(a) \in {"material", "bindable"} => Held(Append(p, a)) = Held(p) + 1
           /\ KindAt(a) \notin {"material", "bindable"} => Held(Append(p, a)) = Held(p)
<1> DEFINE m == PathOf(p, "material")
           b == PathOf(p, "bindable")
<1>1. /\ m \in Seq(Addresses) /\ b \in Seq(Addresses)
      /\ PathOf(Append(p, a), "material") = IF KindAt(a) = "material" THEN Append(m, a) ELSE m
      /\ PathOf(Append(p, a), "bindable") = IF KindAt(a) = "bindable" THEN Append(b, a) ELSE b
  BY PathOfAppend
<1> HIDE DEF m, b
<1>2. /\ Len(m) \in Nat /\ Len(Append(m, a)) = Len(m) + 1
      /\ Len(b) \in Nat /\ Len(Append(b, a)) = Len(b) + 1
  BY <1>1
<1>3. Held(p) = Len(m) + Len(b)
  BY DEF Held, m, b
<1>4. KindAt(a) = "material" => Held(Append(p, a)) = (Len(m) + 1) + Len(b)
  BY <1>1, <1>2 DEF Held
<1>5. KindAt(a) = "bindable" => Held(Append(p, a)) = Len(m) + (Len(b) + 1)
  BY <1>1, <1>2 DEF Held
<1>6. KindAt(a) \notin {"material", "bindable"} => Held(Append(p, a)) = Len(m) + Len(b)
  BY <1>1, <1>2 DEF Held
<1> HIDE DEF Held
<1> QED BY <1>2, <1>3, <1>4, <1>5, <1>6

LEMMA PushFact ==
    ASSUME NEW p \in Seq(Addresses), NEW a \in Addresses, tree[a].content \in Contents \cup {None},
           NEW models, Pushed(p, models)
    PROVE  /\ KindAt(a) = "transform" => Pushed(Append(p, a), Append(models, tree[a].content))
           /\ KindAt(a) # "transform" => Pushed(Append(p, a), models)
<1> DEFINE r == PathOf(p, "transform")
           x == tree[a].content
           longer == Append(models, x)
           s == Append(r, a)
<1>1. /\ r \in Seq(Addresses)
      /\ PathOf(Append(p, a), "transform") = IF KindAt(a) = "transform" THEN s ELSE r
  BY PathOfAppend
<1>2. /\ models \in Seq(Contents \cup {None}) /\ Len(models) > 0 /\ models[1] = None
      /\ Len(models) = Len(r) + 1 /\ \A i \in 1..Len(r) : models[i + 1] = tree[r[i]].content
  BY DEF Pushed
<1> HIDE DEF r
<1>3. /\ s \in Seq(Addresses) /\ Len(s) = Len(r) + 1 /\ Last(s) = a
      /\ Len(r) \in Nat /\ \A i \in 1..Len(r) : s[i] = r[i]
  BY <1>1, LastOfAppend
<1>4. /\ longer \in Seq(Contents \cup {None}) /\ Len(longer) = Len(models) + 1 /\ Last(longer) = x
      /\ Len(models) \in Nat /\ \A i \in 1..Len(models) : longer[i] = models[i]
  BY <1>2, LastOfAppend
<1> HIDE DEF s, longer
<1>5. CASE KindAt(a) = "transform"
  <2>1. \A i \in 1..Len(s) : longer[i + 1] = tree[s[i]].content
    <3> TAKE i \in 1..Len(s)
    <3>1. CASE i = Len(s)
      <4>1. s[i] = a /\ longer[i + 1] = x
        BY <1>2, <1>3, <1>4, <3>1 DEF Last
      <4> QED BY <4>1
    <3>2. CASE i \in 1..Len(r)
      <4>1. i + 1 \in 1..Len(models)
        BY <1>2, <1>3, <3>2
      <4> QED BY <1>2, <1>3, <1>4, <3>2, <4>1
    <3> QED BY <1>3, <3>1, <3>2
  <2>2. longer[1] = None /\ Len(longer) > 0 /\ Len(longer) = Len(s) + 1
    BY <1>2, <1>3, <1>4
  <2> QED BY <1>1, <1>4, <1>5, <2>1, <2>2 DEF Pushed, longer
<1>6. CASE KindAt(a) # "transform"
  BY <1>1, <1>2, <1>6 DEF Pushed
<1> QED BY <1>5, <1>6

LEMMA PopFact ==
    ASSUME NEW p \in Seq(Addresses), NEW a \in Addresses, NEW models, Pushed(Append(p, a), models)
    PROVE  /\ KindAt(a) = "transform" => Pushed(p, Front(models))
           /\ KindAt(a) # "transform" => Pushed(p, models)
<1> DEFINE r == PathOf(p, "transform")
           s == Append(r, a)
           f == Front(models)
<1>1. /\ r \in Seq(Addresses)
      /\ PathOf(Append(p, a), "transform") = IF KindAt(a) = "transform" THEN s ELSE r
  BY PathOfAppend
<1>5. CASE KindAt(a) = "transform"
  <2>1. /\ models \in Seq(Contents \cup {None}) /\ Len(models) > 0 /\ models[1] = None
        /\ Len(models) = Len(s) + 1 /\ \A i \in 1..Len(s) : models[i + 1] = tree[s[i]].content
    BY <1>1, <1>5 DEF Pushed
  <2> HIDE DEF r
  <2>2. Len(s) = Len(r) + 1 /\ Len(r) \in Nat /\ \A i \in 1..Len(r) : s[i] = r[i]
    BY <1>1, LastOfAppend
  <2>3. /\ f \in Seq(Contents \cup {None}) /\ Len(f) = Len(models) - 1
        /\ \A i \in 1..(Len(models) - 1) : f[i] = models[i]
    BY <2>1, FrontIs
  <2> HIDE DEF f, s
  <2>4. Len(f) = Len(r) + 1 /\ Len(f) > 0 /\ f[1] = None
    BY <2>1, <2>2, <2>3
  <2>5. \A i \in 1..Len(r) : f[i + 1] = tree[r[i]].content
    <3> TAKE i \in 1..Len(r)
    <3>1. i + 1 \in 1..(Len(models) - 1) /\ i \in 1..Len(s)
      BY <2>1, <2>2
    <3> QED BY <2>1, <2>2, <2>3, <3>1
  <2> QED BY <1>5, <2>3, <2>4, <2>5 DEF Pushed, r, f
<1>6. CASE KindAt(a) # "transform"
  BY <1>1, <1>6 DEF Pushed
<1> QED BY <1>5, <1>6

LEMMA InnermostFact ==
    ASSUME NEW p, NEW models, Pushed(p, models), PathOf(p, "transform") \in Seq(Addresses)
    PROVE  Last(models) = LastModel(p)
<1> DEFINE r == PathOf(p, "transform")
<1>1. r \in Seq(Addresses) /\ Len(r) \in Nat
  OBVIOUS
<1>2. /\ models[1] = None /\ Len(models) = Len(r) + 1
      /\ \A i \in 1..Len(r) : models[i + 1] = tree[r[i]].content
  BY DEF Pushed
<1>3. LastModel(p) = IF r = <<>> THEN None ELSE tree[Last(r)].content
  BY DEF LastModel
<1>4. Len(r) = 0 <=> r = <<>>
  BY <1>1
<1> HIDE DEF r
<1>5. CASE Len(r) = 0
  BY <1>2, <1>3, <1>4, <1>5 DEF Last
<1>6. CASE Len(r) # 0
  <2>1. Len(r) \in 1..Len(r) /\ Last(r) = r[Len(r)] /\ Last(models) = models[Len(r) + 1]
    BY <1>1, <1>2, <1>6 DEF Last
  <2> QED BY <1>2, <1>3, <1>4, <1>6, <2>1
<1> QED BY <1>5, <1>6

LEMMA PathOfType ==
    ASSUME NEW p \in Seq(Addresses), NEW kind PROVE PathOf(p, kind) \in Seq(Addresses)
BY PathOfAppend, ScenesAssumption
-----------------------------------------------------------------------------
(* The invariant                                                             *)

\* What a map of the view says of a node that is still there is true.
CacheIsKnown ==
    \A k \in DOMAIN cache :
        /\ cache[k].born \in Nat /\ cache[k].born <= inserts
        /\ k[2] \in Addresses /\ InTree(k[2]) /\ tree[k[2]].born = cache[k].born
              => cache[k].content = tree[k[2]].content

\* A light that hangs at one node only was last seen where it is.
IsPlaced(a) == IsLightNode(a) /\ Alone(a) => place[tree[a].content] = ModelOf(a)

LightsAreKnown ==
    /\ lights \in Seq(Lights) /\ place \in [Lights -> Contents \cup {None}]
    /\ settled => \A a \in Addresses : IsPlaced(a)
    /\ hooked => \A a \in Addresses : IsLightNode(a) => tree[a].content \in ToSet(lights)

WalkIsKnown ==
    /\ draw = [path |-> draw.path, seen |-> draw.seen, proxies |-> draw.proxies, program |-> draw.program]
    /\ IsPath(draw.path) /\ Pushed(draw.path, painter)
    /\ IsList(draw.proxies) /\ Len(draw.proxies) = Held(draw.path)

\* What was seen and left has no child that was not.
SeenIsKnown ==
    /\ TreeRoot \in draw.seen
    /\ \A a \in Addresses : InTree(a) /\ tree[a].parent \in draw.seen => a \in draw.seen \/ tree[a].parent \in ToSet(draw.path)
    /\ \A a \in Addresses : a \in draw.seen => IsPlaced(a)

IsLit(program) ==
    /\ settled => \A a \in Addresses : IsLightNode(a) /\ Alone(a) =>
          \A q \in program.lit : q[1] = tree[a].content => q[2] = ModelOf(a)
    /\ hooked => \A a \in Addresses : IsLightNode(a) =>
          \E q \in program.lit : q[1] = tree[a].content

ProgramIsKnown ==
    draw.program # None =>
        /\ PathOf(draw.path, "material") # <<>>
        /\ draw.program.by = Last(PathOf(draw.path, "material"))
        /\ draw.program.model = ModelOf(draw.program.by)
        /\ IsLit(draw.program)

ShownIsKnown ==
    shown # None =>
        /\ shown.program = draw.program
        /\ ~ Stale(shown.node) => shown.content = tree[shown.node].content

SceneInv ==
    /\ draws \in 0..MaxDraws
    /\ painter \in Seq(Contents \cup {None}) /\ Len(painter) > 0 /\ painter[1] = None
    /\ TreeIsKnown /\ CacheIsKnown /\ LightsAreKnown
    /\ draw # None => WalkIsKnown /\ SeenIsKnown /\ ProgramIsKnown /\ ShownIsKnown
-----------------------------------------------------------------------------
(* The steps                                                                 *)

LEMMA ScenesStart == ScenesInit => SceneInv
<1> SUFFICES ASSUME ScenesInit PROVE SceneInv
  OBVIOUS
<1> USE ScenesAssumption
<1>0. TreeRoot \in Addresses /\ None \notin Addresses /\ tree \in [Addresses -> NodeRecords \cup {None}]
      /\ \A a \in Addresses : InTree(a) => a = TreeRoot
  BY DEF ScenesInit, NodeRecords, InTree
<1>1. TreeIsKnown
  BY <1>0 DEF ScenesInit, TreeIsKnown, NodeRecords, InTree
<1>2. CacheIsKnown
  BY DEF ScenesInit, CacheIsKnown
<1>3. \A a \in Addresses : ~ IsLightNode(a)
  BY <1>0, <1>1, ModelOfRoot DEF IsLightNode
<1>4. LightsAreKnown
  <2>1. lights \in Seq(Lights) /\ place \in [Lights -> Contents \cup {None}]
    BY DEF ScenesInit
  <2> QED BY <1>3, <2>1 DEF LightsAreKnown, IsPlaced
<1>5. painter \in Seq(Contents \cup {None}) /\ Len(painter) > 0 /\ painter[1] = None
  BY DEF ScenesInit
<1>6. draw = None /\ draws \in 0..MaxDraws
  BY DEF ScenesInit
<1> QED BY <1>1, <1>2, <1>4, <1>5, <1>6 DEF SceneInv

LEMMA InsertNodeKeeps ==
    ASSUME SceneInv, NEW a \in Addresses, NEW parent \in Addresses, NEW c \in Contents \cup {None},
           InsertNode(a, parent, c)
    PROVE  SceneInv'
<1> USE ScenesAssumption
<1> DEFINE node == [content |-> c, parent |-> parent, born |-> inserts + 1]
<1>1. /\ TreeIsKnown /\ CacheIsKnown /\ LightsAreKnown /\ inserts \in Nat
      /\ ~ InTree(a) /\ InTree(parent) /\ a # TreeRoot /\ a # parent
  BY NodeFact DEF SceneInv, InsertNode, TreeIsKnown, InTree
<1>2. /\ node \in NodeRecords /\ node # None
      /\ node.content = c /\ node.parent = parent /\ node.born = inserts + 1
  BY <1>1 DEF NodeRecords
<1>3. /\ inserts' = inserts + 1 /\ settled' = FALSE /\ lights' = Told(c) /\ draw' = None
      /\ tree' = [tree EXCEPT ![a] = node]
      /\ UNCHANGED <<hooked, cache, place, painter, draws>>
  BY DEF InsertNode, Idle
<1> HIDE DEF node
<1>4. tree'[a] = node /\ \A b \in Addresses : b # a => tree'[b] = tree[b]
  BY <1>1, <1>3 DEF TreeIsKnown
<1>5. \A b \in Addresses : /\ InTree(b)' <=> (b = a \/ InTree(b))
                           /\ b # a => KindAt(b)' = KindAt(b)
  BY <1>2, <1>4 DEF InTree, KindAt
<1>6. TreeIsKnown'
  <2>1. tree' = [b \in Addresses |-> tree'[b]]
    BY <1>1, <1>3 DEF TreeIsKnown
  <2>2. \A b \in Addresses : InTree(b) => tree[b].born \in Nat /\ tree[b].born <= inserts
    BY <1>1, NodeFact DEF TreeIsKnown
  <2>3. \A b \in Addresses : InTree(b)' => tree'[b] \in NodeRecords /\ tree'[b].born <= inserts'
    <3> TAKE b \in Addresses
    <3>1. CASE b = a
      BY <1>1, <1>2, <1>3, <1>4, <3>1
    <3>2. CASE b # a
      BY <1>1, <1>3, <1>4, <1>5, <2>2, <3>2 DEF TreeIsKnown
    <3> QED BY <3>1, <3>2
  <2>4. \A b \in Addresses \ {TreeRoot} : InTree(b)' =>
           /\ tree'[b].parent \in Addresses /\ InTree(tree[b].parent)'
           /\ tree'[tree'[b].parent].born < tree'[b].born
    <3> SUFFICES ASSUME NEW b \in Addresses \ {TreeRoot}, InTree(b)'
                 PROVE  /\ tree'[b].parent \in Addresses /\ tree'[tree'[b].parent] # None
                        /\ tree'[tree'[b].parent].born < tree'[b].born
      BY DEF InTree
    <3>1. CASE b = a
      <4>1. tree'[b].parent = parent /\ tree'[parent] = tree[parent] /\ tree'[b].born = inserts + 1
        BY <1>1, <1>2, <1>4, <3>1
      <4> QED BY <1>1, <2>2, <4>1 DEF InTree
    <3>2. CASE b # a
      <4>1. tree'[b] = tree[b] /\ InTree(b)
        BY <1>4, <1>5, <3>2
      <4>2. /\ tree[b].parent \in Addresses /\ InTree(tree[b].parent)
            /\ tree[tree[b].parent].born < tree[b].born
        BY <1>1, <4>1 DEF TreeIsKnown
      <4>3. tree'[tree[b].parent] = tree[tree[b].parent]
        BY <1>1, <1>4, <4>2
      <4> QED BY <4>1, <4>2, <4>3 DEF InTree
    <3> QED BY <3>1, <3>2
  <2>5. tree'[TreeRoot] = [content |-> None, parent |-> None, born |-> 0]
    BY <1>1, <1>4 DEF TreeIsKnown
  <2> QED BY <1>1, <1>3, <2>1, <2>3, <2>4, <2>5 DEF TreeIsKnown
<1>7. CacheIsKnown'
  <2> SUFFICES ASSUME NEW k \in DOMAIN cache
               PROVE  /\ cache[k].born \in Nat /\ cache[k].born <= inserts + 1
                      /\ k[2] \in Addresses /\ tree'[k[2]] # None /\ tree'[k[2]].born = cache[k].born
                            => cache[k].content = tree'[k[2]].content
    BY <1>3 DEF CacheIsKnown, InTree
  <2>1. cache[k].born \in Nat /\ cache[k].born <= inserts
    BY <1>1 DEF CacheIsKnown
  <2>2. CASE k[2] = a
    BY <1>1, <1>2, <1>4, <2>1, <2>2
  <2>3. CASE k[2] # a
    BY <1>1, <1>4, <2>1, <2>3 DEF CacheIsKnown, InTree
  <2> QED BY <2>2, <2>3
<1>8. LightsAreKnown'
  <2>1. lights \in Seq(Lights) /\ place \in [Lights -> Contents \cup {None}]
    BY <1>1 DEF LightsAreKnown
  <2>2. /\ lights' \in Seq(Lights)
        /\ \A l : l \in ToSet(lights) => l \in ToSet(lights')
        /\ hooked /\ c \in Lights => c \in ToSet(lights')
    <3>1. CASE hooked /\ c \in Lights
      <4>1. lights' = Append(lights, c)
        BY <1>3, <3>1 DEF Told
      <4>2. /\ Append(lights, c) \in Seq(Lights) /\ Len(lights) \in Nat
            /\ Len(Append(lights, c)) = Len(lights) + 1 /\ Last(Append(lights, c)) = c
            /\ \A i \in 1..Len(lights) : Append(lights, c)[i] = lights[i]
        BY <2>1, <3>1, LastOfAppend
      <4>3. DOMAIN lights = 1..Len(lights) /\ DOMAIN Append(lights, c) = 1..(Len(lights) + 1)
        BY <2>1, <4>2
      <4>4. Append(lights, c)[Len(lights) + 1] = c
        BY <4>2 DEF Last
      <4> QED BY <4>1, <4>2, <4>3, <4>4 DEF ToSet
    <3>2. CASE ~ (hooked /\ c \in Lights)
      BY <1>3, <2>1, <3>2 DEF Told
    <3> QED BY <3>1, <3>2
  <2>3. ASSUME hooked, NEW b \in Addresses, IsLightNode(b)' PROVE tree'[b].content \in ToSet(lights')
    <3>1. CASE b = a
      <4>1. tree'[b].content = c /\ c # None /\ ContentKindOf[c] = "light"
        BY <1>2, <1>4, <2>3, <3>1 DEF IsLightNode, KindAt
      <4>2. c \in Lights
        BY <4>1 DEF Lights
      <4> QED BY <2>2, <2>3, <4>1, <4>2
    <3>2. CASE b # a
      <4>1. IsLightNode(b) /\ tree'[b] = tree[b]
        BY <1>4, <1>5, <2>3, <3>2 DEF IsLightNode
      <4> QED BY <1>1, <2>2, <2>3, <4>1 DEF LightsAreKnown
    <3> QED BY <3>1, <3>2
  <2> QED BY <1>3, <2>1, <2>2, <2>3 DEF LightsAreKnown
<1> QED BY <1>3, <1>6, <1>7, <1>8 DEF SceneInv

LEMMA RemoveSubtreeKeeps ==
    ASSUME SceneInv, NEW n \in Addresses, RemoveSubtree(n) PROVE SceneInv'
<1> USE ScenesAssumption
<1>1. /\ TreeIsKnown /\ CacheIsKnown /\ LightsAreKnown /\ inserts \in Nat /\ n # TreeRoot
  BY DEF SceneInv, RemoveSubtree, TreeIsKnown
<1>2. /\ tree' = [a \in Addresses |-> IF IsUnder(a, n) THEN None ELSE tree[a]]
      /\ settled' = FALSE /\ draw' = None
      /\ UNCHANGED <<hooked, inserts, lights, cache, place, painter, draws>>
  BY DEF RemoveSubtree, Idle
<1>3. \A a \in Addresses : InTree(a)' => InTree(a) /\ tree'[a] = tree[a] /\ ~ IsUnder(a, n)
  BY <1>2 DEF InTree
<1>4. \A a \in Addresses : InTree(a) /\ ~ IsUnder(a, n) => InTree(a)'
  BY <1>2 DEF InTree
<1>5. ~ IsUnder(TreeRoot, n)
  <2> SUFFICES ASSUME n \in Ancestors(TreeRoot) PROVE FALSE
    BY DEF IsUnder
  <2>1. tree[n].born < tree[TreeRoot].born /\ tree[n].born \in Nat
    BY <1>1, NodeFact, AncestorsAreOlder
  <2> QED BY <1>1, <2>1, NodeFact
<1>6. TreeIsKnown'
  <2>1. tree' = [a \in Addresses |-> tree'[a]]
    BY <1>2
  <2>2. tree'[TreeRoot] = [content |-> None, parent |-> None, born |-> 0]
    BY <1>1, <1>2, <1>5 DEF TreeIsKnown
  <2>3. \A a \in Addresses : InTree(a)' => tree'[a] \in NodeRecords /\ tree'[a].born <= inserts'
    BY <1>1, <1>2, <1>3 DEF TreeIsKnown
  <2>4. ASSUME NEW a \in Addresses \ {TreeRoot}, InTree(a)'
        PROVE  /\ tree'[a].parent \in Addresses /\ InTree(tree[a].parent)'
               /\ tree'[tree'[a].parent].born < tree'[a].born
    <3> DEFINE h == tree[a].parent
    <3>1. InTree(a) /\ tree'[a] = tree[a] /\ ~ IsUnder(a, n)
      BY <1>3, <2>4
    <3>2. h \in Addresses /\ InTree(h) /\ tree[h].born < tree[a].born
      BY <1>1, <3>1 DEF TreeIsKnown
    <3>3. Ancestors(a) = {a} \cup Ancestors(h)
      BY <1>1, <3>1, <3>2, AncestorsOfChild
    <3>4. ~ IsUnder(h, n)
      BY <3>1, <3>3 DEF IsUnder, InTree
    <3>5. tree'[h] = tree[h]
      BY <1>2, <3>2, <3>4
    <3> QED BY <3>1, <3>2, <3>5 DEF InTree
  <2> HIDE <1>2, <1>3, <1>4
  <2>5. inserts' \in Nat
    BY <1>1, <1>2
  <2> QED BY <2>1, <2>2, <2>3, <2>4, <2>5 DEF TreeIsKnown
<1>7. CacheIsKnown'
  <2> SUFFICES ASSUME NEW k \in DOMAIN cache
               PROVE  /\ cache[k].born \in Nat /\ cache[k].born <= inserts
                      /\ k[2] \in Addresses /\ InTree(k[2])' /\ tree'[k[2]].born = cache[k].born
                            => cache[k].content = tree'[k[2]].content
    BY <1>2 DEF CacheIsKnown, InTree
  <2> QED BY <1>1, <1>3 DEF CacheIsKnown
<1>8. LightsAreKnown'
  <2>1. \A a \in Addresses : IsLightNode(a)' => IsLightNode(a) /\ tree'[a] = tree[a]
    BY <1>3 DEF IsLightNode, KindAt
  <2> QED BY <1>1, <1>2, <2>1 DEF LightsAreKnown
<1> QED BY <1>2, <1>6, <1>7, <1>8 DEF SceneInv

\* What no step of a walk changes in the tree, and what a walk that ends leaves.
LEMMA TreeKeeps ==
    ASSUME TreeIsKnown, tree' = tree, inserts' = inserts PROVE TreeIsKnown'
BY DEF TreeIsKnown, InTree

LEMMA CacheKeeps ==
    ASSUME CacheIsKnown, tree' = tree, inserts' = inserts, cache' = cache PROVE CacheIsKnown'
BY DEF CacheIsKnown, InTree

LEMMA LightsKeep ==
    ASSUME LightsAreKnown, tree' = tree, UNCHANGED <<hooked, lights, place, settled>>
    PROVE  LightsAreKnown'
<1>1. \A a : (IsLightNode(a)' <=> IsLightNode(a)) /\ (IsPlaced(a)' <=> IsPlaced(a))
  BY SameTree DEF IsLightNode, IsPlaced
<1> QED BY <1>1 DEF LightsAreKnown

LEMMA OthersKeep ==
    ASSUME SceneInv, DrawThrows \/ EndPainter PROVE SceneInv'
<1>1. /\ draw' = None
      /\ UNCHANGED <<hooked, tree, inserts, lights, cache, place, settled, draws>>
  BY DEF DrawThrows, EndPainter, EndsDraw, Idle
<1>2. painter' = painter \/ painter' = <<None>>
  BY DEF DrawThrows, EndPainter
<1>3. painter' \in Seq(Contents \cup {None}) /\ Len(painter') > 0 /\ painter'[1] = None
  <2>1. CASE painter' = painter
    BY <2>1 DEF SceneInv
  <2>2. CASE painter' = <<None>>
    BY <2>2
  <2> QED BY <1>2, <2>1, <2>2
<1>4. TreeIsKnown' /\ CacheIsKnown' /\ LightsAreKnown'
  BY <1>1, TreeKeeps, CacheKeeps, LightsKeep DEF SceneInv
<1> QED BY <1>1, <1>3, <1>4 DEF SceneInv

LEMMA SameWalk ==
    ASSUME tree' = tree
    PROVE  /\ \A p, models : Pushed(p, models)' <=> Pushed(p, models)
           /\ \A p : Held(p)' = Held(p) /\ LastModel(p)' = LastModel(p)
<1>1. \A p, kind : PathOf(p, kind)' = PathOf(p, kind)
  BY SameTree
<1>2. \A p, models : Pushed(p, models)' <=> Pushed(p, models)
  BY <1>1 DEF Pushed
<1>3. \A p : Held(p)' = Held(p) /\ LastModel(p)' = LastModel(p)
  BY <1>1 DEF Held, LastModel
<1> QED BY <1>2, <1>3

LEMMA BeginDrawKeeps ==
    ASSUME SceneInv, BeginDraw PROVE SceneInv'
<1> USE ScenesAssumption
<1>1. /\ draw' = [path |-> <<TreeRoot>>, seen |-> {TreeRoot}, proxies |-> <<>>, program |-> None]
      /\ shown' = None /\ Len(painter) = 1 /\ draws' = draws + 1 /\ draws < MaxDraws
      /\ UNCHANGED <<hooked, tree, inserts, lights, cache, place, painter, settled>>
  BY DEF BeginDraw
<1>2. TreeIsKnown' /\ CacheIsKnown' /\ LightsAreKnown'
  BY <1>1, TreeKeeps, CacheKeeps, LightsKeep DEF SceneInv
<1>3. TreeIsKnown /\ TreeRoot \in Addresses
  BY DEF SceneInv
<1>4. painter \in Seq(Contents \cup {None}) /\ Len(painter) > 0 /\ painter[1] = None
  BY DEF SceneInv
<1> DEFINE p == <<TreeRoot>>
<1>5. \A kind : kind # "group" => PathOf(p, kind) = <<>>
  <2> TAKE kind
  <2> HAVE kind # "group"
  <2>1. Append(<<>>, TreeRoot) = p /\ <<>> \in Seq(Addresses)
    OBVIOUS
  <2>2. KindAt(TreeRoot) = "group"
    BY <1>3, ModelOfRoot
  <2>3. PathOf(<<>>, kind) = FlattenSeq(<<>>)
    BY DEF PathOf
  <2>4. PathOf(Append(<<>>, TreeRoot), kind) = PathOf(<<>>, kind)
    BY <1>3, <2>1, <2>2, PathOfAppend
  <2> QED BY <2>1, <2>3, <2>4, FlattenEmpty
<1>6. IsPath(p) /\ Pushed(p, painter) /\ Held(p) = 0
  <2>1. PathOf(p, "transform") = <<>> /\ PathOf(p, "material") = <<>> /\ PathOf(p, "bindable") = <<>>
    BY <1>5
  <2>2. IsPath(p)
    BY <1>3 DEF IsPath
  <2>3. Pushed(p, painter)
    BY <1>1, <1>4, <2>1 DEF Pushed
  <2>4. Held(p) = 0
    BY <2>1 DEF Held
  <2> QED BY <2>2, <2>3, <2>4
<1>7. IsList(<<>>)
  BY DEF IsList
<1>8. WalkIsKnown'
  <2>1. IsPath(draw.path)' /\ Pushed(draw.path, painter)' /\ Held(draw.path)' = 0
    <3>1. draw'.path = p
      BY <1>1
    <3>2. IsPath(draw.path)'
      BY <1>1, <1>6, <3>1, SameTree
    <3>3. Pushed(draw.path, painter)' /\ Held(draw.path)' = 0
      BY <1>1, <1>6, <3>1, SameWalk
    <3> QED BY <3>2, <3>3
  <2> QED BY <1>1, <1>7, <2>1 DEF WalkIsKnown
<1>9. SeenIsKnown'
  <2>1. ToSet(p) = {TreeRoot}
    BY DEF ToSet
  <2>2. IsPlaced(TreeRoot)'
    BY <1>1, <1>3, ModelOfRoot, SameTree DEF IsPlaced, IsLightNode
  <2> QED BY <1>1, <2>1, <2>2 DEF SeenIsKnown
<1>10. draws' \in 0..MaxDraws
  BY <1>1 DEF SceneInv
<1> QED BY <1>1, <1>2, <1>4, <1>8, <1>9, <1>10 DEF SceneInv, ProgramIsKnown, ShownIsKnown

LEMMA PlaceFact ==
    ASSUME TreeIsKnown, place \in [Lights -> Contents \cup {None}], tree' = tree,
           NEW a \in Addresses, InTree(a),
           \/ KindAt(a) # "light" /\ place' = place
           \/ /\ KindAt(a) = "light" /\ place' = [place EXCEPT ![tree[a].content] = ModelOf(a)]
              /\ ModelOf(a) \in Contents \cup {None}
    PROVE  /\ place' \in [Lights -> Contents \cup {None}]
           /\ \A x \in Addresses : x = a \/ IsPlaced(x) => IsPlaced(x)'
<1>0. \A x : (IsLightNode(x)' <=> IsLightNode(x)) /\ (Alone(x)' <=> Alone(x)) /\ ModelOf(x)' = ModelOf(x)
  BY SameTree DEF IsLightNode
<1>1. CASE KindAt(a) # "light" /\ place' = place
  <2>1. ~ IsLightNode(a)'
    BY <1>0, <1>1 DEF IsLightNode
  <2> QED BY <1>0, <1>1, <2>1 DEF IsPlaced
<1>2. CASE /\ KindAt(a) = "light" /\ place' = [place EXCEPT ![tree[a].content] = ModelOf(a)]
           /\ ModelOf(a) \in Contents \cup {None}
  <2> DEFINE c == tree[a].content
  <2>1. c \in Lights
    BY <1>2, NodeFact DEF KindAt, Lights
  <2>2. /\ place'[c] = ModelOf(a) /\ place' \in [Lights -> Contents \cup {None}]
        /\ \A l : l # c => place'[l] = place[l]
    BY <1>2, <2>1
  <2>3. ASSUME NEW x \in Addresses, x = a \/ IsPlaced(x), IsLightNode(x), Alone(x)
        PROVE  place'[tree[x].content] = ModelOf(x)
    <3>1. CASE x = a
      BY <2>2, <3>1
    <3>2. CASE x # a
      <4>1. c # tree[x].content
        BY <2>3, <3>2 DEF Alone, InTree
      <4> QED BY <2>2, <2>3, <3>2, <4>1 DEF IsPlaced
    <3> QED BY <3>1, <3>2
  <2>4. \A x \in Addresses : x = a \/ IsPlaced(x) => IsPlaced(x)'
    BY <1>0, <2>3 DEF IsPlaced
  <2> QED BY <2>2, <2>4
<1> QED BY <1>1, <1>2

LEMMA CachedFact ==
    ASSUME TreeIsKnown, CacheIsKnown, NEW a \in Addresses, InTree(a), ~ Stale(a)
    PROVE  Cached(a) = tree[a].content
<1>1. CASE Entry(a) \in DOMAIN cache
  <2>1. Entry(a)[2] = a
    BY DEF Entry
  <2>2. cache[Entry(a)].born = tree[a].born
    BY <1>1 DEF Stale
  <2> QED BY <1>1, <2>1, <2>2 DEF CacheIsKnown, Cached
<1>2. CASE Entry(a) \notin DOMAIN cache
  BY <1>2 DEF Cached
<1> QED BY <1>1, <1>2

LEMMA FillFact ==
    ASSUME TreeIsKnown, CacheIsKnown, NEW a \in Addresses, InTree(a), tree' = tree, inserts' = inserts,
           Fill(a) \/ UNCHANGED cache
    PROVE  /\ CacheIsKnown'
           /\ Fill(a) /\ ~ Stale(a)' => Cached(a) = tree[a].content
<1>1. \A x : Entry(x)' = Entry(x)
  BY SameTree DEF Entry, Map
<1>2. Entry(a)[2] = a
  BY DEF Entry
<1>3. CASE cache' = cache
  <2>1. CacheIsKnown'
    BY <1>3, CacheKeeps
  <2>2. Stale(a)' <=> Stale(a)
    BY <1>1, <1>3 DEF Stale
  <2> QED BY <2>1, <2>2, CachedFact
<1>4. CASE Fill(a) /\ Entry(a) \notin DOMAIN cache
  <2> DEFINE e == Entry(a)
             new == [content |-> tree[a].content, born |-> tree[a].born]
  <2>1. /\ DOMAIN cache' = DOMAIN cache \cup {e}
        /\ \A k \in DOMAIN cache' : cache'[k] = IF k = e THEN new ELSE cache[k]
    BY <1>4 DEF Fill
  <2>2. Cached(a) = tree[a].content
    BY <1>4 DEF Cached
  <2>3. tree[a].born \in Nat /\ tree[a].born <= inserts
    BY NodeFact DEF TreeIsKnown
  <2>4. ASSUME NEW k \in DOMAIN cache'
        PROVE  /\ cache'[k].born \in Nat /\ cache'[k].born <= inserts
               /\ k[2] \in Addresses /\ InTree(k[2]) /\ tree[k[2]].born = cache'[k].born
                     => cache'[k].content = tree[k[2]].content
    <3>1. CASE k = e
      BY <1>2, <2>1, <2>3, <3>1
    <3>2. CASE k # e
      BY <2>1, <3>2 DEF CacheIsKnown
    <3> QED BY <3>1, <3>2
  <2>5. CacheIsKnown'
    BY <2>4 DEF CacheIsKnown, InTree
  <2> QED BY <2>2, <2>5
<1>5. Fill(a) => cache' = cache \/ Entry(a) \notin DOMAIN cache
  BY DEF Fill
<1> QED BY <1>3, <1>4, <1>5

\* What a walk knows when it comes to a node.
LEMMA DiscoverFact ==
    ASSUME SceneInv, NEW a \in Addresses, Discover(a)
    PROVE  /\ draw # None /\ WalkIsKnown /\ SeenIsKnown /\ ProgramIsKnown
           /\ TreeIsKnown /\ CacheIsKnown /\ LightsAreKnown
           /\ InTree(a) /\ tree[a].parent = Last(draw.path)
           /\ draw.path \in Seq(Addresses) /\ Last(draw.path) \in Addresses
           /\ tree[a].content \in Contents \cup {None}
           /\ Model = ModelOf(a) /\ Model \in Contents \cup {None} /\ ModelOf(a) \in Contents \cup {None}
           /\ UNCHANGED <<hooked, tree, inserts, lights, settled, draws>>
<1>1. /\ draw # None /\ InTree(a) /\ tree[a].parent = Last(draw.path)
      /\ UNCHANGED <<hooked, tree, inserts, lights, settled, draws>>
  BY DEF Discover, Here, InTree
<1>2. /\ WalkIsKnown /\ SeenIsKnown /\ ProgramIsKnown /\ TreeIsKnown /\ CacheIsKnown /\ LightsAreKnown
      /\ painter \in Seq(Contents \cup {None}) /\ Len(painter) > 0
  BY <1>1 DEF SceneInv
<1>3. draw.path \in Seq(Addresses) /\ Last(draw.path) \in Addresses
  BY <1>2, ShorterPath DEF WalkIsKnown
<1>4. tree[a].content \in Contents \cup {None}
  BY <1>1, <1>2, NodeFact
<1>5. Last(painter) = ModelOf(a)
  <2>1. PathOf(draw.path, "transform") \in Seq(Addresses)
    BY <1>3, PathOfType
  <2>2. Last(painter) = LastModel(draw.path)
    BY <1>2, <2>1, InnermostFact DEF WalkIsKnown
  <2> QED BY <1>1, <1>2, <2>2, ChildModel DEF WalkIsKnown
<1>6. Last(painter) \in Contents \cup {None}
  BY <1>2, FrontIs
<1> QED BY <1>1, <1>2, <1>3, <1>4, <1>5, <1>6 DEF Model

LEMMA SameLit ==
    ASSUME tree' = tree, UNCHANGED <<hooked, settled>>
    PROVE  \A q : IsLit(q)' <=> IsLit(q)
<1>1. \A x : (IsLightNode(x)' <=> IsLightNode(x)) /\ (Alone(x)' <=> Alone(x)) /\ ModelOf(x)' = ModelOf(x)
  BY SameTree DEF IsLightNode
<1> QED BY <1>1 DEF IsLit

\* A material is lit by the lights as they are known.
LEMMA ProgramIsLit ==
    ASSUME LightsAreKnown, NEW a PROVE IsLit(Program(a))
<1> DEFINE lit == {<<l, place[l]>> : l \in ToSet(lights)}
<1>1. Program(a).lit = lit
  BY DEF Program
<1>2. \A q \in lit : q[2] = place[q[1]]
  OBVIOUS
<1>3. \A l \in ToSet(lights) : \E q \in lit : q[1] = l
  <2> TAKE l \in ToSet(lights)
  <2>1. <<l, place[l]>> \in lit /\ <<l, place[l]>>[1] = l
    OBVIOUS
  <2> QED BY <2>1
<1> HIDE DEF lit
<1>4. ASSUME settled, NEW b \in Addresses, IsLightNode(b), Alone(b), NEW q \in lit, q[1] = tree[b].content
      PROVE  q[2] = ModelOf(b)
  BY <1>2, <1>4 DEF LightsAreKnown, IsPlaced
<1>5. ASSUME hooked, NEW b \in Addresses, IsLightNode(b)
      PROVE  \E q \in lit : q[1] = tree[b].content
  BY <1>3, <1>5 DEF LightsAreKnown
<1> QED BY <1>1, <1>4, <1>5 DEF IsLit

LEMMA DiscoverWalk ==
    ASSUME SceneInv, NEW a \in Addresses, Discover(a)
    PROVE  /\ WalkIsKnown'
           /\ draw'.path = Append(draw.path, a) /\ draw'.seen = draw.seen \cup {a}
           /\ painter' \in Seq(Contents \cup {None}) /\ Len(painter') > 0 /\ painter'[1] = None
           /\ draw'.program = IF KindAt(a) = "material" THEN Program(a) ELSE draw.program
<1> DEFINE p == draw.path
           k == KindAt(a)
           x == [content |-> Program(a), depth |-> Len(painter)]
           y == [content |-> tree[a].content, depth |-> Len(painter)]
<1>1. /\ WalkIsKnown /\ InTree(a) /\ tree[a].parent = Last(p) /\ p \in Seq(Addresses)
      /\ tree[a].content \in Contents \cup {None} /\ tree' = tree
  BY DiscoverFact
<1>2. IsPath(p) /\ Pushed(p, painter) /\ IsList(draw.proxies) /\ Len(draw.proxies) = Held(p)
  BY <1>1 DEF WalkIsKnown
<1>3. /\ painter' = IF k = "transform" THEN Append(painter, tree[a].content) ELSE painter
      /\ draw' = CASE k = "material" -> Enter(a, Append(draw.proxies, x), Program(a))
                   [] k = "bindable" -> Enter(a, Append(draw.proxies, y), draw.program)
                   [] OTHER -> Enter(a, draw.proxies, draw.program)
  BY DEF Discover
<1> HIDE DEF x, y, k
<1>5. /\ k = "material" => draw' = [path |-> Append(p, a), seen |-> draw.seen \cup {a},
                                    proxies |-> Append(draw.proxies, x), program |-> Program(a)]
      /\ k = "bindable" => draw' = [path |-> Append(p, a), seen |-> draw.seen \cup {a},
                                    proxies |-> Append(draw.proxies, y), program |-> draw.program]
      /\ k \notin {"material", "bindable"} =>
            draw' = [path |-> Append(p, a), seen |-> draw.seen \cup {a},
                     proxies |-> draw.proxies, program |-> draw.program]
  BY <1>3 DEF Enter
<1> DEFINE q == Append(p, a)
<1>6. IsPath(q) /\ Pushed(q, painter')
  <2>1. IsPath(q)
    BY <1>1, <1>2, LongerPath
  <2>2. Pushed(q, painter')
    BY <1>1, <1>2, <1>3, PushFact DEF k
  <2> QED BY <2>1, <2>2
<1>7. /\ k \in {"material", "bindable"} => Held(q) = Held(p) + 1
      /\ k \notin {"material", "bindable"} => Held(q) = Held(p)
  BY <1>1, HeldFact DEF k
<1>8. /\ IsList(Append(draw.proxies, x)) /\ Len(Append(draw.proxies, x)) = Len(draw.proxies) + 1
      /\ IsList(Append(draw.proxies, y)) /\ Len(Append(draw.proxies, y)) = Len(draw.proxies) + 1
  BY <1>2, ListFact
<1>9. /\ draw' = [path |-> q, seen |-> draw.seen \cup {a}, proxies |-> draw'.proxies, program |-> draw'.program]
      /\ IsList(draw'.proxies) /\ Len(draw'.proxies) = Held(q)
      /\ draw'.program = IF k = "material" THEN Program(a) ELSE draw.program
  <2>1. CASE k = "material"
    <3>1. draw' = [path |-> q, seen |-> draw.seen \cup {a}, proxies |-> Append(draw.proxies, x), program |-> Program(a)]
      BY <1>5, <2>1
    <3> HIDE DEF q
    <3> QED BY <1>2, <1>7, <1>8, <2>1, <3>1
  <2>2. CASE k = "bindable"
    <3>1. draw' = [path |-> q, seen |-> draw.seen \cup {a}, proxies |-> Append(draw.proxies, y), program |-> draw.program]
      BY <1>5, <2>2
    <3> HIDE DEF q
    <3> QED BY <1>2, <1>7, <1>8, <2>2, <3>1
  <2>3. CASE k \notin {"material", "bindable"}
    <3>1. draw' = [path |-> q, seen |-> draw.seen \cup {a}, proxies |-> draw.proxies, program |-> draw.program]
      BY <1>5, <2>3
    <3> HIDE DEF q
    <3> QED BY <1>2, <1>7, <2>3, <3>1
  <2> QED BY <2>1, <2>2, <2>3
<1> HIDE DEF q
<1>10. draw'.path = q /\ draw'.seen = draw.seen \cup {a}
  BY <1>9
<1>11. WalkIsKnown'
  <2>1. IsPath(draw.path)' /\ Pushed(draw.path, painter)' /\ Held(draw.path)' = Held(q)
    BY <1>1, <1>6, <1>10, SameTree, SameWalk
  <2> QED BY <1>9, <1>10, <2>1 DEF WalkIsKnown
<1>12. painter' \in Seq(Contents \cup {None}) /\ Len(painter') > 0 /\ painter'[1] = None
  BY <1>6 DEF Pushed
<1> QED BY <1>9, <1>10, <1>11, <1>12 DEF q, k

LEMMA DiscoverKeeps ==
    ASSUME SceneInv, NEW a \in Addresses, Discover(a) PROVE SceneInv'
<1> DEFINE p == draw.path
           q == Append(p, a)
<1>1. /\ draw # None /\ WalkIsKnown /\ SeenIsKnown /\ ProgramIsKnown
      /\ TreeIsKnown /\ CacheIsKnown /\ LightsAreKnown
      /\ InTree(a) /\ tree[a].parent = Last(p)
      /\ p \in Seq(Addresses) /\ Last(p) \in Addresses
      /\ tree[a].content \in Contents \cup {None}
      /\ Model = ModelOf(a) /\ ModelOf(a) \in Contents \cup {None}
      /\ UNCHANGED <<hooked, tree, inserts, lights, settled, draws>>
  BY DiscoverFact
<1>2. /\ WalkIsKnown' /\ draw'.path = q /\ draw'.seen = draw.seen \cup {a}
      /\ painter' \in Seq(Contents \cup {None}) /\ Len(painter') > 0 /\ painter'[1] = None
      /\ draw'.program = IF KindAt(a) = "material" THEN Program(a) ELSE draw.program
  BY DiscoverWalk
<1>3. /\ place' = IF KindAt(a) = "light" THEN [place EXCEPT ![tree[a].content] = Model] ELSE place
      /\ IF KindAt(a) \in {"mesh", "material"} THEN Fill(a) ELSE UNCHANGED cache
      /\ CASE KindAt(a) = "mesh"     -> Shows(a, Cached(a))
           [] KindAt(a) = "drawable" -> Shows(a, tree[a].content)
           [] OTHER                  -> shown' = None
  BY DEF Discover
<1>4. /\ place' \in [Lights -> Contents \cup {None}]
      /\ \A x \in Addresses : x = a \/ IsPlaced(x) => IsPlaced(x)'
  <2>1. place \in [Lights -> Contents \cup {None}]
    BY <1>1 DEF LightsAreKnown
  <2>2. \/ KindAt(a) # "light" /\ place' = place
        \/ /\ KindAt(a) = "light" /\ place' = [place EXCEPT ![tree[a].content] = ModelOf(a)]
           /\ ModelOf(a) \in Contents \cup {None}
    BY <1>1, <1>3
  <2> QED BY <1>1, <2>1, <2>2, PlaceFact
<1>5. CacheIsKnown' /\ (Fill(a) /\ ~ Stale(a)' => Cached(a) = tree[a].content)
  <2>1. Fill(a) \/ UNCHANGED cache
    BY <1>3
  <2> QED BY <1>1, <2>1, FillFact
<1>6. LightsAreKnown'
  <2>1. \A x : IsLightNode(x)' <=> IsLightNode(x)
    BY <1>1, SameTree DEF IsLightNode
  <2> QED BY <1>1, <1>4, <2>1 DEF LightsAreKnown
<1>7. TreeIsKnown'
  BY <1>1, TreeKeeps
<1>8. SeenIsKnown'
  <2>1. \A x : x \in ToSet(p) => x \in ToSet(q)
    <3>1. \A i \in 1..Len(p) : q[i] = p[i]
      BY <1>1, LastOfAppend
    <3>2. DOMAIN p = 1..Len(p) /\ DOMAIN q = 1..Len(q) /\ Len(q) = Len(p) + 1 /\ Len(p) \in Nat
      BY <1>1
    <3> HIDE DEF q
    <3> QED BY <3>1, <3>2 DEF ToSet
  <2>2. a \in ToSet(q)
    <3>1. q[Len(p) + 1] = a /\ Len(p) + 1 \in DOMAIN q
      BY <1>1
    <3> HIDE DEF q
    <3> QED BY <3>1 DEF ToSet
  <2>3. TreeRoot \in draw'.seen
    BY <1>1, <1>2 DEF SeenIsKnown
  <2> HIDE DEF q
  <2>4. \A x \in Addresses : InTree(x)' /\ tree'[x].parent \in draw'.seen
           => x \in draw'.seen \/ tree'[x].parent \in ToSet(draw'.path)
    BY <1>1, <1>2, <2>1, <2>2 DEF SeenIsKnown, InTree
  <2>5. \A x \in Addresses : x \in draw'.seen => IsPlaced(x)'
    BY <1>1, <1>2, <1>4 DEF SeenIsKnown
  <2> QED BY <2>3, <2>4, <2>5 DEF SeenIsKnown
<1>9. ProgramIsKnown'
  <2> DEFINE m == PathOf(p, "material")
  <2>1. /\ m \in Seq(Addresses)
        /\ PathOf(q, "material") = IF KindAt(a) = "material" THEN Append(m, a) ELSE m
    BY <1>1, PathOfAppend
  <2>2. PathOf(draw.path, "material")' = PathOf(q, "material")
    BY <1>1, <1>2, SameTree
  <2> HIDE DEF m, q
  <2>3. \A x : ModelOf(x)' = ModelOf(x)
    BY <1>1, SameTree
  <2>4. \A x : IsLit(x)' <=> IsLit(x)
    BY <1>1, SameLit
  <2>5. CASE KindAt(a) = "material"
    <3>1. draw'.program = Program(a)
      BY <1>2, <2>5
    <3>2. Append(m, a) # <<>> /\ Last(Append(m, a)) = a
      BY <2>1, LastOfAppend
    <3>3. Program(a).by = a /\ Program(a).model = ModelOf(a)
      BY <1>1 DEF Program
    <3>4. IsLit(Program(a))
      BY <1>1, ProgramIsLit
    <3>5. IsLit(draw.program)'
      <4> HIDE DEF Program, IsLit
      <4> QED BY <2>4, <3>1, <3>4
    <3>6. ModelOf(draw.program.by)' = ModelOf(a)
      BY <2>3, <3>1, <3>3
    <3> QED BY <2>1, <2>2, <2>5, <3>1, <3>2, <3>3, <3>5, <3>6 DEF ProgramIsKnown
  <2>6. CASE KindAt(a) # "material"
    <3>1. draw'.program = draw.program
      BY <1>2, <2>6
    <3>2. IsLit(draw.program)' <=> IsLit(draw.program)
      BY <2>4, <3>1
    <3>3. ModelOf(draw.program.by)' = ModelOf(draw.program.by)
      BY <2>3, <3>1
    <3> QED BY <1>1, <2>1, <2>2, <2>6, <3>1, <3>2, <3>3 DEF ProgramIsKnown, m
  <2> QED BY <2>5, <2>6
<1>10. ShownIsKnown'
  <2>1. CASE KindAt(a) = "mesh"
    <3>1. shown' = [node |-> a, content |-> Cached(a), program |-> draw.program] /\ Fill(a)
      BY <1>3, <2>1 DEF Shows
    <3>2. draw'.program = draw.program
      BY <1>2, <2>1
    <3>3. Stale(shown.node)' <=> Stale(a)'
      BY <3>1 DEF Stale, Entry, Map, KindAt
    <3> QED BY <1>1, <1>5, <3>1, <3>2, <3>3 DEF ShownIsKnown
  <2>2. CASE KindAt(a) = "drawable"
    <3>1. shown' = [node |-> a, content |-> tree[a].content, program |-> draw.program]
      BY <1>3, <2>2 DEF Shows
    <3>2. draw'.program = draw.program
      BY <1>2, <2>2
    <3> QED BY <1>1, <3>1, <3>2 DEF ShownIsKnown
  <2>3. CASE KindAt(a) \notin {"mesh", "drawable"}
    BY <1>3, <2>3 DEF ShownIsKnown
  <2> QED BY <2>1, <2>2, <2>3
<1>11. draws' \in 0..MaxDraws
  BY <1>1 DEF SceneInv
<1> QED BY <1>2, <1>5, <1>6, <1>7, <1>8, <1>9, <1>10, <1>11 DEF SceneInv

\* When the walk is back at the root, it has seen all nodes: the oldest it had not seen
\* would be the child of one it had.
LEMMA AllSeen ==
    ASSUME TreeIsKnown, WalkIsKnown, SeenIsKnown, Last(draw.path) = TreeRoot,
           \A a \in Addresses \ draw.seen : tree[a] # None => tree[a].parent # TreeRoot
    PROVE  \A a \in Addresses : InTree(a) => a \in draw.seen
<1> DEFINE unseen == {a \in Addresses : InTree(a) /\ a \notin draw.seen}
           T == {tree[a].born : a \in unseen}
<1> SUFFICES ASSUME unseen # {} PROVE FALSE
  OBVIOUS
<1>1. T \in SUBSET Nat /\ T # {}
  BY NodeFact
<1>2. PICK born \in T : \A other \in T : born <= other
  BY <1>1, LeastFact
<1>3. PICK a \in unseen : tree[a].born = born
  BY <1>2
<1>4. a # TreeRoot
  BY <1>3 DEF SeenIsKnown
<1> DEFINE h == tree[a].parent
<1>5. h \in Addresses /\ InTree(h) /\ tree[h].born < tree[a].born
  BY <1>3, <1>4 DEF TreeIsKnown
<1>6. h \in draw.seen
  <2> SUFFICES ASSUME h \notin draw.seen PROVE FALSE
    OBVIOUS
  <2>1. tree[h].born \in T
    BY <1>5
  <2>2. tree[h].born \in Nat /\ tree[a].born \in Nat /\ tree[a].born <= tree[h].born
    BY <1>1, <1>2, <1>3, <2>1
  <2> QED BY <1>5, <2>2
<1>7. h \in ToSet(draw.path)
  BY <1>3, <1>6 DEF SeenIsKnown
<1>8. h = TreeRoot
  <2>1. Len(draw.path) = 1 /\ draw.path[1] = TreeRoot /\ draw.path \in Seq(Addresses)
    BY ShorterPath DEF WalkIsKnown, IsPath
  <2>2. DOMAIN draw.path = 1..1
    BY <2>1
  <2> QED BY <1>7, <2>1, <2>2 DEF ToSet
<1> QED BY <1>3, <1>8 DEF InTree

\* What a walk knows when it leaves a node.
LEMMA FinishFact ==
    ASSUME SceneInv, Finish
    PROVE  /\ draw # None /\ WalkIsKnown /\ SeenIsKnown /\ ProgramIsKnown
           /\ TreeIsKnown /\ CacheIsKnown /\ LightsAreKnown
           /\ Here = Last(draw.path) /\ Here \in Addresses /\ InTree(Here)
           /\ Front(draw.path) \in Seq(Addresses) /\ draw.path = Append(Front(draw.path), Here)
           /\ \A a \in Addresses \ draw.seen : tree[a] # None => tree[a].parent # Here
           /\ UNCHANGED <<hooked, tree, inserts, lights, cache, draws>>
           /\ place' \in [Lights -> Contents \cup {None}]
           /\ \A x \in Addresses : IsPlaced(x) => IsPlaced(x)'
<1> DEFINE h == Here
<1>1. /\ draw # None /\ h = Last(draw.path)
      /\ \A a \in Addresses \ draw.seen : tree[a] # None => tree[a].parent # h
      /\ UNCHANGED <<hooked, tree, inserts, lights, cache, draws>>
      /\ place' = IF KindAt(h) = "light" THEN [place EXCEPT ![tree[h].content] = Model] ELSE place
  BY DEF Finish, Here
<1>2. /\ WalkIsKnown /\ SeenIsKnown /\ ProgramIsKnown /\ TreeIsKnown /\ CacheIsKnown /\ LightsAreKnown
      /\ painter \in Seq(Contents \cup {None}) /\ Len(painter) > 0
  BY <1>1 DEF SceneInv
<1>3. draw.path \in Seq(Addresses) /\ Len(draw.path) > 0 /\ h \in Addresses /\ InTree(h)
  BY <1>1, <1>2, ShorterPath DEF WalkIsKnown
<1>4. Front(draw.path) \in Seq(Addresses) /\ draw.path = Append(Front(draw.path), h)
  BY <1>1, <1>3, FrontIs
<1>5. KindAt(h) # "transform" => Model = ModelOf(h) /\ ModelOf(h) \in Contents \cup {None}
  <2> HAVE KindAt(h) # "transform"
  <2>1. PathOf(draw.path, "transform") \in Seq(Addresses)
    BY <1>3, PathOfType
  <2>2. Last(painter) = LastModel(draw.path)
    BY <1>2, <2>1, InnermostFact DEF WalkIsKnown
  <2>3. LastModel(draw.path) = ModelOf(h)
    BY <1>1, <1>2, PathModel DEF WalkIsKnown
  <2>4. Last(painter) \in Contents \cup {None}
    BY <1>2, FrontIs
  <2> QED BY <2>2, <2>3, <2>4 DEF Model
<1>6. /\ place' \in [Lights -> Contents \cup {None}]
      /\ \A x \in Addresses : x = h \/ IsPlaced(x) => IsPlaced(x)'
  <2>1. place \in [Lights -> Contents \cup {None}]
    BY <1>2 DEF LightsAreKnown
  <2>2. \/ KindAt(h) # "light" /\ place' = place
        \/ /\ KindAt(h) = "light" /\ place' = [place EXCEPT ![tree[h].content] = ModelOf(h)]
           /\ ModelOf(h) \in Contents \cup {None}
    BY <1>1, <1>5
  <2> HIDE DEF h
  <2> QED BY <1>1, <1>2, <1>3, <2>1, <2>2, PlaceFact
<1> QED BY <1>1, <1>2, <1>3, <1>4, <1>6

LEMMA FinishRoot ==
    ASSUME SceneInv, Finish, Here = TreeRoot PROVE SceneInv'
<1>1. /\ draw # None /\ WalkIsKnown /\ SeenIsKnown
      /\ TreeIsKnown /\ CacheIsKnown /\ LightsAreKnown
      /\ Here = Last(draw.path)
      /\ \A a \in Addresses \ draw.seen : tree[a] # None => tree[a].parent # Here
      /\ UNCHANGED <<hooked, tree, inserts, lights, cache, draws>>
      /\ place' \in [Lights -> Contents \cup {None}]
      /\ \A x \in Addresses : IsPlaced(x) => IsPlaced(x)'
  BY FinishFact
<1>2. draw' = None /\ settled' = TRUE /\ painter' = painter
  <2>1. KindAt(Here) = "group"
    BY <1>1, ModelOfRoot
  <2> QED BY <2>1 DEF Finish, EndsDraw
<1>3. \A a \in Addresses : InTree(a) => a \in draw.seen
  BY <1>1, AllSeen
<1>4. \A a \in Addresses : IsPlaced(a)
  BY <1>1, <1>3 DEF SeenIsKnown, IsPlaced, IsLightNode
<1>5. LightsAreKnown'
  <2>1. \A x : IsLightNode(x)' <=> IsLightNode(x)
    BY <1>1, SameTree DEF IsLightNode
  <2> QED BY <1>1, <1>4, <2>1 DEF LightsAreKnown
<1>6. TreeIsKnown' /\ CacheIsKnown'
  BY <1>1, TreeKeeps, CacheKeeps
<1> QED BY <1>1, <1>2, <1>5, <1>6 DEF SceneInv

LEMMA FinishNode ==
    ASSUME SceneInv, Finish, Here # TreeRoot PROVE SceneInv'
<1> DEFINE h == Here
           p == draw.path
           f == Front(p)
           k == KindAt(h)
<1>1. /\ draw # None /\ WalkIsKnown /\ SeenIsKnown /\ ProgramIsKnown
      /\ TreeIsKnown /\ CacheIsKnown /\ LightsAreKnown
      /\ h = Last(p) /\ h \in Addresses /\ InTree(h)
      /\ f \in Seq(Addresses) /\ p = Append(f, h)
      /\ \A a \in Addresses \ draw.seen : tree[a] # None => tree[a].parent # h
      /\ UNCHANGED <<hooked, tree, inserts, lights, cache, draws>>
      /\ place' \in [Lights -> Contents \cup {None}]
      /\ \A x \in Addresses : IsPlaced(x) => IsPlaced(x)'
  BY FinishFact
<1>2. /\ painter' = IF k = "transform" THEN Front(painter) ELSE painter
      /\ IF k = "mesh" THEN Shows(h, Cached(h)) ELSE shown' = None
      /\ draw' = CASE k = "material" -> Leave(Front(draw.proxies), None)
                   [] k = "bindable" -> Leave(Front(draw.proxies), draw.program)
                   [] OTHER          -> Leave(draw.proxies, draw.program)
      /\ settled' = settled
  BY DEF Finish
<1>3. IsPath(p) /\ Pushed(p, painter) /\ IsList(draw.proxies) /\ Len(draw.proxies) = Held(p)
  BY <1>1 DEF WalkIsKnown
<1>4. IsPath(f)
  BY <1>1, <1>3, ShorterPath
<1> HIDE DEF f, h
<1>5. Pushed(f, painter')
  BY <1>1, <1>2, <1>3, PopFact DEF k
<1>6. /\ Held(f) \in Nat
      /\ k \in {"material", "bindable"} => Held(p) = Held(f) + 1
      /\ k \notin {"material", "bindable"} => Held(p) = Held(f)
  BY <1>1, HeldFact DEF k
<1>7. /\ k = "material" => draw' = [path |-> f, seen |-> draw.seen, proxies |-> Front(draw.proxies), program |-> None]
      /\ k = "bindable" => draw' = [path |-> f, seen |-> draw.seen, proxies |-> Front(draw.proxies),
                                    program |-> draw.program]
      /\ k \notin {"material", "bindable"} =>
            draw' = [path |-> f, seen |-> draw.seen, proxies |-> draw.proxies, program |-> draw.program]
  <2> HIDE DEF k
  <2> QED BY <1>2 DEF Leave, f
<1>8. k \in {"material", "bindable"} =>
         IsList(Front(draw.proxies)) /\ Len(Front(draw.proxies)) = Held(f)
  <2> HAVE k \in {"material", "bindable"}
  <2>1. Len(draw.proxies) = Held(f) + 1 /\ Len(draw.proxies) > 0
    BY <1>3, <1>6
  <2>2. IsList(Front(draw.proxies)) /\ Len(Front(draw.proxies)) = Len(draw.proxies) - 1
    BY <1>3, <2>1, ListFact
  <2> QED BY <1>6, <2>1, <2>2
<1> HIDE DEF k
<1>9. /\ draw' = [path |-> f, seen |-> draw.seen, proxies |-> draw'.proxies, program |-> draw'.program]
      /\ IsList(draw'.proxies) /\ Len(draw'.proxies) = Held(f)
      /\ draw'.program = IF k = "material" THEN None ELSE draw.program
  <2>1. CASE k = "material"
    <3>1. draw' = [path |-> f, seen |-> draw.seen, proxies |-> Front(draw.proxies), program |-> None]
      BY <1>7, <2>1
    <3> QED BY <1>8, <2>1, <3>1
  <2>2. CASE k = "bindable"
    <3>1. draw' = [path |-> f, seen |-> draw.seen, proxies |-> Front(draw.proxies), program |-> draw.program]
      BY <1>7, <2>2
    <3> QED BY <1>8, <2>2, <3>1
  <2>3. CASE k \notin {"material", "bindable"}
    <3>1. draw' = [path |-> f, seen |-> draw.seen, proxies |-> draw.proxies, program |-> draw.program]
      BY <1>7, <2>3
    <3> QED BY <1>3, <1>6, <2>3, <3>1
  <2> QED BY <2>1, <2>2, <2>3
<1>10. draw'.path = f /\ draw'.seen = draw.seen
  BY <1>9
<1>11. WalkIsKnown'
  <2>1. IsPath(draw.path)' /\ Pushed(draw.path, painter)' /\ Held(draw.path)' = Held(f)
    BY <1>1, <1>4, <1>5, <1>10, SameTree, SameWalk
  <2> QED BY <1>9, <1>10, <2>1 DEF WalkIsKnown
<1>12. SeenIsKnown'
  <2>1. \A x : x \in ToSet(p) => x = h \/ x \in ToSet(f)
    <3>1. /\ \A i \in 1..Len(f) : p[i] = f[i]
          /\ Len(p) = Len(f) + 1 /\ Len(f) \in Nat /\ Last(p) = h
      BY <1>1, LastOfAppend
    <3>2. DOMAIN p = 1..Len(p) /\ DOMAIN f = 1..Len(f)
      BY <1>1, <1>3 DEF IsPath
    <3>3. \A i \in 1..Len(p) : i = Len(p) \/ i \in 1..Len(f)
      BY <3>1
    <3>4. p[Len(p)] = h
      BY <3>1 DEF Last
    <3> HIDE DEF p
    <3> QED BY <3>1, <3>2, <3>3, <3>4 DEF ToSet
  <2>2. ASSUME NEW x \in Addresses, InTree(x), tree[x].parent \in draw.seen
        PROVE  x \in draw.seen \/ tree[x].parent \in ToSet(f)
    <3>1. x \in draw.seen \/ tree[x].parent \in ToSet(p)
      BY <1>1, <2>2 DEF SeenIsKnown
    <3>2. tree[x].parent = h => x \in draw.seen
      BY <1>1, <2>2 DEF InTree
    <3> QED BY <2>1, <3>1, <3>2
  <2>3. \A x \in Addresses : InTree(x)' /\ tree'[x].parent \in draw'.seen
           => x \in draw'.seen \/ tree'[x].parent \in ToSet(draw'.path)
    BY <1>1, <1>10, <2>2 DEF InTree
  <2>4. \A x \in Addresses : x \in draw'.seen => IsPlaced(x)'
    BY <1>1, <1>10 DEF SeenIsKnown
  <2>5. TreeRoot \in draw'.seen
    BY <1>1, <1>10 DEF SeenIsKnown
  <2> QED BY <2>3, <2>4, <2>5 DEF SeenIsKnown
<1>13. ProgramIsKnown'
  <2>1. CASE k = "material"
    BY <1>9, <2>1 DEF ProgramIsKnown
  <2>2. CASE k # "material"
    <3>1. PathOf(p, "material") = PathOf(f, "material")
      BY <1>1, <2>2, PathOfAppend DEF k
    <3>2. PathOf(draw.path, "material")' = PathOf(f, "material")
      BY <1>1, <1>10, SameTree
    <3>3. draw'.program = draw.program
      BY <1>9, <2>2
    <3>4. IsLit(draw.program)' <=> IsLit(draw.program)
      BY <1>1, <1>2, <3>3, SameLit
    <3>5. ModelOf(draw.program.by)' = ModelOf(draw.program.by)
      BY <1>1, <3>3, SameTree
    <3> QED BY <1>1, <3>1, <3>2, <3>3, <3>4, <3>5 DEF ProgramIsKnown
  <2> QED BY <2>1, <2>2
<1>14. ShownIsKnown'
  <2>1. CASE k = "mesh"
    <3>1. shown' = [node |-> h, content |-> Cached(h), program |-> draw.program]
      BY <1>2, <2>1 DEF Shows
    <3>2. draw'.program = draw.program
      BY <1>9, <2>1
    <3>3. Stale(shown.node)' <=> Stale(h)
      BY <1>1, <3>1 DEF Stale, Entry, Map, KindAt
    <3>4. ~ Stale(h) => Cached(h) = tree[h].content
      BY <1>1, CachedFact
    <3> QED BY <1>1, <3>1, <3>2, <3>3, <3>4 DEF ShownIsKnown
  <2>2. CASE k # "mesh"
    BY <1>2, <2>2 DEF ShownIsKnown
  <2> QED BY <2>1, <2>2
<1>15. LightsAreKnown'
  <2>1. \A x : IsLightNode(x)' <=> IsLightNode(x)
    BY <1>1, SameTree DEF IsLightNode
  <2> QED BY <1>1, <1>2, <2>1 DEF LightsAreKnown
<1>16. TreeIsKnown' /\ CacheIsKnown' /\ draws' \in 0..MaxDraws
  BY <1>1, TreeKeeps, CacheKeeps DEF SceneInv
<1>17. painter' \in Seq(Contents \cup {None}) /\ Len(painter') > 0 /\ painter'[1] = None
  BY <1>5 DEF Pushed
<1> QED BY <1>11, <1>12, <1>13, <1>14, <1>15, <1>16, <1>17 DEF SceneInv

LEMMA ScenesStep == SceneInv /\ [ScenesNext]_sceneVars => SceneInv'
<1> SUFFICES ASSUME SceneInv, [ScenesNext]_sceneVars PROVE SceneInv'
  OBVIOUS
<1>1. CASE \E a \in Addresses, parent \in Addresses, c \in Contents : InsertNode(a, parent, c)
  BY <1>1, InsertNodeKeeps
<1>2. CASE \E n \in Addresses : RemoveSubtree(n)
  BY <1>2, RemoveSubtreeKeeps
<1>3. CASE BeginDraw
  BY <1>3, BeginDrawKeeps
<1>4. CASE \E a \in Addresses : Discover(a)
  BY <1>4, DiscoverKeeps
<1>5. CASE Finish
  BY <1>5, FinishRoot, FinishNode
<1>6. CASE DrawThrows \/ EndPainter
  BY <1>6, OthersKeep
<1>7. CASE UNCHANGED sceneVars
  <2>1. /\ UNCHANGED <<hooked, tree, inserts, lights, cache, place, settled>>
        /\ UNCHANGED <<painter, draw, shown, draws>>
    BY <1>7 DEF sceneVars
  <2>2. TreeIsKnown' /\ CacheIsKnown' /\ LightsAreKnown'
    BY <2>1, TreeKeeps, CacheKeeps, LightsKeep DEF SceneInv
  <2>3. \A p, kind : PathOf(p, kind)' = PathOf(p, kind)
    BY <2>1, SameTree
  <2>4. /\ \A p : IsPath(p)' <=> IsPath(p)
        /\ \A p, models : Pushed(p, models)' <=> Pushed(p, models)
        /\ \A p : Held(p)' = Held(p)
    BY <2>1, SameTree, SameWalk
  <2>5. \A q : (IsLit(q)' <=> IsLit(q)) /\ ModelOf(q)' = ModelOf(q) /\ (Stale(q)' <=> Stale(q))
    BY <2>1, SameLit, SameTree DEF Stale, Entry, Map, KindAt
  <2>6. \A x : IsPlaced(x)' <=> IsPlaced(x)
    BY <2>1, SameTree DEF IsPlaced, IsLightNode
  <2>7. WalkIsKnown => WalkIsKnown'
    BY <2>1, <2>4 DEF WalkIsKnown
  <2>8. SeenIsKnown => SeenIsKnown'
    BY <2>1, <2>6 DEF SeenIsKnown, InTree
  <2>9. (ProgramIsKnown => ProgramIsKnown') /\ (ShownIsKnown => ShownIsKnown')
    BY <2>1, <2>3, <2>5 DEF ProgramIsKnown, ShownIsKnown
  <2> QED BY <2>1, <2>2, <2>7, <2>8, <2>9 DEF SceneInv
<1> QED BY <1>1, <1>2, <1>3, <1>4, <1>5, <1>6, <1>7 DEF ScenesNext

LEMMA SceneInvAlways == ScenesSpec => []SceneInv
<1>1. ScenesInit => SceneInv
  BY ScenesStart
<1>2. SceneInv /\ [ScenesNext]_sceneVars => SceneInv'
  BY ScenesStep
<1> QED BY <1>1, <1>2, PTL DEF ScenesSpec

\* What a view draws is what the tree holds, for any addresses, contents and numbers of
\* insertions, removals and draws (SceneView.cpp:90-207, Scene.cpp:133-202): states and
\* guards are those of the path, a mesh is itself under its own material, which is
\* where it is in the tree and lit by the scene's lights from where they are.
THEOREM ViewsStayTrue == ScenesSpec => []ViewsShowTheTree
<1>1. SceneInv => ViewsShowTheTree
  <2> SUFFICES ASSUME SceneInv PROVE ViewsShowTheTree
    OBVIOUS
  <2>1. ScenesTypeOK
    <3>1. \A a \in Addresses : tree[a] # None => tree[a].content \in Contents \cup {None}
      BY NodeFact DEF SceneInv, InTree
    <3>2. painter # <<>>
      BY DEF SceneInv
    <3> QED BY <3>1, <3>2 DEF ScenesTypeOK, SceneInv, LightsAreKnown
  <2>2. \A kind : OnPath(kind) = PathOf(draw.path, kind)
    BY DEF OnPath, PathOf
  <2>3. WalkIsNested
    <3> SUFFICES ASSUME draw # None
                 PROVE  /\ Tail(painter) = [i \in DOMAIN OnPath("transform") |-> tree[OnPath("transform")[i]].content]
                        /\ Len(draw.proxies) = Len(OnPath("material")) + Len(OnPath("bindable"))
      BY DEF WalkIsNested
    <3>1. WalkIsKnown /\ TreeIsKnown
      BY DEF SceneInv
    <3> DEFINE r == PathOf(draw.path, "transform")
               u == Tail(painter)
    <3>2. r \in Seq(Addresses) /\ Pushed(draw.path, painter)
      BY <3>1, ShorterPath, PathOfType DEF WalkIsKnown
    <3>3. /\ painter \in Seq(Contents \cup {None}) /\ Len(painter) = Len(r) + 1
          /\ \A i \in 1..Len(r) : painter[i + 1] = tree[r[i]].content
      BY <3>2 DEF Pushed
    <3> HIDE DEF r
    <3>4. Len(r) \in Nat /\ DOMAIN r = 1..Len(r)
      BY <3>2
    <3>5. /\ u \in Seq(Contents \cup {None}) /\ Len(u) = Len(r)
          /\ \A i \in 1..Len(r) : u[i] = painter[i + 1]
      BY <3>3, <3>4
    <3> HIDE DEF u
    <3>6. u = [i \in 1..Len(r) |-> u[i]]
      BY <3>5
    <3>7. u = [i \in DOMAIN r |-> tree[r[i]].content]
      BY <3>3, <3>4, <3>5, <3>6
    <3>8. Len(draw.proxies) = Held(draw.path)
      BY <3>1 DEF WalkIsKnown
    <3> QED BY <2>2, <3>7, <3>8 DEF Held, r, u
  <2>4. MeshesAreThemselves
    <3> SUFFICES ASSUME draw # None, shown # None, ~ Stale(shown.node)
                 PROVE  /\ shown.content = tree[shown.node].content
                        /\ shown.program # None =>
                              /\ OnPath("material") # <<>> /\ shown.program.by = Last(OnPath("material"))
                              /\ shown.program.model = ModelOf(shown.program.by)
      BY DEF MeshesAreThemselves
    <3>1. ProgramIsKnown /\ ShownIsKnown
      BY DEF SceneInv
    <3> QED BY <2>2, <3>1 DEF ProgramIsKnown, ShownIsKnown
  <2>5. LitFromTheirPlaces
    <3> SUFFICES ASSUME draw # None, draw.program # None
                 PROVE  /\ settled => \A a \in Addresses :
                              tree[a] # None /\ KindAt(a) = "light" /\ ~ (\E b \in Addresses \ {a} :
                                    tree[b] # None /\ tree[b].content = tree[a].content)
                              => \A q \in draw.program.lit : q[1] = tree[a].content => q[2] = ModelOf(a)
                        /\ hooked => \A a \in Addresses : tree[a] # None /\ KindAt(a) = "light" =>
                              \E q \in draw.program.lit : q[1] = tree[a].content
      BY DEF LitFromTheirPlaces
    <3>1. IsLit(draw.program)
      BY DEF SceneInv, ProgramIsKnown
    <3> QED BY <3>1 DEF IsLit, IsLightNode, InTree, Alone
  <2> QED BY <2>1, <2>3, <2>4, <2>5 DEF ViewsShowTheTree
<1> QED BY <1>1, SceneInvAlways, PTL
-----------------------------------------------------------------------------
(* Bindings                                                                  *)

\* What a guard counts, and what it binds.
LEMMA CountedIs ==
    ASSUME NEW c \in BindContexts, NEW b \in Bindables, NEW s \in BoundStates \cup {Nothing}
    PROVE  Counted(c, b, s) = [bound |-> [c.bound EXCEPT ![b] = @ + 1], state |-> [c.state EXCEPT ![b] = s],
                         program |-> c.program, active |-> c.active, unit |-> c.unit,
                         units |-> c.units, sampler |-> c.sampler]
<1> DEFINE nb == [c.bound EXCEPT ![b] = @ + 1]
           ns == [c.state EXCEPT ![b] = s]
           d == [bound |-> c.bound, state |-> ns, program |-> c.program, active |-> c.active, unit |-> c.unit,
                 units |-> c.units, sampler |-> c.sampler]
<1>1. c = [bound |-> c.bound, state |-> c.state, program |-> c.program, active |-> c.active, unit |-> c.unit,
                 units |-> c.units, sampler |-> c.sampler]
  BY DEF BindContexts
<1>2. [c EXCEPT !.state[b] = s] = d
  BY <1>1
<1>3. Counted(c, b, s) = [d EXCEPT !.bound = nb]
  BY <1>1, <1>2 DEF Counted
<1> QED BY <1>3

LEMMA KindsFacts ==
    /\ Shaders \subseteq Bindables /\ Textures \subseteq Bindables /\ Leaves \subseteq Bindables
    /\ Materials \subseteq Bindables /\ Leaves = Shaders \cup Textures
    /\ Nothing \notin Bindables /\ Nothing \notin BoundStates
    /\ \A p \in Shaders : p \notin Textures /\ p \notin Materials
    /\ \A t \in Textures : t \notin Shaders /\ t \notin Materials
    /\ IsFiniteSet(Textures) /\ Cardinality(Textures) \in Nat /\ 0 \in Units /\ IsFiniteSet(Materials)
<1>1. IsFiniteSet(Textures) /\ IsFiniteSet(Materials)
  <2>1. Textures \subseteq Bindables /\ Materials \subseteq Bindables
    BY DEF Bindables, Leaves
  <2> QED BY <2>1, KindsAssumption, FS_Subset
<1>2. Cardinality(Textures) \in Nat
  BY <1>1, FS_CardinalityType
<1> QED BY <1>1, <1>2, KindsAssumption DEF Bindables, Leaves, Units

\* The maps of a program take one texture more.
Extended(f, t, u) == [x \in DOMAIN f \cup {t} |-> IF x = t THEN u ELSE f[x]]

LEMMA MapsFact ==
    /\ EmptyMap \in Maps /\ DOMAIN EmptyMap = {}
    /\ \A f \in Maps : DOMAIN f \subseteq Textures /\ \A x \in DOMAIN f : f[x] \in Units
    /\ \A f \in Maps, t \in Textures, u \in Units : Extended(f, t, u) \in Maps
<1>1. EmptyMap \in [{} -> Units] /\ {} \in SUBSET Textures
  BY DEF EmptyMap
<1>2. \A f \in Maps : DOMAIN f \subseteq Textures /\ \A x \in DOMAIN f : f[x] \in Units
  BY DEF Maps
<1>3. ASSUME NEW f \in Maps, NEW t \in Textures, NEW u \in Units
      PROVE  Extended(f, t, u) \in Maps
  <2> DEFINE T == DOMAIN f \cup {t}
  <2>1. T \in SUBSET Textures
    BY <1>2
  <2>2. Extended(f, t, u) \in [T -> Units]
    BY <1>2 DEF Extended
  <2> QED BY <2>1, <2>2 DEF Maps
<1>4. DOMAIN EmptyMap = {}
  BY DEF EmptyMap
<1> QED BY <1>1, <1>2, <1>3, <1>4 DEF Maps

LEMMA UnitOfFact ==
    ASSUME NEW c \in BindContexts, NEW p \in Shaders, NEW t \in Textures
    PROVE  UnitOf(c, p, t) \in Units
<1> DEFINE D == DOMAIN c.units[p]
<1>1. c.units[p] \in Maps
  BY DEF BindContexts
<1>2. D \subseteq Textures /\ \A x \in D : c.units[p][x] \in Units
  BY <1>1, MapsFact
<1>3. CASE t \in D
  BY <1>2, <1>3 DEF UnitOf
<1>4. CASE t \notin D
  <2>1. IsFiniteSet(D) /\ Cardinality(D) <= Cardinality(Textures) /\ Cardinality(D) \in Nat
    BY <1>2, KindsFacts, FS_Subset, FS_CardinalityType
  <2> QED BY <1>4, <2>1, KindsFacts DEF UnitOf, Units
<1> QED BY <1>3, <1>4

\* What a guard on a program or a texture does.
LEMMA GuardLeafFact ==
    ASSUME NEW c \in BindContexts, NEW b \in Leaves, NEW s \in BoundStates
    PROVE  LET d == GuardLeaf(c, b, s) IN
           /\ d \in BindContexts /\ d.bound = [c.bound EXCEPT ![b] = @ + 1]
           /\ d.active = c.active /\ d.units = c.units /\ d.sampler = c.sampler
           /\ d.program = IF b \in Shaders /\ c.bound[b] = 0 THEN b ELSE c.program
           /\ d.unit = IF b \in Textures /\ c.bound[b] = 0 THEN [c.unit EXCEPT ![c.active] = b] ELSE c.unit
<1> DEFINE d == GuardLeaf(c, b, s)
           e == Counted(c, b, s)
           bound == [c.bound EXCEPT ![b] = @ + 1]
           state == [c.state EXCEPT ![b] = s]
           unit == [c.unit EXCEPT ![c.active] = b]
<1>1. b \in Bindables
  BY KindsFacts
<1>2. e = [bound |-> bound, state |-> state, program |-> c.program, active |-> c.active,
           unit |-> c.unit, units |-> c.units, sampler |-> c.sampler]
  BY <1>1, CountedIs
<1>3. bound \in [Bindables -> Nat] /\ state \in [Bindables -> BoundStates \cup {Nothing}]
  BY <1>1 DEF BindContexts
<1>4. /\ c.program \in Shaders \cup {Nothing} /\ c.active \in Units /\ c.unit \in [Units -> Textures \cup {Nothing}]
      /\ c.units \in [Shaders -> Maps] /\ c.sampler \in [Shaders -> Maps]
  BY DEF BindContexts
<1> HIDE DEF e, bound, state
<1>5. CASE c.bound[b] # 0
  <2>1. d = e
    BY <1>5 DEF GuardLeaf, e
  <2> HIDE DEF d
  <2> QED BY <1>2, <1>3, <1>4, <1>5, <2>1 DEF BindContexts, d, bound
<1>6. CASE c.bound[b] = 0 /\ b \in Shaders
  <2>1. d = GLBind(e, b)
    BY <1>6 DEF GuardLeaf, e
  <2>2. d = [bound |-> bound, state |-> state, program |-> b, active |-> c.active,
             unit |-> c.unit, units |-> c.units, sampler |-> c.sampler]
    BY <1>2, <1>6, <2>1 DEF GLBind
  <2> HIDE DEF d
  <2> QED BY <1>3, <1>4, <1>6, <2>2, KindsFacts DEF BindContexts, d, bound
<1>7. CASE c.bound[b] = 0 /\ b \notin Shaders
  <2>1. d = GLBind(e, b) /\ b \in Textures
    BY <1>7, KindsFacts DEF GuardLeaf, e
  <2>2. d = [bound |-> bound, state |-> state, program |-> c.program, active |-> c.active,
             unit |-> unit, units |-> c.units, sampler |-> c.sampler]
    BY <1>2, <1>7, <2>1 DEF GLBind
  <2>3. unit \in [Units -> Textures \cup {Nothing}]
    BY <1>4, <2>1
  <2> HIDE DEF d, unit
  <2> QED BY <1>3, <1>4, <1>7, <2>1, <2>2, <2>3 DEF BindContexts, d, bound, unit
<1> QED BY <1>5, <1>6, <1>7

\* The same of the end of a guard.
LEMMA UncountedFact ==
    ASSUME NEW c \in BindContexts, NEW b \in Bindables, c.bound[b] > 0
    PROVE  /\ Uncounted(c, b) = [bound |-> [c.bound EXCEPT ![b] = @ - 1], state |-> [c.state EXCEPT ![b] = Nothing],
                         program |-> c.program, active |-> c.active, unit |-> c.unit,
                         units |-> c.units, sampler |-> c.sampler]
           /\ Uncounted(c, b) \in BindContexts
<1> DEFINE nb == [c.bound EXCEPT ![b] = @ - 1]
           ns == [c.state EXCEPT ![b] = Nothing]
           d == [bound |-> nb, state |-> c.state, program |-> c.program, active |-> c.active, unit |-> c.unit,
                 units |-> c.units, sampler |-> c.sampler]
<1>1. c = [bound |-> c.bound, state |-> c.state, program |-> c.program, active |-> c.active, unit |-> c.unit,
                 units |-> c.units, sampler |-> c.sampler]
  BY DEF BindContexts
<1>2. [c EXCEPT !.bound[b] = @ - 1] = d
  BY <1>1
<1>3. Uncounted(c, b) = [d EXCEPT !.state = ns]
  BY <1>1, <1>2 DEF Uncounted
<1>4. nb \in [Bindables -> Nat] /\ ns \in [Bindables -> BoundStates \cup {Nothing}]
  BY DEF BindContexts
<1> HIDE DEF nb, ns
<1>5. Uncounted(c, b) = [bound |-> nb, state |-> ns, program |-> c.program, active |-> c.active, unit |-> c.unit,
                 units |-> c.units, sampler |-> c.sampler]
  BY <1>3
<1>6. Uncounted(c, b) \in BindContexts
  BY <1>4, <1>5 DEF BindContexts
<1> QED BY <1>5, <1>6 DEF nb, ns

LEMMA UnguardLeafFact ==
    ASSUME NEW c \in BindContexts, NEW b \in Leaves, c.bound[b] > 0
    PROVE  LET d == UnguardLeaf(c, b)  last == c.bound[b] = 1 IN
           /\ d \in BindContexts /\ d.bound = [c.bound EXCEPT ![b] = @ - 1]
           /\ d.active = c.active /\ d.sampler = c.sampler
           /\ d.units = IF b \in Shaders /\ last THEN [c.units EXCEPT ![b] = EmptyMap] ELSE c.units
           /\ d.program = IF b \in Shaders /\ last THEN Nothing ELSE c.program
           /\ d.unit = IF b \in Textures /\ last THEN [c.unit EXCEPT ![c.active] = Nothing] ELSE c.unit
<1> DEFINE d == UnguardLeaf(c, b)
           e == Uncounted(c, b)
           bound == [c.bound EXCEPT ![b] = @ - 1]
           state == [c.state EXCEPT ![b] = Nothing]
           unit == [c.unit EXCEPT ![c.active] = Nothing]
           units == [c.units EXCEPT ![b] = EmptyMap]
<1>1. b \in Bindables
  BY KindsFacts
<1>2. /\ e = [bound |-> bound, state |-> state, program |-> c.program, active |-> c.active,
           unit |-> c.unit, units |-> c.units, sampler |-> c.sampler]
      /\ e \in BindContexts
  BY <1>1, UncountedFact
<1>3. bound \in [Bindables -> Nat] /\ state \in [Bindables -> BoundStates \cup {Nothing}]
  BY <1>1 DEF BindContexts
<1>4. /\ c.program \in Shaders \cup {Nothing} /\ c.active \in Units /\ c.unit \in [Units -> Textures \cup {Nothing}]
      /\ c.units \in [Shaders -> Maps] /\ c.sampler \in [Shaders -> Maps]
  BY DEF BindContexts
<1> HIDE DEF e, bound, state
<1>5. CASE c.bound[b] # 1
  <2>1. d = e
    BY <1>5 DEF UnguardLeaf, LastGuard, e
  <2> HIDE DEF d
  <2> QED BY <1>2, <1>3, <1>4, <1>5, <2>1 DEF d, bound
<1>6. CASE c.bound[b] = 1 /\ b \in Shaders
  <2>1. d = [e EXCEPT !.program = Nothing, !.units[b] = EmptyMap]
    BY <1>6 DEF UnguardLeaf, LastGuard, GLUnbind, e
  <2>2. [e EXCEPT !.program = Nothing] = [bound |-> bound, state |-> state, program |-> Nothing, active |-> c.active,
             unit |-> c.unit, units |-> c.units, sampler |-> c.sampler]
    BY <1>2
  <2>3. d = [[e EXCEPT !.program = Nothing] EXCEPT !.units = units]
    BY <1>2, <2>1
  <2>4. d = [bound |-> bound, state |-> state, program |-> Nothing, active |-> c.active,
             unit |-> c.unit, units |-> units, sampler |-> c.sampler]
    <3> HIDE DEF units
    <3> QED BY <2>2, <2>3
  <2>5. units \in [Shaders -> Maps]
    BY <1>4, <1>6, MapsFact
  <2> HIDE DEF d, units
  <2>6. d \in BindContexts
    BY <1>3, <1>4, <2>4, <2>5 DEF BindContexts
  <2> QED BY <1>6, <2>4, <2>6, KindsFacts DEF d, bound, units
<1>7. CASE c.bound[b] = 1 /\ b \notin Shaders
  <2>1. d = GLUnbind(e, b) /\ b \in Textures
    BY <1>7, KindsFacts DEF UnguardLeaf, LastGuard, e
  <2>2. d = [bound |-> bound, state |-> state, program |-> c.program, active |-> c.active,
             unit |-> unit, units |-> c.units, sampler |-> c.sampler]
    BY <1>2, <1>7, <2>1 DEF GLUnbind
  <2>3. unit \in [Units -> Textures \cup {Nothing}]
    BY <1>4, <2>1
  <2> HIDE DEF d, unit
  <2> QED BY <1>3, <1>4, <1>7, <2>1, <2>2, <2>3 DEF BindContexts, d, bound, unit
<1> QED BY <1>5, <1>6, <1>7

\* A texture and its program are guarded: the unit is told to the program.
LEMMA BindUnitFact ==
    ASSUME NEW c \in BindContexts, NEW p \in Shaders, NEW t \in Textures, c.bound[p] > 0, c.bound[t] > 0
    PROVE  LET d == BindUnit(c, p, t)  u == UnitOf(c, p, t) IN
           /\ d \in BindContexts /\ d.bound = c.bound
           /\ d.program = c.program /\ d.unit = c.unit /\ d.active = u
           /\ d.units = [c.units EXCEPT ![p] = Extended(@, t, u)]
           /\ d.sampler = [c.sampler EXCEPT ![p] = Extended(@, t, u)]
<1> DEFINE d == BindUnit(c, p, t)
           u == UnitOf(c, p, t)
           units == [c.units EXCEPT ![p] = Extended(@, t, u)]
           sampler == [c.sampler EXCEPT ![p] = Extended(@, t, u)]
           e == [bound |-> c.bound, state |-> c.state, program |-> c.program, active |-> u,
                 unit |-> c.unit, units |-> units, sampler |-> c.sampler]
<1>1. u \in Units
  BY UnitOfFact
<1>2. /\ c.bound \in [Bindables -> Nat] /\ c.state \in [Bindables -> BoundStates \cup {Nothing}]
      /\ c.program \in Shaders \cup {Nothing} /\ c.active \in Units /\ c.unit \in [Units -> Textures \cup {Nothing}]
      /\ c.units \in [Shaders -> Maps] /\ c.sampler \in [Shaders -> Maps]
      /\ c = [bound |-> c.bound, state |-> c.state, program |-> c.program, active |-> c.active, unit |-> c.unit,
              units |-> c.units, sampler |-> c.sampler]
  BY DEF BindContexts
<1>3. units \in [Shaders -> Maps] /\ sampler \in [Shaders -> Maps]
  <2>1. Extended(c.units[p], t, u) \in Maps /\ Extended(c.sampler[p], t, u) \in Maps
    BY <1>1, <1>2, MapsFact
  <2> QED BY <1>2, <2>1
<1>4. [c EXCEPT !.active = u, !.units[p] =
                    [x \in DOMAIN @ \cup {t} |-> IF x = t THEN u ELSE @[x]]] = e
  <2> DEFINE k == [c EXCEPT !.active = u, !.units[p] = [x \in DOMAIN @ \cup {t} |-> IF x = t THEN u ELSE @[x]]]
  <2> HIDE DEF u
  <2>1. [c EXCEPT !.active = u] = [bound |-> c.bound, state |-> c.state, program |-> c.program, active |-> u,
            unit |-> c.unit, units |-> c.units, sampler |-> c.sampler]
    BY <1>2
  <2>2. k = [[c EXCEPT !.active = u] EXCEPT !.units = units]
    BY <1>2 DEF Extended
  <2>3. k = e
    <3> HIDE DEF units, k
    <3> QED BY <2>1, <2>2
  <2> QED BY <2>3
<1>5. c.bound[t] # 0 /\ c.bound[p] # 0
  OBVIOUS
<1>6. d = SetSampler(e, p, t, u)
  <2>1. e.bound = c.bound
    OBVIOUS
  <2> HIDE DEF e, u
  <2> QED BY <1>4, <1>5, <2>1 DEF BindUnit, Within, Entered, u
<1>7. d = [e EXCEPT !.sampler[p] = [x \in DOMAIN @ \cup {t} |-> IF x = t THEN u ELSE @[x]]]
  <2>1. e.bound = c.bound
    OBVIOUS
  <2> HIDE DEF e, d, u
  <2> QED BY <1>5, <1>6, <2>1 DEF SetSampler, Within, Entered
<1>8. d = [e EXCEPT !.sampler = sampler]
  <2>1. e.sampler = c.sampler
    OBVIOUS
  <2> HIDE DEF e, d, u
  <2> QED BY <1>7, <2>1 DEF Extended
<1>9. d = [bound |-> c.bound, state |-> c.state, program |-> c.program, active |-> u,
           unit |-> c.unit, units |-> units, sampler |-> sampler]
  <2> HIDE DEF units, sampler, d, u
  <2> QED BY <1>8
<1> HIDE DEF units, sampler, d, u
<1>10. d \in BindContexts
  BY <1>1, <1>2, <1>3, <1>9 DEF BindContexts
<1> QED BY <1>9, <1>10 DEF units, sampler, d, u

\* What OpenGL has bound is what is counted; of one texture, on the first unit.
ContextKept(c) ==
    /\ c.program # Nothing => c.bound[c.program] > 0
    /\ OneProgram => \A p \in Shaders : c.bound[p] > 0 => c.program = p
    /\ OneTexture =>
          /\ c.active = 0
          /\ \A u \in Units : c.unit[u] # Nothing => u = 0 /\ c.bound[c.unit[u]] > 0
          /\ \A t \in Textures : c.bound[t] > 0 => c.unit[0] = t
          /\ \A p \in Shaders : /\ \A t \in DOMAIN c.units[p] : c.units[p][t] = 0
                               /\ \A t \in DOMAIN c.sampler[p] : c.sampler[p][t] = 0

LEMMA ContextSame ==
    ASSUME NEW c, NEW d, ContextKept(c), c \in BindContexts,
           d.program = c.program, d.active = c.active, d.unit = c.unit, d.units = c.units, d.sampler = c.sampler,
           \A b \in Leaves : d.bound[b] = c.bound[b]
    PROVE  ContextKept(d)
<1>1. c.program \in Shaders \cup {Nothing} /\ \A u \in Units : c.unit[u] \in Textures \cup {Nothing}
  BY DEF BindContexts
<1>2. Shaders \subseteq Leaves /\ Textures \subseteq Leaves
  BY KindsFacts
<1> QED BY <1>1, <1>2 DEF ContextKept

LEMMA GuardLeafKeeps ==
    ASSUME NEW c \in BindContexts, ContextKept(c), NEW b \in Leaves, NEW s \in BoundStates
    PROVE  ContextKept(GuardLeaf(c, b, s))
<1> DEFINE d == GuardLeaf(c, b, s)
<1>1. /\ d \in BindContexts /\ d.bound = [c.bound EXCEPT ![b] = @ + 1]
      /\ d.active = c.active /\ d.units = c.units /\ d.sampler = c.sampler
      /\ d.program = IF b \in Shaders /\ c.bound[b] = 0 THEN b ELSE c.program
      /\ d.unit = IF b \in Textures /\ c.bound[b] = 0 THEN [c.unit EXCEPT ![c.active] = b] ELSE c.unit
  BY GuardLeafFact
<1> HIDE DEF d
<1>2. /\ c.program \in Shaders \cup {Nothing} /\ c.unit \in [Units -> Textures \cup {Nothing}] /\ c.active \in Units
      /\ c.bound \in [Bindables -> Nat]
  BY DEF BindContexts
<1>3. /\ \A p \in Shaders : p \in Bindables /\ p \notin Textures /\ p # Nothing
      /\ \A t \in Textures : t \in Bindables /\ t \notin Shaders /\ t # Nothing
      /\ b \in Bindables /\ b \in Shaders \cup Textures /\ 0 \in Units
  BY KindsFacts
<1>4. \A x \in Bindables : c.bound[x] \in Nat /\ d.bound[x] = IF x = b THEN c.bound[b] + 1 ELSE c.bound[x]
  BY <1>1, <1>2, <1>3
<1>5. \A x \in Bindables : (c.bound[x] > 0 => d.bound[x] > 0) /\ d.bound[b] > 0
      /\ (d.bound[x] > 0 => x = b \/ c.bound[x] > 0)
  BY <1>3, <1>4
<1>6. d.program # Nothing => d.bound[d.program] > 0
  BY <1>1, <1>2, <1>3, <1>5 DEF ContextKept
<1>7. OneProgram => \A p \in Shaders : d.bound[p] > 0 => d.program = p
  <2> SUFFICES ASSUME OneProgram, NEW p \in Shaders, d.bound[p] > 0 PROVE d.program = p
    OBVIOUS
  <2>1. CASE b \in Shaders /\ c.bound[b] = 0
    BY <1>1, <2>1 DEF OneProgram
  <2>2. CASE ~ (b \in Shaders /\ c.bound[b] = 0)
    <3>1. c.bound[p] > 0
      <4>1. CASE p = b
        <5>1. c.bound[b] # 0 /\ c.bound[b] \in Nat
          BY <1>3, <1>4, <2>2, <4>1
        <5> QED BY <4>1, <5>1
      <4>2. CASE p # b
        BY <1>3, <1>5, <4>2
      <4> QED BY <4>1, <4>2
    <3> QED BY <1>1, <2>2, <3>1 DEF ContextKept
  <2> QED BY <2>1, <2>2
<1>8. ASSUME OneTexture
      PROVE  /\ d.active = 0
             /\ \A u \in Units : d.unit[u] # Nothing => u = 0 /\ d.bound[d.unit[u]] > 0
             /\ \A t \in Textures : d.bound[t] > 0 => d.unit[0] = t
  <2>1. /\ c.active = 0
        /\ \A u \in Units : c.unit[u] # Nothing => u = 0 /\ c.bound[c.unit[u]] > 0
        /\ \A t \in Textures : c.bound[t] > 0 => c.unit[0] = t
    BY <1>8 DEF ContextKept
  <2>2. CASE b \in Textures /\ c.bound[b] = 0
    <3>1. d.unit = [c.unit EXCEPT ![0] = b]
      BY <1>1, <2>1, <2>2
    <3>2. d.unit[0] = b /\ \A u \in Units \ {0} : d.unit[u] = c.unit[u]
      BY <1>2, <1>3, <3>1
    <3>3. \A t \in Textures : t = b
      BY <1>8, <2>2 DEF OneTexture
    <3>4. d.bound[b] > 0
      BY <1>3, <1>5
    <3>5. \A u \in Units : d.unit[u] # Nothing => u = 0
      BY <2>1, <3>2
    <3> QED BY <1>1, <2>1, <3>2, <3>3, <3>4, <3>5
  <2>3. CASE ~ (b \in Textures /\ c.bound[b] = 0)
    <3>1. d.unit = c.unit
      BY <1>1, <2>3
    <3>2. ASSUME NEW t \in Textures, d.bound[t] > 0 PROVE c.bound[t] > 0
      <4>1. CASE t = b
        <5>1. c.bound[b] # 0 /\ c.bound[b] \in Nat
          BY <1>3, <1>4, <2>3, <4>1
        <5> QED BY <4>1, <5>1
      <4>2. CASE t # b
        BY <1>3, <1>5, <3>2, <4>2
      <4> QED BY <4>1, <4>2
    <3> QED BY <1>1, <1>2, <1>3, <1>5, <2>1, <3>1, <3>2
  <2> QED BY <2>2, <2>3
<1>9. OneTexture => \A p \in Shaders : /\ \A t \in DOMAIN d.units[p] : d.units[p][t] = 0
                                      /\ \A t \in DOMAIN d.sampler[p] : d.sampler[p][t] = 0
  BY <1>1 DEF ContextKept
<1>10. ContextKept(d)
  BY <1>6, <1>7, <1>8, <1>9 DEF ContextKept
<1> QED BY <1>10 DEF d

LEMMA UnguardLeafKeeps ==
    ASSUME NEW c \in BindContexts, ContextKept(c), NEW b \in Leaves, c.bound[b] > 0
    PROVE  ContextKept(UnguardLeaf(c, b))
<1> DEFINE d == UnguardLeaf(c, b)
           last == c.bound[b] = 1
<1>1. /\ d \in BindContexts /\ d.bound = [c.bound EXCEPT ![b] = @ - 1]
      /\ d.active = c.active /\ d.sampler = c.sampler
      /\ d.units = IF b \in Shaders /\ last THEN [c.units EXCEPT ![b] = EmptyMap] ELSE c.units
      /\ d.program = IF b \in Shaders /\ last THEN Nothing ELSE c.program
      /\ d.unit = IF b \in Textures /\ last THEN [c.unit EXCEPT ![c.active] = Nothing] ELSE c.unit
  BY UnguardLeafFact
<1> HIDE DEF d
<1>2. /\ c.program \in Shaders \cup {Nothing} /\ c.unit \in [Units -> Textures \cup {Nothing}] /\ c.active \in Units
      /\ c.bound \in [Bindables -> Nat] /\ c.units \in [Shaders -> Maps]
  BY DEF BindContexts
<1>3. /\ \A p \in Shaders : p \in Bindables /\ p \notin Textures /\ p # Nothing
      /\ \A t \in Textures : t \in Bindables /\ t \notin Shaders /\ t # Nothing
      /\ b \in Bindables /\ b \in Shaders \cup Textures /\ 0 \in Units
  BY KindsFacts
<1>4. \A x \in Bindables : c.bound[x] \in Nat /\ d.bound[x] = IF x = b THEN c.bound[b] - 1 ELSE c.bound[x]
  BY <1>1, <1>2, <1>3
<1>5. \A x \in Bindables : (d.bound[x] > 0 => c.bound[x] > 0) /\ (c.bound[x] > 0 => d.bound[x] > 0 \/ (x = b /\ last))
      /\ (last => ~ (d.bound[b] > 0))
  BY <1>3, <1>4
<1>6. d.program # Nothing => d.bound[d.program] > 0
  BY <1>1, <1>2, <1>3, <1>5 DEF ContextKept
<1>7. OneProgram => \A p \in Shaders : d.bound[p] > 0 => d.program = p
  <2> SUFFICES ASSUME OneProgram, NEW p \in Shaders, d.bound[p] > 0 PROVE d.program = p
    OBVIOUS
  <2>1. c.program = p
    BY <1>3, <1>5 DEF ContextKept
  <2>2. ~ (b \in Shaders /\ last)
    <3>1. b \in Shaders => b = p
      BY DEF OneProgram
    <3> QED BY <1>5, <1>3, <3>1
  <2> QED BY <1>1, <2>1, <2>2
<1>8. ASSUME OneTexture
      PROVE  /\ d.active = 0
             /\ \A u \in Units : d.unit[u] # Nothing => u = 0 /\ d.bound[d.unit[u]] > 0
             /\ \A t \in Textures : d.bound[t] > 0 => d.unit[0] = t
  <2>1. /\ c.active = 0
        /\ \A u \in Units : c.unit[u] # Nothing => u = 0 /\ c.bound[c.unit[u]] > 0
        /\ \A t \in Textures : c.bound[t] > 0 => c.unit[0] = t
    BY <1>8 DEF ContextKept
  <2>2. CASE b \in Textures /\ last
    <3>1. d.unit = [c.unit EXCEPT ![0] = Nothing]
      BY <1>1, <2>1, <2>2
    <3>2. d.unit[0] = Nothing /\ \A u \in Units \ {0} : d.unit[u] = c.unit[u]
      BY <1>2, <1>3, <3>1
    <3>3. \A t \in Textures : t = b
      BY <1>8, <2>2 DEF OneTexture
    <3> QED BY <1>1, <1>3, <1>5, <2>1, <2>2, <3>2, <3>3
  <2>3. CASE ~ (b \in Textures /\ last)
    <3>1. d.unit = c.unit
      BY <1>1, <2>3
    <3>2. \A t \in Textures : d.bound[t] > 0 <=> c.bound[t] > 0
      BY <1>3, <1>5, <2>3
    <3> QED BY <1>1, <1>2, <1>3, <2>1, <3>1, <3>2
  <2> QED BY <2>2, <2>3
<1>9. OneTexture => \A p \in Shaders : /\ \A t \in DOMAIN d.units[p] : d.units[p][t] = 0
                                      /\ \A t \in DOMAIN d.sampler[p] : d.sampler[p][t] = 0
  <2>1. \A p \in Shaders : d.units[p] = c.units[p] \/ d.units[p] = EmptyMap
    BY <1>1, <1>2
  <2> QED BY <1>1, <2>1, MapsFact DEF ContextKept
<1>10. ContextKept(d)
  BY <1>6, <1>7, <1>8, <1>9 DEF ContextKept
<1> QED BY <1>10 DEF d

LEMMA BindUnitKeeps ==
    ASSUME NEW c \in BindContexts, ContextKept(c), NEW p \in Shaders, NEW t \in Textures,
           c.bound[p] > 0, c.bound[t] > 0
    PROVE  ContextKept(BindUnit(c, p, t))
<1> DEFINE d == BindUnit(c, p, t)
           u == UnitOf(c, p, t)
<1>1. /\ d \in BindContexts /\ d.bound = c.bound
      /\ d.program = c.program /\ d.unit = c.unit /\ d.active = u
      /\ d.units = [c.units EXCEPT ![p] = Extended(@, t, u)]
      /\ d.sampler = [c.sampler EXCEPT ![p] = Extended(@, t, u)]
  BY BindUnitFact
<1>2. c.units \in [Shaders -> Maps] /\ c.sampler \in [Shaders -> Maps]
  BY DEF BindContexts
<1>3. ASSUME OneTexture PROVE u = 0
  <2>1. CASE t \in DOMAIN c.units[p]
    BY <1>3, <2>1 DEF UnitOf, ContextKept
  <2>2. CASE t \notin DOMAIN c.units[p]
    <3>1. DOMAIN c.units[p] \subseteq Textures
      BY <1>2, MapsFact
    <3>2. DOMAIN c.units[p] = {}
      BY <1>3, <2>2, <3>1 DEF OneTexture
    <3> QED BY <2>2, <3>2, FS_EmptySet DEF UnitOf
  <2> QED BY <2>1, <2>2
<1> HIDE DEF d, u
<1>4. OneTexture => \A q \in Shaders : /\ \A x \in DOMAIN d.units[q] : d.units[q][x] = 0
                                      /\ \A x \in DOMAIN d.sampler[q] : d.sampler[q][x] = 0
  <2> SUFFICES ASSUME OneTexture, NEW q \in Shaders
               PROVE  /\ \A x \in DOMAIN d.units[q] : d.units[q][x] = 0
                      /\ \A x \in DOMAIN d.sampler[q] : d.sampler[q][x] = 0
    OBVIOUS
  <2>1. /\ d.units[q] = IF q = p THEN Extended(c.units[p], t, u) ELSE c.units[q]
        /\ d.sampler[q] = IF q = p THEN Extended(c.sampler[p], t, u) ELSE c.sampler[q]
    BY <1>1, <1>2
  <2>2. /\ \A x \in DOMAIN c.units[q] : c.units[q][x] = 0
        /\ \A x \in DOMAIN c.sampler[q] : c.sampler[q][x] = 0
    BY DEF ContextKept
  <2> QED BY <1>3, <2>1, <2>2 DEF Extended
<1>5. ContextKept(d)
  BY <1>1, <1>3, <1>4 DEF ContextKept
<1> QED BY <1>5 DEF d

\* Setting a parameter: a program that is not guarded is in use for a moment.
LEMMA SetParameterIs ==
    ASSUME NEW c \in BindContexts, ContextKept(c), NEW p \in Shaders
    PROVE  LET d == Within(c, p, Entered(c, p)) IN
           /\ d \in BindContexts /\ ContextKept(d) /\ d.bound = c.bound /\ d.sampler = c.sampler
<1> DEFINE d == Within(c, p, Entered(c, p))
<1>1. CASE c.bound[p] # 0
  <2>1. d = c
    BY <1>1 DEF Within, Entered
  <2> QED BY <2>1
<1>2. CASE c.bound[p] = 0
  <2> DEFINE units == [c.units EXCEPT ![p] = EmptyMap]
             e == [c EXCEPT !.program = p]
  <2>1. /\ c.bound \in [Bindables -> Nat] /\ c.state \in [Bindables -> BoundStates \cup {Nothing}]
        /\ c.program \in Shaders \cup {Nothing} /\ c.active \in Units /\ c.unit \in [Units -> Textures \cup {Nothing}]
        /\ c.units \in [Shaders -> Maps] /\ c.sampler \in [Shaders -> Maps]
        /\ c = [bound |-> c.bound, state |-> c.state, program |-> c.program, active |-> c.active, unit |-> c.unit,
                units |-> c.units, sampler |-> c.sampler]
    BY DEF BindContexts
  <2>2. units \in [Shaders -> Maps]
    BY <2>1, MapsFact
  <2>3. d = [e EXCEPT !.program = Nothing, !.units[p] = EmptyMap]
    BY <1>2 DEF Within, Entered, GLBind, GLUnbind
  <2>4. e = [bound |-> c.bound, state |-> c.state, program |-> p, active |-> c.active, unit |-> c.unit,
             units |-> c.units, sampler |-> c.sampler]
    BY <2>1
  <2>5. d = [[e EXCEPT !.program = Nothing] EXCEPT !.units = units]
    <3>1. e.units = c.units
      BY <2>4
    <3> HIDE DEF e
    <3> QED BY <2>3, <3>1
  <2> HIDE DEF e, d, units
  <2>6. [e EXCEPT !.program = Nothing] = [bound |-> c.bound, state |-> c.state, program |-> Nothing, active |-> c.active,
             unit |-> c.unit, units |-> c.units, sampler |-> c.sampler]
    BY <2>4
  <2>7. d = [bound |-> c.bound, state |-> c.state, program |-> Nothing, active |-> c.active, unit |-> c.unit,
             units |-> units, sampler |-> c.sampler]
    BY <2>5, <2>6
  <2>8. d \in BindContexts
    BY <2>1, <2>2, <2>7 DEF BindContexts
  <2>9. OneProgram => \A q \in Shaders : ~ (c.bound[q] > 0)
    BY <1>2 DEF OneProgram
  <2>10. \A q \in Shaders : units[q] = IF q = p THEN EmptyMap ELSE c.units[q]
    BY <2>1 DEF units
  <2>11. ContextKept(d)
    BY <2>7, <2>9, <2>10, MapsFact DEF ContextKept
  <2> QED BY <2>7, <2>8, <2>11 DEF d
<1> QED BY <1>1, <1>2

-----------------------------------------------------------------------------
(* Counting *)

GuardsOf(g, L, t) == {i \in L : g[i] = t}

LEMMA CountFact ==
    ASSUME NEW g, NEW L, IsFiniteSet(L), NEW t
    PROVE  /\ IsFiniteSet(GuardsOf(g, L, t)) /\ Cardinality(GuardsOf(g, L, t)) \in Nat
           /\ Cardinality(GuardsOf(g, L, t)) = 0 <=> GuardsOf(g, L, t) = {}
           /\ \A p : p \notin L =>
                 Cardinality(GuardsOf(g, L \cup {p}, t)) =
                    IF g[p] = t THEN Cardinality(GuardsOf(g, L, t)) + 1 ELSE Cardinality(GuardsOf(g, L, t))
<1>1. IsFiniteSet(GuardsOf(g, L, t))
  <2>1. GuardsOf(g, L, t) \subseteq L
    BY DEF GuardsOf
  <2> QED BY <2>1, FS_Subset
<1>2. ASSUME NEW p, p \notin L
      PROVE  Cardinality(GuardsOf(g, L \cup {p}, t)) =
                IF g[p] = t THEN Cardinality(GuardsOf(g, L, t)) + 1 ELSE Cardinality(GuardsOf(g, L, t))
  <2>1. CASE g[p] = t
    <3>1. GuardsOf(g, L \cup {p}, t) = GuardsOf(g, L, t) \cup {p} /\ p \notin GuardsOf(g, L, t)
      BY <1>2, <2>1 DEF GuardsOf
    <3> DEFINE G == GuardsOf(g, L, t)
    <3> HIDE DEF G
    <3>2. IsFiniteSet(G) /\ p \notin G
      BY <1>1, <3>1 DEF G
    <3>3. Cardinality(G \cup {p}) = Cardinality(G) + 1
      BY <3>2, FS_AddElement
    <3> QED BY <2>1, <3>1, <3>3 DEF G
  <2>2. CASE g[p] # t
    <3>1. GuardsOf(g, L \cup {p}, t) = GuardsOf(g, L, t)
      BY <2>2 DEF GuardsOf
    <3> QED BY <2>2, <3>1
  <2> QED BY <2>1, <2>2
<1> QED BY <1>1, <1>2, FS_CardinalityType, FS_EmptySet

\* Bindables count the guards L, where h tells what each one is on.
GuardsCounted(c, h, L) == \A b \in Bindables : c.bound[b] = Cardinality(GuardsOf(h, L, b))

LEMMA CountsMore ==
    ASSUME NEW c, NEW d, c.bound \in [Bindables -> Nat], NEW h, NEW L, IsFiniteSet(L), GuardsCounted(c, h, L),
           NEW x, x \notin L, h[x] \in Bindables, d.bound = [c.bound EXCEPT ![h[x]] = @ + 1]
    PROVE  GuardsCounted(d, h, L \cup {x})
<1>1. \A b \in Bindables : Cardinality(GuardsOf(h, L \cup {x}, b)) =
          IF h[x] = b THEN Cardinality(GuardsOf(h, L, b)) + 1 ELSE Cardinality(GuardsOf(h, L, b))
  BY CountFact
<1> QED BY <1>1 DEF GuardsCounted

LEMMA CountsLess ==
    ASSUME NEW c, NEW h, NEW L, IsFiniteSet(L), c.bound \in [Bindables -> Nat],
           NEW x, x \notin L, GuardsCounted(c, h, L \cup {x}), h[x] \in Bindables
    PROVE  /\ c.bound[h[x]] > 0
           /\ \A d : d.bound = [c.bound EXCEPT ![h[x]] = @ - 1] => GuardsCounted(d, h, L)
<1>1. \A b \in Bindables : /\ Cardinality(GuardsOf(h, L, b)) \in Nat
                           /\ Cardinality(GuardsOf(h, L \cup {x}, b)) =
                                 IF h[x] = b THEN Cardinality(GuardsOf(h, L, b)) + 1 ELSE Cardinality(GuardsOf(h, L, b))
  BY CountFact
<1>2. c.bound[h[x]] > 0
  BY <1>1 DEF GuardsCounted
<1>3. ASSUME NEW d, d.bound = [c.bound EXCEPT ![h[x]] = @ - 1]
      PROVE  GuardsCounted(d, h, L)
  BY <1>1, <1>3 DEF GuardsCounted
<1> QED BY <1>2, <1>3

\* Counting depends on the guards only.
LEMMA CountsSame ==
    ASSUME NEW c, NEW d, d.bound = c.bound, NEW h, NEW k, NEW L, \A x \in L : h[x] = k[x], GuardsCounted(c, h, L)
    PROVE  GuardsCounted(d, k, L)
<1>1. \A b : GuardsOf(h, L, b) = GuardsOf(k, L, b)
  BY DEF GuardsOf
<1> QED BY <1>1 DEF GuardsCounted

LEMMA CountsSome ==
    ASSUME NEW c, NEW h, NEW L, IsFiniteSet(L), GuardsCounted(c, h, L), NEW x \in L, h[x] \in Bindables
    PROVE  c.bound[h[x]] > 0
<1>1. x \in GuardsOf(h, L, h[x])
  BY DEF GuardsOf
<1>2. /\ Cardinality(GuardsOf(h, L, h[x])) \in Nat
      /\ Cardinality(GuardsOf(h, L, h[x])) = 0 <=> GuardsOf(h, L, h[x]) = {}
  BY CountFact
<1> QED BY <1>1, <1>2 DEF GuardsCounted

-----------------------------------------------------------------------------
(* Lists of guards *)

\* A step that is about programs and textures.
Grows(c, d) ==
    /\ \A p \in Shaders : DOMAIN c.sampler[p] \subseteq DOMAIN d.sampler[p]
    /\ \A m \in Materials : d.bound[m] = c.bound[m]

LEMMA GuardCountsOne ==
    ASSUME NEW c \in BindContexts, ContextKept(c), NEW h, NEW L, IsFiniteSet(L), GuardsCounted(c, h, L),
           NEW x, x \notin L, h[x] \in Leaves, NEW s \in BoundStates
    PROVE  LET d == GuardLeaf(c, h[x], s) IN
           /\ d \in BindContexts /\ ContextKept(d) /\ GuardsCounted(d, h, L \cup {x}) /\ Grows(c, d)
           /\ IsFiniteSet(L \cup {x})
<1> DEFINE b == h[x]
           d == GuardLeaf(c, b, s)
<1>0. b \in Leaves
  OBVIOUS
<1> HIDE DEF b
<1>1. /\ d \in BindContexts /\ d.bound = [c.bound EXCEPT ![b] = @ + 1] /\ d.sampler = c.sampler
  <2>1. /\ d \in BindContexts /\ d.bound = [c.bound EXCEPT ![b] = @ + 1]
        /\ d.active = c.active /\ d.units = c.units /\ d.sampler = c.sampler
        /\ d.program = IF b \in Shaders /\ c.bound[b] = 0 THEN b ELSE c.program
        /\ d.unit = IF b \in Textures /\ c.bound[b] = 0 THEN [c.unit EXCEPT ![c.active] = b] ELSE c.unit
    BY <1>0, GuardLeafFact
  <2> QED BY <2>1
<1>2. ContextKept(d)
  BY <1>0, GuardLeafKeeps
<1> HIDE DEF d
<1>3. c.bound \in [Bindables -> Nat] /\ b \in Bindables
  BY <1>0, KindsFacts DEF BindContexts
<1>4. GuardsCounted(d, h, L \cup {x})
  BY <1>1, <1>3, CountsMore DEF b
<1>5. \A m \in Materials : m \in Bindables /\ m # b
  BY <1>0, KindsFacts
<1>6. Grows(c, d)
  BY <1>1, <1>3, <1>5 DEF Grows
<1>7. IsFiniteSet(L \cup {x})
  BY FS_AddElement
<1> QED BY <1>1, <1>2, <1>4, <1>6, <1>7 DEF d, b

LEMMA UnguardCountsOne ==
    ASSUME NEW c \in BindContexts, ContextKept(c), NEW h, NEW L, IsFiniteSet(L),
           NEW x, x \notin L, h[x] \in Leaves, GuardsCounted(c, h, L \cup {x})
    PROVE  LET d == UnguardLeaf(c, h[x]) IN
           d \in BindContexts /\ ContextKept(d) /\ GuardsCounted(d, h, L) /\ Grows(c, d)
<1> DEFINE b == h[x]
           d == UnguardLeaf(c, b)
<1>1. c.bound \in [Bindables -> Nat] /\ b \in Bindables
  BY KindsFacts DEF BindContexts
<1>2. /\ c.bound[b] > 0
      /\ \A e : e.bound = [c.bound EXCEPT ![b] = @ - 1] => GuardsCounted(e, h, L)
  BY <1>1, CountsLess
<1>3. d \in BindContexts /\ d.bound = [c.bound EXCEPT ![b] = @ - 1] /\ d.sampler = c.sampler
  BY <1>2, UnguardLeafFact
<1>4. ContextKept(d)
  BY <1>2, UnguardLeafKeeps
<1> HIDE DEF d
<1>5. \A m \in Materials : m \in Bindables /\ m # b
  BY KindsFacts
<1>6. Grows(c, d)
  BY <1>1, <1>3, <1>5 DEF Grows
<1> QED BY <1>2, <1>3, <1>4, <1>6 DEF d

\* A texture more of a material.
LEMMA TextureBound ==
    ASSUME NEW c \in BindContexts, ContextKept(c), NEW h, NEW L, IsFiniteSet(L), GuardsCounted(c, h, L),
           NEW x, x \notin L, h[x] \in Textures, NEW s \in BoundStates,
           NEW y \in L, h[y] \in Shaders
    PROVE  LET d == BindUnit(GuardLeaf(c, h[x], s), h[y], h[x]) IN
           /\ d \in BindContexts /\ ContextKept(d) /\ GuardsCounted(d, h, L \cup {x}) /\ Grows(c, d)
           /\ h[x] \in DOMAIN d.sampler[h[y]]
<1> DEFINE t == h[x]
           p == h[y]
           e == GuardLeaf(c, t, s)
           d == BindUnit(e, p, t)
<1>1. t \in Leaves /\ t \in Bindables /\ p \in Bindables
  BY KindsFacts
<1>2. /\ e \in BindContexts /\ ContextKept(e) /\ GuardsCounted(e, h, L \cup {x}) /\ Grows(c, e)
      /\ IsFiniteSet(L \cup {x})
  BY <1>1, GuardCountsOne
<1> HIDE DEF e
<1>3. e.bound[t] > 0 /\ e.bound[p] > 0
  <2>1. x \in L \cup {x} /\ y \in L \cup {x}
    OBVIOUS
  <2> QED BY <1>1, <1>2, <2>1, CountsSome
<1>4. /\ d \in BindContexts /\ d.bound = e.bound
      /\ d.sampler = [e.sampler EXCEPT ![p] = Extended(@, t, UnitOf(e, p, t))]
  <2>1. t \in Textures /\ p \in Shaders
    OBVIOUS
  <2> HIDE DEF t, p
  <2>2. /\ d \in BindContexts /\ d.bound = e.bound
        /\ d.program = e.program /\ d.unit = e.unit /\ d.active = UnitOf(e, p, t)
        /\ d.units = [e.units EXCEPT ![p] = Extended(@, t, UnitOf(e, p, t))]
        /\ d.sampler = [e.sampler EXCEPT ![p] = Extended(@, t, UnitOf(e, p, t))]
    BY <1>2, <1>3, <2>1, BindUnitFact
  <2> QED BY <2>2
<1>5. ContextKept(d)
  BY <1>2, <1>3, BindUnitKeeps
<1> HIDE DEF d
<1>6. GuardsCounted(d, h, L \cup {x})
  BY <1>2, <1>4 DEF GuardsCounted
<1>7. e.sampler \in [Shaders -> Maps]
  BY <1>2 DEF BindContexts
<1>8. /\ \A q \in Shaders : DOMAIN e.sampler[q] \subseteq DOMAIN d.sampler[q]
      /\ t \in DOMAIN d.sampler[p]
  BY <1>4, <1>7 DEF Extended
<1>9. Grows(c, d)
  BY <1>2, <1>4, <1>8 DEF Grows
<1> QED BY <1>4, <1>5, <1>6, <1>8, <1>9 DEF d, e

BindsUpTo(f, c, p, s, list, n) ==
    f = [i \in 0..n |-> IF i = 0 THEN GuardLeaf(c, p, s) ELSE BindUnit(GuardLeaf(f[i - 1], list[i], s), p, list[i])]
ClearsUpTo(f, c, list, n) == f = [i \in 0..n |-> IF i = 0 THEN c ELSE UnguardLeaf(f[i - 1], list[i])]

LEMMA BindsExist ==
    ASSUME NEW c, NEW p, NEW s, NEW list, NEW n \in Nat
    PROVE  \E f : BindsUpTo(f, c, p, s, list, n)
<1> DEFINE T == {k \in Nat : ~ \E f : BindsUpTo(f, c, p, s, list, k)}
           next(d, i) == BindUnit(GuardLeaf(d, list[i], s), p, list[i])
<1>1. SUFFICES ASSUME T # {} PROVE FALSE
  OBVIOUS
<1>2. PICK k \in T : \A l \in T : k <= l
  BY <1>1, LeastFact
<1>3. k # 0
  <2>1. BindsUpTo([i \in 0..0 |-> GuardLeaf(c, p, s)], c, p, s, list, 0)
    BY DEF BindsUpTo
  <2> QED BY <2>1, <1>2
<1>4. PICK f : BindsUpTo(f, c, p, s, list, k - 1)
  BY <1>2, <1>3
<1> DEFINE g == [i \in 0..k |-> IF i = 0 THEN GuardLeaf(c, p, s) ELSE next(f[i - 1], i)]
<1>5. \A i \in 0..(k - 1) : g[i] = f[i]
  <2>1. k \in Nat /\ k # 0
    BY <1>2, <1>3
  <2>2. TAKE i \in 0..(k - 1)
  <2>3. i \in 0..k
    BY <2>1
  <2>4. f[i] = IF i = 0 THEN GuardLeaf(c, p, s) ELSE next(f[i - 1], i)
    BY <1>4 DEF BindsUpTo
  <2>5. g[i] = IF i = 0 THEN GuardLeaf(c, p, s) ELSE next(f[i - 1], i)
    BY <2>3
  <2> QED BY <2>4, <2>5
<1>6. \A i \in 0..k : i # 0 => g[i - 1] = f[i - 1]
  <2>1. k \in Nat
    BY <1>2
  <2> HIDE DEF g
  <2> QED BY <1>5, <2>1
<1>7. BindsUpTo(g, c, p, s, list, k)
  BY <1>6 DEF BindsUpTo
<1> QED BY <1>2, <1>7

LEMMA ClearsExist ==
    ASSUME NEW c, NEW list, NEW n \in Nat
    PROVE  \E f : ClearsUpTo(f, c, list, n)
<1> DEFINE T == {k \in Nat : ~ \E f : ClearsUpTo(f, c, list, k)}
<1>1. SUFFICES ASSUME T # {} PROVE FALSE
  OBVIOUS
<1>2. PICK k \in T : \A l \in T : k <= l
  BY <1>1, LeastFact
<1>3. k # 0
  <2>1. ClearsUpTo([i \in 0..0 |-> c], c, list, 0)
    BY DEF ClearsUpTo
  <2> QED BY <2>1, <1>2
<1>4. PICK f : ClearsUpTo(f, c, list, k - 1)
  BY <1>2, <1>3
<1> DEFINE g == [i \in 0..k |-> IF i = 0 THEN c ELSE UnguardLeaf(f[i - 1], list[i])]
<1>5. \A i \in 0..(k - 1) : g[i] = f[i]
  <2>1. k \in Nat /\ k # 0
    BY <1>2, <1>3
  <2>2. TAKE i \in 0..(k - 1)
  <2>3. i \in 0..k
    BY <2>1
  <2>4. f[i] = IF i = 0 THEN c ELSE UnguardLeaf(f[i - 1], list[i])
    BY <1>4 DEF ClearsUpTo
  <2>5. g[i] = IF i = 0 THEN c ELSE UnguardLeaf(f[i - 1], list[i])
    BY <2>3
  <2> QED BY <2>4, <2>5
<1>6. \A i \in 0..k : i # 0 => g[i - 1] = f[i - 1]
  <2>1. k \in Nat
    BY <1>2
  <2> HIDE DEF g
  <2> QED BY <1>5, <2>1
<1>7. ClearsUpTo(g, c, list, k)
  BY <1>6 DEF ClearsUpTo
<1> QED BY <1>2, <1>7

\* The guards L and those of a list, up to the one at i and from there on.
UpTo(L, x, i) == L \cup {x[j] : j \in 0..i}
After(L, x, i, n) == L \cup {x[j] : j \in (i + 1)..n}

LEMMA BoundFact ==
    ASSUME NEW c \in BindContexts, ContextKept(c), NEW h, NEW L, IsFiniteSet(L), GuardsCounted(c, h, L),
           NEW m \in Materials, NEW s \in BoundStates, NEW n \in 0..Len(TexturesOf[m]), NEW x,
           \A i \in 0..n : x[i] \notin L, \A i, j \in 0..n : x[i] = x[j] => i = j,
           h[x[0]] = ShaderOf[m], \A i \in 1..n : h[x[i]] = TexturesOf[m][i]
    PROVE  LET d == Bound(c, m, s, n) IN
           /\ d \in BindContexts /\ ContextKept(d) /\ GuardsCounted(d, h, UpTo(L, x, n)) /\ Grows(c, d)
           /\ IsFiniteSet(UpTo(L, x, n))
           /\ \A i \in 1..n : TexturesOf[m][i] \in DOMAIN d.sampler[ShaderOf[m]]
<1> DEFINE p == ShaderOf[m]
           list == TexturesOf[m]
           f == CHOOSE g : BindsUpTo(g, c, p, s, list, n)
           good(i) == /\ f[i] \in BindContexts /\ ContextKept(f[i]) /\ GuardsCounted(f[i], h, UpTo(L, x, i))
                      /\ Grows(c, f[i]) /\ IsFiniteSet(UpTo(L, x, i))
                      /\ \A j \in 1..i : list[j] \in DOMAIN f[i].sampler[p]
           T == {i \in Nat : i <= n /\ ~ good(i)}
<1>1. /\ n \in Nat /\ p \in Shaders /\ list \in Seq(Textures) /\ \A i \in 1..n : list[i] \in Textures
      /\ h[x[0]] = p /\ \A i \in 1..n : h[x[i]] = list[i]
  <2>1. list \in Seq(Textures) /\ p \in Shaders
    BY MaterialsAssumption
  <2>2. Len(list) \in Nat /\ \A i \in 1..Len(list) : list[i] \in Textures
    BY <2>1
  <2>3. n \in 0..Len(list)
    OBVIOUS
  <2> HIDE DEF list
  <2>4. n \in Nat /\ \A i \in 1..n : i \in 1..Len(list)
    BY <2>2, <2>3
  <2> QED BY <2>1, <2>2, <2>4 DEF list
<1>2. Bound(c, m, s, n) = f[n]
  BY DEF Bound, BindsUpTo
<1>3. BindsUpTo(f, c, p, s, list, n)
  <2>1. \E g : BindsUpTo(g, c, p, s, list, n)
    BY <1>1, BindsExist
  <2> HIDE DEF p, list
  <2> QED BY <2>1
<1> HIDE DEF f, p, list
<1>4. \A i \in 0..n : f[i] = IF i = 0 THEN GuardLeaf(c, p, s) ELSE BindUnit(GuardLeaf(f[i - 1], list[i], s), p, list[i])
  BY <1>3 DEF BindsUpTo
<1>5. SUFFICES ASSUME T # {} PROVE FALSE
  <2>1. T = {} => good(n)
    BY <1>1
  <2> HIDE DEF T
  <2> QED BY <1>2, <2>1 DEF p, list
<1>6. PICK k \in T : \A j \in T : k <= j
  <2>1. T \in SUBSET Nat
    OBVIOUS
  <2> HIDE DEF T
  <2> QED BY <1>5, <2>1, LeastFact
<1>7. k \in Nat /\ k <= n /\ ~ good(k)
  BY <1>6
<1>8. k # 0
  <2>1. f[0] = GuardLeaf(c, h[x[0]], s) /\ x[0] \notin L /\ h[x[0]] \in Leaves
    BY <1>1, <1>4, KindsFacts
  <2>2. UpTo(L, x, 0) = L \cup {x[0]}
    <3>1. 0..0 = {0}
      OBVIOUS
    <3> QED BY <3>1 DEF UpTo
  <2> DEFINE y == x[0]
             e == GuardLeaf(c, h[y], s)
  <2>3. y \notin L /\ h[y] \in Leaves
    BY <2>1
  <2> HIDE DEF y
  <2>4. /\ e \in BindContexts /\ ContextKept(e) /\ GuardsCounted(e, h, L \cup {y}) /\ Grows(c, e)
        /\ IsFiniteSet(L \cup {y})
    BY <2>3, GuardCountsOne
  <2>5. \A j \in 1..0 : list[j] \in DOMAIN f[0].sampler[p]
    OBVIOUS
  <2>6. e = f[0]
    BY <2>1 DEF y
  <2> HIDE DEF e
  <2>7. good(0)
    BY <2>2, <2>4, <2>5, <2>6 DEF y
  <2> QED BY <1>7, <2>7
<1>9. k \in 1..n /\ k - 1 \in Nat /\ k - 1 <= n /\ k \in 0..n /\ ~ (k <= k - 1) /\ 0 \in 0..n /\ k - 1 \in 0..n
  BY <1>1, <1>7, <1>8
<1>10. good(k - 1)
  <2>1. k - 1 \notin T
    BY <1>6, <1>9
  <2> QED BY <1>9, <2>1
<1> DEFINE e == f[k - 1]
           y == x[k]
           z == x[0]
           M == UpTo(L, x, k - 1)
           d == BindUnit(GuardLeaf(e, h[y], s), h[z], h[y])
<1>11. f[k] = d
  BY <1>1, <1>4, <1>8, <1>9
<1>12. /\ e \in BindContexts /\ ContextKept(e) /\ GuardsCounted(e, h, M) /\ Grows(c, e) /\ IsFiniteSet(M)
       /\ \A j \in 1..(k - 1) : list[j] \in DOMAIN e.sampler[p]
  BY <1>10
<1>13. y \notin M
  <2>1. \A j \in 0..(k - 1) : j \in 0..n /\ j # k
    BY <1>9
  <2> QED BY <1>9, <2>1 DEF UpTo
<1>14. z \in M /\ UpTo(L, x, k) = M \cup {y}
  <2>1. 0 \in 0..(k - 1) /\ 0..k = (0..(k - 1)) \cup {k}
    BY <1>9
  <2> QED BY <2>1 DEF UpTo
<1>15. h[y] \in Textures /\ h[z] \in Shaders /\ h[y] = list[k] /\ h[z] = p
  BY <1>1, <1>9
<1> HIDE DEF e, y, z, M
<1>16. /\ d \in BindContexts /\ ContextKept(d) /\ GuardsCounted(d, h, M \cup {y}) /\ Grows(e, d)
       /\ h[y] \in DOMAIN d.sampler[h[z]]
  BY <1>12, <1>13, <1>14, <1>15, TextureBound
<1> HIDE DEF d
<1>17. IsFiniteSet(M \cup {y})
  BY <1>12, FS_AddElement
<1>18. Grows(c, d)
  <2>1. \A q \in Shaders : DOMAIN c.sampler[q] \subseteq DOMAIN e.sampler[q] /\ DOMAIN e.sampler[q] \subseteq DOMAIN d.sampler[q]
    BY <1>12, <1>16 DEF Grows
  <2>2. \A q \in Materials : d.bound[q] = c.bound[q]
    BY <1>12, <1>16 DEF Grows
  <2> QED BY <2>1, <2>2 DEF Grows
<1>19. \A j \in 1..k : list[j] \in DOMAIN d.sampler[p]
  <2>1. \A j \in 1..k : j = k \/ j \in 1..(k - 1)
    BY <1>9
  <2>2. DOMAIN e.sampler[p] \subseteq DOMAIN d.sampler[p]
    BY <1>1, <1>16 DEF Grows
  <2> QED BY <1>12, <1>15, <1>16, <2>1, <2>2
<1>20. good(k)
  BY <1>11, <1>14, <1>16, <1>17, <1>18, <1>19
<1> QED BY <1>7, <1>20

LEMMA ClearFact ==
    ASSUME NEW c \in BindContexts, ContextKept(c), NEW h, NEW L,
           NEW list \in Seq(Leaves), NEW x, GuardsCounted(c, h, After(L, x, 0, Len(list))),
           IsFiniteSet(After(L, x, 0, Len(list))),
           \A i \in 1..Len(list) : x[i] \notin L, \A i, j \in 1..Len(list) : x[i] = x[j] => i = j,
           \A i \in 1..Len(list) : h[x[i]] = list[i]
    PROVE  LET d == Clear(c, list) IN
           d \in BindContexts /\ ContextKept(d) /\ GuardsCounted(d, h, L) /\ Grows(c, d)
<1> DEFINE n == Len(list)
           f == CHOOSE g : ClearsUpTo(g, c, list, n)
           good(i) == /\ f[i] \in BindContexts /\ ContextKept(f[i]) /\ GuardsCounted(f[i], h, After(L, x, i, n))
                      /\ Grows(c, f[i])
           T == {i \in Nat : i <= n /\ ~ good(i)}
<1>1. n \in Nat /\ \A i \in 1..n : list[i] \in Leaves /\ h[x[i]] = list[i]
  OBVIOUS
<1>2. Clear(c, list) = f[n]
  BY DEF Clear, ClearsUpTo
<1>3. ClearsUpTo(f, c, list, n)
  <2>1. \E g : ClearsUpTo(g, c, list, n)
    BY <1>1, ClearsExist
  <2> HIDE DEF n
  <2> QED BY <2>1
<1>a. \A i \in 1..n : x[i] \notin L /\ \A j \in 1..n : x[i] = x[j] => i = j
  OBVIOUS
<1>b. GuardsCounted(c, h, After(L, x, 0, n)) /\ IsFiniteSet(After(L, x, 0, n))
  OBVIOUS
<1> HIDE DEF f, n
<1>4. \A i \in 0..n : f[i] = IF i = 0 THEN c ELSE UnguardLeaf(f[i - 1], list[i])
  BY <1>3 DEF ClearsUpTo
<1>c. After(L, x, n, n) = L
  <2>1. (n + 1)..n = {}
    BY <1>1
  <2> QED BY <2>1 DEF After
<1>5. SUFFICES ASSUME T # {} PROVE FALSE
  <2>1. T = {} => good(n)
    BY <1>1
  <2> HIDE DEF T
  <2> QED BY <1>2, <1>c, <2>1
<1>6. PICK k \in T : \A j \in T : k <= j
  <2>1. T \in SUBSET Nat
    OBVIOUS
  <2> HIDE DEF T
  <2> QED BY <1>5, <2>1, LeastFact
<1>7. k \in Nat /\ k <= n /\ ~ good(k)
  BY <1>6
<1>8. k # 0
  <2>1. f[0] = c
    BY <1>1, <1>4
  <2>2. good(0)
    BY <1>b, <2>1 DEF Grows
  <2> QED BY <1>7, <2>2
<1>9. k \in 1..n /\ k - 1 \in Nat /\ k - 1 <= n /\ k \in 0..n /\ ~ (k <= k - 1)
  BY <1>1, <1>7, <1>8
<1>10. good(k - 1)
  <2>1. k - 1 \notin T
    BY <1>6, <1>9
  <2> QED BY <1>9, <2>1
<1> DEFINE e == f[k - 1]
           y == x[k]
           M == After(L, x, k, n)
           d == UnguardLeaf(e, h[y])
<1>11. f[k] = d
  BY <1>1, <1>4, <1>8, <1>9
<1>13. y \notin M
  <2>1. \A j \in (k + 1)..n : j \in 1..n /\ j # k
    BY <1>1, <1>9
  <2> QED BY <1>9, <1>a, <2>1 DEF After
<1>14. After(L, x, k - 1, n) = M \cup {y}
  <2>1. ((k - 1) + 1)..n = ((k + 1)..n) \cup {k}
    BY <1>1, <1>9
  <2> QED BY <2>1 DEF After
<1>15. h[y] \in Leaves
  BY <1>1, <1>9
<1>16. IsFiniteSet(M)
  <2>1. M \subseteq After(L, x, 0, n)
    <3>1. \A j \in (k + 1)..n : j \in (0 + 1)..n
      BY <1>1, <1>9
    <3> QED BY <3>1 DEF After
  <2> HIDE DEF M
  <2> QED BY <1>b, <2>1, FS_Subset
<1>12. e \in BindContexts /\ ContextKept(e) /\ GuardsCounted(e, h, M \cup {y}) /\ Grows(c, e)
  BY <1>10, <1>14
<1> HIDE DEF e, y, M
<1>17. d \in BindContexts /\ ContextKept(d) /\ GuardsCounted(d, h, M) /\ Grows(e, d)
  BY <1>12, <1>13, <1>15, <1>16, UnguardCountsOne
<1> HIDE DEF d
<1>18. Grows(c, d)
  <2>1. \A q \in Shaders : DOMAIN c.sampler[q] \subseteq DOMAIN e.sampler[q] /\ DOMAIN e.sampler[q] \subseteq DOMAIN d.sampler[q]
    BY <1>12, <1>17 DEF Grows
  <2>2. \A q \in Materials : d.bound[q] = c.bound[q]
    BY <1>12, <1>17 DEF Grows
  <2> QED BY <2>1, <2>2 DEF Grows
<1>19. good(k)
  BY <1>11, <1>17, <1>18 DEF M
<1> QED BY <1>7, <1>19

-----------------------------------------------------------------------------
(* The guards there are *)

GuardRecords == [bindable : Bindables, state : BoundStates]
GuardLists == [Materials -> Seq(Leaves)]

\* Where the guards of clients and of materials are, and what each one is on.
TokensOf(g, in) == ({Nothing} \X DOMAIN g) \cup UNION {{m} \X DOMAIN in[m] : m \in Materials}
HeldBy(g, in) ==
    [x \in TokensOf(g, in) |-> IF x[1] = Nothing THEN g[x[2]].bindable ELSE in[x[1]][x[2]]]

LEMMA TokensFact ==
    ASSUME NEW g \in Seq(GuardRecords), NEW in \in GuardLists
    PROVE  /\ IsFiniteSet(TokensOf(g, in))
           /\ \A i : <<Nothing, i>> \in TokensOf(g, in) <=> i \in 1..Len(g)
           /\ \A m \in Materials : \A i : <<m, i>> \in TokensOf(g, in) <=> i \in 1..Len(in[m])
           /\ \A i \in 1..Len(g) : HeldBy(g, in)[<<Nothing, i>>] = g[i].bindable
           /\ \A m \in Materials : \A i : i \in 1..Len(in[m]) => HeldBy(g, in)[<<m, i>>] = in[m][i]
           /\ \A x \in TokensOf(g, in) :
                 \/ \E i \in 1..Len(g) : x = <<Nothing, i>>
                 \/ \E m \in Materials : \E i \in 1..Len(in[m]) : x = <<m, i>>
<1>1. DOMAIN g = 1..Len(g) /\ Len(g) \in Nat
  OBVIOUS
<1>2. \A m \in Materials : DOMAIN in[m] = 1..Len(in[m]) /\ Len(in[m]) \in Nat /\ m # Nothing
  <2> TAKE m \in Materials
  <2>1. in[m] \in Seq(Leaves)
    BY DEF GuardLists
  <2>2. m # Nothing
    BY KindsFacts
  <2> QED BY <2>1, <2>2
<1>3. IsFiniteSet(TokensOf(g, in))
  <2>1. IsFiniteSet({Nothing} \X DOMAIN g)
    <3>1. IsFiniteSet({Nothing})
      BY FS_Singleton
    <3>2. IsFiniteSet(1..Len(g))
      BY <1>1, FS_Interval
    <3> QED BY <1>1, <3>1, <3>2, FS_Product
  <2> DEFINE f == [m \in Materials |-> {m} \X DOMAIN in[m]]
             S == {{m} \X DOMAIN in[m] : m \in Materials}
  <2>2. \A T \in S : IsFiniteSet(T)
    <3> SUFFICES ASSUME NEW m \in Materials PROVE IsFiniteSet({m} \X DOMAIN in[m])
      OBVIOUS
    <3>1. IsFiniteSet({m})
      BY FS_Singleton
    <3>2. IsFiniteSet(1..Len(in[m]))
      BY <1>2, FS_Interval
    <3> QED BY <1>2, <3>1, <3>2, FS_Product
  <2>3. IsFiniteSet(S)
    <3>1. f \in Surjection(Materials, S)
      BY DEF Surjection
    <3> HIDE DEF f, S
    <3> QED BY <3>1, KindsFacts, FS_Surjection
  <2>4. IsFiniteSet(UNION S)
    <3> HIDE DEF S
    <3> QED BY <2>2, <2>3, FS_UNION
  <2> QED BY <2>1, <2>4, FS_Union DEF TokensOf
<1>4. \A i : <<Nothing, i>> \in TokensOf(g, in) <=> i \in 1..Len(g)
  BY <1>1, <1>2 DEF TokensOf
<1>5. \A m \in Materials : \A i : <<m, i>> \in TokensOf(g, in) <=> i \in 1..Len(in[m])
  BY <1>1, <1>2 DEF TokensOf
<1>6. \A i \in 1..Len(g) : HeldBy(g, in)[<<Nothing, i>>] = g[i].bindable
  BY <1>4 DEF HeldBy
<1>7. \A m \in Materials : \A i : i \in 1..Len(in[m]) => HeldBy(g, in)[<<m, i>>] = in[m][i]
  BY <1>2, <1>5 DEF HeldBy
<1>8. \A x \in TokensOf(g, in) :
         \/ \E i \in 1..Len(g) : x = <<Nothing, i>>
         \/ \E m \in Materials : \E i \in 1..Len(in[m]) : x = <<m, i>>
  BY <1>1, <1>2 DEF TokensOf
<1> QED BY <1>3, <1>4, <1>5, <1>6, <1>7, <1>8

LEMMA NoTokens ==
    ASSUME NEW g \in Seq(GuardRecords), NEW in \in GuardLists,
           Len(g) = 0, \A m \in Materials : Len(in[m]) = 0
    PROVE  TokensOf(g, in) = {}
<1>1. \A x \in TokensOf(g, in) :
         \/ \E i \in 1..Len(g) : x = <<Nothing, i>>
         \/ \E m \in Materials : \E i \in 1..Len(in[m]) : x = <<m, i>>
  BY TokensFact
<1>2. ~ (\E i \in 1..Len(g) : TRUE) /\ \A m \in Materials : ~ (\E i \in 1..Len(in[m]) : TRUE)
  OBVIOUS
<1> QED BY <1>1, <1>2

\* A client's guard more.
LEMMA ClientTokens ==
    ASSUME NEW g \in Seq(GuardRecords), NEW in \in GuardLists, NEW r \in GuardRecords
    PROVE  LET x == <<Nothing, Len(g) + 1>>  L == TokensOf(g, in)  k == Append(g, r) IN
           /\ TokensOf(k, in) = L \cup {x} /\ x \notin L
           /\ HeldBy(k, in)[x] = r.bindable
           /\ \A y \in L : HeldBy(k, in)[y] = HeldBy(g, in)[y]
<1> DEFINE k == Append(g, r)
           x == <<Nothing, Len(g) + 1>>
<1>1. /\ k \in Seq(GuardRecords) /\ Len(k) = Len(g) + 1 /\ k[Len(g) + 1] = r /\ Len(g) \in Nat
      /\ \A i \in 1..Len(g) : k[i] = g[i]
  OBVIOUS
<1> HIDE DEF k
<1>2. TokensOf(k, in) = TokensOf(g, in) \cup {x}
  <2>1. ASSUME NEW y \in TokensOf(k, in) PROVE y \in TokensOf(g, in) \cup {x}
    BY <1>1, TokensFact
  <2>2. ASSUME NEW y \in TokensOf(g, in) \cup {x} PROVE y \in TokensOf(k, in)
    BY <1>1, TokensFact
  <2> QED BY <2>1, <2>2
<1>3. x \notin TokensOf(g, in)
  BY <1>1, TokensFact
<1>4. HeldBy(k, in)[x] = r.bindable
  BY <1>1, TokensFact
<1>5. ASSUME NEW y \in TokensOf(g, in) PROVE HeldBy(k, in)[y] = HeldBy(g, in)[y]
  BY <1>1, TokensFact
<1> QED BY <1>2, <1>3, <1>4, <1>5 DEF k

\* Guards more of a material.
More(in, m, list) == [in EXCEPT ![m] = @ \o list]

LEMMA MaterialTokens ==
    ASSUME NEW g \in Seq(GuardRecords), NEW in \in GuardLists, NEW m \in Materials, NEW part \in Seq(Leaves)
    PROVE  /\ More(in, m, part) \in GuardLists
           /\ TokensOf(g, More(in, m, part)) = TokensOf(g, in) \cup {<<m, Len(in[m]) + j>> : j \in 1..Len(part)}
           /\ \A j \in 1..Len(part) : /\ <<m, Len(in[m]) + j>> \notin TokensOf(g, in)
                                      /\ HeldBy(g, More(in, m, part))[<<m, Len(in[m]) + j>>] = part[j]
                                      /\ More(in, m, part)[m][Len(in[m]) + j] = part[j]
           /\ \A y \in TokensOf(g, in) : HeldBy(g, More(in, m, part))[y] = HeldBy(g, in)[y]
<1> DEFINE k == More(in, m, part)
           a == Len(in[m])
           l == Len(part)
<1>1. in \in [Materials -> Seq(Leaves)] /\ in[m] \in Seq(Leaves) /\ a \in Nat /\ l \in Nat
  BY DEF GuardLists
<1>2. /\ in[m] \o part \in Seq(Leaves) /\ Len(in[m] \o part) = a + l
      /\ \A i \in 1..a : (in[m] \o part)[i] = in[m][i]
      /\ \A j \in 1..l : (in[m] \o part)[a + j] = part[j]
  BY <1>1
<1>3. /\ k \in GuardLists /\ k[m] = in[m] \o part /\ \A n \in Materials \ {m} : k[n] = in[n]
  BY <1>1, <1>2 DEF GuardLists, More
<1>4. /\ Len(k[m]) = a + l /\ \A i \in 1..a : k[m][i] = in[m][i]
      /\ \A j \in 1..l : k[m][a + j] = part[j]
  BY <1>2, <1>3
<1>5. /\ \A i \in 1..(a + l) : i \in 1..a \/ (i - a \in 1..l /\ i = a + (i - a))
      /\ \A i \in 1..a : i \in 1..(a + l)
      /\ \A j \in 1..l : a + j \in 1..(a + l) /\ a + j \notin 1..a
  BY <1>1
<1>0. m # Nothing
  BY KindsFacts
<1> HIDE DEF k, a, l
<1>6. /\ \A x \in TokensOf(g, k) :
             \/ \E i \in 1..Len(g) : x = <<Nothing, i>>
             \/ \E n \in Materials : \E i \in 1..Len(k[n]) : x = <<n, i>>
      /\ \A x \in TokensOf(g, in) :
             \/ \E i \in 1..Len(g) : x = <<Nothing, i>>
             \/ \E n \in Materials : \E i \in 1..Len(in[n]) : x = <<n, i>>
      /\ \A i : <<Nothing, i>> \in TokensOf(g, in) <=> i \in 1..Len(g)
      /\ \A i : <<Nothing, i>> \in TokensOf(g, k) <=> i \in 1..Len(g)
      /\ \A n \in Materials : \A i : <<n, i>> \in TokensOf(g, in) <=> i \in 1..Len(in[n])
      /\ \A n \in Materials : \A i : <<n, i>> \in TokensOf(g, k) <=> i \in 1..Len(k[n])
  BY <1>3, TokensFact
<1>7. /\ \A i \in 1..Len(g) : HeldBy(g, in)[<<Nothing, i>>] = g[i].bindable /\ HeldBy(g, k)[<<Nothing, i>>] = g[i].bindable
      /\ \A n \in Materials : \A i : i \in 1..Len(in[n]) => HeldBy(g, in)[<<n, i>>] = in[n][i]
      /\ \A n \in Materials : \A i : i \in 1..Len(k[n]) => HeldBy(g, k)[<<n, i>>] = k[n][i]
  BY <1>3, TokensFact
<1>8. TokensOf(g, k) = TokensOf(g, in) \cup {<<m, a + j>> : j \in 1..l}
  <2>1. ASSUME NEW y \in TokensOf(g, k) PROVE y \in TokensOf(g, in) \cup {<<m, a + j>> : j \in 1..l}
    <3>1. CASE \E i \in 1..Len(g) : y = <<Nothing, i>>
      BY <1>6, <3>1
    <3>2. ASSUME NEW n \in Materials, NEW i \in 1..Len(k[n]), y = <<n, i>>
          PROVE  y \in TokensOf(g, in) \cup {<<m, a + j>> : j \in 1..l}
      <4>1. CASE n = m
        BY <1>4, <1>5, <1>6, <3>2, <4>1 DEF a
      <4>2. CASE n # m
        BY <1>3, <1>6, <3>2, <4>2
      <4> QED BY <4>1, <4>2
    <3> QED BY <1>6, <3>1, <3>2
  <2>2. ASSUME NEW y \in TokensOf(g, in) PROVE y \in TokensOf(g, k)
    <3>1. CASE \E i \in 1..Len(g) : y = <<Nothing, i>>
      BY <1>6, <3>1
    <3>2. ASSUME NEW n \in Materials, NEW i \in 1..Len(in[n]), y = <<n, i>>
          PROVE  y \in TokensOf(g, k)
      <4>1. CASE n = m
        BY <1>4, <1>5, <1>6, <3>2, <4>1 DEF a
      <4>2. CASE n # m
        BY <1>3, <1>6, <3>2, <4>2
      <4> QED BY <4>1, <4>2
    <3> QED BY <1>6, <3>1, <3>2
  <2>3. \A j \in 1..l : <<m, a + j>> \in TokensOf(g, k)
    BY <1>4, <1>5, <1>6
  <2> QED BY <2>1, <2>2, <2>3
<1>9. ASSUME NEW j \in 1..l
      PROVE  <<m, a + j>> \notin TokensOf(g, in) /\ HeldBy(g, k)[<<m, a + j>>] = part[j]
  <2>1. a + j \in 1..Len(k[m]) /\ a + j \notin 1..Len(in[m]) /\ k[m][a + j] = part[j]
    BY <1>4, <1>5 DEF a
  <2> QED BY <1>6, <1>7, <2>1
<1>10. ASSUME NEW y \in TokensOf(g, in) PROVE HeldBy(g, k)[y] = HeldBy(g, in)[y]
  <2>1. CASE \E i \in 1..Len(g) : y = <<Nothing, i>>
    BY <1>7, <2>1
  <2>2. ASSUME NEW n \in Materials, NEW i \in 1..Len(in[n]), y = <<n, i>>
        PROVE  HeldBy(g, k)[y] = HeldBy(g, in)[y]
    <3>1. CASE n = m
      BY <1>4, <1>5, <1>7, <2>2, <3>1 DEF a
    <3>2. CASE n # m
      BY <1>3, <1>7, <2>2, <3>2
    <3> QED BY <3>1, <3>2
  <2> QED BY <1>6, <2>1, <2>2
<1> QED BY <1>3, <1>4, <1>8, <1>9, <1>10 DEF k, a, l

\* The counters are right when each one counts the guards there are.
CountsOn(c, g, in) ==
    \A b \in Bindables : c.bound[b] =
        Cardinality(({Nothing} \X {i \in DOMAIN g : g[i].bindable = b})
            \cup UNION {{m} \X {i \in DOMAIN in[m] : in[m][i] = b} : m \in Materials})

LEMMA GuardsOnFact ==
    ASSUME NEW c, NEW g \in Seq(GuardRecords), NEW in \in GuardLists
    PROVE  CountsOn(c, g, in) <=> GuardsCounted(c, HeldBy(g, in), TokensOf(g, in))
<1> DEFINE On(b) == ({Nothing} \X {i \in DOMAIN g : g[i].bindable = b})
                    \cup UNION {{m} \X {i \in DOMAIN in[m] : in[m][i] = b} : m \in Materials}
           L == TokensOf(g, in)
           h == HeldBy(g, in)
<1>0. DOMAIN g = 1..Len(g) /\ \A m \in Materials : DOMAIN in[m] = 1..Len(in[m])
  BY DEF GuardLists
<1>1. /\ \A i : <<Nothing, i>> \in L <=> i \in 1..Len(g)
      /\ \A m \in Materials : \A i : <<m, i>> \in L <=> i \in 1..Len(in[m])
      /\ \A i \in 1..Len(g) : h[<<Nothing, i>>] = g[i].bindable
      /\ \A m \in Materials : \A i : i \in 1..Len(in[m]) => h[<<m, i>>] = in[m][i]
      /\ \A x \in L :
            \/ \E i \in 1..Len(g) : x = <<Nothing, i>>
            \/ \E m \in Materials : \E i \in 1..Len(in[m]) : x = <<m, i>>
  BY TokensFact
<1> HIDE DEF L, h
<1>2. ASSUME NEW b PROVE On(b) = GuardsOf(h, L, b)
  <2>1. ASSUME NEW x \in On(b) PROVE x \in L /\ h[x] = b
    <3>1. CASE x \in {Nothing} \X {i \in DOMAIN g : g[i].bindable = b}
      <4>1. PICK i \in 1..Len(g) : x = <<Nothing, i>> /\ g[i].bindable = b
        BY <1>0, <3>1
      <4> QED BY <1>1, <4>1
    <3>2. ASSUME NEW m \in Materials, x \in {m} \X {i \in DOMAIN in[m] : in[m][i] = b}
          PROVE  x \in L /\ h[x] = b
      <4>1. PICK i \in 1..Len(in[m]) : x = <<m, i>> /\ in[m][i] = b
        BY <1>0, <3>2
      <4> QED BY <1>1, <4>1
    <3> QED BY <2>1, <3>1, <3>2
  <2>2. ASSUME NEW x \in L, h[x] = b PROVE x \in On(b)
    <3>1. CASE \E i \in 1..Len(g) : x = <<Nothing, i>>
      <4>1. PICK i \in 1..Len(g) : x = <<Nothing, i>>
        BY <3>1
      <4>2. g[i].bindable = b
        BY <1>1, <2>2, <4>1
      <4> QED BY <1>0, <4>1, <4>2
    <3>2. CASE \E m \in Materials : \E i \in 1..Len(in[m]) : x = <<m, i>>
      <4>0. PICK m \in Materials : \E i \in 1..Len(in[m]) : x = <<m, i>>
        BY <3>2
      <4>1. PICK i \in 1..Len(in[m]) : x = <<m, i>>
        BY <4>0
      <4>2. in[m][i] = b
        BY <1>1, <2>2, <4>1
      <4>3. x \in {m} \X {j \in DOMAIN in[m] : in[m][j] = b}
        BY <1>0, <4>1, <4>2
      <4> QED BY <4>3
    <3> QED BY <1>1, <2>2, <3>1, <3>2
  <2> QED BY <2>1, <2>2 DEF GuardsOf
<1> HIDE DEF On
<1>3. (\A b \in Bindables : c.bound[b] = Cardinality(On(b))) <=> GuardsCounted(c, h, L)
  BY <1>2 DEF GuardsCounted
<1> QED BY <1>3 DEF On, h, L, CountsOn
-----------------------------------------------------------------------------
(* Contexts, the guards there are, and what a bound material has *)

CountsKept(c, in, g) ==
    /\ c \in BindContexts /\ in \in GuardLists /\ g \in Seq(GuardRecords)
    /\ ContextKept(c) /\ GuardsCounted(c, HeldBy(g, in), TokensOf(g, in))

Holds(list, b) == \E i \in 1..Len(list) : list[i] = b
MaterialsHold(c, in) ==
    \A m \in Materials : c.bound[m] > 0 =>
        /\ Holds(in[m], ShaderOf[m])
        /\ \A i \in 1..Len(TexturesOf[m]) : /\ Holds(in[m], TexturesOf[m][i])
                                            /\ TexturesOf[m][i] \in DOMAIN c.sampler[ShaderOf[m]]

LEMMA HoldGrows ==
    ASSUME NEW c, NEW d, NEW in, MaterialsHold(c, in), Grows(c, d)
    PROVE  MaterialsHold(d, in)
<1>1. \A m \in Materials : ShaderOf[m] \in Shaders
  BY MaterialsAssumption
<1> QED BY <1>1 DEF MaterialsHold, Grows

\* The state a bindable is set for is of no matter here.
LEMMA StateOnly ==
    ASSUME NEW c, NEW in, NEW g, CountsKept(c, in, g), NEW b \in Bindables, NEW s \in BoundStates
    PROVE  LET d == [c EXCEPT !.state[b] = s] IN CountsKept(d, in, g) /\ d.bound = c.bound /\ d.sampler = c.sampler
<1> DEFINE st == [c.state EXCEPT ![b] = s]
           d == [c EXCEPT !.state[b] = s]
<1>1. /\ c.bound \in [Bindables -> Nat] /\ c.state \in [Bindables -> BoundStates \cup {Nothing}]
      /\ c.program \in Shaders \cup {Nothing} /\ c.active \in Units /\ c.unit \in [Units -> Textures \cup {Nothing}]
      /\ c.units \in [Shaders -> Maps] /\ c.sampler \in [Shaders -> Maps]
      /\ c = [bound |-> c.bound, state |-> c.state, program |-> c.program, active |-> c.active, unit |-> c.unit,
              units |-> c.units, sampler |-> c.sampler]
  BY DEF CountsKept, BindContexts
<1>2. st \in [Bindables -> BoundStates \cup {Nothing}]
  BY <1>1
<1>3. d = [bound |-> c.bound, state |-> st, program |-> c.program, active |-> c.active, unit |-> c.unit,
           units |-> c.units, sampler |-> c.sampler]
  BY <1>1
<1> HIDE DEF st, d
<1>4. d \in BindContexts
  BY <1>1, <1>2, <1>3 DEF BindContexts
<1>5. ContextKept(d)
  <2>1. ContextKept(c) /\ c \in BindContexts
    BY DEF CountsKept
  <2>2. d.program = c.program /\ d.active = c.active /\ d.unit = c.unit /\ d.units = c.units /\ d.sampler = c.sampler
        /\ d.bound = c.bound
    BY <1>3
  <2> QED BY <2>1, <2>2, ContextSame
<1>6. d.bound = c.bound /\ d.sampler = c.sampler
  BY <1>3
<1>7. CountsKept(d, in, g)
  BY <1>4, <1>5, <1>6 DEF CountsKept, GuardsCounted
<1> QED BY <1>6, <1>7 DEF d

\* Guards on a program or a texture.
LEMMA EnterLeafKeeps ==
    ASSUME NEW c, NEW in, NEW g, CountsKept(c, in, g), NEW b \in Leaves, NEW s \in BoundStates
    PROVE  LET d == GuardLeaf(c, b, s) IN
           CountsKept(d, in, Append(g, [bindable |-> b, state |-> s])) /\ Grows(c, d)
<1> DEFINE r == [bindable |-> b, state |-> s]
           k == Append(g, r)
           x == <<Nothing, Len(g) + 1>>
           L == TokensOf(g, in)
           h == HeldBy(k, in)
           d == GuardLeaf(c, b, s)
<1>0. c \in BindContexts /\ in \in GuardLists /\ g \in Seq(GuardRecords) /\ ContextKept(c)
      /\ GuardsCounted(c, HeldBy(g, in), L)
  BY DEF CountsKept
<1>1. r \in GuardRecords /\ r.bindable = b
  BY KindsFacts DEF GuardRecords
<1>2. k \in Seq(GuardRecords)
  BY <1>0, <1>1
<1>3. TokensOf(k, in) = L \cup {x} /\ x \notin L /\ h[x] = b /\ \A y \in L : h[y] = HeldBy(g, in)[y]
  <2> HIDE DEF r
  <2> QED BY <1>0, <1>1, ClientTokens
<1>4. IsFiniteSet(L)
  BY <1>0, TokensFact
<1> HIDE DEF r, k, x, L, h
<1>5. GuardsCounted(c, h, L)
  BY <1>0, <1>3, CountsSame
<1>6. LET e == GuardLeaf(c, h[x], s) IN
      e \in BindContexts /\ ContextKept(e) /\ GuardsCounted(e, h, L \cup {x}) /\ Grows(c, e)
      /\ IsFiniteSet(L \cup {x})
  BY <1>0, <1>3, <1>4, <1>5, GuardCountsOne
<1>7. d \in BindContexts /\ ContextKept(d) /\ GuardsCounted(d, h, L \cup {x}) /\ Grows(c, d)
  BY <1>3, <1>6
<1> HIDE DEF d
<1>8. CountsKept(d, in, k)
  BY <1>0, <1>2, <1>3, <1>7 DEF CountsKept, h
<1> QED BY <1>7, <1>8 DEF d, k, r

LEMMA LeaveLeafKeeps ==
    ASSUME NEW c, NEW in, NEW g \in Seq(GuardRecords), NEW r \in GuardRecords,
           CountsKept(c, in, Append(g, r)), r.bindable \in Leaves
    PROVE  LET d == UnguardLeaf(c, r.bindable) IN CountsKept(d, in, g) /\ Grows(c, d)
<1> DEFINE k == Append(g, r)
           x == <<Nothing, Len(g) + 1>>
           L == TokensOf(g, in)
           h == HeldBy(k, in)
           d == UnguardLeaf(c, r.bindable)
<1>0. c \in BindContexts /\ in \in GuardLists /\ ContextKept(c) /\ GuardsCounted(c, h, TokensOf(k, in))
  BY DEF CountsKept
<1>3. TokensOf(k, in) = L \cup {x} /\ x \notin L /\ h[x] = r.bindable /\ \A y \in L : h[y] = HeldBy(g, in)[y]
  BY <1>0, ClientTokens
<1>4. IsFiniteSet(L)
  BY <1>0, TokensFact
<1> HIDE DEF k, x, L, h
<1>6. LET e == UnguardLeaf(c, h[x]) IN
      e \in BindContexts /\ ContextKept(e) /\ GuardsCounted(e, h, L) /\ Grows(c, e)
  BY <1>0, <1>3, <1>4, UnguardCountsOne
<1>7. d \in BindContexts /\ ContextKept(d) /\ GuardsCounted(d, h, L) /\ Grows(c, d)
  BY <1>3, <1>6
<1> HIDE DEF d
<1>8. GuardsCounted(d, HeldBy(g, in), L)
  BY <1>3, <1>7, CountsSame
<1>9. CountsKept(d, in, g)
  BY <1>0, <1>7, <1>8 DEF CountsKept, L
<1> QED BY <1>7, <1>9 DEF d
\* A client's guard on a material, which is counted only.
LEMMA CountMaterialKeeps ==
    ASSUME NEW c, NEW in, NEW g, CountsKept(c, in, g), NEW m \in Materials, NEW s \in BoundStates
    PROVE  LET d == Counted(c, m, s) IN
           /\ CountsKept(d, in, Append(g, [bindable |-> m, state |-> s]))
           /\ d.bound = [c.bound EXCEPT ![m] = @ + 1] /\ d.sampler = c.sampler
<1> DEFINE r == [bindable |-> m, state |-> s]
           k == Append(g, r)
           x == <<Nothing, Len(g) + 1>>
           L == TokensOf(g, in)
           h == HeldBy(k, in)
           d == Counted(c, m, s)
<1>0. c \in BindContexts /\ in \in GuardLists /\ g \in Seq(GuardRecords) /\ ContextKept(c)
      /\ GuardsCounted(c, HeldBy(g, in), L)
  BY DEF CountsKept
<1>1. r \in GuardRecords /\ r.bindable = m /\ m \in Bindables /\ \A b \in Leaves : b # m
  BY KindsFacts DEF GuardRecords
<1>2. k \in Seq(GuardRecords)
  BY <1>0, <1>1
<1>3. TokensOf(k, in) = L \cup {x} /\ x \notin L /\ h[x] = m /\ \A y \in L : h[y] = HeldBy(g, in)[y]
  <2> HIDE DEF r
  <2> QED BY <1>0, <1>1, ClientTokens
<1>4. IsFiniteSet(L)
  BY <1>0, TokensFact
<1>5. /\ c.bound \in [Bindables -> Nat] /\ c.state \in [Bindables -> BoundStates \cup {Nothing}]
      /\ c.program \in Shaders \cup {Nothing} /\ c.active \in Units /\ c.unit \in [Units -> Textures \cup {Nothing}]
      /\ c.units \in [Shaders -> Maps] /\ c.sampler \in [Shaders -> Maps]
  BY <1>0 DEF BindContexts
<1>6. d = [bound |-> [c.bound EXCEPT ![m] = @ + 1], state |-> [c.state EXCEPT ![m] = s],
           program |-> c.program, active |-> c.active, unit |-> c.unit,
           units |-> c.units, sampler |-> c.sampler]
  <2>1. s \in BoundStates \cup {Nothing}
    OBVIOUS
  <2> QED BY <1>0, <1>1, <2>1, CountedIs
<1> HIDE DEF r, k, x, L, h, d
<1>7. d \in BindContexts
  <2>1. [c.bound EXCEPT ![m] = @ + 1] \in [Bindables -> Nat]
    BY <1>1, <1>5
  <2>2. [c.state EXCEPT ![m] = s] \in [Bindables -> BoundStates \cup {Nothing}]
    BY <1>5
  <2> QED BY <1>5, <1>6, <2>1, <2>2 DEF BindContexts
<1>8. /\ d.bound = [c.bound EXCEPT ![m] = @ + 1] /\ d.program = c.program /\ d.active = c.active
      /\ d.unit = c.unit /\ d.units = c.units /\ d.sampler = c.sampler
  BY <1>6
<1>9. ContextKept(d)
  <2>1. \A b \in Leaves : d.bound[b] = c.bound[b]
    BY <1>1, <1>5, <1>8
  <2> QED BY <1>0, <1>8, <2>1, ContextSame
<1>10. GuardsCounted(c, h, L)
  BY <1>0, <1>3, CountsSame
<1>11. GuardsCounted(d, h, L \cup {x})
  BY <1>1, <1>3, <1>4, <1>5, <1>8, <1>10, CountsMore
<1>12. CountsKept(d, in, k)
  BY <1>0, <1>2, <1>3, <1>7, <1>9, <1>11 DEF CountsKept, h
<1> QED BY <1>8, <1>12 DEF d, k, r

LEMMA UncountMaterialKeeps ==
    ASSUME NEW c, NEW in, NEW g \in Seq(GuardRecords), NEW r \in GuardRecords,
           CountsKept(c, in, Append(g, r)), NEW m \in Materials, r.bindable = m
    PROVE  /\ CountsKept(Uncounted(c, m), in, g) /\ c.bound[m] > 0
           /\ Uncounted(c, m).bound = [c.bound EXCEPT ![m] = @ - 1] /\ Uncounted(c, m).sampler = c.sampler
<1> DEFINE k == Append(g, r)
           x == <<Nothing, Len(g) + 1>>
           L == TokensOf(g, in)
           h == HeldBy(k, in)
           d == Uncounted(c, m)
<1>0. c \in BindContexts /\ in \in GuardLists /\ ContextKept(c) /\ GuardsCounted(c, h, TokensOf(k, in))
  BY DEF CountsKept
<1>1. m \in Materials /\ m \in Bindables /\ \A b \in Leaves : b # m
  BY KindsFacts
<1>3. TokensOf(k, in) = L \cup {x} /\ x \notin L /\ h[x] = m /\ \A y \in L : h[y] = HeldBy(g, in)[y]
  BY <1>0, ClientTokens
<1>4. IsFiniteSet(L)
  BY <1>0, TokensFact
<1>5. c.bound \in [Bindables -> Nat]
  BY <1>0 DEF BindContexts
<1> HIDE DEF k, x, L, h
<1>6. /\ c.bound[m] > 0
      /\ \A e : e.bound = [c.bound EXCEPT ![m] = @ - 1] => GuardsCounted(e, h, L)
  <2>1. GuardsCounted(c, h, L \cup {x}) /\ h[x] \in Bindables
    BY <1>0, <1>1, <1>3
  <2>2. /\ c.bound[h[x]] > 0
        /\ \A e : e.bound = [c.bound EXCEPT ![h[x]] = @ - 1] => GuardsCounted(e, h, L)
    BY <1>3, <1>4, <1>5, <2>1, CountsLess
  <2> QED BY <1>3, <2>2
<1>7. /\ d \in BindContexts /\ d.bound = [c.bound EXCEPT ![m] = @ - 1]
      /\ d.program = c.program /\ d.active = c.active /\ d.unit = c.unit /\ d.units = c.units /\ d.sampler = c.sampler
  BY <1>0, <1>1, <1>6, UncountedFact
<1> HIDE DEF d
<1>9. ContextKept(d)
  <2>1. \A b \in Leaves : d.bound[b] = c.bound[b]
    BY <1>1, <1>5, <1>7
  <2> QED BY <1>0, <1>7, <2>1, ContextSame
<1>10. GuardsCounted(d, h, L)
  BY <1>6, <1>7
<1>11. GuardsCounted(d, HeldBy(g, in), L)
  BY <1>3, <1>10, CountsSame
<1>12. CountsKept(d, in, g)
  BY <1>0, <1>7, <1>9, <1>11 DEF CountsKept, L
<1> QED BY <1>6, <1>7, <1>12 DEF d
\* The guards of a material: what _bind holds after its first n textures.
Part(m, n) == SubSeq(Parts(m), 1, n + 1)

LEMMA PartsFact ==
    ASSUME NEW m \in Materials
    PROVE  /\ ShaderOf[m] \in Shaders /\ TexturesOf[m] \in Seq(Textures) /\ Len(TexturesOf[m]) \in Nat
           /\ Part(m, Len(TexturesOf[m])) = Parts(m)
           /\ \A n \in 0..Len(TexturesOf[m]) :
                 /\ Part(m, n) \in Seq(Leaves) /\ Len(Part(m, n)) = n + 1
                 /\ Part(m, n)[1] = ShaderOf[m]
                 /\ \A i \in 1..n : Part(m, n)[i + 1] = TexturesOf[m][i]
                 /\ n > 0 => Part(m, n) = Part(m, n - 1) \o <<TexturesOf[m][n]>>
<1> DEFINE p == ShaderOf[m]
           list == TexturesOf[m]
           l == Len(list)
           q == Parts(m)
<1>1. p \in Shaders /\ list \in Seq(Textures) /\ l \in Nat
  BY MaterialsAssumption
<1>2. Shaders \subseteq Leaves /\ Textures \subseteq Leaves
  BY KindsFacts
<1>3. q = <<p>> \o list
  BY DEF Parts
<1> HIDE DEF p, list, q
<1>4. /\ <<p>> \in Seq(Leaves) /\ Len(<<p>>) = 1 /\ <<p>>[1] = p /\ list \in Seq(Leaves)
      /\ \A i \in 1..l : list[i] \in Textures
  BY <1>1, <1>2
<1>5. /\ q \in Seq(Leaves) /\ Len(q) = l + 1 /\ q[1] = p
      /\ \A i \in 1..l : q[i + 1] = list[i]
  <2>1. q \in Seq(Leaves) /\ Len(q) = 1 + l /\ \A i \in 1..(1 + l) : q[i] = IF i <= 1 THEN <<p>>[i] ELSE list[i - 1]
    BY <1>1, <1>3, <1>4
  <2> QED BY <1>1, <1>4, <2>1
<1> HIDE DEF l
<1>6. ASSUME NEW n \in 0..l
      PROVE  /\ Part(m, n) \in Seq(Leaves) /\ Len(Part(m, n)) = n + 1
             /\ \A i \in 1..(n + 1) : Part(m, n)[i] = q[i]
  BY <1>1, <1>5 DEF Part, q
<1>7. Part(m, l) = q
  <2>1. l \in 0..l /\ \A i \in 1..(l + 1) : Part(m, l)[i] = q[i]
    BY <1>1, <1>6
  <2>2. Part(m, l) \in Seq(Leaves) /\ Len(Part(m, l)) = Len(q)
    BY <1>5, <1>6, <2>1
  <2> QED BY <1>5, <2>1, <2>2
<1>8. ASSUME NEW n \in 0..l
      PROVE  /\ Part(m, n)[1] = p
             /\ \A i \in 1..n : Part(m, n)[i + 1] = list[i]
  <2>1. 1 \in 1..(n + 1) /\ \A i \in 1..n : i + 1 \in 1..(n + 1) /\ i \in 1..l
    BY <1>1
  <2> QED BY <1>5, <1>6, <2>1
<1>9. ASSUME NEW n \in 0..l, n > 0
      PROVE  Part(m, n) = Part(m, n - 1) \o <<list[n]>>
  <2> DEFINE a == Part(m, n - 1)
             b == Part(m, n)
             t == list[n]
  <2>1. n - 1 \in 0..l /\ n \in 1..l
    BY <1>1, <1>9
  <2>2. /\ a \in Seq(Leaves) /\ Len(a) = n /\ \A i \in 1..n : a[i] = q[i]
        /\ b \in Seq(Leaves) /\ Len(b) = n + 1 /\ \A i \in 1..(n + 1) : b[i] = q[i]
        /\ t \in Leaves /\ q[n + 1] = t
    BY <1>1, <1>2, <1>4, <1>5, <1>6, <2>1
  <2> HIDE DEF a, b, t
  <2>3. a \o <<t>> \in Seq(Leaves) /\ Len(a \o <<t>>) = n + 1 /\ \A i \in 1..(n + 1) : (a \o <<t>>)[i] = IF i <= n THEN a[i] ELSE t
    BY <2>1, <2>2
  <2>4. \A i \in 1..(n + 1) : (a \o <<t>>)[i] = b[i]
    BY <2>1, <2>2, <2>3
  <2>5. b = a \o <<t>>
    BY <2>2, <2>3, <2>4
  <2> QED BY <2>5 DEF a, b, t
<1> QED BY <1>1, <1>6, <1>7, <1>8, <1>9 DEF p, list, l, q

LEMMA MoreMore ==
    ASSUME NEW in \in GuardLists, NEW m \in Materials, NEW a \in Seq(Leaves), NEW b \in Seq(Leaves)
    PROVE  More(More(in, m, a), m, b) = More(in, m, a \o b) /\ More(in, m, a) \in GuardLists
<1>1. in[m] \in Seq(Leaves)
  BY DEF GuardLists
<1>2. \A q \in Seq(Leaves) : (q \o a) \o b = q \o (a \o b)
  BY ConcatAssociative
<1>4. in[m] \o a \in Seq(Leaves)
  BY <1>1
<1>3. in \in [Materials -> Seq(Leaves)]
  BY DEF GuardLists
<1> QED BY <1>1, <1>2, <1>3, <1>4 DEF More, GuardLists

LEMMA BindPartKeeps ==
    ASSUME NEW c, NEW in, NEW g, CountsKept(c, in, g), NEW m \in Materials, NEW s \in BoundStates,
           NEW n \in 0..Len(TexturesOf[m])
    PROVE  LET d == Bound(c, m, s, n) IN
           /\ CountsKept(d, More(in, m, Part(m, n)), g) /\ Grows(c, d)
           /\ \A i \in 1..n : TexturesOf[m][i] \in DOMAIN d.sampler[ShaderOf[m]]
<1> DEFINE part == Part(m, n)
           k == More(in, m, part)
           a == Len(in[m])
           x == [j \in 0..n |-> <<m, a + (j + 1)>>]
           L == TokensOf(g, in)
           h == HeldBy(g, k)
           d == Bound(c, m, s, n)
<1>0. c \in BindContexts /\ in \in GuardLists /\ g \in Seq(GuardRecords) /\ ContextKept(c)
      /\ GuardsCounted(c, HeldBy(g, in), L)
  BY DEF CountsKept
<1>1. part \in Seq(Leaves) /\ Len(part) = n + 1 /\ part[1] = ShaderOf[m] /\ n \in Nat
      /\ \A i \in 1..n : part[i + 1] = TexturesOf[m][i]
  <2>1. Len(TexturesOf[m]) \in Nat
    BY PartsFact
  <2>2. n \in Nat
    BY <2>1
  <2> HIDE DEF part
  <2>3. part \in Seq(Leaves) /\ Len(part) = n + 1 /\ part[1] = ShaderOf[m]
        /\ \A i \in 1..n : part[i + 1] = TexturesOf[m][i]
    BY PartsFact DEF part
  <2> QED BY <2>2, <2>3
<1> HIDE DEF part
<1>2. /\ k \in GuardLists
      /\ TokensOf(g, k) = L \cup {<<m, a + j>> : j \in 1..Len(part)}
      /\ \A j \in 1..Len(part) : <<m, a + j>> \notin L /\ h[<<m, a + j>>] = part[j]
      /\ \A y \in L : h[y] = HeldBy(g, in)[y]
  <2> HIDE DEF k, x, L, h, d, a
  <2>1. \A list \in Seq(Leaves) :
           /\ More(in, m, list) \in GuardLists
           /\ TokensOf(g, More(in, m, list)) = TokensOf(g, in) \cup {<<m, Len(in[m]) + j>> : j \in 1..Len(list)}
           /\ \A j \in 1..Len(list) : /\ <<m, Len(in[m]) + j>> \notin TokensOf(g, in)
                                       /\ HeldBy(g, More(in, m, list))[<<m, Len(in[m]) + j>>] = list[j]
                                       /\ More(in, m, list)[m][Len(in[m]) + j] = list[j]
           /\ \A y \in TokensOf(g, in) : HeldBy(g, More(in, m, list))[y] = HeldBy(g, in)[y]
    BY <1>0, MaterialTokens
  <2> QED BY <1>1, <2>1 DEF k, h, a, L
<1>3. IsFiniteSet(L) /\ a \in Nat
  BY <1>0, TokensFact DEF GuardLists
<1> HIDE DEF k, L, h, a
<1>4. GuardsCounted(c, h, L)
  BY <1>0, <1>2, CountsSame
<1>5. \A j \in 0..n : x[j] = <<m, a + (j + 1)>> /\ j + 1 \in 1..Len(part)
  BY <1>1
<1> HIDE DEF x
<1>6. /\ \A i \in 0..n : x[i] \notin L
      /\ \A i, j \in 0..n : x[i] = x[j] => i = j
      /\ h[x[0]] = ShaderOf[m] /\ \A i \in 1..n : h[x[i]] = TexturesOf[m][i]
  <2>1. \A i \in 0..n : x[i] \notin L /\ h[x[i]] = part[i + 1]
    BY <1>2, <1>5
  <2>2. ASSUME NEW i \in 0..n, NEW j \in 0..n, x[i] = x[j] PROVE i = j
    <3>1. a + (i + 1) = a + (j + 1)
      BY <1>5, <2>2
    <3> QED BY <1>3, <3>1
  <2>3. 0 \in 0..n /\ 0 + 1 = 1 /\ \A i \in 1..n : i \in 0..n
    BY <1>1
  <2> QED BY <1>1, <2>1, <2>2, <2>3
<1>7. /\ d \in BindContexts /\ ContextKept(d) /\ GuardsCounted(d, h, UpTo(L, x, n)) /\ Grows(c, d)
      /\ \A i \in 1..n : TexturesOf[m][i] \in DOMAIN d.sampler[ShaderOf[m]]
  BY <1>0, <1>3, <1>4, <1>6, BoundFact
<1> HIDE DEF d
<1>8. UpTo(L, x, n) = TokensOf(g, k)
  <2>1. ASSUME NEW y \in {<<m, a + j>> : j \in 1..Len(part)} PROVE y \in {x[j] : j \in 0..n}
    <3>1. PICK j \in 1..(n + 1) : y = <<m, a + j>>
      BY <1>1, <2>1
    <3>2. j - 1 \in 0..n /\ (j - 1) + 1 = j
      BY <1>1
    <3> QED BY <1>5, <3>1, <3>2
  <2>2. ASSUME NEW y \in {x[j] : j \in 0..n} PROVE y \in {<<m, a + j>> : j \in 1..Len(part)}
    BY <1>5
  <2> QED BY <1>2, <2>1, <2>2 DEF UpTo
<1>9. CountsKept(d, k, g)
  BY <1>0, <1>2, <1>7, <1>8 DEF CountsKept, h
<1> QED BY <1>7, <1>9 DEF d, k, part
\* A texture's guard more, whose unit is not bound.
LEMMA BindHalfKeeps ==
    ASSUME NEW c, NEW in, NEW g, CountsKept(c, in, g), NEW m \in Materials, NEW s \in BoundStates,
           NEW n \in 0..Len(TexturesOf[m]), n > 0
    PROVE  LET d == GuardLeaf(Bound(c, m, s, n - 1), TexturesOf[m][n], s) IN
           CountsKept(d, More(in, m, Part(m, n)), g) /\ Grows(c, d)
<1> DEFINE e == Bound(c, m, s, n - 1)
           t == TexturesOf[m][n]
           list == <<t>>
           before == More(in, m, Part(m, n - 1))
           k == More(before, m, list)
           x == <<m, Len(before[m]) + 1>>
           L == TokensOf(g, before)
           h == HeldBy(g, k)
           d == GuardLeaf(e, t, s)
<1>1. n - 1 \in 0..Len(TexturesOf[m]) /\ n \in 1..Len(TexturesOf[m])
  BY PartsFact
<1>2. /\ Part(m, n - 1) \in Seq(Leaves) /\ t \in Textures /\ Part(m, n) = Part(m, n - 1) \o list
      /\ t \in Leaves
  <2>1. TexturesOf[m] \in Seq(Textures)
    BY PartsFact
  <2>2. t \in Textures
    BY <1>1, <2>1
  <2>3. Part(m, n - 1) \in Seq(Leaves) /\ Part(m, n) = Part(m, n - 1) \o list
    BY <1>1, PartsFact
  <2> QED BY <2>2, <2>3, KindsFacts
<1>3. CountsKept(e, before, g) /\ Grows(c, e)
  <2> HIDE DEF before, e
  <2>1. /\ CountsKept(Bound(c, m, s, n - 1), More(in, m, Part(m, n - 1)), g)
        /\ Grows(c, Bound(c, m, s, n - 1))
    BY <1>1, BindPartKeeps
  <2> QED BY <2>1 DEF before, e
<1>4. in \in GuardLists /\ g \in Seq(GuardRecords)
  BY DEF CountsKept
<1> HIDE DEF t, e
<1>5. list \in Seq(Leaves) /\ Len(list) = 1 /\ list[1] = t
  BY <1>2
<1> HIDE DEF list
<1>6. k = More(in, m, Part(m, n))
  <2>1. \A a \in Seq(Leaves), b \in Seq(Leaves) : More(More(in, m, a), m, b) = More(in, m, a \o b)
    BY <1>4, MoreMore
  <2> QED BY <1>2, <1>5, <2>1
<1>7. before \in GuardLists /\ ContextKept(e) /\ e \in BindContexts /\ GuardsCounted(e, HeldBy(g, before), L)
  BY <1>3 DEF CountsKept
<1> HIDE DEF before
<1>8. /\ k \in GuardLists /\ TokensOf(g, k) = L \cup {x} /\ x \notin L /\ h[x] = t
      /\ \A y \in L : h[y] = HeldBy(g, before)[y]
  <2>1. \A b \in Seq(Leaves) :
           /\ More(before, m, b) \in GuardLists
           /\ TokensOf(g, More(before, m, b)) = TokensOf(g, before) \cup {<<m, Len(before[m]) + i>> : i \in 1..Len(b)}
           /\ \A i \in 1..Len(b) : /\ <<m, Len(before[m]) + i>> \notin TokensOf(g, before)
                                   /\ HeldBy(g, More(before, m, b))[<<m, Len(before[m]) + i>>] = b[i]
                                   /\ More(before, m, b)[m][Len(before[m]) + i] = b[i]
           /\ \A y \in TokensOf(g, before) : HeldBy(g, More(before, m, b))[y] = HeldBy(g, before)[y]
    BY <1>4, <1>7, MaterialTokens
  <2>2. 1..Len(list) = {1}
    BY <1>5
  <2> HIDE DEF k, L, h, x
  <2>3. /\ k \in GuardLists
        /\ TokensOf(g, k) = L \cup {<<m, Len(before[m]) + i>> : i \in 1..Len(list)}
        /\ \A i \in 1..Len(list) : /\ <<m, Len(before[m]) + i>> \notin L
                                   /\ h[<<m, Len(before[m]) + i>>] = list[i]
        /\ \A y \in L : h[y] = HeldBy(g, before)[y]
    BY <1>5, <2>1 DEF k, L, h
  <2> QED BY <1>5, <2>2, <2>3 DEF x
<1>9. IsFiniteSet(L)
  BY <1>4, <1>7, TokensFact
<1> HIDE DEF k, L, h, x
<1>10. GuardsCounted(e, h, L)
  BY <1>7, <1>8, CountsSame
<1>11. LET f == GuardLeaf(e, h[x], s) IN
       f \in BindContexts /\ ContextKept(f) /\ GuardsCounted(f, h, L \cup {x}) /\ Grows(e, f)
       /\ IsFiniteSet(L \cup {x})
  BY <1>2, <1>7, <1>8, <1>9, <1>10, GuardCountsOne
<1>12. d \in BindContexts /\ ContextKept(d) /\ GuardsCounted(d, h, L \cup {x}) /\ Grows(e, d)
  BY <1>8, <1>11
<1> HIDE DEF d
<1>13. Grows(c, d)
  BY <1>3, <1>12 DEF Grows
<1>14. CountsKept(d, k, g)
  BY <1>4, <1>8, <1>12 DEF CountsKept, h
<1> QED BY <1>6, <1>13, <1>14 DEF d, e, t

\* The guards of a material go.
LEMMA ClearKeeps ==
    ASSUME NEW c, NEW in, NEW g, CountsKept(c, in, g), NEW m \in Materials
    PROVE  LET d == Clear(c, in[m]) IN CountsKept(d, [in EXCEPT ![m] = <<>>], g) /\ Grows(c, d)
<1> DEFINE list == in[m]
           k == [in EXCEPT ![m] = <<>>]
           n == Len(list)
           x == [j \in 1..n |-> <<m, j>>]
           L == TokensOf(g, k)
           h == HeldBy(g, in)
           d == Clear(c, list)
<1>0. c \in BindContexts /\ in \in GuardLists /\ g \in Seq(GuardRecords) /\ ContextKept(c)
      /\ GuardsCounted(c, h, TokensOf(g, in))
  BY DEF CountsKept
<1>1. list \in Seq(Leaves) /\ n \in Nat /\ in \in [Materials -> Seq(Leaves)]
  BY <1>0 DEF GuardLists
<1>2. k \in GuardLists /\ k[m] = <<>> /\ Len(k[m]) = 0 /\ in = [k EXCEPT ![m] = list]
  <2>1. k \in [Materials -> Seq(Leaves)] /\ k[m] = <<>>
    BY <1>1
  <2>2. in = [k EXCEPT ![m] = list]
    BY <1>1
  <2> QED BY <2>1, <2>2 DEF GuardLists
<1> HIDE DEF k, list
<1>3. in = More(k, m, list)
  <2>1. <<>> \o list = list
    BY <1>1
  <2> QED BY <1>2, <2>1 DEF More
<1>4. /\ TokensOf(g, in) = L \cup {<<m, j>> : j \in 1..n}
      /\ \A j \in 1..n : <<m, j>> \notin L /\ h[<<m, j>>] = list[j]
      /\ \A y \in L : h[y] = HeldBy(g, k)[y]
  <2>1. \A b \in Seq(Leaves) :
           /\ TokensOf(g, More(k, m, b)) = TokensOf(g, k) \cup {<<m, Len(k[m]) + i>> : i \in 1..Len(b)}
           /\ \A i \in 1..Len(b) : /\ <<m, Len(k[m]) + i>> \notin TokensOf(g, k)
                                   /\ HeldBy(g, More(k, m, b))[<<m, Len(k[m]) + i>>] = b[i]
           /\ \A y \in TokensOf(g, k) : HeldBy(g, More(k, m, b))[y] = HeldBy(g, k)[y]
    BY <1>0, <1>2, MaterialTokens
  <2>2. \A i \in 1..n : Len(k[m]) + i = i
    BY <1>2
  <2> HIDE DEF n, L, h
  <2>3. /\ TokensOf(g, in) = L \cup {<<m, Len(k[m]) + i>> : i \in 1..n}
        /\ \A i \in 1..n : /\ <<m, Len(k[m]) + i>> \notin L
                           /\ h[<<m, Len(k[m]) + i>>] = list[i]
        /\ \A y \in L : h[y] = HeldBy(g, k)[y]
    BY <1>1, <1>3, <2>1 DEF n, L, h
  <2>4. {<<m, Len(k[m]) + i>> : i \in 1..n} = {<<m, j>> : j \in 1..n}
    BY <2>2
  <2> QED BY <2>2, <2>3, <2>4
<1>5. IsFiniteSet(TokensOf(g, in))
  BY <1>0, TokensFact
<1> HIDE DEF L, h
<1>6. \A j \in 1..n : x[j] = <<m, j>>
  OBVIOUS
<1> HIDE DEF x
<1>7. After(L, x, 0, n) = TokensOf(g, in)
  <2>1. (0 + 1)..n = 1..n
    OBVIOUS
  <2>2. {x[j] : j \in 1..n} = {<<m, j>> : j \in 1..n}
    BY <1>6
  <2> QED BY <1>4, <2>1, <2>2 DEF After
<1>8. /\ \A i \in 1..Len(list) : x[i] \notin L
      /\ \A i, j \in 1..Len(list) : x[i] = x[j] => i = j
      /\ \A i \in 1..Len(list) : h[x[i]] = list[i]
  <2>1. \A i \in 1..n : x[i] \notin L /\ h[x[i]] = list[i]
    BY <1>4, <1>6
  <2>2. ASSUME NEW i \in 1..n, NEW j \in 1..n, x[i] = x[j] PROVE i = j
    <3>1. <<m, i>> = <<m, j>>
      BY <1>6, <2>2
    <3> QED BY <3>1
  <2> HIDE DEF n
  <2> QED BY <2>1, <2>2 DEF n
<1>9. GuardsCounted(c, h, After(L, x, 0, Len(list))) /\ IsFiniteSet(After(L, x, 0, Len(list)))
  BY <1>0, <1>5, <1>7
<1>10. d \in BindContexts /\ ContextKept(d) /\ GuardsCounted(d, h, L) /\ Grows(c, d)
  BY <1>0, <1>1, <1>8, <1>9, ClearFact
<1> HIDE DEF d
<1>11. GuardsCounted(d, HeldBy(g, k), L)
  BY <1>4, <1>10, CountsSame
<1>12. CountsKept(d, k, g)
  BY <1>0, <1>2, <1>10, <1>11 DEF CountsKept, L
<1> QED BY <1>10, <1>12 DEF d, k, list
-----------------------------------------------------------------------------
(* The system *)

BindInv == CountsKept(ctx, inner, guards) /\ MaterialsHold(ctx, inner)

LEMMA BindInitKept == BindInit => BindInv
<1> SUFFICES ASSUME BindInit PROVE BindInv
  OBVIOUS
<1>1. ctx = [bound |-> [b \in Bindables |-> 0], state |-> [b \in Bindables |-> Nothing],
             program |-> Nothing, active |-> 0, unit |-> [u \in Units |-> Nothing],
             units |-> [p \in Shaders |-> EmptyMap], sampler |-> [p \in Shaders |-> EmptyMap]]
      /\ inner = [m \in Materials |-> <<>>] /\ guards = <<>>
  BY DEF BindInit
<1>2. ctx \in BindContexts
  BY <1>1, KindsFacts, MapsFact DEF BindContexts
<1>3. inner \in GuardLists /\ guards \in Seq(GuardRecords) /\ Len(guards) = 0 /\ \A m \in Materials : Len(inner[m]) = 0
  BY <1>1 DEF GuardLists
<1>4. ContextKept(ctx)
  BY <1>1, KindsFacts, MapsFact DEF ContextKept
<1>5. TokensOf(guards, inner) = {}
  BY <1>3, NoTokens
<1>6. GuardsCounted(ctx, HeldBy(guards, inner), TokensOf(guards, inner))
  <2>1. \A b : GuardsOf(HeldBy(guards, inner), TokensOf(guards, inner), b) = {}
    BY <1>5 DEF GuardsOf
  <2> QED BY <1>1, <2>1, FS_EmptySet DEF GuardsCounted
<1>7. MaterialsHold(ctx, inner)
  BY <1>1, KindsFacts DEF MaterialsHold
<1> QED BY <1>2, <1>3, <1>4, <1>6, <1>7 DEF BindInv, CountsKept

LEMMA HoldsMore ==
    ASSUME NEW in \in GuardLists, NEW m \in Materials, NEW part \in Seq(Leaves)
    PROVE  /\ \A n \in Materials : \A b : Holds(in[n], b) => Holds(More(in, m, part)[n], b)
           /\ \A j \in 1..Len(part) : Holds(More(in, m, part)[m], part[j])
<1> DEFINE k == More(in, m, part)
<1>1. /\ in[m] \in Seq(Leaves) /\ in \in [Materials -> Seq(Leaves)] /\ Len(in[m]) \in Nat /\ Len(part) \in Nat
  BY DEF GuardLists
<1>2. /\ Len(in[m] \o part) = Len(in[m]) + Len(part)
      /\ \A i \in 1..Len(in[m]) : (in[m] \o part)[i] = in[m][i]
      /\ \A j \in 1..Len(part) : (in[m] \o part)[Len(in[m]) + j] = part[j]
  BY <1>1
<1>3. k[m] = in[m] \o part /\ \A n \in Materials \ {m} : k[n] = in[n]
  BY <1>1 DEF More
<1>4. /\ \A i \in 1..Len(in[m]) : i \in 1..Len(k[m])
      /\ \A j \in 1..Len(part) : Len(in[m]) + j \in 1..Len(k[m])
  BY <1>1, <1>2, <1>3
<1> HIDE DEF k
<1>5. ASSUME NEW n \in Materials, NEW b, Holds(in[n], b) PROVE Holds(k[n], b)
  BY <1>2, <1>3, <1>4, <1>5 DEF Holds
<1>6. ASSUME NEW j \in 1..Len(part) PROVE Holds(k[m], part[j])
  BY <1>2, <1>3, <1>4 DEF Holds
<1> QED BY <1>5, <1>6 DEF k

\* A material that is not bound takes more guards.
LEMMA UnboundHolds ==
    ASSUME NEW c \in BindContexts, NEW d, NEW in \in GuardLists, NEW m \in Materials, NEW part \in Seq(Leaves),
           MaterialsHold(c, in), c.bound[m] = 0, Grows(c, d)
    PROVE  MaterialsHold(d, More(in, m, part))
<1> SUFFICES ASSUME NEW n \in Materials, d.bound[n] > 0
             PROVE  /\ Holds(More(in, m, part)[n], ShaderOf[n])
                    /\ \A i \in 1..Len(TexturesOf[n]) : /\ Holds(More(in, m, part)[n], TexturesOf[n][i])
                                                        /\ TexturesOf[n][i] \in DOMAIN d.sampler[ShaderOf[n]]
  BY DEF MaterialsHold
<1>1. d.bound[n] = c.bound[n] /\ ShaderOf[n] \in Shaders
  BY MaterialsAssumption DEF Grows
<1>2. DOMAIN c.sampler[ShaderOf[n]] \subseteq DOMAIN d.sampler[ShaderOf[n]]
  BY <1>1 DEF Grows
<1>3. /\ Holds(in[n], ShaderOf[n])
      /\ \A i \in 1..Len(TexturesOf[n]) : /\ Holds(in[n], TexturesOf[n][i])
                                          /\ TexturesOf[n][i] \in DOMAIN c.sampler[ShaderOf[n]]
  BY <1>1 DEF MaterialsHold
<1>4. \A b : Holds(in[n], b) => Holds(More(in, m, part)[n], b)
  BY HoldsMore
<1> QED BY <1>2, <1>3, <1>4

LEMMA EnterKeeps ==
    ASSUME BindInv, NEW b \in Bindables, NEW s \in BoundStates, MakeGuard(b, s)
    PROVE  BindInv'
<1>0. CountsKept(ctx, inner, guards) /\ MaterialsHold(ctx, inner)
  BY DEF BindInv
<1>1. guards' = Append(guards, [bindable |-> b, state |-> s])
  BY DEF MakeGuard
<1>2. CASE b \notin Materials
  <2>1. b \in Leaves /\ ctx' = GuardLeaf(ctx, b, s) /\ inner' = inner
    BY <1>2 DEF MakeGuard, Bindables
  <2>2. CountsKept(ctx', inner', guards') /\ Grows(ctx, ctx')
    BY <1>0, <1>1, <2>1, EnterLeafKeeps
  <2>3. MaterialsHold(ctx', inner')
    BY <1>0, <2>1, <2>2, HoldGrows
  <2> QED BY <2>2, <2>3 DEF BindInv
<1>3. CASE b \in Materials
  <2> DEFINE c == Counted(ctx, b, s)
  <2>1. BindMaterial(b, s)
    BY <1>3 DEF MakeGuard
  <2>2. /\ CountsKept(c, inner, guards')
        /\ c.bound = [ctx.bound EXCEPT ![b] = @ + 1] /\ c.sampler = ctx.sampler
    BY <1>0, <1>1, <1>3, CountMaterialKeeps
  <2>3. ctx.bound \in [Bindables -> Nat] /\ inner \in GuardLists /\ \A m \in Materials : m \in Bindables
    BY <1>0, KindsFacts DEF CountsKept, BindContexts
  <2> HIDE DEF c
  <2>4. CASE ctx.bound[b] > 0
    <3>1. ctx' = c /\ inner' = inner
      BY <2>1, <2>4 DEF BindMaterial, c
    <3>2. MaterialsHold(ctx', inner')
      <4>1. \A m \in Materials : c.bound[m] > 0 => ctx.bound[m] > 0
        BY <1>3, <2>2, <2>3, <2>4
      <4> QED BY <1>0, <2>2, <3>1, <4>1 DEF MaterialsHold
    <3> QED BY <2>2, <3>1, <3>2 DEF BindInv
  <2>5. CASE ~ (ctx.bound[b] > 0)
    <3> DEFINE n == Len(TexturesOf[b])
               d == Bound(c, b, s, n)
               k == More(inner, b, Part(b, n))
    <3>1. ctx' = Bound(c, b, s, n) /\ inner' = [inner EXCEPT ![b] = @ \o Parts(b)]
      BY <2>1, <2>5 DEF BindMaterial, c
    <3>2. /\ n \in Nat /\ n \in 0..n /\ Part(b, n) = Parts(b) /\ Part(b, n) \in Seq(Leaves) /\ Len(Part(b, n)) = n + 1
          /\ Part(b, n)[1] = ShaderOf[b] /\ \A i \in 1..n : Part(b, n)[i + 1] = TexturesOf[b][i]
      <4>1. n \in Nat /\ Part(b, n) = Parts(b)
        BY <1>3, PartsFact
      <4>2. n \in 0..n
        BY <4>1
      <4>3. /\ Part(b, n) \in Seq(Leaves) /\ Len(Part(b, n)) = n + 1 /\ Part(b, n)[1] = ShaderOf[b]
            /\ \A i \in 1..n : Part(b, n)[i + 1] = TexturesOf[b][i]
        BY <1>3, <4>2, PartsFact
      <4> QED BY <4>1, <4>2, <4>3
    <3>3. inner' = k
      BY <3>1, <3>2 DEF More
    <3>4. /\ CountsKept(d, k, guards') /\ Grows(c, d)
          /\ \A i \in 1..n : TexturesOf[b][i] \in DOMAIN d.sampler[ShaderOf[b]]
      BY <1>3, <2>2, <3>2, BindPartKeeps
    <3>5. /\ \A m \in Materials : \A x : Holds(inner[m], x) => Holds(k[m], x)
          /\ \A j \in 1..Len(Part(b, n)) : Holds(k[b], Part(b, n)[j])
      BY <1>3, <2>3, <3>2, HoldsMore
    <3> HIDE DEF n, k, d
    <3>6. Holds(k[b], ShaderOf[b]) /\ \A i \in 1..n : Holds(k[b], TexturesOf[b][i])
      <4>1. 1 \in 1..(n + 1) /\ \A i \in 1..n : i + 1 \in 1..(n + 1)
        BY <3>2
      <4> QED BY <3>2, <3>5, <4>1
    <3>7. MaterialsHold(d, k)
      <4> SUFFICES ASSUME NEW m \in Materials, d.bound[m] > 0
                   PROVE  /\ Holds(k[m], ShaderOf[m])
                          /\ \A i \in 1..Len(TexturesOf[m]) : /\ Holds(k[m], TexturesOf[m][i])
                                                              /\ TexturesOf[m][i] \in DOMAIN d.sampler[ShaderOf[m]]
        BY DEF MaterialsHold
      <4>1. CASE m = b
        BY <3>4, <3>6, <4>1 DEF n
      <4>2. CASE m # b
        <5>1. ctx.bound[m] > 0
          BY <1>3, <2>2, <2>3, <3>4, <4>2 DEF Grows
        <5>2. /\ Holds(inner[m], ShaderOf[m])
              /\ \A i \in 1..Len(TexturesOf[m]) : /\ Holds(inner[m], TexturesOf[m][i])
                                                  /\ TexturesOf[m][i] \in DOMAIN c.sampler[ShaderOf[m]]
          BY <1>0, <2>2, <5>1 DEF MaterialsHold
        <5>3. ShaderOf[m] \in Shaders
          BY MaterialsAssumption
        <5>4. DOMAIN c.sampler[ShaderOf[m]] \subseteq DOMAIN d.sampler[ShaderOf[m]]
          BY <3>4, <5>3 DEF Grows
        <5> QED BY <3>5, <5>2, <5>4
      <4> QED BY <4>1, <4>2
    <3> QED BY <3>1, <3>3, <3>4, <3>7 DEF BindInv, d
  <2> QED BY <2>4, <2>5
<1> QED BY <1>2, <1>3

LEMMA BindFailsKeeps ==
    ASSUME BindInv, NEW m \in Materials, NEW s \in BoundStates, BindMaterialFails(m, s)
    PROVE  BindInv'
<1>0. CountsKept(ctx, inner, guards) /\ MaterialsHold(ctx, inner) /\ ctx \in BindContexts /\ inner \in GuardLists
  BY DEF BindInv, CountsKept
<1>1. PICK n \in 0..Len(TexturesOf[m]) :
         /\ \/ ctx' = [Bound(ctx, m, s, n) EXCEPT !.state[m] = s]
            \/ n > 0 /\ ctx' = [GuardLeaf(Bound(ctx, m, s, n - 1), TexturesOf[m][n], s) EXCEPT !.state[m] = s]
         /\ inner' = [inner EXCEPT ![m] = @ \o SubSeq(Parts(m), 1, n + 1)]
  BY DEF BindMaterialFails
<1>2. ctx.bound[m] = 0 /\ guards' = guards
  BY DEF BindMaterialFails
<1>3. inner' = More(inner, m, Part(m, n)) /\ Part(m, n) \in Seq(Leaves) /\ m \in Bindables
  BY <1>1, PartsFact, KindsFacts DEF More, Part
<1>4. PICK d : /\ CountsKept(d, inner', guards) /\ Grows(ctx, d) /\ ctx' = [d EXCEPT !.state[m] = s]
  <2>1. CASE ctx' = [Bound(ctx, m, s, n) EXCEPT !.state[m] = s]
    <3> DEFINE d == Bound(ctx, m, s, n)
    <3>1. CountsKept(d, inner', guards) /\ Grows(ctx, d)
      BY <1>0, <1>3, BindPartKeeps
    <3> HIDE DEF d
    <3> QED BY <2>1, <3>1 DEF d
  <2>2. CASE n > 0 /\ ctx' = [GuardLeaf(Bound(ctx, m, s, n - 1), TexturesOf[m][n], s) EXCEPT !.state[m] = s]
    <3> DEFINE d == GuardLeaf(Bound(ctx, m, s, n - 1), TexturesOf[m][n], s)
    <3>1. CountsKept(d, inner', guards) /\ Grows(ctx, d)
      BY <1>0, <1>3, <2>2, BindHalfKeeps
    <3> HIDE DEF d
    <3> QED BY <2>2, <3>1 DEF d
  <2> QED BY <1>1, <2>1, <2>2
<1>5. CountsKept(ctx', inner', guards') /\ ctx'.bound = d.bound /\ ctx'.sampler = d.sampler
  BY <1>2, <1>3, <1>4, StateOnly
<1>6. MaterialsHold(d, inner')
  BY <1>0, <1>2, <1>3, <1>4, UnboundHolds
<1>7. MaterialsHold(ctx', inner')
  BY <1>5, <1>6 DEF MaterialsHold
<1> QED BY <1>5, <1>7 DEF BindInv

LEMMA BindRefusedKeeps ==
    ASSUME BindInv, NEW m \in Materials, NEW s \in BoundStates, BindMaterialRefused(m, s)
    PROVE  BindInv'
<1>1. ctx' = [ctx EXCEPT !.state[m] = s] /\ inner' = inner /\ guards' = guards
  BY DEF BindMaterialRefused
<1>2. CountsKept(ctx', inner', guards') /\ ctx'.bound = ctx.bound /\ ctx'.sampler = ctx.sampler
  <2>1. m \in Bindables
    BY KindsFacts
  <2> QED BY <1>1, <2>1, StateOnly DEF BindInv
<1>3. MaterialsHold(ctx', inner')
  BY <1>1, <1>2 DEF BindInv, MaterialsHold
<1> QED BY <1>2, <1>3 DEF BindInv

LEMMA LeaveKeeps ==
    ASSUME BindInv, DropGuard
    PROVE  BindInv'
<1> DEFINE g == Front(guards)
           r == Last(guards)
           b == r.bindable
<1>0. CountsKept(ctx, inner, guards) /\ MaterialsHold(ctx, inner) /\ guards \in Seq(GuardRecords)
      /\ inner \in GuardLists
  BY DEF BindInv, CountsKept
<1>1. g \in Seq(GuardRecords) /\ r \in GuardRecords /\ guards = Append(g, r) /\ guards' = g
  <2>1. guards # <<>> /\ guards' = g
    BY DEF DropGuard
  <2>2. Len(guards) \in Nat /\ Len(guards) > 0
    BY <1>0, <2>1
  <2>3. r = guards[Len(guards)] /\ g = SubSeq(guards, 1, Len(guards) - 1)
    BY DEF Front, Last
  <2>4. r \in GuardRecords
    BY <1>0, <2>2, <2>3
  <2> HIDE DEF g, r
  <2>5. g \in Seq(GuardRecords) /\ Len(g) = Len(guards) - 1 /\ \A i \in 1..Len(g) : g[i] = guards[i]
    <3> DEFINE n == Len(guards) - 1
    <3>1. n \in Nat /\ n <= Len(guards)
      BY <2>2
    <3>2. g = [i \in 1..n |-> guards[i]]
      BY <2>2, <2>3
    <3>3. \A i \in 1..n : guards[i] \in GuardRecords
      BY <1>0, <2>2
    <3> HIDE DEF n
    <3>4. g \in Seq(GuardRecords) /\ Len(g) = n
      BY <3>1, <3>2, <3>3
    <3> QED BY <3>2, <3>4 DEF n
  <2>6. guards = Append(g, r)
    <3>1. Append(g, r) \in Seq(GuardRecords) /\ Len(Append(g, r)) = Len(guards)
      BY <2>2, <2>4, <2>5
    <3>2. \A i \in 1..Len(guards) : Append(g, r)[i] = guards[i]
      BY <2>2, <2>3, <2>4, <2>5
    <3> QED BY <1>0, <3>1, <3>2
  <2> QED BY <2>1, <2>4, <2>5, <2>6
<1>2. b \in Bindables /\ CountsKept(ctx, inner, Append(g, r))
  BY <1>0, <1>1 DEF GuardRecords
<1>3. CASE b \notin Materials
  <2>1. b \in Leaves
    BY <1>2, <1>3 DEF Bindables
  <2>2. ctx' = UnguardLeaf(ctx, b) /\ inner' = inner
    BY <1>3 DEF DropGuard
  <2> HIDE DEF g, r
  <2>3. CountsKept(ctx', inner', guards') /\ Grows(ctx, ctx')
    BY <1>1, <1>2, <2>1, <2>2, LeaveLeafKeeps
  <2>4. MaterialsHold(ctx', inner')
    BY <1>0, <2>2, <2>3, HoldGrows
  <2> QED BY <2>3, <2>4 DEF BindInv
<1>4. CASE b \in Materials
  <2> DEFINE c == Uncounted(ctx, b)
  <2>1. UnbindMaterial(b)
    BY <1>4 DEF DropGuard
  <2> HIDE DEF g, r
  <2>2. /\ CountsKept(c, inner, g) /\ ctx.bound[b] > 0
        /\ c.bound = [ctx.bound EXCEPT ![b] = @ - 1] /\ c.sampler = ctx.sampler
    <3>1. r.bindable = b
      OBVIOUS
    <3> HIDE DEF b
    <3> QED BY <1>1, <1>2, <1>4, <3>1, UncountMaterialKeeps
  <2>3. ctx.bound \in [Bindables -> Nat] /\ inner \in [Materials -> Seq(Leaves)] /\ \A m \in Materials : m \in Bindables
    BY <1>0, KindsFacts DEF CountsKept, BindContexts, GuardLists
  <2> HIDE DEF c, b
  <2>4. \A m \in Materials : c.bound[m] > 0 => ctx.bound[m] > 0
    BY <1>4, <2>2, <2>3
  <2>5. CASE ctx.bound[b] # 1
    <3>1. ctx' = c /\ inner' = inner
      BY <2>1, <2>5 DEF UnbindMaterial, LastGuard, c
    <3>2. MaterialsHold(ctx', inner')
      BY <1>0, <2>2, <2>4, <3>1 DEF MaterialsHold
    <3> QED BY <1>1, <2>2, <3>1, <3>2 DEF BindInv
  <2>6. CASE ctx.bound[b] = 1
    <3> DEFINE k == [inner EXCEPT ![b] = <<>>]
    <3>1. ctx' = Clear(c, inner[b]) /\ inner' = k
      BY <2>1, <2>6 DEF UnbindMaterial, LastGuard, Emptied, c
    <3>2. CountsKept(ctx', k, g) /\ Grows(c, ctx')
      BY <1>4, <2>2, <3>1, ClearKeeps
    <3>3. MaterialsHold(ctx', k)
      <4> SUFFICES ASSUME NEW m \in Materials, ctx'.bound[m] > 0
                   PROVE  /\ Holds(k[m], ShaderOf[m])
                          /\ \A i \in 1..Len(TexturesOf[m]) : /\ Holds(k[m], TexturesOf[m][i])
                                                              /\ TexturesOf[m][i] \in DOMAIN ctx'.sampler[ShaderOf[m]]
        BY DEF MaterialsHold
      <4>1. c.bound[m] > 0
        BY <3>2 DEF Grows
      <4>2. m # b /\ ctx.bound[m] > 0
        BY <1>4, <2>2, <2>3, <2>6, <4>1
      <4>3. k[m] = inner[m]
        BY <2>3, <4>2
      <4>4. ShaderOf[m] \in Shaders
        BY MaterialsAssumption
      <4>5. DOMAIN c.sampler[ShaderOf[m]] \subseteq DOMAIN ctx'.sampler[ShaderOf[m]]
        BY <3>2, <4>4 DEF Grows
      <4> HIDE DEF k
      <4> QED BY <1>0, <2>2, <4>2, <4>3, <4>5 DEF MaterialsHold
    <3> QED BY <1>1, <3>1, <3>2, <3>3 DEF BindInv
  <2> QED BY <2>5, <2>6
<1> QED BY <1>3, <1>4

LEMMA SetParameterKeeps ==
    ASSUME BindInv, NEW p \in Shaders, SetParameter(p)
    PROVE  BindInv'
<1>1. ctx' = Within(ctx, p, Entered(ctx, p)) /\ inner' = inner /\ guards' = guards
  BY DEF SetParameter
<1>2. ctx \in BindContexts /\ ContextKept(ctx)
  BY DEF BindInv, CountsKept
<1>3. ctx' \in BindContexts /\ ContextKept(ctx') /\ ctx'.bound = ctx.bound /\ ctx'.sampler = ctx.sampler
  BY <1>1, <1>2, SetParameterIs
<1> QED BY <1>1, <1>3 DEF BindInv, CountsKept, GuardsCounted, MaterialsHold

\* What the invariant says of the guards.
LEMMA BindInvKeepsGuards == BindInv => GuardsAreKept
<1> SUFFICES ASSUME BindInv PROVE GuardsAreKept
  OBVIOUS
<1> DEFINE L == TokensOf(guards, inner)
           h == HeldBy(guards, inner)
<1>1. /\ ctx \in BindContexts /\ inner \in GuardLists /\ guards \in Seq(GuardRecords)
      /\ ContextKept(ctx) /\ GuardsCounted(ctx, h, L) /\ MaterialsHold(ctx, inner)
  BY DEF BindInv, CountsKept
<1>2. BindTypeOK
  BY <1>1 DEF BindTypeOK, GuardLists, GuardRecords
<1>3. CountsGuards
  <2>1. CountsOn(ctx, guards, inner)
    BY <1>1, GuardsOnFact
  <2> QED BY <2>1 DEF CountsOn, CountsGuards, GuardsOn
<1>4. IsFiniteSet(L)
  BY <1>1, TokensFact
<1>5. NothingLeftBound
  <2> SUFFICES ASSUME guards = <<>>, \A m \in Materials : inner[m] = <<>>
               PROVE  ctx.program = Nothing /\ (OneTexture => \A u \in Units : ctx.unit[u] = Nothing)
    BY DEF NothingLeftBound
  <2>1. L = {}
    <3>1. Len(guards) = 0 /\ \A m \in Materials : Len(inner[m]) = 0
      OBVIOUS
    <3> QED BY <1>1, <3>1, NoTokens
  <2>2. \A b \in Bindables : ctx.bound[b] = 0
    <3>1. \A b : GuardsOf(h, L, b) = {}
      BY <2>1 DEF GuardsOf
    <3> QED BY <1>1, <3>1, FS_EmptySet DEF GuardsCounted
  <2>3. ctx.program \in Shaders \cup {Nothing} /\ \A u \in Units : ctx.unit[u] \in Textures \cup {Nothing}
    BY <1>1 DEF BindContexts
  <2>4. Shaders \subseteq Bindables /\ Textures \subseteq Bindables
    BY KindsFacts
  <2> QED BY <1>1, <2>2, <2>3, <2>4 DEF ContextKept
<1>6. ReadyToDraw
  <2> SUFFICES ASSUME NEW m \in Materials, ctx.bound[m] > 0
               PROVE  /\ OneProgram => ctx.program = ShaderOf[m]
                      /\ \A t \in ToSet(TexturesOf[m]) :
                            /\ t \in DOMAIN ctx.sampler[ShaderOf[m]]
                            /\ OneTexture => ctx.unit[ctx.sampler[ShaderOf[m]][t]] = t
    BY DEF ReadyToDraw
  <2>1. ShaderOf[m] \in Shaders /\ TexturesOf[m] \in Seq(Textures)
    BY MaterialsAssumption
  <2>2. ASSUME NEW b \in Bindables, Holds(inner[m], b) PROVE ctx.bound[b] > 0
    <3>1. PICK i \in 1..Len(inner[m]) : inner[m][i] = b
      BY <2>2 DEF Holds
    <3> DEFINE x == <<m, i>>
    <3>2. x \in L /\ h[x] = b
      BY <1>1, <3>1, TokensFact
    <3> HIDE DEF x, L, h
    <3> QED BY <1>1, <1>4, <3>2, CountsSome
  <2>3. /\ Holds(inner[m], ShaderOf[m])
        /\ \A i \in 1..Len(TexturesOf[m]) : /\ Holds(inner[m], TexturesOf[m][i])
                                            /\ TexturesOf[m][i] \in DOMAIN ctx.sampler[ShaderOf[m]]
    BY <1>1 DEF MaterialsHold
  <2>4. OneProgram => ctx.program = ShaderOf[m]
    BY <1>1, <2>1, <2>2, <2>3, KindsFacts DEF ContextKept
  <2>5. ASSUME NEW t \in ToSet(TexturesOf[m])
        PROVE  /\ t \in DOMAIN ctx.sampler[ShaderOf[m]]
               /\ OneTexture => ctx.unit[ctx.sampler[ShaderOf[m]][t]] = t
    <3>1. PICK i \in 1..Len(TexturesOf[m]) : TexturesOf[m][i] = t
      BY <2>1, <2>5 DEF ToSet
    <3>2. t \in Textures /\ t \in DOMAIN ctx.sampler[ShaderOf[m]] /\ ctx.bound[t] > 0
      <4>1. t \in Textures /\ t \in Bindables
        BY <2>1, <3>1, KindsFacts
      <4> QED BY <2>2, <2>3, <3>1, <4>1
    <3> QED BY <1>1, <2>1, <3>2 DEF ContextKept
  <2> QED BY <2>4, <2>5
<1> QED BY <1>2, <1>3, <1>5, <1>6 DEF GuardsAreKept

\* A bindable counts the guards of clients and of materials on it, also after a
\* bind that threw half way; with no guard left OpenGL is clean, and a material
\* that is bound can be drawn with (Bindable.cpp:17-72).
THEOREM GuardsStayKept == BindSpec => []GuardsAreKept
<1>1. BindInit => BindInv
  BY BindInitKept
<1>2. BindInv /\ [BindNext]_bindVars => BindInv'
  <2> SUFFICES ASSUME BindInv, [BindNext]_bindVars PROVE BindInv'
    OBVIOUS
  <2>1. CASE UNCHANGED bindVars
    BY <2>1 DEF bindVars, BindInv, CountsKept, GuardsCounted, MaterialsHold, TokensOf, HeldBy
  <2>2. ASSUME NEW b \in Bindables, NEW s \in BoundStates, MakeGuard(b, s) PROVE BindInv'
    BY <2>2, EnterKeeps
  <2>3. ASSUME NEW m \in Materials, NEW s \in BoundStates, BindMaterialFails(m, s) PROVE BindInv'
    BY <2>3, BindFailsKeeps
  <2>4. ASSUME NEW m \in Materials, NEW s \in BoundStates, BindMaterialRefused(m, s) PROVE BindInv'
    BY <2>4, BindRefusedKeeps
  <2>5. ASSUME NEW p \in Shaders, SetParameter(p) PROVE BindInv'
    BY <2>5, SetParameterKeeps
  <2>6. CASE DropGuard
    BY <2>6, LeaveKeeps
  <2> QED BY <2>1, <2>2, <2>3, <2>4, <2>5, <2>6 DEF BindNext
<1>3. BindInv => GuardsAreKept
  BY BindInvKeepsGuards
<1> QED BY <1>1, <1>2, <1>3, PTL DEF BindSpec
=============================================================================
