------------------------------ MODULE SceneGraph ------------------------------
(***************************************************************************)
(* cube::scene::Graph: nodes, the vertices of the boost graph that stand   *)
(* for them, the map from the one to the other, and each node's own idea   *)
(* of being attached.  Removing a node removes its children while it       *)
(* iterates over its edges, which removing a child erases: the iterator    *)
(* then walks the memory the vector of edges leaves behind.                *)
(***************************************************************************)
EXTENDS Integers, Sequences, SequencesExt

CONSTANTS Nodes, Root,
          MaxChildren,  \* bound: edges out of a node
          MaxTricks     \* bound: operations that make the graph no tree

ASSUME NodesAssumption == Root \in Nodes /\ {MaxChildren, MaxTricks} \subseteq Nat

VARIABLES known,     \* Graph::Impl::nodes
          vertices,  \* the nodes with a vertex in Graph::Impl::graph
          attached,  \* Node::_graph is set
          out,       \* out[n]: adjacency of n's vertex
          removed,   \* nodes removed whose shared_ptr is alive
          frames,    \* the calls of remove that run, outermost first: [node, at, memory]
          crashed,   \* undefined behaviour happened
          tricks     \* history: how often a node of the graph was inserted
                     \* again, two nodes connected or the root removed
graphVars == <<known, vertices, attached, out, removed, frames, crashed, tricks>>

NoEdges == [n \in Nodes |-> <<>>]

GraphInit ==
    /\ known = {Root} /\ vertices = {Root} /\ attached = {Root}
    /\ out = NoEdges
    /\ removed = {} /\ frames = <<>>
    /\ crashed = FALSE
    /\ tricks = 0
-----------------------------------------------------------------------------
Quiet == ~crashed /\ frames = <<>>
Trick == tricks < MaxTricks /\ tricks' = tricks + 1

\* No object: not in the graph, not held by anyone.
Free == Nodes \ (attached \cup removed)

\* insert, then connect: when the parent is not in `nodes', connect throws
\* and the new node stays in the graph, unconnected.
Linked(parent, n) ==
    IF parent \in known THEN [out EXCEPT ![parent] = Append(@, n)] ELSE out

InsertChild(parent, n) ==
    /\ Quiet /\ parent \in attached /\ n \in Free \cup removed
    /\ Len(out[parent]) < MaxChildren
    /\ known' = known \cup {n} /\ vertices' = vertices \cup {n}
    /\ attached' = attached \cup {n}
    /\ out' = Linked(parent, n)
    /\ removed' = removed \ {n}
    /\ UNCHANGED <<frames, crashed, tricks>>

\* Node::attach refuses a node that is attached: the guard removes the vertex
\* just added, and erases the node's entry, which is the old one.
Reinsert(n) ==
    /\ Quiet /\ Trick /\ n \in attached
    /\ known' = known \ {n}
    /\ UNCHANGED <<vertices, attached, out, removed, frames, crashed>>

Connect(from, to) ==
    /\ Quiet /\ Trick /\ from \in known /\ to \in known
    /\ Len(out[from]) < MaxChildren
    /\ out' = [out EXCEPT ![from] = Append(@, to)]
    /\ UNCHANGED <<known, vertices, attached, removed, frames, crashed>>
-----------------------------------------------------------------------------
(* Graph::remove *)

\* A call on a node: the iterator, and the memory that it walks, which has the
\* edges there were when the loop began.
Call(n) == [node |-> n, at |-> 1, memory |-> out[n]]
Top == frames[Len(frames)]
Running == {frames[i].node : i \in DOMAIN frames}

RemoveNode(n) ==
    /\ Quiet /\ n \in known
    /\ IF n = Root THEN Trick ELSE UNCHANGED tricks
    /\ frames' = <<Call(n)>>
    /\ UNCHANGED <<known, vertices, attached, out, removed, crashed>>

\* What erasing the edges to n leaves of a vector of edges.
Without(list, n) == FlattenSeq([i \in DOMAIN list |-> IF list[i] = n THEN <<>> ELSE <<list[i]>>])

\* The edges that are kept move to the front, the memory behind them is as it was.
Moved(memory, kept) == [i \in DOMAIN memory |-> IF i <= Len(kept) THEN kept[i] ELSE memory[i]]

\* clear_vertex: edges out of n, and edges to n.
\* Fault: the vertex goes without clear_vertex.
Cleared_KeepsEdges(n) == out
Cleared(n) == [m \in Nodes |-> IF m = n THEN <<>> ELSE Without(out[m], n)]

\* The loop over the children: each is removed first.
RemoveChild ==
    /\ frames # <<>> /\ Top.at <= Len(Top.memory)
    /\ Top.memory[Top.at] \in (vertices \cap known) \ Running
    /\ frames' = Append(frames, Call(Top.memory[Top.at]))
    /\ UNCHANGED <<known, vertices, attached, out, removed, crashed, tricks>>

\* A vertex that was freed is read, or a node that is being removed is removed
\* again, for ever (a cycle).
Crashes ==
    /\ frames # <<>> /\ Top.at <= Len(Top.memory)
    /\ Top.memory[Top.at] \notin vertices \/ Top.memory[Top.at] \in Running
    /\ crashed' = TRUE /\ frames' = <<>>
    /\ UNCHANGED <<known, vertices, attached, out, removed, tricks>>

\* A child that is not in `nodes' throws, and leaves those that called where they are.
RemoveThrows ==
    /\ frames # <<>> /\ Top.at <= Len(Top.memory)
    /\ Top.memory[Top.at] \in vertices \ (known \cup Running)
    /\ frames' = <<>>
    /\ UNCHANGED <<known, vertices, attached, out, removed, crashed, tricks>>

\* The node itself goes, and the loop that called goes on.  A child is deleted
\* at once; the node of the first call is returned.
Vanish ==
    /\ frames # <<>> /\ Top.at > Len(Top.memory)
    /\ LET n == Top.node
           last == Len(frames) - 1
       IN /\ vertices' = vertices \ {n}
          /\ out' = Cleared(n)
          /\ known' = known \ {n} /\ attached' = attached \ {n}
          /\ removed' = IF last = 0 THEN removed \cup {n} ELSE removed
          /\ frames' = [i \in 1..last |->
                          [node   |-> frames[i].node,
                           at     |-> frames[i].at + (IF i = last THEN 1 ELSE 0),
                           memory |-> Moved(frames[i].memory, Cleared(n)[frames[i].node])]]
    /\ UNCHANGED <<crashed, tricks>>

DropNode(n) ==
    /\ frames = <<>> /\ n \in removed
    /\ removed' = removed \ {n}
    /\ UNCHANGED <<known, vertices, attached, out, frames, crashed, tricks>>

GraphNext ==
    \/ \E n, m \in Nodes : InsertChild(m, n) \/ Connect(m, n)
    \/ \E n \in Nodes : Reinsert(n) \/ RemoveNode(n) \/ DropNode(n)
    \/ RemoveChild \/ Crashes \/ RemoveThrows \/ Vanish

GraphSpec == GraphInit /\ [][GraphNext]_graphVars
-----------------------------------------------------------------------------
GraphTypeOK ==
    /\ known \subseteq vertices /\ vertices \subseteq Nodes
    /\ attached \subseteq Nodes /\ removed \subseteq Nodes \ attached
    /\ out \in [Nodes -> Seq(Nodes)]
    /\ frames \in Seq([node : Nodes, at : Nat, memory : Seq(Nodes)])
    /\ crashed \in BOOLEAN /\ tricks \in 0..MaxTricks

\* Every edge joins two vertices of the graph: none survives the removal of
\* either end, shared children and cycles included (clear_vertex).
EdgesStayInside ==
    ~crashed => \A n \in Nodes :
        /\ ToSet(out[n]) \subseteq vertices
        /\ n \notin vertices => out[n] = <<>>

\* When nodes are inserted under a parent and removed, what can be reached from
\* the root is the whole graph, at each step of a removal: it leaves no orphan
\* (Graph::remove's recursion over the children).
IsClosed(s) == Root \in s /\ \A n \in s : ToSet(out[n]) \subseteq s
NoOrphan == tricks = 0 => \A s \in SUBSET vertices : IsClosed(s) => s = vertices

\* A node that says it is attached is in the graph's map, and conversely, as
\* long as no node of the graph is inserted again (Node::attach and detach
\* against Graph::Impl::nodes).
TreeNodesAreInGraph == tricks = 0 => attached = known

\* Graph.hpp:91 `Remove a node and returns it': in a tree no edge is read
\* after the vertex it leads to was freed, and the recursion ends.  It holds while
\* nodes have two children at most.
RemoveReturns == tricks = 0 => ~crashed

\* Nodes, vertices and edges agree, a tree is what its root reaches, and removing
\* from it comes to an end.
TreeIsWhole ==
    GraphTypeOK /\ EdgesStayInside /\ NoOrphan /\ TreeNodesAreInGraph /\ RemoveReturns
=============================================================================
