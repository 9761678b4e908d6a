---------------------------- MODULE EntityManager ----------------------------
(***************************************************************************)
(* cubeapp.game.entity: entities are lists of components; each component   *)
(* is initialised by the systems it names (Renderer, Scene, Event), which  *)
(* keep it in their sets and give it a node of the scene or register it as *)
(* a controller.  An exception between two systems leaves the first one    *)
(* served; nothing is undone.                                              *)
(***************************************************************************)
EXTENDS Integers, Sequences, FiniteSets, SequencesExt

CONSTANTS Entities, Transforms, Contents, Controllers,
          Root, NoParent,
          MaxChildren     \* bound: children of a node (SceneGraph: at most two)

Visible == Transforms \cup Contents     \* components the Scene works on
Components == Visible \cup Controllers
Systems == {"renderer", "scene", "event"}

ASSUME EntityAssumption ==
    /\ Transforms \cap Contents = {} /\ Visible \cap Controllers = {}
    /\ {Root, NoParent} \cap Components = {} /\ Root # NoParent

VARIABLES created,     \* keys of Manager.__entities
          listed,      \* Manager.__entities[e]
          served,      \* System.__components of each system
          node,        \* components that have a `node' attribute
          parent,      \* the scene's graph, NoParent: detached
          registered,  \* controllers the event manager calls
          failed,      \* history: components whose add_component raised
          adopted      \* history: components added with a parent_node
vars == <<created, listed, served, node, parent, registered, failed, adopted>>

\* component.systems (Drawable and Bindable, Transform, Controller)
SystemsOf(c) == CASE c \in Contents   -> {"renderer", "scene"}
                  [] c \in Transforms -> {"scene"}
                  [] OTHER            -> {"event"}
Listed(e) == ToSet(listed[e])
AllListed == UNION {Listed(e) : e \in created}
Attached(c) == parent[c] # NoParent

Init ==
    /\ created = {} /\ listed = [e \in Entities |-> <<>>]
    /\ served = [s \in Systems |-> {}]
    /\ node = {} /\ parent = [c \in Components |-> NoParent]
    /\ registered = {} /\ failed = {} /\ adopted = {}
-----------------------------------------------------------------------------
Create(e) ==
    /\ e \notin created
    /\ created' = created \cup {e}
    /\ listed' = [listed EXCEPT ![e] = <<>>]
    /\ UNCHANGED <<served, node, parent, registered, failed, adopted>>

\* The components of a list that are not among these.
Without(list, gone) ==
    FlattenSeq([i \in DOMAIN list |-> IF list[i] \in gone THEN <<>> ELSE <<list[i]>>])

\* The node a content goes under: that of the last component of the entity
\* the Scene works on, the root of the scene without one.
DefaultParent(e) ==
    LET s == Without(listed[e], Controllers) IN
    IF s = <<>> THEN Root ELSE Last(s)

DefaultFor(e, c) == IF c \in Transforms THEN Root ELSE DefaultParent(e)

HasRoom(p) == p = Root \/ Cardinality({d \in Visible : parent[d] = p}) < MaxChildren

\* emplace_child throws `Node is detached' when its parent is out of the graph.
InGraph(p) == p = Root \/ Attached(p)

\* A component belongs to one entity; one whose addition failed is dropped.
Fresh(c) == c \notin AllListed \cup failed

\* __register_component: the systems that got to serve c, in their order.
Serve(c, done) == [s \in Systems |-> IF s \in done THEN served[s] \cup {c} ELSE served[s]]

ListIf(e, c, ok) ==
    IF ok THEN listed' = [listed EXCEPT ![e] = Append(@, c)] /\ UNCHANGED failed
          ELSE failed' = failed \cup {c} /\ UNCHANGED listed

\* hasContent: `assert component.content is not None'; known: no argument is
\* left over (`assert not kw').
\* p is the default parent, unless a parent_node is given.
AddVisible(e, c, p, hasContent, known) ==
    /\ e \in created /\ c \in Visible /\ Fresh(c) /\ HasRoom(p)
    /\ c \in Transforms => hasContent
    /\ LET inits == hasContent /\ InGraph(p) IN
       /\ served' = Serve(c, IF inits THEN SystemsOf(c) ELSE SystemsOf(c) \ {"scene"})
       /\ node' = IF inits THEN node \cup {c} ELSE node
       /\ parent' = IF inits THEN [parent EXCEPT ![c] = p] ELSE parent
       /\ ListIf(e, c, inits /\ known)
    /\ adopted' = IF p = DefaultFor(e, c) THEN adopted \ {c} ELSE adopted \cup {c}
    /\ UNCHANGED <<created, registered>>

AddController(e, c, known) ==
    /\ e \in created /\ c \in Controllers /\ Fresh(c)
    /\ registered' = registered \cup {c}
    /\ served' = Serve(c, {"event"})
    /\ ListIf(e, c, known)
    /\ UNCHANGED <<created, node, parent, adopted>>

\* parent_node, when the caller gives one, may be any node it can name.
AddComponent(e, c) ==
    \E known \in BOOLEAN :
        \/ AddController(e, c, known)
        \/ \E hasContent \in BOOLEAN, p \in {DefaultFor(e, c)} \cup (node \ {c}) :
               AddVisible(e, c, p, hasContent, known)
-----------------------------------------------------------------------------
\* unregister() of a controller the event manager does not know raises,
\* before any change.
Refused(c) == c \in Controllers \ registered

\* What the removal of the components in gone does; Graph::remove takes the
\* nodes below with it.
Ancestors[c \in Visible] ==
    {c} \cup IF parent[c] \in Visible THEN Ancestors[parent[c]] ELSE {}

Uprooted(gone) == {c \in Visible : Ancestors[c] \cap gone # {}}
\* Fault: the event manager keeps calling a removed controller.
Unregistered_Not(gone) == registered
Unregistered(gone) == registered \ gone

ShutDown(gone) ==
    /\ served' = [s \in Systems |-> served[s] \ gone]
    /\ node' = node \ gone
    /\ parent' = [c \in Components |-> IF c \in Visible /\ c \in Uprooted(gone)
                                       THEN NoParent ELSE parent[c]]
    /\ registered' = Unregistered(gone)

RemoveComponent(e, c) ==
    /\ e \in created /\ c \in Listed(e) /\ ~Refused(c)
    /\ ShutDown({c})
    /\ listed' = [listed EXCEPT ![e] = Without(@, {c})]
    /\ UNCHANGED <<created, failed, adopted>>

\* __destroy goes over a copy of the list, in order, as far as the first
\* component whose removal raises.
\* Fault: the list itself is iterated, and every other component is skipped.
GoneWith_Iterating(e) == {listed[e][i] : i \in {j \in DOMAIN listed[e] : j % 2 = 1}}
GoneWith(e) ==
    {listed[e][i] : i \in {j \in DOMAIN listed[e] : \A k \in 1 .. j : ~Refused(listed[e][k])}}

Destroy(e) ==
    /\ e \in created
    /\ LET gone == GoneWith(e)
           raises == \E c \in Listed(e) : Refused(c)
       IN /\ ShutDown(gone)
          /\ listed' = [listed EXCEPT ![e] =
                            IF raises THEN Without(@, gone) ELSE <<>>]
          /\ created' = IF raises THEN created ELSE created \ {e}
    /\ UNCHANGED <<failed, adopted>>

\* Application.shutdown: event_manager.clear()
ClearEvents ==
    /\ registered # {}
    /\ registered' = {}
    /\ UNCHANGED <<created, listed, served, node, parent, failed, adopted>>

Next ==
    \/ \E e \in Entities :
        \/ Create(e) \/ Destroy(e)
        \/ \E c \in Components : AddComponent(e, c) \/ RemoveComponent(e, c)
    \/ ClearEvents

Spec == Init /\ [][Next]_vars
-----------------------------------------------------------------------------
TypeOK ==
    /\ created \subseteq Entities
    /\ listed \in [Entities -> Seq(Components)]
    /\ served \in [Systems -> SUBSET Components]
    /\ node \subseteq Visible /\ registered \subseteq Controllers
    /\ {c \in Components : Attached(c)} \subseteq node
    /\ parent \in [Components -> Visible \cup {Root, NoParent}]
    /\ failed \subseteq Components /\ adopted \subseteq Visible

\* A listed component is served by each of its systems, once, in one entity,
\* and a visible one has the node the next content may go under
\* (manager.py __register_component, scene.py __init_content reads c.node).
ListedAreServed ==
    /\ \A e \in created : \A c \in Listed(e) :
        /\ \A s \in SystemsOf(c) : c \in served[s]
        /\ c \in Visible => c \in node
    /\ \A e \in created : IsInjective(listed[e])
    /\ \A e, f \in created : e # f => Listed(e) \cap Listed(f) = {}

\* Whatever a system still serves, the scene still shows or the event manager
\* still calls belongs to an entity, or is left from an addition that raised.
NothingLeftBehind ==
    (UNION {served[s] : s \in Systems}) \cup registered \cup {c \in Components : Attached(c)}
        \subseteq AllListed \cup failed

\* The scene stays a tree of attached nodes: a node in the graph has its
\* parent in the graph, however entities are nested and removed.
AttachedToRoot ==
    \A c \in Visible : Attached(c) => parent[c] = Root \/ Attached(parent[c])

\* Unless a parent is given, the nodes of an entity hang under nodes of that
\* entity: destroying it never takes another entity's nodes away.
EntitiesKeepApart ==
    \A e \in created : \A c \in Listed(e) \ adopted :
        parent[c] \in Components => parent[c] \in Listed(e)

\* Systems and entities agree on the components, whatever failed before, and the
\* nodes of the entities are one tree, in which none holds another's.
SystemsAgree ==
    TypeOK /\ ListedAreServed /\ NothingLeftBehind /\ AttachedToRoot /\ EntitiesKeepApart

\* An entity goes with everything its components had, or stays
\* (Manager.__destroy).
DestroyIsComplete ==
    [][\A e \in created \ created' : \A c \in Listed(e) :
        /\ \A s \in Systems : c \notin served'[s]
        /\ c \notin node' \cup registered'
        /\ parent'[c] = NoParent]_vars
=============================================================================
