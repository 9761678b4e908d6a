------------------------------ MODULE GuiWindow ------------------------------
(***************************************************************************)
(* cube::gui: a window over a context of libRocket, the documents in it    *)
(* and what clients hold of them, the geometries that libRocket compiles   *)
(* through RocketRenderInterface and how a frame draws them, and the mode  *)
(* in which SDL turns keys into text.                                      *)
(*                                                                         *)
(* libRocket is external: its elements live by their references, each      *)
(* document is drawn as one geometry, compiled when it is first drawn, and *)
(* the loss of the focus is told whatever ends it.                         *)
(***************************************************************************)
EXTENDS Integers, Sequences, FiniteSets, SequencesExt

CONSTANTS Docs,
          FieldOf,     \* a document that is loaded -> its input element
          TextNodes,   \* bound: text nodes ever made
          Position,    \* document -> where it is drawn
          MaxImpls,    \* bound: handles alive for one element
          MaxTextures, \* bound: textures ever generated
          NoElement

Fields == {FieldOf[d] : d \in DOMAIN FieldOf}
Elements == Docs \cup Fields \cup TextNodes

ASSUME DocsAssumption ==
    /\ DOMAIN FieldOf \subseteq Docs
    /\ \A c, d \in DOMAIN FieldOf : FieldOf[c] = FieldOf[d] => c = d
    /\ Docs \cap Fields = {} /\ (Docs \cup Fields) \cap TextNodes = {}
    /\ NoElement \notin Elements
    /\ Position \in [Docs -> Nat \ {0}]

VARIABLES opened,     \* Window::Impl is alive
          refs,       \* references of an element, 0 when it is not there
          kids,       \* its children
          loaded,     \* documents of rocket_context
          impls,      \* Document::Impl and Element::Impl of an element
          textures,   \* how many there are in textures, by handles 1, 2...
          geometries, \* handle -> [doc, texture]
          owned,      \* libRocket: the handle of a document's geometry, or 0
          newSize, viewport,
          pushed,     \* the painter's states [size, at]; empty between frames
          todo,       \* libRocket: documents left to draw in Context::Render
          failed,     \* an exception leaves the frame
          seen,       \* the last geometry drawn, and how
          focus,      \* libRocket: the element that has it
          typing      \* SDL: text input mode

treeVars == <<refs, kids, loaded, impls, owned, geometries, focus, typing>>
frameVars == <<pushed, todo, failed, seen, newSize, viewport>>
guiVars == <<opened, treeVars, textures, frameVars>>

NoneSeen == [doc |-> NoElement, of |-> NoElement, at |-> 0, size |-> 0, textured |-> FALSE]

GuiInit ==
    /\ opened = TRUE
    /\ refs = [n \in Elements |-> 0] /\ kids = [n \in Elements |-> <<>>]
    /\ loaded = {} /\ impls = [n \in Elements |-> 0]
    /\ textures = 0 /\ geometries = <<>> /\ owned = [d \in Docs |-> 0]
    /\ newSize = 0 /\ viewport = 1
    /\ pushed = <<>> /\ todo = {} /\ failed = FALSE /\ seen = NoneSeen
    /\ focus = NoElement /\ typing = FALSE
-----------------------------------------------------------------------------
(* References *)

\* The elements ns lose a reference each.
Dropped(r, ns) == [n \in Elements |-> IF n \in ns THEN r[n] - 1 ELSE r[n]]

\* The children of those of ns that have no reference left.
Orphans(r, ns) == UNION {ToSet(kids[n]) : n \in {m \in ns : r[m] = 0}}

\* An element without references goes, and lets go of its children; a tree is a
\* document, its field and the text in it.
Released(r, ns) ==
    LET first == Dropped(r, ns)
        below == Orphans(first, ns)
        second == Dropped(first, below)
    IN Dropped(second, Orphans(second, below))

\* ReleaseCompiledGeometry for documents that are gone: erase(handle).
GeometriesOf(ds) == {h \in DOMAIN geometries : \E d \in ds : owned[d] = h}
Without(ds) == [h \in DOMAIN geometries \ GeometriesOf(ds) |-> geometries[h]]

\* The state of the tree when the references are r and the context has docs.
TreeBecomes(r, children, docs, i) ==
    LET gone == {d \in Docs : r[d] = 0}
        lost == \/ \E n \in Elements : focus = n /\ (r[n] = 0 \/ n \in loaded \ docs)
                \/ \E d \in loaded \ docs : <<focus>> = kids[d]
    IN /\ refs' = r /\ impls' = i /\ loaded' = docs
       /\ kids' = [n \in Elements |-> IF r[n] = 0 THEN <<>> ELSE children[n]]
       /\ geometries' = Without(gone)
       /\ owned' = [d \in Docs |-> IF d \in gone THEN 0 ELSE owned[d]]
       /\ focus' = (IF lost THEN NoElement ELSE focus)
       /\ typing' = (typing /\ ~ (lost /\ focus \in Fields))

Idle == opened /\ pushed = <<>>

\* load_document and create_document (which is empty): libRocket returns the
\* document with a reference for the caller and one for the context; Impl takes
\* one more and the caller's goes when the function ends.
Load(d) ==
    /\ Idle /\ refs[d] = 0
    /\ LET field == IF d \in DOMAIN FieldOf THEN <<FieldOf[d]>> ELSE <<>>
           returned == [n \in Elements |-> IF n = d THEN 2 ELSE IF <<n>> = field THEN 1 ELSE refs[n]]
           kept == [returned EXCEPT ![d] = @ + 1]
       IN /\ \A n \in ToSet(field) : refs[n] = 0
          /\ TreeBecomes([kept EXCEPT ![d] = @ - 1], [kids EXCEPT ![d] = field],
                     loaded \cup {d}, [impls EXCEPT ![d] = 1])
    /\ UNCHANGED <<opened, textures, frameVars>>

\* A handle is made of an element: AddReference.
Handles(ns) ==
    /\ ns # {} /\ \A n \in ns : impls[n] < MaxImpls
    /\ TreeBecomes([n \in Elements |-> IF n \in ns THEN refs[n] + 1 ELSE refs[n]], kids, loaded,
               [n \in Elements |-> IF n \in ns THEN impls[n] + 1 ELSE impls[n]])
    /\ UNCHANGED <<opened, textures, frameVars>>

Documents == Idle /\ Handles(loaded)

\* by_id (of the field of a document) and first_child.
FirstChild(n) == impls[n] > 0 /\ kids[n] # <<>> /\ pushed = <<>> /\ Handles({kids[n][1]})

\* ~Impl: RemoveReference.
Forget(n) ==
    /\ impls[n] > 0 /\ pushed = <<>>
    /\ TreeBecomes(Released(refs, {n}), kids, loaded, [impls EXCEPT ![n] = @ - 1])
    /\ UNCHANGED <<opened, textures, frameVars>>

\* remove_document and remove_all_documents: the context forgets them.
Unload(docs) ==
    /\ Idle /\ docs # {} /\ docs \subseteq loaded
    /\ docs = loaded \/ \E d \in docs : docs = {d} /\ impls[d] > 0
    /\ TreeBecomes(Released(refs, docs), kids, loaded \ docs, impls)
    /\ UNCHANGED <<opened, textures, frameVars>>

RemoveChildren(n) ==
    /\ impls[n] > 0 /\ kids[n] # <<>> /\ n \in Fields /\ pushed = <<>>
    /\ TreeBecomes(Released(refs, ToSet(kids[n])), [kids EXCEPT ![n] = <<>>], loaded, impls)
    /\ UNCHANGED <<opened, textures, frameVars>>

\* Element::text: the document creates a node (with a reference, which nobody
\* drops), the children go, the node is appended.
SetText(n) ==
    /\ impls[n] > 0 /\ n \in Fields /\ pushed = <<>>
    /\ \E d \in Docs : refs[d] > 0 /\ kids[d] = <<n>>
    /\ \E x \in TextNodes : refs[x] = 0
    /\ LET x == CHOOSE y \in TextNodes : refs[y] = 0
           created == [refs EXCEPT ![x] = 1]
           empty == Released(created, ToSet(kids[n]))
       IN TreeBecomes([empty EXCEPT ![x] = @ + 1], [kids EXCEPT ![n] = <<x>>], loaded, impls)
    /\ UNCHANGED <<opened, textures, frameVars>>

\* ~Window: the connections end, then the context goes with what it drew.
Close ==
    /\ Idle /\ opened' = FALSE
    /\ LET r == Released(refs, loaded)
       IN /\ refs' = r /\ kids' = [n \in Elements |-> IF r[n] = 0 THEN <<>> ELSE kids[n]]
    /\ loaded' = {} /\ geometries' = <<>> /\ owned' = [d \in Docs |-> 0]
    /\ focus' = NoElement /\ typing' = (typing /\ focus \notin Fields)
    /\ UNCHANGED <<impls, textures, frameVars>>
-----------------------------------------------------------------------------
(* Inputs *)

\* on_resize, on_expose: the size (1 or 2) waits for the next render.
Resized ==
    /\ opened /\ pushed = <<>> /\ newSize' = 3 - viewport
    /\ UNCHANGED <<opened, treeVars, textures, pushed, todo, failed, seen, viewport>>

\* ProcessEvent: what the mode becomes when an element is told "focus" or "blur".
ModeAfter(mode, type, n) == IF n \in Fields THEN type = "focus" ELSE mode

\* The focus goes from one element to another: blur, then focus.
Focus(n) ==
    /\ Idle /\ n # focus
    /\ \E d \in loaded : n = d \/ kids[d] = <<n>>
    /\ focus' = n
    /\ typing' = ModeAfter(ModeAfter(typing, "blur", focus), "focus", n)
    /\ UNCHANGED <<opened, refs, kids, loaded, impls, owned, geometries, textures, frameVars>>
-----------------------------------------------------------------------------
(* Rendering *)

GenerateTexture ==
    /\ opened /\ textures < MaxTextures /\ textures' = textures + 1
    /\ UNCHANGED <<opened, treeVars, frameVars>>

\* Fault: the handle is not looked for.
FreshHandle_Size(used) == Cardinality(used) + 1

\* CompileGeometry: the size plus one, or the next handle that is free.
FreshHandle(used) ==
    CHOOSE h \in (Cardinality(used) + 1)..(2 * Cardinality(used) + 1) :
        h \notin used /\ \A g \in (Cardinality(used) + 1)..(h - 1) : g \in used

\* Application.render begins a painter in the mode 2d.
BeginFrame ==
    /\ opened /\ pushed = <<>> /\ pushed' = <<[size |-> 0, at |-> 0]>>
    /\ UNCHANGED <<opened, treeVars, textures, todo, failed, seen, newSize, viewport>>

\* Window::render: the new size becomes the viewport's, a state is pushed with
\* an orthographic projection of that size, and the context renders.
Render ==
    /\ Len(pushed) = 1 /\ ~ failed
    /\ viewport' = (IF newSize # 0 THEN newSize ELSE viewport) /\ newSize' = 0
    /\ pushed' = Append(pushed, [Last(pushed) EXCEPT !.size = viewport'])
    /\ todo' = loaded
    /\ UNCHANGED <<opened, treeVars, textures, failed, seen>>

\* CompileGeometry: 0 is no texture.
Compile(d, texture) ==
    LET h == FreshHandle(DOMAIN geometries)
    IN /\ geometries' = [i \in DOMAIN geometries \cup {h} |->
                            IF i = h THEN [doc |-> d, texture |-> texture] ELSE geometries[i]]
       /\ owned' = [owned EXCEPT ![d] = h]

\* RenderCompiledGeometry: a state is pushed, moved, read and popped.
Moved(d) == [Last(pushed) EXCEPT !.at = @ + Position[d]]

DrawDoc(d) ==
    /\ d \in todo /\ todo' = todo \ {d}
    /\ IF owned[d] = 0 THEN \E t \in 0..textures : Compile(d, t)
       ELSE UNCHANGED <<geometries, owned>>
    /\ LET g == geometries'[owned'[d]] IN
       seen' = [doc |-> d, of |-> g.doc, at |-> Moved(d).at, size |-> Moved(d).size,
                textured |-> g.texture # 0]
    /\ UNCHANGED <<opened, refs, kids, loaded, impls, focus, typing, textures,
                   pushed, failed, newSize, viewport>>

\* A bind or a draw throws: the state that was pushed stays.
DrawFails(d) ==
    /\ d \in todo /\ owned[d] # 0
    /\ pushed' = Append(pushed, Moved(d)) /\ todo' = {} /\ failed' = TRUE
    /\ UNCHANGED <<opened, treeVars, textures, seen, newSize, viewport>>

\* The painter ends and pops every state pushed since it began.
EndFrame ==
    /\ pushed # <<>> /\ todo = {} /\ pushed' = <<>> /\ failed' = FALSE
    /\ seen' = NoneSeen
    /\ UNCHANGED <<opened, treeVars, textures, todo, newSize, viewport>>

GuiNext ==
    \/ \E d \in Docs : Load(d) \/ DrawDoc(d) \/ DrawFails(d)
    \/ Documents
    \/ \E n \in Elements : Forget(n) \/ RemoveChildren(n) \/ FirstChild(n) \/ Focus(n)
    \/ \E docs \in SUBSET Docs : Unload(docs)
    \/ \E n \in Fields : SetText(n)
    \/ Resized
    \/ Close \/ GenerateTexture
    \/ BeginFrame \/ Render \/ EndFrame

GuiSpec == GuiInit /\ [][GuiNext]_guiVars
-----------------------------------------------------------------------------
(* Correctness *)

GuiTypeOK ==
    /\ {opened, failed, typing} \subseteq BOOLEAN
    /\ refs \in [Elements -> Nat] /\ impls \in [Elements -> Nat]
    /\ kids \in [Elements -> Seq(Elements)]
    /\ loaded \subseteq Docs /\ focus \in Elements \cup {NoElement}
    /\ textures \in Nat /\ owned \in [Docs -> Nat]
    /\ DOMAIN geometries \subseteq Nat \ {0} /\ IsFiniteSet(DOMAIN geometries)
    /\ \A h \in DOMAIN geometries : geometries[h] \in [doc : Docs, texture : Nat]
    /\ newSize \in 0..2 /\ viewport \in 1..2
    /\ pushed \in Seq([size : 0..2, at : Nat]) /\ todo \subseteq Docs
    /\ seen \in [doc : Docs, of : Docs, at : Nat, size : 0..2, textured : BOOLEAN] \cup {NoneSeen}

\* Whoever is in a tree, in the context or in a client's hands is there, and
\* whoever is not goes; text nodes may stay (Element.cpp:43-50).
HeldInTree(n) == \E p \in Elements : refs[p] > 0 /\ n \in ToSet(kids[p])
ElementsAreHeld ==
    \A n \in Elements :
        LET held == n \in loaded \/ impls[n] > 0 \/ HeldInTree(n)
        IN /\ held => refs[n] > 0
           /\ refs[n] > 0 => held \/ n \in TextNodes

\* A handle that libRocket has is of the geometry it was given for, whatever was
\* compiled and released since (RocketRenderInterface.cpp:258-260).
HandlesAreTheirs ==
    \A d \in Docs : owned[d] # 0 =>
        owned[d] \in DOMAIN geometries /\ geometries[owned[d]].doc = d

\* A geometry is drawn where it is, through the size the window has in this
\* frame, whatever was drawn or thrown before it (Window.cpp:53-78,
\* RocketRenderInterface.cpp:273-297).
DrawsAreTheirOwn ==
    seen # NoneSeen =>
        seen.of = seen.doc /\ seen.at = Position[seen.doc] /\ seen.size = viewport

\* SDL makes text of keys just while a field has the focus (WindowImpl.cpp:161).
TypingFollowsFocus == typing <=> focus \in Fields

\* What the gui shows, holds and listens to.
GuiIsFaithful ==
    GuiTypeOK /\ ElementsAreHeld /\ HandlesAreTheirs /\ DrawsAreTheirOwn /\ TypingFollowsFocus
=============================================================================
