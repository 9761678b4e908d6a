---------------------------- MODULE VertexBuffers ----------------------------
(***************************************************************************)
(* cube::gl::renderer: attributes (the data, in memory), vertex and index  *)
(* buffers (copies of several attributes in one OpenGL buffer), the arrays *)
(* a bound buffer enables, and the two draw calls.                         *)
(*                                                                         *)
(* A byte of a buffer is modelled by the attribute it is of, an attribute  *)
(* by how many elements it has.  In OpenGL 2.1 mode                        *)
(* (CUBE_GL_RENDERER_OPENGL21) texture coordinates go through the active   *)
(* texture unit of the client; otherwise every kind has an array of its    *)
(* own.                                                                    *)
(***************************************************************************)
EXTENDS Integers, Sequences, FiniteSets, SequencesExt

CONSTANTS Attributes,
          KindOf,       \* attribute -> ContentKind
          WidthOf,      \* attribute -> sizeof(T)
          Buffers,
          Lists,        \* the attribute lists that buffers are made of
          MaxElements,  \* bound: elements of an attribute
          MaxHolds,     \* bound: guards alive at once
          NoBuffer

TexCoords == {"tex0", "tex1"}
Kinds == {"vertex", "index"} \cup TexCoords
Word == 8         \* 2^w for etc::size_type
Rest == Word - 1  \* count == -1: draw all the rest

ASSUME AttributesAssumption ==
    /\ KindOf \in [Attributes -> Kinds] /\ WidthOf \in [Attributes -> 1..2]
    /\ Lists \subseteq Seq(Attributes)
    /\ MaxElements \in 2..(Rest - 1)
    /\ NoBuffer \notin [buffer : Buffers, at : Nat] /\ NoBuffer \notin Attributes

VARIABLES gl21,   \* old_behavior
          attr,   \* attr[a]: nb_elements
          vbo,    \* vbo[b]: [list, made, bytes, spoiled (history: a reload overran)];
                  \* a buffer that does not exist has no attributes
          arrays, \* arrays[k]: the region the array reads [buffer, at], or NoBuffer
          active, \* glClientActiveTexture
          holds   \* the buffers guarded by clients, innermost last
bufferVars == <<gl21, attr, vbo, arrays, active, holds>>

NoAttributes == [list |-> <<>>, made |-> <<>>, bytes |-> <<>>, spoiled |-> FALSE]
Exists(b) == vbo[b].list # <<>>

BuffersInit ==
    /\ gl21 \in BOOLEAN
    /\ attr = [a \in Attributes |-> 2]
    /\ vbo = [b \in Buffers |-> NoAttributes]
    /\ arrays = [k \in Kinds |-> NoBuffer]
    /\ active = "tex0"
    /\ holds = <<>>
-----------------------------------------------------------------------------
(* Making, filling and reloading *)

Size(a) == attr[a] * WidthOf[a]   \* buffer_size

IsIndex(list) == \E i \in DOMAIN list : KindOf[list[i]] = "index"

\* Where the i-th of these attributes begins: the sizes before it.
\* Fault: the offset counts elements and not bytes.
Offsets_Elements(made) ==
    LET at[i \in 1..(Len(made) + 1)] == IF i = 1 THEN 0 ELSE at[i - 1] + made[i - 1].nb IN at
Offsets(made) ==
    LET at[i \in 1..(Len(made) + 1)] == IF i = 1 THEN 0 ELSE at[i - 1] + made[i - 1].size IN at
Offset(made, i) == Offsets(made)[i]

\* glBufferSubData of attribute a at an offset.
Filled(bytes, a, offset) ==
    [n \in DOMAIN bytes |->
        IF n \in offset..(offset + Size(a) - 1) THEN a ELSE bytes[n]]

\* The bytes after the first i of a list of attributes were put in.
FilledUpTo(list, made) ==
    LET none == [n \in 0..(Offset(made, Len(list) + 1) - 1) |-> NoBuffer]
        bytes[i \in 0..Len(list)] ==
            IF i = 0 THEN none ELSE Filled(bytes[i - 1], list[i], Offset(made, i))
    IN bytes

MadeOf(list) == [i \in DOMAIN list |-> [nb |-> attr[list[i]], size |-> Size(list[i])]]

\* _VertexBuffer: one VBO with room for all, then a sub VBO for each attribute;
\* an empty list and indices among vertices (or the reverse) are refused.
New(b, list) ==
    /\ ~ Exists(b)
    /\ list # <<>>
    /\ IsIndex(list) => Len(list) = 1
    /\ vbo' = [vbo EXCEPT ![b] =
                  [list |-> list, made |-> MadeOf(list),
                   bytes |-> FilledUpTo(list, MadeOf(list))[Len(list)], spoiled |-> FALSE]]
    /\ UNCHANGED <<gl21, attr, arrays, active, holds>>

\* VertexBuffer::reload: the region keeps its offset, whatever the size is now;
\* OpenGL refuses what would not fit.
Reload(b, i) ==
    /\ i \in DOMAIN vbo[b].list
    /\ Offset(vbo[b].made, i) + Size(vbo[b].list[i]) <= Cardinality(DOMAIN vbo[b].bytes)
    /\ vbo' = [vbo EXCEPT ![b].bytes = Filled(@, vbo[b].list[i], Offset(vbo[b].made, i)),
                          ![b].spoiled = @ \/ Size(vbo[b].list[i]) > vbo[b].made[i].size]
    /\ UNCHANGED <<gl21, attr, arrays, active, holds>>

\* reset_buffer with any number of elements; set() changes only their values.
ResetBuffer(a, nb) ==
    /\ attr' = [attr EXCEPT ![a] = nb]
    /\ UNCHANGED <<gl21, vbo, arrays, active, holds>>

\* The last reference goes away.
Delete(b) ==
    /\ Exists(b) /\ b \notin ToSet(holds)
    /\ vbo' = [vbo EXCEPT ![b] = NoAttributes]
    /\ UNCHANGED <<gl21, attr, arrays, active, holds>>
-----------------------------------------------------------------------------
(* Binding.  A context is [arrays, active]. *)

KindsOf(b) == [i \in DOMAIN vbo[b].list |-> KindOf[vbo[b].list[i]]]

Enabled(c, b, i) ==
    LET k == KindsOf(b)[i]
        on == [c EXCEPT !.arrays[k] = [buffer |-> b, at |-> i]]
    IN CASE gl21 /\ k = "index"      -> c
         [] gl21 /\ k \in TexCoords  -> [on EXCEPT !.active = k]
         [] OTHER                    -> on

\* In OpenGL 2.1 mode only tex_coord0 selects its unit before it is disabled.
Disabled(c, k) ==
    IF ~ gl21 THEN [c EXCEPT !.arrays[k] = NoBuffer]
    ELSE IF k = "index" THEN c
    ELSE LET d == IF k = "tex0" THEN [c EXCEPT !.active = "tex0"] ELSE c
         IN [d EXCEPT !.arrays[IF k \in TexCoords THEN d.active ELSE k] = NoBuffer]

Context == [arrays |-> arrays, active |-> active]

\* The context after the first i attributes of a buffer.
EnabledUpTo(b) ==
    LET on[i \in 0..Len(vbo[b].list)] == IF i = 0 THEN Context ELSE Enabled(on[i - 1], b, i) IN on
AllEnabled(b) == EnabledUpTo(b)[Len(vbo[b].list)]

DisabledUpTo(c, b) ==
    LET off[i \in 0..Len(vbo[b].list)] ==
            IF i = 0 THEN c ELSE Disabled(off[i - 1], KindsOf(b)[i])
    IN off
AllDisabled(c, b) == DisabledUpTo(c, b)[Len(vbo[b].list)]

Rebinds(c) == arrays' = c.arrays /\ active' = c.active

Held(b) == b \in ToSet(holds)

\* Clients never nest buffers that share a kind, and leave index buffers to
\* draw_elements.
Apart(b) ==
    \A o \in ToSet(holds) \ {b} : ToSet(KindsOf(o)) \cap ToSet(KindsOf(b)) = {}

\* A client guards a buffer (Painter::with).
HoldBuffer(b) ==
    /\ Exists(b) /\ ~ IsIndex(vbo[b].list)
    /\ Len(holds) < MaxHolds /\ Apart(b)
    /\ holds' = Append(holds, b)
    /\ Rebinds(IF Held(b) THEN Context ELSE AllEnabled(b))
    /\ UNCHANGED <<gl21, attr, vbo>>

ReleaseBuffer ==
    /\ holds # <<>>
    /\ holds' = Front(holds)
    /\ Rebinds(IF Last(holds) \in ToSet(Front(holds)) THEN Context
               ELSE AllDisabled(Context, Last(holds)))
    /\ UNCHANGED <<gl21, attr, vbo>>
-----------------------------------------------------------------------------
(* Drawing.  The guard made by the call lasts as long as the call. *)

InRange(start, count, nb) == count <= (nb - start) % Word

Drawn(nb, start, count) == IF count = Rest THEN (nb - start) % Word ELSE count

\* draw_arrays: the first vertex attribute bounds the draw; a start at or past its
\* end is refused.
FirstVertices(b) == {i \in DOMAIN KindsOf(b) :
    KindsOf(b)[i] = "vertex" /\ \A j \in 1..(i - 1) : KindsOf(b)[j] # "vertex"}
ArraysAccept(b, start, count) ==
    \E i \in FirstVertices(b) :
        LET nb == attr[vbo[b].list[i]]
        IN start < nb /\ (count = Rest \/ InRange(start, count, nb))

\* draw_elements: any buffer with a single attribute; the start is not checked.
ElementsAccept(b, start, count) ==
    Len(vbo[b].list) = 1 /\ (count = Rest \/ InRange(start, count, attr[vbo[b].list[1]]))

\* What the arrays are during the call.
ForTheCall(b) == IF Held(b) THEN Context ELSE AllEnabled(b)

Draw(b, start, count) ==
    /\ Exists(b) /\ Apart(b)
    /\ ArraysAccept(b, start, count) \/ ElementsAccept(b, start, count)
    /\ Rebinds(IF Held(b) THEN Context ELSE AllDisabled(ForTheCall(b), b))
    /\ UNCHANGED <<gl21, attr, vbo, holds>>

Starts == 0..MaxElements
Counts == {2, Rest}

BuffersNext ==
    \/ \E b \in Buffers, list \in Lists : New(b, list)
    \/ \E b \in Buffers, i \in 1..3 : Reload(b, i)
    \/ \E a \in Attributes, nb \in 1..MaxElements : ResetBuffer(a, nb)
    \/ \E b \in Buffers : Delete(b) \/ HoldBuffer(b)
    \/ ReleaseBuffer
    \/ \E b \in Buffers, start \in Starts, count \in Counts : Draw(b, start, count)

BuffersSpec == BuffersInit /\ [][BuffersNext]_bufferVars
-----------------------------------------------------------------------------
(* Correctness *)

BuffersTypeOK ==
    /\ gl21 \in BOOLEAN
    /\ attr \in [Attributes -> 1..MaxElements]
    /\ \A b \in Buffers : Exists(b) =>
          vbo[b].list \in Lists /\ DOMAIN vbo[b].made = DOMAIN vbo[b].list
    /\ DOMAIN arrays = Kinds /\ active \in TexCoords
    /\ holds \in Seq(Buffers)

\* The attributes of a buffer that have another length than when it was made.
Resized(b) == {i \in DOMAIN vbo[b].list : attr[vbo[b].list[i]] # vbo[b].made[i].nb}

Region(b, i) == Offset(vbo[b].made, i)..(Offset(vbo[b].made, i) + vbo[b].made[i].size - 1)

\* A region holds its own attribute's bytes: filling one never spoils another, until
\* an attribute is loaded again with more elements than the buffer was made for.
RegionsAreApart ==
    \A b \in Buffers : ~ vbo[b].spoiled =>
        \A i \in DOMAIN vbo[b].list :
            /\ Region(b, i) \subseteq DOMAIN vbo[b].bytes
            /\ \A n \in Region(b, i) : vbo[b].bytes[n] = vbo[b].list[i]

\* The arrays that are enabled are those of the buffers that are bound, each at
\* its own region.  In OpenGL 2.1 mode this says nothing of texture coordinates:
\* past tex_coord0 the code disables them on the wrong unit.
ArraysAreBound ==
    \A k \in IF gl21 THEN Kinds \ (TexCoords \cup {"index"}) ELSE Kinds :
        \/ arrays[k] = NoBuffer /\ \A b \in ToSet(holds) : k \notin ToSet(KindsOf(b))
        \/ /\ arrays[k] # NoBuffer
           /\ Held(arrays[k].buffer)
           /\ KindsOf(arrays[k].buffer)[arrays[k].at] = k

\* A draw that is not refused stays inside every region of its buffer, if its
\* attributes have one length, the length they were loaded with, and the start is
\* among them; and its vertices are read from that buffer.
OneLength(b) == Resized(b) = {} /\ \A i \in DOMAIN vbo[b].made : vbo[b].made[i].nb = vbo[b].made[1].nb
DrawsAreInside ==
    \A b \in Buffers : Exists(b) /\ Apart(b) /\ OneLength(b) =>
        \A start \in Starts, count \in Counts :
            LET n == vbo[b].made[1].nb IN
            /\ start <= n /\ (ArraysAccept(b, start, count) \/ ElementsAccept(b, start, count))
                  => start + Drawn(n, start, count) <= n
            /\ ArraysAccept(b, start, count) =>
                  \E i \in DOMAIN KindsOf(b) :
                      /\ KindsOf(b)[i] = "vertex"
                      /\ ForTheCall(b).arrays["vertex"] = [buffer |-> b, at |-> i]

\* What is drawn is what was loaded: regions do not overlap, enabled arrays point
\* into the buffers that are bound, and draws stay inside (VertexBuffer.cpp:18-62,
\* _VBO.cpp:11-112, Painter.cpp:73-143).
DrawsReadTheirData == BuffersTypeOK /\ RegionsAreApart /\ ArraysAreBound /\ DrawsAreInside
=============================================================================
