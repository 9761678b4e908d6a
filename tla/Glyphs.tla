-------------------------------- MODULE Glyphs --------------------------------
(***************************************************************************)
(* cube::gl::font: the glyphs of a font are drawn one after the other into *)
(* a texture, in rows, the first time a text needs them.  A glyph knows    *)
(* its number; the corners of the n-th glyph are the n-th of a list, and   *)
(* the quads of a text are looked up there.                                *)
(*                                                                         *)
(* A character is modelled by the size of its bitmap; advances, bearings   *)
(* and the colour of pixels are left out.                                  *)
(***************************************************************************)
EXTENDS Integers, Sequences, FiniteSets, SequencesExt

CONSTANTS Chars,
          WidthIn, RowsIn,  \* char -> the size of its bitmap (glyph.bitmap)
          TexWidth, TexHeight,
          MaxText,          \* bound: characters of a text
          MayFail,          \* the characters that FreeType may fail to load
          MaxIds,           \* bound: numbers used up by failures
          NoGlyph

ASSUME GlyphsAssumption ==
    /\ TexWidth \in Nat \ {0} /\ TexHeight \in Nat \ {0}
    /\ WidthIn \in [Chars -> Nat] /\ RowsIn \in [Chars -> Nat]
    /\ MayFail \subseteq Chars /\ NoGlyph \notin Chars

Texels == (0..(TexWidth - 1)) \X (0..(TexHeight - 1))

VARIABLES glyphs,     \* _glyphs: [char -> [id, at]], or NoGlyph for a null pointer
          nextId,     \* _next_id
          pen,        \* _pen: <<x, y>>
          lineHeight, \* _max_line_height
          coords,     \* _tex_coords: the corners of each glyph, <<x, y, w, h>>
          texels,     \* _texture: the character drawn at each place
          quads,      \* the last text made: <<char, corners>> for each character
          wish        \* what generate_text still has to look up, or <<>>
glyphVars == <<glyphs, nextId, pen, lineHeight, coords, texels, quads, wish>>

GlyphsInit ==
    /\ glyphs = [c \in {} |-> NoGlyph]
    /\ nextId = 0
    /\ pen = <<0, 0>>
    /\ lineHeight = 0
    /\ coords = <<>>
    /\ texels = [p \in Texels |-> NoGlyph]
    /\ quads = <<>>
    /\ wish = <<>>

HasGlyph(c) == c \in DOMAIN glyphs
With(c, g) == [d \in DOMAIN glyphs \cup {c} |-> IF d = c THEN g ELSE glyphs[d]]

Area(x, y, w, h) == {p \in Texels : p[1] \in x..(x + w - 1) /\ p[2] \in y..(y + h - 1)}

Larger(a, b) == IF a > b THEN a ELSE b
-----------------------------------------------------------------------------
(* GlyphMap::_gen_glyph *)

\* The carriage return: a glyph that does not fit in the row begins the next one.
Returns(c) == pen[1] + WidthIn[c] >= TexWidth

\* Fault: the next row begins at the height of the last glyph only.
PenFor_LastRow(c) == IF Returns(c) THEN <<0, pen[2] + RowsIn[c]>> ELSE pen
PenFor(c) == IF Returns(c) THEN <<0, pen[2] + lineHeight>> ELSE pen

\* Only a carriage return looks at the height that is left.
TooLow(c) == Returns(c) /\ PenFor(c)[2] + RowsIn[c] >= TexHeight

\* Texture::set_data: a glyph without pixels is not drawn, one that is not inside
\* the texture is refused.
IsEmpty(c) == WidthIn[c] = 0 \/ RowsIn[c] = 0
Outside(c) == ~ IsEmpty(c) /\ (PenFor(c)[1] + WidthIn[c] > TexWidth
                               \/ PenFor(c)[2] + RowsIn[c] > TexHeight)

\* generate_text throws: its guard, and what it looked up, are gone.
Throws == wish' = <<>> /\ quads' = <<>>

Generates(c) ==
    /\ glyphs' = With(c, [id |-> nextId])
    /\ nextId' = nextId + 1
    /\ pen' = IF TooLow(c) \/ Outside(c) THEN PenFor(c)
              ELSE <<PenFor(c)[1] + WidthIn[c], PenFor(c)[2]>>
    /\ IF TooLow(c)
       THEN lineHeight' = 0 /\ Throws /\ UNCHANGED <<coords, texels>>
       ELSE /\ lineHeight' = Larger(IF Returns(c) THEN 0 ELSE lineHeight, RowsIn[c])
            /\ coords' = Append(coords, <<PenFor(c)[1], PenFor(c)[2], WidthIn[c], RowsIn[c]>>)
            /\ IF Outside(c) THEN Throws /\ UNCHANGED texels
               ELSE /\ texels' = [p \in Texels |->
                          IF p \in Area(PenFor(c)[1], PenFor(c)[2], WidthIn[c], RowsIn[c])
                          THEN c ELSE texels[p]]
                    /\ UNCHANGED <<quads, wish>>

\* FreeType fails: the number is used up, and whether the map has an entry by then
\* is left open by the language.
GlyphFails(c) ==
    /\ nextId < MaxIds
    /\ nextId' = nextId + 1
    /\ glyphs' \in {glyphs, With(c, NoGlyph)}
    /\ Throws
    /\ UNCHANGED <<pen, lineHeight, coords, texels>>
-----------------------------------------------------------------------------
(* Font::generate_text *)

BeginText(text) ==
    /\ wish = <<>>
    /\ wish' = text
    /\ quads' = <<>>
    /\ UNCHANGED <<glyphs, nextId, pen, lineHeight, coords, texels>>

Missing == {i \in DOMAIN wish : ~ HasGlyph(wish[i])}

\* The first loop: every character that has no glyph gets one.
NextGlyph ==
    \E i \in Missing :
        /\ \A j \in Missing : i <= j
        /\ Generates(wish[i]) \/ (wish[i] \in MayFail /\ GlyphFails(wish[i]))

\* tex_coord: past the end of the list, any memory.
Corners(id) == IF id < Len(coords) THEN coords[id + 1] ELSE <<>>

\* The second loop: the corners of every glyph.  A glyph that failed earlier may be
\* a null pointer: reading it ends the process.
EndText ==
    /\ wish # <<>> /\ Missing = {}
    /\ \A i \in DOMAIN wish : glyphs[wish[i]] # NoGlyph
    /\ quads' = [i \in DOMAIN wish |-> <<wish[i], Corners(glyphs[wish[i]].id)>>]
    /\ wish' = <<>>
    /\ UNCHANGED <<glyphs, nextId, pen, lineHeight, coords, texels>>

GlyphsNext ==
    \/ \E n \in 1..MaxText : \E text \in [1..n -> Chars] : BeginText(text)
    \/ NextGlyph
    \/ EndText

GlyphsSpec == GlyphsInit /\ [][GlyphsNext]_glyphVars
-----------------------------------------------------------------------------
(* Correctness *)

Numbered == {c \in DOMAIN glyphs : glyphs[c] # NoGlyph}

GlyphsTypeOK ==
    /\ DOMAIN glyphs \subseteq Chars
    /\ nextId \in Nat /\ lineHeight \in Nat
    /\ pen \in Nat \X Nat
    /\ wish \in Seq(Chars)

Has(corners, c) ==
    /\ Len(corners) = 4 /\ corners[3] = WidthIn[c] /\ corners[4] = RowsIn[c]
    /\ \A p \in Area(corners[1], corners[2], corners[3], corners[4]) : texels[p] = c

Inside(corners) ==
    /\ Len(corners) = 4
    /\ corners[1] + corners[3] <= TexWidth /\ corners[2] + corners[4] <= TexHeight

\* A glyph that was drawn keeps all its pixels, whatever is drawn later, also after
\* glyphs that were refused.
GlyphsAreWhole ==
    \A c \in DOMAIN glyphs :
        Cardinality({p \in Texels : texels[p] = c}) \in {0, WidthIn[c] * RowsIn[c]}

\* Numbers and corners go together: no glyph was refused between the two.
InStep == Len(coords) = nextId

\* Every quad of a text shows the glyph of its character, as long as no glyph was
\* refused for want of height or by FreeType (Font.cpp:250-315, 378-464).
TextsShowTheirGlyphs ==
    /\ GlyphsTypeOK /\ GlyphsAreWhole
    /\ InStep => \A i \in DOMAIN quads :
          Inside(quads[i][2]) => Has(quads[i][2], quads[i][1])
===============================================================================
