------------------------------- MODULE Textures -------------------------------
(***************************************************************************)
(* The way of a picture: an image that SDL loaded, or bytes of the caller, *)
(* make a surface; a surface makes a texture; parts of the texture are     *)
(* overwritten later.  On every step something else says how the bytes of  *)
(* a pixel are ordered: SDL, PixelFormat, OpenGL.                          *)
(*                                                                         *)
(* A pixel is the order of its components in memory, on a little endian    *)
(* machine; a texture is a row of places.                                  *)
(***************************************************************************)
EXTENDS Integers, Sequences, FiniteSets, SequencesExt

CONSTANTS Columns,    \* width of the texture
          NoPicture

ASSUME TexturesAssumption == Columns \in Nat \ {0}

VARIABLES surface, \* [sdl, pf, bytes: the orders its pixels have, owned], or NoPicture
          texture, \* [made, shown, mips, filter], or NoPicture
          dataHeld \* the memory of the caller that the surface only points to is still there
pictureVars == <<surface, texture, dataHeld>>

PicturesInit == surface = NoPicture /\ texture = NoPicture /\ dataHeld = TRUE
-----------------------------------------------------------------------------
(* What SDL says *)

RGB == <<"r", "g", "b">>
BGR == <<"b", "g", "r">>
RGBA == <<"r", "g", "b", "a">>
BGRA == <<"b", "g", "r", "a">>

\* The memory of a pixel in each format of SDL that a loaded image may have.
SDLBytes ==
    [RGB24 |-> RGB, BGR24 |-> BGR,
     ARGB8888 |-> BGRA, ABGR8888 |-> RGBA, RGBA8888 |-> <<"a">> \o BGR, BGRA8888 |-> <<"a">> \o RGB,
     RGB888 |-> BGR \o <<"x">>, BGR888 |-> RGB \o <<"x">>, RGBX8888 |-> <<"x">> \o BGR,
     ARGB4444 |-> <<"gb", "ar">>, INDEX8 |-> <<"i">>]

\* Surface::Impl: the PixelFormat of a surface; SDL_PIXELFORMAT_INDEX8 has none.
PixelFormatOf(sdl) ==
    CASE sdl \in {"RGB24", "RGB888", "RGBX8888"} -> "rgb8"
      [] sdl \in {"BGR24", "BGR888"}             -> "bgr8"
      [] sdl = "ARGB8888" -> "argb8"
      [] sdl = "ABGR8888" -> "abgr8"
      [] sdl = "RGBA8888" -> "rgba8"
      [] sdl = "BGRA8888" -> "bgra8"
      [] sdl = "ARGB4444" -> "argb4"
      [] OTHER            -> "none"

\* pixel_mask: the components from the highest byte of a pixel to the lowest, for the
\* formats of eight bits; a format with fewer or more bits is refused.
Mask(pf) ==
    CASE pf \in {"red", "r8"}     -> <<"r">>
      [] pf \in {"rg", "rg8"}     -> <<"r", "g">>
      [] pf \in {"rgb", "rgb8"}   -> RGB
      [] pf = "bgr8"              -> BGR
      [] pf \in {"rgba", "rgba8"} -> RGBA
      [] pf = "argb8"             -> <<"a">> \o RGB
      [] pf = "abgr8"             -> <<"a">> \o BGR
      [] pf = "bgra8"             -> BGRA
      [] OTHER                    -> <<>>

\* pixel_depth, in bytes; 0 is a throw: it knows fewer formats than pixel_mask.
Depth(pf) ==
    CASE pf \in {"red", "r8"}     -> 1
      [] pf \in {"rg", "rg8"}     -> 2
      [] pf \in {"rgb", "rgb8"}   -> 3
      [] pf \in {"rgba", "rgba8"} -> 4
      [] OTHER                    -> 0

\* SDL_MasksToPixelFormatEnum: four bytes are known; for masks of 0xff000000 and down
\* in fewer bytes, SDL refuses ("none") or takes its default, by version.
SDLFormatsFor(pf) ==
    IF Mask(pf) = <<>> THEN {"none"}
    ELSE CASE Depth(pf) = 4 -> {"RGBA8888"}
           [] Depth(pf) = 3 -> {"none", "RGB24", "BGR24"}
           [] OTHER         -> {"none"}

Supported(sdl) == PixelFormatOf(sdl) # "none"
-----------------------------------------------------------------------------
(* Surfaces *)

\* Surface(path).  IMG_Load may fail: then nothing changes.
Load(sdl) ==
    /\ Supported(sdl)
    /\ surface' = [sdl |-> sdl, pf |-> PixelFormatOf(sdl), bytes |-> {SDLBytes[sdl]}, owned |-> TRUE]
    /\ dataHeld' = TRUE /\ UNCHANGED texture

\* Surface(format, width, height): black pixels, nothing to show yet.
Blank(pf, sdl) ==
    /\ sdl \in SDLFormatsFor(pf) /\ Supported(sdl)
    /\ surface' = [sdl |-> sdl, pf |-> PixelFormatOf(sdl), bytes |-> {}, owned |-> TRUE]
    /\ dataHeld' = TRUE /\ UNCHANGED texture

\* Surface(format, ..., data): the caller's bytes, in the order of the format's name,
\* are not copied.
FromData(pf, sdl) ==
    /\ sdl \in SDLFormatsFor(pf) /\ Supported(sdl)
    /\ surface' = [sdl |-> sdl, pf |-> PixelFormatOf(sdl), bytes |-> {Mask(pf)}, owned |-> FALSE]
    /\ dataHeld' = TRUE /\ UNCHANGED texture

\* SDL_FillRect writes what SDL thinks a pixel is.
FillRect ==
    /\ surface # NoPicture /\ dataHeld
    /\ surface' = [surface EXCEPT !.bytes = @ \cup {SDLBytes[surface.sdl]}]
    /\ UNCHANGED <<texture, dataHeld>>

\* The caller gives back the memory that the surface points to.
FreeData ==
    /\ surface # NoPicture /\ ~ surface.owned /\ dataHeld
    /\ dataHeld' = FALSE
    /\ UNCHANGED <<surface, texture>>
-----------------------------------------------------------------------------
(* Textures *)

\* The constructor's format and type: how OpenGL is told to read the bytes.
\* Fault: the order in the register and not in the memory.
ReadAs_Register(pf) ==
    CASE pf \in {"rgba", "rgba8"} -> RGBA
      [] pf = "argb8"             -> <<"a">> \o RGB
      [] pf = "abgr8"             -> <<"a">> \o BGR
      [] pf = "bgra8"             -> BGRA
      [] pf = "bgr8"              -> BGR
      [] pf \in {"rgb", "rgb8"}   -> RGB
      [] OTHER                    -> <<>>
ReadAs(pf) ==
    CASE pf \in {"rgba", "rgba8", "abgr8"} -> RGBA
      [] pf \in {"bgra8", "argb8"}         -> BGRA
      [] pf = "bgr8"                       -> BGR
      [] pf \in {"rgb", "rgb8"}            -> RGB
      [] OTHER                             -> <<>>

Takes(sdl) == Len(SDLBytes[sdl]) \in {3, 4}   \* bytes_per_pixel

\* What is read as r, g and b when these bytes are read as that.
Sampled(bytes, as) ==
    [c \in {"r", "g", "b"} |->
        LET i == CHOOSE n \in DOMAIN as : as[n] = c
        IN IF i \in DOMAIN bytes THEN bytes[i] ELSE "x"]

MakeTexture ==
    /\ surface # NoPicture /\ dataHeld
    /\ Takes(surface.sdl) /\ ReadAs(surface.pf) # <<>>
    /\ texture' = [made |-> surface,
                   shown |-> [x \in 1..Columns |->
                                {Sampled(b, ReadAs(surface.pf)) : b \in surface.bytes}],
                   mips |-> FALSE, filter |-> "nearest"]
    /\ UNCHANGED <<surface, dataHeld>>

DropTexture == texture # NoPicture /\ texture' = NoPicture /\ UNCHANGED <<surface, dataHeld>>

\* The enumeration, and the constants that OpenGL is given for it, as far as the
\* formats of eight bits go: bgr5, bgr8, argb4 ... have no constant, so those that
\* come after them have another's.
PixelFormats ==
    <<"depth_component", "depth_stencil", "red", "rg", "rgb", "rgba", "r8", "r8_snorm", "r16",
      "r16_snorm", "rg8", "rg8_snorm", "rg16", "rg16_snorm", "r3_g3_b2", "rgb4", "rgb5", "bgr5",
      "rgb8", "rgb8_snorm", "bgr8", "rgb10", "rgb12", "rgb16_snorm", "rgba2", "argb4", "rgba4",
      "abgr4", "bgra4", "a1_rgb5", "a1_bgr5", "bgr5_a1", "rgb5_a1", "argb8", "rgba8">>
PixelFormatMap ==
    SubSeq(PixelFormats, 1, 17)
      \o <<"rgb8", "rgb8_snorm", "rgb10", "rgb12", "rgb16_snorm", "rgba2", "rgba4", "rgb5_a1",
           "rgba8", "rgba8_snorm", "rgb10_a2", "rgb10_a2ui", "rgba12", "rgba16", "srgb8",
           "srgb8_alpha8", "r16f", "rg16f">>

GLFormat(pf) ==
    PixelFormatMap[CHOOSE i \in DOMAIN PixelFormats : PixelFormats[i] = pf]

\* glTexSubImage2D refuses all but base formats.
IsBase(gl) == gl \in {"red", "rg", "rgb", "rgba"}

\* set_data of whole columns, unless it is empty or outside.
SetData(x, width, pf) ==
    /\ texture # NoPicture
    /\ width > 0 /\ width + x <= Columns
    /\ IsBase(GLFormat(pf))
    /\ texture' = [texture EXCEPT !.shown = [c \in 1..Columns |->
                      IF c \in (x + 1)..(x + width)
                      THEN IF Len(Mask(pf)) >= 3 THEN {Sampled(Mask(pf), Mask(GLFormat(pf)))} ELSE {}
                      ELSE @[c]]]
    /\ UNCHANGED <<surface, dataHeld>>

GenerateMipmap ==
    /\ texture # NoPicture
    /\ texture' = [texture EXCEPT !.mips = TRUE]
    /\ UNCHANGED <<surface, dataHeld>>

\* min_filter, min_filter_bilinear and min_filter_trilinear; the last two throw
\* without mipmaps.
MinFilter(filter) ==
    /\ texture # NoPicture
    /\ filter \in {"bilinear", "trilinear"} => texture.mips
    /\ texture' = [texture EXCEPT !.filter = filter]
    /\ UNCHANGED <<surface, dataHeld>>

PicturesNext ==
    \/ \E sdl \in DOMAIN SDLBytes : Load(sdl)
    \/ \E pf \in {"r8", "rg", "rgb", "rgb8", "bgr8", "rgba", "rgba8", "argb8", "rgb4"},
          sdl \in DOMAIN SDLBytes : Blank(pf, sdl) \/ FromData(pf, sdl)
    \/ FillRect \/ FreeData
    \/ MakeTexture \/ DropTexture \/ GenerateMipmap
    \/ \E x \in 0..Columns, width \in 0..Columns, pf \in {"red", "rgb", "rgba", "rgba8", "bgr8"} :
          SetData(x, width, pf)
    \/ \E filter \in {"nearest", "linear", "bilinear", "trilinear"} : MinFilter(filter)

PicturesSpec == PicturesInit /\ [][PicturesNext]_pictureVars
-----------------------------------------------------------------------------
(* Correctness *)

PicturesTypeOK ==
    /\ dataHeld \in BOOLEAN
    /\ surface # NoPicture => surface.sdl \in DOMAIN SDLBytes /\ Supported(surface.sdl)
    /\ texture # NoPicture => DOMAIN texture.shown = 1..Columns

Right == [c \in {"r", "g", "b"} |-> c]

\* The images whose colours arrive: not those whose alpha or padding comes first, and
\* not padded ones, that the code takes for three bytes; and the caller's rgb(a) bytes,
\* if SDL did not write into them.
Arrives(s) ==
    \/ s.sdl \in {"RGB24", "BGR24", "ARGB8888", "ABGR8888"} /\ s.bytes \subseteq {SDLBytes[s.sdl]}
    \/ s.sdl = "RGBA8888" /\ s.bytes \subseteq {Mask(s.pf)}

\* Every place of a texture shows the colours of the picture it was made of or of the
\* data that was set there last, and a filter that reads mipmaps finds them
\* (Texture.cpp:16-101, 252-278, Surface.cpp:24-149, constants.cpp:332-568).
ColorsAreKept ==
    /\ PicturesTypeOK
    /\ texture # NoPicture =>
          /\ Arrives(texture.made) => \A x \in 1..Columns : texture.shown[x] \subseteq {Right}
          /\ texture.filter \in {"bilinear", "trilinear"} => texture.mips
=============================================================================
