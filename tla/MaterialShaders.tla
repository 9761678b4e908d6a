---------------------------- MODULE MaterialShaders ----------------------------
(***************************************************************************)
(* cube::gl::material and the shader generator: a material is turned into  *)
(* a vertex and a fragment shader, compiled and linked once, when its      *)
(* bindable is made; each time the bindable is bound, the uniforms are set *)
(* by name from what the material is by then.                              *)
(*                                                                         *)
(* A variable of a shader is <<name, index>>; the text of a shader is the  *)
(* set of variables its main() reads.  The compiler drops the uniforms and *)
(* attributes that are declared and never read.                            *)
(***************************************************************************)
EXTENDS Integers, Sequences, FiniteSets, SequencesExt

CONSTANTS GLSLVersions,
          MaxChannels,  \* bound: colour channels, texture channels
          ArraySize,    \* length of the arrays of lights in the shader (8)
          MaxLights,    \* bound: lights of a state
          NoBindable

ASSUME ShadersAssumption ==
    /\ GLSLVersions \subseteq Nat /\ {MaxChannels, ArraySize, MaxLights} \subseteq Nat
    /\ ArraySize \in 1..(MaxLights - 1)

VARIABLES glsl,      \* Impl::glsl_version
          material,  \* [colors, textures, shading]
          bindable,  \* the material its program was linked from, or NoBindable
          outcome    \* the last bind: [result, done: how many uniforms were set, lights]
shaderVars == <<glsl, material, bindable, outcome>>

NotBound == [result |-> "none", done |-> 0, lights |-> <<>>]

ShadersInit ==
    /\ glsl \in GLSLVersions
    /\ material = [colors |-> <<>>, textures |-> <<>>, shading |-> "none"]
    /\ bindable = NoBindable
    /\ outcome = NotBound
-----------------------------------------------------------------------------
(* Material *)

\* A channel has a path (that may be empty) or a texture, loaded already.
AddTexture(type, source) ==
    /\ Len(material.textures) < MaxChannels
    /\ material' = [material EXCEPT !.textures =
                      Append(@, [type |-> type, source |-> source, loaded |-> source = "texture"])]
    /\ outcome' = NotBound /\ UNCHANGED <<glsl, bindable>>

AddColor(type) ==
    /\ Len(material.colors) < MaxChannels
    /\ material' = [material EXCEPT !.colors = Append(@, type)]
    /\ outcome' = NotBound /\ UNCHANGED <<glsl, bindable>>

SetShading(model) ==
    /\ material' = [material EXCEPT !.shading = model]
    /\ outcome' = NotBound /\ UNCHANGED <<glsl, bindable>>
-----------------------------------------------------------------------------
(* Material::bindable: what the two shaders declare *)

Var(name) == <<name, 0>>
Lights == {Var("PointLightPosition"), Var("PointLightDiffuse"), Var("PointLightSpecular")}

VertexUniforms ==
    {Var(n) : n \in {"Shininess", "Opacity", "Diffuse", "Ambient", "Specular", "MVP", "ModelView",
                     "Normal", "PointLightCount"}} \cup Lights

\* The inputs of the vertex shader, with their ContentKind: channels of one sort
\* all have the same.
Channels(name, list) == {<<name, i - 1>> : i \in DOMAIN list}
InputsOf(m) ==
    {Var("Vertex"), Var("VertexNormal")}
      \cup Channels("VertexColor", m.colors) \cup Channels("VertexTexCoord", m.textures)
KindOfInput(v) ==
    CASE v[1] = "Vertex"       -> "vertex"
      [] v[1] = "VertexNormal" -> "normal"
      [] v[1] = "VertexColor"  -> "color"
      [] OTHER                 -> "tex_coord"

\* What goes from one shader to the other, with its kind.
VertexOutputs(m) ==
    {<<Var("Color"), "color">>} \cup {<<v, "tex_coord">> : v \in Channels("TexCoord", m.textures)}
FragmentInputs(m) ==
    {<<Var("Color"), "color">>} \cup {<<v, "tex_coord">> : v \in Channels("TexCoord", m.textures)}
Samplers(m) == Channels("Texture", m.textures)
-----------------------------------------------------------------------------
(* ShaderRoutine: what main() reads.  idx stays 0 in its loops, so only the first *)
(* channel of a sort is read.                                                     *)

First(list, name) == IF list = <<>> THEN {} ELSE {Var(name)}

\* Fault: the normal is left out of the lighting.
VertexReads_NoLight(m) ==
    {Var("Vertex"), Var("MVP"), Var("Ambient")}
      \cup First(m.colors, "VertexColor") \cup First(m.textures, "VertexTexCoord")
VertexReads(m) ==
    {Var("Vertex"), Var("MVP"), Var("Ambient")}
      \cup First(m.colors, "VertexColor") \cup First(m.textures, "VertexTexCoord")
      \cup (IF m.shading = "none" THEN {}
            ELSE Lights \cup {Var(n) : n \in {"Normal", "VertexNormal", "ModelView", "Diffuse",
                                              "Specular", "Shininess", "PointLightCount"}})
FragmentReads(m) ==
    {Var("Color")} \cup First(m.textures, "Texture") \cup First(m.textures, "TexCoord")

\* A colour of a type, or a texture of a use, that is not written yet throws.
Writable(m) ==
    /\ ToSet(m.colors) \subseteq {"vec3", "vec4"}
    /\ \A t \in ToSet(m.textures) : t.type \in {"ambient", "opacity"}
-----------------------------------------------------------------------------
(* ShaderGenerator: how an input or an output is named in GLSL.  Before version 120 *)
(* there are builtin variables; and the location of an attribute is its kind.       *)

\* A name is <<prefix, name or kind, index>>.

Prefix(shader, way, kind) ==
    CASE shader = "vertex" /\ way = "out" /\ kind = "vertex"                     -> "gl"
      [] shader = "vertex" /\ way = "in" /\ glsl < 120                           -> "gl"
      [] shader = "vertex" /\ way = "out" /\ glsl < 120
            /\ kind \notin {"vertex", "normal"}                                  -> "gl_varying"
      [] shader = "fragment" /\ way = "in" /\ glsl < 120
            /\ kind \in {"color", "tex_coord"}                                   -> "gl_varying"
      [] shader = "fragment" /\ way = "out" /\ glsl <= 120 /\ kind = "color"     -> "gl"
      [] OTHER                                                                   -> "none"

Named(shader, way, v, kind) ==
    IF Prefix(shader, way, kind) = "none" THEN <<"none", v[1], v[2]>>
    ELSE <<Prefix(shader, way, kind), kind, 0>>

\* BindAttribLocation or a builtin: where the data of an attribute is found.
Location(v) == Named("vertex", "in", <<KindOfInput(v), 0>>, KindOfInput(v))

\* The linker: every varying that is read is written under the same name.
Links(m) ==
    \A v \in FragmentInputs(m) : v[1] \in FragmentReads(m) =>
        \E o \in VertexOutputs(m) : Named("vertex", "out", o[1], o[2]) = Named("fragment", "in", v[1], v[2])
-----------------------------------------------------------------------------
(* Bindable *)

\* What is left after linking: what is declared and read.
Uniforms(m) == (VertexUniforms \cap VertexReads(m)) \cup (Samplers(m) \cap FragmentReads(m))
Inputs(m) == InputsOf(m) \cap VertexReads(m)

\* The channels before the first that has neither texture nor path are loaded.
LoadedUpTo(m, n) ==
    [m EXCEPT !.textures = [i \in DOMAIN @ |-> IF i < n THEN [@[i] EXCEPT !.loaded = TRUE] ELSE @[i]]]
Empties(m) == {i \in DOMAIN m.textures : m.textures[i].source = "nothing"}

\* An empty path throws, after the channels before it were loaded.
MakeBindable ==
    /\ Writable(material) /\ Links(material)
    /\ LET n == IF Empties(material) = {} THEN MaxChannels + 1
                ELSE CHOOSE i \in Empties(material) : \A j \in Empties(material) : i <= j
           m == LoadedUpTo(material, n)
       IN /\ material' = m
          /\ bindable' = IF Empties(material) = {} THEN m ELSE bindable
    /\ outcome' = NotBound /\ UNCHANGED glsl

\* What is set for the i-th light; only point lights are known.
LightUniform(lights, i, k) ==
    IF lights[i + 1] # "point" THEN <<"not implemented", 0>>
    ELSE <<<<"PointLightSpecular", "PointLightPosition", "PointLightDiffuse">>[k + 1], i>>

\* The uniforms that are set, in the order of _bind; a light is a kind.
Settings(m, lights) ==
    <<Var("MVP"), Var("Ambient")>>
      \o (IF m.shading = "none" THEN <<>>
          ELSE <<Var("Diffuse"), Var("Specular"), Var("Shininess"), Var("ModelView"), Var("Normal")>>
                 \o [k \in 1..(3 * Len(lights)) |-> LightUniform(lights, (k - 1) \div 3, k % 3)]
                 \o <<Var("PointLightCount")>>)
      \o [i \in DOMAIN m.textures |-> <<"Texture", i - 1>>]

\* ShaderProgram::parameter and ShaderProgramParameter::_at: a name that is not an
\* active uniform, or an element past the end, throws.
FindsUniform(v, active) ==
    IF v[1] = "Texture" THEN v \in active ELSE Var(v[1]) \in active /\ v[2] < ArraySize

\* A texture that was never loaded is a null pointer, used before its name is looked up.
IsNull(v) == v[1] = "Texture" /\ ~ material.textures[v[2] + 1].loaded

BindShaders(lights) ==
    /\ bindable # NoBindable
    /\ \E s \in {Settings(material, lights)}, active \in {Uniforms(bindable)} :
          LET bad == {i \in DOMAIN s : IsNull(s[i]) \/ ~ FindsUniform(s[i], active)}
              Ends(how, n) == outcome' = [result |-> how, done |-> n, lights |-> lights]
          IN \/ bad = {} /\ Ends("bound", Len(s))
             \/ \E i \in bad :
                   /\ \A j \in bad : i <= j
                   /\ Ends(IF IsNull(s[i]) THEN "crashed" ELSE "thrown", i - 1)
    /\ UNCHANGED <<glsl, material, bindable>>

LightLists == (UNION {[1..n -> {"point"}] : n \in 0..MaxLights}) \cup {<<"point", "spot">>}

ShadersNext ==
    \/ \E type \in {"ambient", "diffuse"}, source \in {"path", "texture", "nothing"} :
          AddTexture(type, source)
    \/ \E type \in {"vec2", "vec3", "vec4"} : AddColor(type)
    \/ \E model \in {"none", "gouraud"} : SetShading(model)
    \/ MakeBindable
    \/ \E lights \in LightLists : BindShaders(lights)

ShadersSpec == ShadersInit /\ [][ShadersNext]_shaderVars
-----------------------------------------------------------------------------
(* Correctness *)

ShadersTypeOK ==
    /\ glsl \in GLSLVersions
    /\ Len(material.colors) <= MaxChannels /\ Len(material.textures) <= MaxChannels
    /\ material.shading \in {"none", "gouraud"}
    /\ outcome.result \in {"none", "bound", "thrown", "crashed"}

\* A binding of what the bindable was made for: the material has not changed since,
\* and has one texture at the most.
AsMade == bindable # NoBindable /\ material = bindable /\ Len(material.textures) <= 1

\* The uniforms that the last bind set.
WasSet == ToSet(SubSeq(Settings(material, outcome.lights), 1, outcome.done))

\* What is read is set: a bindable whose material is as it was, with point lights that
\* fit, binds, and leaves no uniform of its shaders unset.  A light that is not a
\* point, or one too many, is an exception and never less light.
UniformsAreSet ==
    AsMade =>
        /\ outcome.result # "crashed"
        /\ outcome.result = "bound" => Uniforms(bindable) \ WasSet \subseteq Lights
        /\ outcome.result = "thrown" =>
              material.shading # "none"
              /\ (Len(outcome.lights) > ArraySize \/ "spot" \in ToSet(outcome.lights))

\* The attributes that are read have each a place of their own, and the kind of the
\* place is the kind of the data.
AttributesAreApart ==
    bindable # NoBindable =>
        \A v, w \in Inputs(bindable) : v # w => Location(v) # Location(w)

\* What a material says is what its shaders read and are given (Material.cpp:29-122,
\* ShaderRoutine.cpp:16-108, ShaderGenerator.cpp:103-330, Bindable.cpp:47-95).
ShadersFollowMaterials == ShadersTypeOK /\ UniformsAreSet /\ AttributesAreApart
===============================================================================
