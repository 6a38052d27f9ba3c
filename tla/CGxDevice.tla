------------------------------ MODULE CGxDevice ------------------------------
(***************************************************************************)
(* CGxDevice of src/gx: what drawing code sets - render states, textures,  *)
(* shader constants and transforms - before a device of one platform sends *)
(* it to the hardware (CGxDeviceGLSDL, CGxDeviceGLL).                      *)
(*                                                                         *)
(* RsPush and RsPop are modelled in GxRenderState, vertex and index        *)
(* buffers in GxBuffers.  Values are kept apart only as far as OpenGL      *)
(* would.                                                                  *)
(***************************************************************************)
EXTENDS GxTypes

CONSTANTS
  Changing,   \* bound: the render states that drawing code sets
  Textures,   \* CGxTex objects
  NoTexture,  \* nullptr
  Inverted,   \* ~value, as IRsForceUpdate leaves it in m_hwRenderStates
  MaxDirty    \* bound: entries of m_dirtyStates

VARIABLES
  value,        \* m_appRenderStates[s].m_value
  dirty,        \* the states with m_dirty set
  dirtyStates,  \* m_dirtyStates
  hw,           \* m_hwRenderStates
  tex,          \* the CGxTex
  shadow,       \* s_shadowConstants
  viewport,     \* m_viewport
  view,         \* the view matrix
  projection    \* m_projection

rsVars == <<value, dirty, dirtyStates, hw>>
xformVars == <<viewport, view, projection>>
appVars == <<rsVars, tex, shadow, xformVars>>

TextureNames == <<"Texture0", "Texture1", "Texture2">>
TextureState(u) == TextureNames[u + 1]
TextureSeq == [i \in 1..NumUnits |-> TextureNames[i]]
TextureStates == Range(TextureSeq)
UnitOf(s) == CHOOSE u \in Units : TextureState(u) = s
Flags == {"Lighting", "Fog", "DepthTest", "DepthWrite"}
Shaders == {"VertexShader", "PixelShader"}
AllStates ==
  <<"BlendingMode", "AlphaRef", "FogStart", "FogEnd", "FogColor", "Lighting", "Fog", "DepthTest",
    "DepthFunc", "DepthWrite", "Culling">> \o TextureSeq \o <<"PixelShader", "VertexShader">>
KindOf(s) == IF s = "VertexShader" THEN "vertex" ELSE "pixel"

\* Values a state may be given.
ValuesOf(s) ==
  CASE s \in Flags -> BOOLEAN
    [] s = "BlendingMode" -> {"opaque", "alphakey", "alpha", "add"}
    [] s = "DepthFunc" -> {"lequal", "equal", "gequal", "less"}
    [] s = "Culling" -> {"off", "cw", "ccw"}
    [] s \in TextureStates -> {t \in Textures : tex[t].alive} \cup {NoTexture}
    [] s \in Shaders -> {"none", "a", "b"}
    [] OTHER -> {0, 1}

\* IRsInit
Defaults ==
  [s \in Range(AllStates) |->
   CASE s \in Flags -> TRUE
     [] s = "BlendingMode" -> "opaque"
     [] s = "DepthFunc" -> "lequal"
     [] s = "Culling" -> "cw"
     [] s \in TextureStates -> NoTexture
     [] s \in Shaders -> "none"
     [] s = "FogStart" -> 1
     [] OTHER -> 0]

\* A CGxTex.  data is what its user function would hand out.
NoCGxTex == [alive |-> FALSE, gl |-> 0, needsUpdate |-> FALSE, needsFlagUpdate |-> FALSE, data |-> 0]
NewCGxTex(n) ==
  [alive |-> TRUE, gl |-> 0, needsUpdate |-> TRUE, needsFlagUpdate |-> TRUE, data |-> n]

\* ShaderConstantsClear: -1 is FLT_MAX.
ShaderConstantsClear == [k \in Targets |-> [consts |-> [i \in Indices |-> -1], min |-> 255, max |-> 0]]

-----------------------------------------------------------------------------
(* Sending.                                                                *)

\* The states IRsSync sends: the changed ones, from the last dirty one to the first, each once.
SentAfter(x, s) == IF s \in dirty /\ value[s] # hw[s] /\ ~Contains(x, s) THEN Append(x, s) ELSE x
IRsSync ==
  LET sent[i \in 0..Len(dirtyStates)] ==
        IF i = 0 THEN <<>> ELSE SentAfter(sent[i - 1], dirtyStates[Len(dirtyStates) + 1 - i])
  IN sent[Len(dirtyStates)]

\* After a flush of the constants.
Flushed == [k \in Targets |-> [shadow[k] EXCEPT !.min = 255, !.max = 0]]

-----------------------------------------------------------------------------
AppInit ==
  /\ value = Defaults /\ hw = Defaults
  /\ dirty = {} /\ dirtyStates = <<>>
  /\ tex = [t \in Textures |-> NoCGxTex]
  /\ shadow = ShaderConstantsClear
  /\ viewport = "full" /\ view = "identity" /\ projection = "identity"

\* CGxDevice::IRsDirty without its frames.
RsSet(s, v) ==
  /\ value[s] # v
  /\ value' = [value EXCEPT ![s] = v]
  /\ dirty' = dirty \cup {s}
  /\ dirtyStates' = IF s \in dirty THEN dirtyStates ELSE Append(dirtyStates, s)
  /\ Len(dirtyStates') <= MaxDirty
  /\ UNCHANGED <<hw, tex, shadow, xformVars>>

\* New objects get addresses that the device does not still remember (bound).
TexCreate(t) ==
  /\ ~tex[t].alive
  /\ \A s \in TextureStates : value[s] # t /\ hw[s] # t
  /\ tex' = [tex EXCEPT ![t] = NewCGxTex(0)]
  /\ UNCHANGED <<rsVars, shadow, xformVars>>

\* CGxDevice::TexMarkForUpdate: the owner has new content.
Marked(t) == [tex EXCEPT ![t].needsUpdate = TRUE, ![t].data = 1 - @]

\* Every texture state is sent again.
TexSetWrap(t) ==
  /\ tex[t].alive
  /\ tex' = [tex EXCEPT ![t].needsFlagUpdate = TRUE]
  /\ dirty' = dirty \cup TextureStates
  /\ dirtyStates' = dirtyStates \o TextureSeq
  /\ Len(dirtyStates') <= MaxDirty
  /\ hw' = [s \in DOMAIN hw |-> IF s \in TextureStates THEN Inverted ELSE hw[s]]
  /\ UNCHANGED <<value, shadow, xformVars>>

\* No state names the texture: drawing code puts the states back (RsPop) before
\* textures are released.
TexDestroy(t) ==
  /\ tex[t].alive /\ \A s \in TextureStates : value[s] # t
  /\ tex' = [tex EXCEPT ![t] = NoCGxTex]
  /\ UNCHANGED <<rsVars, shadow, xformVars>>

ShaderConstantsSet(k, i, v) ==
  /\ shadow[k].consts[i] # v
  /\ shadow' = [shadow EXCEPT ![k] = [consts |-> [@.consts EXCEPT ![i] = v],
                                     min |-> IF i < @.min THEN i ELSE @.min,
                                     max |-> IF i > @.max THEN i ELSE @.max]]
  /\ UNCHANGED <<rsVars, tex, xformVars>>

XformSetViewport(rect) ==
  viewport' = rect /\ UNCHANGED <<rsVars, tex, shadow, view, projection>>
XformSetView(m) ==
  view' = m /\ UNCHANGED <<rsVars, tex, shadow, viewport, projection>>
XformSetProjection(m) ==
  projection' = m /\ UNCHANGED <<rsVars, tex, shadow, viewport, view>>

\* Textures that would be made by sending the dirty states.
ToMake == {t \in Textures : tex[t].gl = 0 /\ \E s \in dirty \cap TextureStates : value[s] = t}

-----------------------------------------------------------------------------
(* What the current values ask of OpenGL when something is drawn; d is an  *)
(* OpenGL device (GLSDLDevice, GLDevice).                                  *)

BlendAgrees(d, v) ==
  /\ d.ctx.blend = (v \notin {"opaque", "alphakey"})
  /\ d.ctx.blend => d.ctx.blendFunc = v
StatesAgree(d) ==
  /\ d.ctx.fog = value["Fog"] /\ d.ctx.lighting = value["Lighting"]
  /\ d.ctx.fogStart = value["FogStart"] /\ d.ctx.fogEnd = value["FogEnd"]
  /\ d.ctx.fogColor = value["FogColor"]
  /\ d.ctx.depthTest = value["DepthTest"] /\ d.ctx.depthMask = value["DepthWrite"]
  /\ d.ctx.depthFunc = value["DepthFunc"] /\ d.ctx.cull = value["Culling"]
  /\ BlendAgrees(d, value["BlendingMode"])
  /\ value["AlphaRef"] > 0 => d.ctx.alphaTest /\ d.ctx.alphaFunc = <<"gequal", value["AlphaRef"]>>
TexturesAgree(d) ==
  \A u \in Units :
    LET t == value[TextureState(u)] IN
    IF t = NoTexture THEN d.unit[u] = 0
    ELSE d.unit[u] = tex[t].gl /\ d.image[d.unit[u]] = <<t, tex[t].data>>
ShadersAgree(d) ==
  \A k \in Targets :
    LET s == IF k = "vertex" THEN "VertexShader" ELSE "PixelShader"
        program == IF k = "vertex" THEN "vertexProgram" ELSE "pixelProgram"
    IN /\ d.ctx[k] = (value[s] # "none")
       /\ d.ctx[k] => /\ d.ctx[program] = value[s]
                      /\ \A i \in Indices : shadow[k].consts[i] # -1 => d.env[k][i] = shadow[k].consts[i]
TransformsAgree(d) ==
  /\ d.ctx.viewport = viewport
  /\ value["VertexShader"] = "none" =>
       d.glXform = [modelview |-> view, projection |-> <<projection, 1>>]
AllAgree(d) == StatesAgree(d) /\ TexturesAgree(d) /\ ShadersAgree(d) /\ TransformsAgree(d)
=============================================================================
