--------------------------- MODULE CGxDeviceGLSDL ---------------------------
(***************************************************************************)
(* The graphics device CGxDeviceGLSDL, which draws with OpenGL in an SDL   *)
(* window: what drawing code sets (render states, textures, shader         *)
(* constants, transforms) and how Draw, SceneClear and ScenePresent hand   *)
(* it to the OpenGL device (GLSDLDevice).                                  *)
(*                                                                         *)
(* A texture is made in OpenGL when it is first drawn with or updated, in  *)
(* the middle of sending the other states.                                 *)
(***************************************************************************)
EXTENDS CGxDevice, GLSDLDevice

(* The units are those of TextureNames, what is set are render states, and *)
(* there is room for the device's own three textures.                      *)
ASSUME AccountAssumption ==
  /\ NumUnits \in 1..Len(TextureNames) /\ Changing \subseteq Range(AllStates)
  /\ IsFiniteSet(Textures) /\ NoTexture \notin Textures
  /\ IsFiniteSet(Names) /\ Names = 1..Cardinality(Names) /\ Cardinality(Names) >= 3

VARIABLE dev   \* m_GLSDLDevice

vars == <<appVars, dev>>

-----------------------------------------------------------------------------
(* Sending states.  What is sent to is a pair w of the textures and the    *)
(* OpenGL device.                                                          *)

ITexSetFlags(w, t) ==
  [dev |-> GLSDLTexSetFlags(w.dev, w.tex[t].gl), tex |-> [w.tex EXCEPT ![t].needsFlagUpdate = FALSE]]

ITexCreate(w, t) ==
  ITexSetFlags([dev |-> Create(w.dev), tex |-> [w.tex EXCEPT ![t].gl = w.dev.next]], t)

\* The user function's content, and CGxDevice::ITexMarkAsUpdated.
ITexUpload(w, t) ==
  [dev |-> Unmap(w.dev, w.tex[t].gl, <<t, w.tex[t].data>>), tex |-> [w.tex EXCEPT ![t].needsUpdate = FALSE]]

ITexFlagged(w, t) == IF w.tex[t].needsFlagUpdate /\ w.tex[t].gl # 0 THEN ITexSetFlags(w, t) ELSE w
ITexMade(w, t) == IF w.tex[t].gl = 0 THEN ITexCreate(w, t) ELSE w
ITexUpdated(w, t) == IF w.tex[t].needsUpdate THEN ITexUpload(ITexMade(w, t), t) ELSE w
ITexMarkAsUpdated(w, t) == ITexUpdated(ITexFlagged(w, t), t)

\* The states that are one call of the OpenGL device each.
SendState(d, s, v) ==
  CASE s = "BlendingMode" ->
         IF v \in {"opaque", "alphakey"} THEN SetAlphaBlendEnable(d, FALSE)
         ELSE SetAlphaBlend(SetAlphaBlendEnable(d, TRUE), v, "add")
    [] s = "AlphaRef" ->
         IF v <= 0 THEN SetAlphaTestEnable(d, FALSE)
         ELSE SetAlphaTestEnable(SetAlphaTest(d, "gequal", v), TRUE)
    [] s = "FogStart" -> SetFogParam(d, "fogStart", v)
    [] s = "FogEnd" -> SetFogParam(d, "fogEnd", v)
    [] s = "FogColor" -> SetFogColor(d, v)
    [] s = "Lighting" -> SetLightingEnable(d, v)
    [] s = "Fog" -> SetFogEnable(d, v)
    [] s = "DepthTest" -> SetDepthTestEnable(d, v)
    [] s = "DepthFunc" -> SetDepthTestFunc(d, v)
    [] s = "DepthWrite" -> SetDepthWriteMask(d, v)
    [] s = "Culling" -> SetCullMode(d, v)
    [] s \in Shaders -> SetShader(d, KindOf(s), v)

SetTextureOf(w, u, t) == [w EXCEPT !.dev = SetTexture(@, u, w.tex[t].gl)]
IRsSendToHw(w, s, v) ==
  IF s \notin TextureStates THEN [w EXCEPT !.dev = SendState(@, s, v)]
  ELSE IF v = NoTexture THEN [w EXCEPT !.dev = SetTexture(@, UnitOf(s), 0)]
  ELSE SetTextureOf(ITexMarkAsUpdated(w, v), UnitOf(s), v)

\* The constants that were set since the last flush, and all between them.
FlushShadow(d, k) ==
  IF shadow[k].min > shadow[k].max THEN d
  ELSE SetShaderConstantsInternal(d, k, shadow[k].min, shadow[k].max, shadow[k].consts)
IShaderConstantsFlush(d) == FlushShadow(FlushShadow(d, "vertex"), "pixel")
IXformSetViewport(d) == SetViewport(d, viewport, <<0, 1>>)

\* The given states, one after the other, with the given values.
SendStates(w, states, values) ==
  LET sent[i \in 0..Len(states)] ==
        IF i = 0 THEN w ELSE IRsSendToHw(sent[i - 1], states[i], values[states[i]])
  IN sent[Len(states)]
IStateSync ==
  [SendStates([dev |-> IShaderConstantsFlush(dev), tex |-> tex], IRsSync, value)
     EXCEPT !.dev = IXformSetViewport(@)]

-----------------------------------------------------------------------------
\* DeviceCreate: the OpenGL device is set up, then every state is sent.
Init ==
  /\ AppInit
  /\ dev = SetFogParam(SendStates([dev |-> SetDisplay(InitDevice), tex |-> tex], AllStates, Defaults).dev,
                       "fogDensity", 0)

\* CGxDevice's own operations, which do not reach OpenGL.
GlRsSet == (\E s \in Changing : \E v \in ValuesOf(s) : RsSet(s, v)) /\ UNCHANGED dev
GlTexCreate(t) == TexCreate(t) /\ UNCHANGED dev
GlTexSetWrap(t) == TexSetWrap(t) /\ UNCHANGED dev
GlShaderConstantsSet(k, i) == (\E v \in {0, 1} : ShaderConstantsSet(k, i, v)) /\ UNCHANGED dev
GlXformSetViewport(rect) == XformSetViewport(rect) /\ UNCHANGED dev

\* The new content is uploaded at once.
TexMarkForUpdate(t) ==
  /\ tex[t].alive /\ (tex[t].gl = 0 => dev.next \in Names)
  /\ \E w \in {ITexMarkAsUpdated([dev |-> dev, tex |-> Marked(t)], t)} : tex' = w.tex /\ dev' = w.dev
  /\ UNCHANGED <<rsVars, shadow, xformVars>>

GlTexDestroy(t) ==
  /\ TexDestroy(t)
  /\ dev' = IF tex[t].gl = 0 THEN dev ELSE FreeTexture(dev, tex[t].gl)

GlXformSetView(m) == XformSetView(m) /\ dev' = SetView(dev, m)
GlXformSetProjection(m) == XformSetProjection(m) /\ dev' = SetProjection(dev, m)

Draw ==
  /\ dev.next + Cardinality(ToMake) - 1 \in Names \cup {0}
  /\ \E w \in {IStateSync} : tex' = w.tex /\ dev' = GLSDLDraw(w.dev)
  /\ shadow' = Flushed
  /\ dirty' = {} /\ dirtyStates' = <<>> /\ hw' = value
  /\ UNCHANGED <<value, xformVars>>

SceneClear(mask, color) ==
  /\ dev' = Clear(IXformSetViewport(dev), mask, color)
  /\ UNCHANGED appVars

ScenePresent ==
  /\ dev' = Swap(dev)
  /\ shadow' = ShaderConstantsClear
  /\ UNCHANGED <<rsVars, tex, xformVars>>

Next ==
  \/ GlRsSet
  \/ \E k \in Targets, i \in Indices : GlShaderConstantsSet(k, i)
  \/ \E rect \in {"full", "part"} : GlXformSetViewport(rect)
  \/ \E t \in Textures : GlTexCreate(t) \/ GlTexSetWrap(t)
  \/ \E t \in Textures : TexMarkForUpdate(t) \/ GlTexDestroy(t)
  \/ \E m \in {"identity", "camera"} : GlXformSetView(m) \/ GlXformSetProjection(m)
  \/ Draw
  \/ \E mask \in {{"color"}, {"depth"}, {"color", "depth"}}, color \in {0, 1} : SceneClear(mask, color)
  \/ ScenePresent

Spec == Init /\ [][Next]_vars

-----------------------------------------------------------------------------
(* Properties                                                              *)

(* No BLIZZARD_ASSERT of the OpenGL objects fails: a texture is bound only *)
(* where it is not bound yet and only while it is valid, it is told of     *)
(* every unit it leaves, and images are detached from where they are       *)
(* attached, whatever was created, uploaded, freed, cleared or shown.      *)
NoAssertFails == dev.failed = {}

(* m_States is what OpenGL has between any two calls, although Clear and   *)
(* BlitFramebuffer change OpenGL behind it.  SetAlphaTestEnable never      *)
(* stores what it sets, so the alpha test is left out.                     *)
ShadowAgrees ==
  /\ \A s \in DOMAIN dev.st \ {"alphaTest"} : dev.st[s] = dev.ctx[s]
  /\ \A u \in Units : /\ dev.unit[u] = (IF dev.bound[u] \in dev.valid THEN dev.bound[u] ELSE 0)
                      /\ \A t \in Names : u \in dev.stages[t] <=> dev.bound[u] = t

(* The device keeps its own account of OpenGL straight: both of the above. *)
AccountIsTrue == NoAssertFails /\ ShadowAgrees

(* What is drawn is drawn with what drawing code has set: OpenGL's states, *)
(* the textures of each unit with their last content, programs, constants  *)
(* and transforms at a Draw, whichever calls bound, uploaded, cleared or   *)
(* presented something in between.                                         *)
DrawSeesStates ==
  [][Draw => AllAgree(dev)']_vars
=============================================================================
