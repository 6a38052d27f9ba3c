---------------------------- MODULE CGxDeviceGLL ----------------------------
(***************************************************************************)
(* The graphics device CGxDeviceGLL of macOS.  It is CGxDeviceGLSDL with a *)
(* second thread: GLMipmap::Unmap and GLTexture::FreeTexture only send a   *)
(* command to the GLWorker, which gives the content that lies in memory at *)
(* that time to OpenGL, or deletes the texture.  A Draw waits in the       *)
(* middle for the commands sent since the last wait (GLWorker models how). *)
(***************************************************************************)
EXTENDS CGxDevice, GLDevice

CONSTANTS
  Sizes,       \* sizes of the window
  MaxCommands  \* bound: entries of m_Commands

VARIABLES
  dev,        \* m_glDevice
  data,       \* m_Data of the mipmaps of each texture
  commands,   \* m_Commands of the worker
  settled,    \* m_UnkA1: nothing was sent since the last wait
  drawing,    \* a Draw has not returned
  size        \* of the window and the back buffers

workerVars == <<data, commands, settled>>
vars == <<appVars, dev, workerVars, drawing, size>>

-----------------------------------------------------------------------------
(* Sending states to w: the textures, the OpenGL device, and what is sent  *)
(* to the worker.                                                          *)

Sent(w, op, n) == [w EXCEPT !.commands = Append(@, [op |-> op, tex |-> n]), !.settled = FALSE]

ITexSetFlags(w, t) ==
  [w EXCEPT !.dev = GLLTexSetFlags(@, w.tex[t].gl), !.tex[t].needsFlagUpdate = FALSE]

ITexCreate(w, t) ==
  ITexSetFlags([w EXCEPT !.dev = Create(@), !.tex[t].gl = w.dev.next], t)

\* GLMipmap::Map, Blit and Unmap; CGxDevice::ITexMarkAsUpdated.
ITexUpload(w, t) ==
  LET n == w.tex[t].gl
      written == [w EXCEPT !.data[n] = <<t, w.tex[t].data>>, !.tex[t].needsUpdate = FALSE]
  IN Sent(written, "unmap", n)

ITexFlagged(w, t) == IF w.tex[t].needsFlagUpdate /\ w.tex[t].gl # 0 THEN ITexSetFlags(w, t) ELSE w
ITexMade(w, t) == IF w.tex[t].gl = 0 THEN ITexCreate(w, t) ELSE w
ITexUpdated(w, t) == IF w.tex[t].needsUpdate THEN ITexUpload(ITexMade(w, t), t) ELSE w
ITexMarkAsUpdated(w, t) == ITexUpdated(ITexFlagged(w, t), t)

\* The states that are one call of the OpenGL device each.
SendState(d, s, v) ==
  CASE s = "BlendingMode" ->
         IF v \in {"opaque", "alphakey"} THEN SetAlphaBlendEnable(d, FALSE)
         ELSE SetAlphaBlend(SetAlphaBlendEnable(d, TRUE), v, "add")
    [] s = "AlphaRef" ->
         IF v <= 0 THEN SetAlphaTestEnable(d, FALSE)
         ELSE SetAlphaTestEnable(SetAlphaTest(d, "gequal", v), TRUE)
    [] s = "FogStart" -> SetFogParam(d, "fogStart", v)
    [] s = "FogEnd" -> SetFogParam(d, "fogEnd", v)
    [] s = "FogColor" -> SetFogColor(d, v)
    [] s = "Lighting" -> SetLightingEnable(d, v)
    [] s = "Fog" -> SetFogEnable(d, v)
    [] s = "DepthTest" -> SetDepthTestEnable(d, v)
    [] s = "DepthFunc" -> SetDepthTestFunc(d, v)
    [] s = "DepthWrite" -> SetDepthWriteMask(d, v)
    [] s = "Culling" -> SetCullMode(d, v)
    [] s \in Shaders -> SetShader(d, KindOf(s), v)

SetTextureOf(w, u, t) == [w EXCEPT !.dev = SetTexture(@, u, w.tex[t].gl)]
IRsSendToHw(w, s, v) ==
  IF s \notin TextureStates THEN [w EXCEPT !.dev = SendState(@, s, v)]
  ELSE IF v = NoTexture THEN [w EXCEPT !.dev = SetTexture(@, UnitOf(s), 0)]
  ELSE SetTextureOf(ITexMarkAsUpdated(w, v), UnitOf(s), v)

\* The constants that were set since the last flush, and all between them.
IShaderConstantsFlush(d) ==
  FoldLeft(LAMBDA e, k : IF shadow[k].min <= shadow[k].max
                         THEN SetShaderConstantsInternal(e, k, shadow[k].min, shadow[k].max, shadow[k].consts)
                         ELSE e,
           d, <<"vertex", "pixel">>)

IXformSetViewport(d) == SetViewport(d, viewport, <<0, 1>>)

Now == [dev |-> dev, tex |-> tex, data |-> data, commands |-> commands, settled |-> settled]

SendStates(w) == FoldLeft(LAMBDA x, s : IRsSendToHw(x, s, value[s]), w, IRsSync)
IStateSync ==
  [SendStates([Now EXCEPT !.dev = IShaderConstantsFlush(@)])
     EXCEPT !.dev = IXformSetViewport(@)]

\* With what binding released textures again has sent.
Resent(w) == [FoldLeft(LAMBDA x, n : Sent(x, "unmap", n), w, w.dev.resent) EXCEPT !.dev.resent = <<>>]
Becomes(w) ==
  \E all \in {Resent(w)} :
    /\ dev' = all.dev /\ tex' = all.tex /\ data' = all.data
    /\ commands' = all.commands /\ settled' = all.settled
    /\ Len(commands') <= MaxCommands

-----------------------------------------------------------------------------
\* DeviceCreate: the OpenGL device is set up, then every state is sent.
Init ==
  /\ AppInit
  /\ size \in Sizes
  /\ dev = SetFogParam(
             FoldLeft(LAMBDA d, s : IF s \in TextureStates THEN SetTexture(d, UnitOf(s), 0)
                                    ELSE SendState(d, s, Defaults[s]),
                      SetDisplay(InitDevice), AllStates),
             "fogDensity", 0)
  /\ data = [n \in Names |-> Nothing]
  /\ commands = <<>> /\ settled = FALSE
  /\ drawing = FALSE

\* CGxDevice's own operations, which do not reach OpenGL.
Elsewhere == ~drawing /\ UNCHANGED <<dev, workerVars, drawing, size>>

GlRsSet == (\E s \in Changing : \E v \in ValuesOf(s) : RsSet(s, v)) /\ Elsewhere
GlTexCreate(t) == TexCreate(t) /\ Elsewhere
GlTexSetWrap(t) == TexSetWrap(t) /\ Elsewhere
GlShaderConstantsSet(k, i) == (\E v \in {0, 1} : ShaderConstantsSet(k, i, v)) /\ Elsewhere
GlXformSetViewport(rect) == XformSetViewport(rect) /\ Elsewhere

TexMarkForUpdate(t) ==
  /\ ~drawing
  /\ tex[t].alive /\ (tex[t].gl = 0 => dev.next \in Names)
  /\ Becomes(ITexMarkAsUpdated([Now EXCEPT !.tex = Marked(t)], t))
  /\ UNCHANGED <<rsVars, shadow, xformVars, drawing, size>>

GlTexDestroy(t) ==
  /\ ~drawing
  /\ TexDestroy(t)
  /\ LET freed == Sent([Now EXCEPT !.dev = FreeTexture(@, tex[t].gl)], "destroy", tex[t].gl) IN
     Becomes([(IF tex[t].gl = 0 THEN Now ELSE freed) EXCEPT !.tex[t] = NoCGxTex])
  /\ UNCHANGED <<drawing, size>>

GlXformSetView(m) ==
  ~drawing /\ XformSetView(m) /\ dev' = SetView(dev, m) /\ UNCHANGED <<workerVars, drawing, size>>
GlXformSetProjection(m) ==
  ~drawing /\ XformSetProjection(m) /\ dev' = SetProjection(dev, m)
  /\ UNCHANGED <<workerVars, drawing, size>>

\* Draw, up to where GLLDraw may wait.
DrawBegin ==
  /\ ~drawing
  /\ dev.next + Cardinality(ToMake) - 1 \in Names \cup {0}
  /\ Becomes([IStateSync EXCEPT !.dev = GLLDrawBegin(@)])
  /\ shadow' = Flushed
  /\ dirty' = {} /\ dirtyStates' = <<>> /\ hw' = value
  /\ drawing' = TRUE
  /\ UNCHANGED <<value, xformVars, size>>

\* Wrong variant: the draw does not wait.
DrawAtOnce ==
  /\ drawing
  /\ dev' = GLLDrawEnd(dev) /\ drawing' = FALSE /\ settled' = TRUE
  /\ UNCHANGED <<appVars, data, commands, size>>

\* WaitOnGLObjects returns when all that was sent has been executed: taken for granted here.
\* A pthread_cond_wait that returns unsignalled cuts the wait short (GLWorker).
DrawEnd ==
  /\ drawing
  /\ settled \/ commands = <<>>
  /\ dev' = GLLDrawEnd(dev) /\ drawing' = FALSE /\ settled' = TRUE
  /\ UNCHANGED <<appVars, data, commands, size>>

SceneClear(mask, color) ==
  /\ ~drawing
  /\ Becomes([Now EXCEPT !.dev = Clear(IXformSetViewport(@), mask, color)])
  /\ UNCHANGED <<rsVars, shadow, xformVars, drawing, size>>

ScenePresent ==
  /\ ~drawing
  /\ Becomes([Now EXCEPT !.dev = Swap(@)])
  /\ shadow' = ShaderConstantsClear
  /\ UNCHANGED <<rsVars, xformVars, drawing, size>>

\* Wrong variant: the depth buffer is released as stencil buffer too.
ResizeReleasingStencil(s) ==
  /\ ~drawing
  /\ s # size /\ {dev.next, dev.next + 1} \subseteq Names
  /\ size' = s
  /\ LET back == dev.backBuffer
         sent(w, p) == Sent(w, "destroy", back[p])
     IN Becomes(sent(sent(sent([Now EXCEPT !.dev = SetDisplay(@)], "color"), "depth"), "stencil"))
  /\ UNCHANGED <<rsVars, shadow, xformVars, drawing>>

\* MacOnResized, with room for two more textures (bound).
Resize(s) ==
  /\ ~drawing
  /\ s # size /\ {dev.next, dev.next + 1} \subseteq Names
  /\ size' = s
  /\ LET back == dev.backBuffer IN
     Becomes(Sent(Sent([Now EXCEPT !.dev = SetDisplay(@)], "destroy", back["color"]),
                  "destroy", back["depth"]))
  /\ UNCHANGED <<rsVars, shadow, xformVars, drawing>>

\* GLTexUnmap::Execute or GLTexDestroy::Execute.
Execute ==
  /\ commands # <<>>
  /\ LET c == Head(commands) IN
     dev' = IF c.op = "destroy" THEN FreeOnWorker(dev, c.tex) ELSE Unmap(dev, c.tex, data[c.tex])
  /\ commands' = Tail(commands)
  /\ UNCHANGED <<appVars, data, settled, drawing, size>>

Next ==
  \/ GlRsSet
  \/ \E k \in Targets, i \in Indices : GlShaderConstantsSet(k, i)
  \/ \E rect \in {"full", "part"} : GlXformSetViewport(rect)
  \/ \E t \in Textures : GlTexCreate(t) \/ GlTexSetWrap(t)
  \/ \E t \in Textures : TexMarkForUpdate(t) \/ GlTexDestroy(t)
  \/ \E m \in {"identity", "camera"} : GlXformSetView(m) \/ GlXformSetProjection(m)
  \/ DrawBegin \/ DrawEnd
  \/ \E mask \in {{"color"}, {"depth"}, {"color", "depth"}}, color \in {0, 1} : SceneClear(mask, color)
  \/ ScenePresent
  \/ \E s \in Sizes : Resize(s)
  \/ Execute

Spec == Init /\ [][Next]_vars

-----------------------------------------------------------------------------
(* Properties                                                              *)

(* No BLIZZARD_ASSERT of the OpenGL objects fails on either thread: what   *)
(* the worker gives to OpenGL has not been deleted by a command before it, *)
(* and the back buffers can be replaced while their images are attached.   *)
NoAssertFails == dev.failed = {}

(* A draw that had to wait for the worker sees what drawing code has set   *)
(* and the last content of every texture, whatever the worker was doing -  *)
(* as long as pthread_cond_wait returns only when signalled.               *)
DrawSeesStates == [][DrawEnd => AllAgree(dev)']_vars

(* Every texture that was released is deleted, and only once: it is either *)
(* still among the commands or no longer valid.  1 is the device's own.    *)
DeletedOnce ==
  LET waiting(n) == Cardinality({i \in DOMAIN commands : commands[i] = [op |-> "destroy", tex |-> n]})
      used == {1} \cup {tex[t].gl : t \in Textures} \cup {dev.backBuffer["color"], dev.backBuffer["depth"]}
  IN \A n \in Names : waiting(n) = IF n \in dev.valid \ used THEN 1 ELSE 0

(* No command meets an object that is gone, and none is left behind: both of the above. *)
ObjectsAreSound == NoAssertFails /\ DeletedOnce
=============================================================================
