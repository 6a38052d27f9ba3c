------------------------------ MODULE GLDevice ------------------------------
(***************************************************************************)
(* The OpenGL device GLDevice of src/gx/gll (macOS).  Most of it is the    *)
(* text of GLSDLDevice, and is defined here as what is defined there.  It  *)
(* differs in what a second thread does: content goes to OpenGL and        *)
(* textures are deleted on the GLWorker's thread (CGxDeviceGLL, GLWorker). *)
(***************************************************************************)
EXTENDS GxTypes

CONSTANTS Names,     \* texture names, 1..n
          Nothing    \* content of a texture nothing was uploaded to

Gl == INSTANCE GLSDLDevice

LoadDefaultStates == Gl!LoadDefaultStates
ApplyGLBindings(d) == Gl!ApplyGLBindings(d)
ApplyGLStates(d) == Gl!ApplyGLStates(d)
SetActiveTexture(d, u) == Gl!SetActiveTexture(d, u)
SetAlphaBlend(d, func, op) == Gl!SetAlphaBlend(d, func, op)
SetAlphaBlendEnable(d, on) == Gl!SetAlphaBlendEnable(d, on)
SetAlphaTest(d, func, ref) == Gl!SetAlphaTest(d, func, ref)
SetAlphaTestEnable(d, on) == Gl!SetAlphaTestEnable(d, on)
SetClearColor(d, c) == Gl!SetClearColor(d, c)
SetClearDepth(d, z) == Gl!SetClearDepth(d, z)
SetClearStencil(d, s) == Gl!SetClearStencil(d, s)
SetColorWriteMask(d, mask) == Gl!SetColorWriteMask(d, mask)
SetCullMode(d, mode) == Gl!SetCullMode(d, mode)
SetDepthTestEnable(d, on) == Gl!SetDepthTestEnable(d, on)
SetDepthTestFunc(d, func) == Gl!SetDepthTestFunc(d, func)
SetDepthWriteMask(d, on) == Gl!SetDepthWriteMask(d, on)
SetFogColor(d, c) == Gl!SetFogColor(d, c)
SetFogEnable(d, on) == Gl!SetFogEnable(d, on)
SetFogParam(d, param, v) == Gl!SetFogParam(d, param, v)
SetLightingEnable(d, on) == Gl!SetLightingEnable(d, on)
SetViewport(d, rect, range) == Gl!SetViewport(d, rect, range)
\* A TODO: the scissor rectangle is never set.
SetScissor(d, on, rect) == d

Bind(d, t, force) == Gl!Bind(d, t, force)
BindTexture(d, t) == Gl!BindTexture(d, t)
SetTexture(d, u, t) == Gl!SetTexture(d, u, t)
RestoreTextures(d) == Gl!RestoreTextures(d)
SetupTexture(d, t) == Gl!SetupTexture(d, t)
Create(d) == Gl!Create(d)
RecreateGLTexture(d, t) == Gl!RecreateGLTexture(d, t)
CopyTex(d, t) == Gl!CopyTex(d, t)
SetSampler(d, t) == Gl!SetSampler(d, t)
GLLTexSetFlags(d, t) == Gl!GLSDLTexSetFlags(d, t)

DetachImage(d, t, p) == Gl!DetachImage(d, t, p)
Detach(d, p) == Gl!Detach(d, p)
AttachImage(d, t, p) == Gl!AttachImage(d, t, p)
Attach(d, t, p) == Gl!Attach(d, t, p)
BindFramebuffer(d) == Gl!BindFramebuffer(d)
CheckDepthTarget(d) == Gl!CheckDepthTarget(d)

\* The worker is made after the device's own textures: their content is not sent to it.
StaticInit(d) == Gl!StaticInit(d)
InitDevice == BindFramebuffer(StaticInit(LoadDefaultStates))

BindShader(d, k, sh) == Gl!BindShader(d, k, sh)
SetShader(d, k, sh) == Gl!SetShader(d, k, sh)
SetShaderConstantsInternal(d, k, i, j, values) == Gl!SetShaderConstantsInternal(d, k, i, j, values)
ApplyShaderConstants(d) == Gl!ApplyShaderConstants(d)
SetView(d, m) == Gl!SetView(d, m)
SetProjection(d, m) == Gl!SetProjection(d, m)
SetModelView(d) == Gl!SetModelView(d)
ApplyTransforms(d) == Gl!ApplyTransforms(d)

\* Without SetScissor the clear goes to the whole target, whatever the viewport.
Clear(d, mask, color) ==
  [Gl!Clear(d, mask, color) EXCEPT !.st.scissor = d.st.scissor, !.ctx.scissor = d.ctx.scissor]
BlitFramebuffer(d, src) == Gl!BlitFramebuffer(d, src)
DrawRect(d) == Gl!DrawRect(d)
Swap(d) == Gl!Swap(d)

-----------------------------------------------------------------------------
(* With the worker                                                         *)

\* GLMipmap::DetachAll, of an image that was attached once.
DetachAll(d, t) ==
  LET checked == Gl!Checked(d, d.points[t] # {}, "DetachAll")
  IN FoldLeft(LAMBDA e, p : IF p \in d.points[t] THEN Detach(e, p) ELSE e,
              checked, <<"color", "depth", "stencil">>)

\* FreeTexture on the main thread: the images are detached, the rest is sent.
FreeTexture(d, t) == [d EXCEPT !.released = @ \cup {t}]

\* FreeTexture on the worker's: glDeleteTextures leaves the main context's units.
FreeOnWorker(d, t) == [d EXCEPT !.valid = @ \ {t}, !.image[t] = Nothing]

\* GLTexUnmap: content that the main thread has written goes to OpenGL.
Unmap(d, t, content) == [Gl!Checked(d, t \in d.valid, "Bind") EXCEPT !.image[t] = content]

\* Before the worker is waited for, and after.
GLLDrawBegin(d) == Gl!PrepareTarget(d)
GLLDrawEnd(d) == ApplyShaderConstants(Gl!DrawnPixel(Gl!DrawnVertex(d)))

\* ReleaseObject of both back buffers on the main thread; the rest is sent to the worker.
ReleaseBackBuffers(d) ==
  LET detached(e, t) == IF t = 0 THEN e ELSE FreeTexture(DetachAll(e, t), t)
  IN [detached(detached(d, d.backBuffer["color"]), d.backBuffer["depth"])
        EXCEPT !.backBuffer = [p \in Gl!Points |-> 0]]

\* For buffers of another size or format than those there are.
ClearFirst(d, first) == IF first THEN Clear(d, Gl!Everything, 0) ELSE d
ResetBackbuffer(d) ==
  LET released == BindFramebuffer(ReleaseBackBuffers(d))
      cleared == ClearFirst(released, d.backBuffer["color"] = 0)
  IN Clear(Gl!MakeDepthBuffer(Gl!MakeColorBuffer(cleared)), Gl!Everything, 0)

SetDisplay(d) == ResetBackbuffer(d)
=============================================================================
