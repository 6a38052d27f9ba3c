---------------------------- MODULE GLSDLDevice ----------------------------
(***************************************************************************)
(* The OpenGL device GLSDLDevice of src/gx/glsdl and the textures and      *)
(* framebuffers it draws with.  A device is a record d; a member function  *)
(* is an operator from the device before the call to the device after it,  *)
(* so a function that calls others is their composition, in the order of   *)
(* the code.  CGxDeviceGLSDL and CGxDeviceGLL call them.                   *)
(*                                                                         *)
(* The device remembers in m_States what it last told OpenGL (d.st) and    *)
(* leaves out calls that would change nothing.  What OpenGL has is d.ctx.  *)
(* They agree only if every function that changes one changes the other:   *)
(* Clear and BlitFramebuffer change OpenGL behind m_States and undo it,    *)
(* creating or uploading a texture binds it at whatever unit is active,    *)
(* and deleting a texture unbinds it in OpenGL.                            *)
(*                                                                         *)
(* A texture is its name, which is never given out twice: FreeTexture      *)
(* keeps the object (GLPool is a TODO).  Left out: sizes and formats,      *)
(* sampler states (but not the bindings made to set them), the list of     *)
(* textures by last use, which nothing reads (m_LastFrameUsed is 0 only    *)
(* after a release on macOS), cube maps (a TODO), stencil write masks,     *)
(* which nothing sets, the world transform, which is always the identity,  *)
(* and the vertex arrays (GxBuffers).                                      *)
(***************************************************************************)
EXTENDS GxTypes

CONSTANTS Names,     \* texture names, 1..n
          Nothing    \* content of a texture nothing was uploaded to

Points == {"color", "depth", "stencil"}
AllOn == <<TRUE, TRUE, TRUE, TRUE>>

\* LoadDefaultStates, before it tells OpenGL.
DefaultStates ==
  [depthTest |-> FALSE, depthFunc |-> "gequal", depthMask |-> TRUE, stencilTest |-> FALSE,
   cull |-> "ccw", viewport |-> "full", depthRange |-> <<0, 1>>,
   scissorTest |-> FALSE, scissor |-> "full", colorMask |-> AllOn,
   blend |-> FALSE, blendFunc |-> "one,zero", blendOp |-> "add",
   fog |-> FALSE, fogColor |-> 0, fogStart |-> 0, fogEnd |-> 1, fogDensity |-> 1,
   alphaTest |-> FALSE, alphaFunc |-> <<"always", 0>>, lighting |-> TRUE,
   clearColor |-> 0, clearDepth |-> 1, clearStencil |-> 0,
   vertex |-> FALSE, pixel |-> FALSE, vertexProgram |-> "none", pixelProgram |-> "none",
   framebuffer |-> 0, activeTexture |-> 0]

\* What a context of OpenGL starts with, where that is something else.
ContextDefaults == [DefaultStates EXCEPT !.depthFunc = "less", !.cull = "off", !.lighting = FALSE]

NewDevice ==
  [st |-> DefaultStates, ctx |-> ContextDefaults,
   textures |-> [u \in Units |-> 0],        \* m_Textures
   bound |-> [u \in Units |-> 0],           \* m_BoundTextures, m_States.binding.texture
   unit |-> [u \in Units |-> 0],            \* OpenGL's bindings
   stages |-> [t \in Names |-> {}],         \* boundStages of each texture
   valid |-> {},                            \* textures with m_Depth # 0
   image |-> [t \in Names |-> Nothing],     \* what OpenGL has in each texture
   next |-> 1,                              \* the next name
   shader |-> [k \in Targets |-> "none"],   \* m_VertexShader, m_PixelShader
   attached |-> [p \in Points |-> 0],       \* m_Attachments of the system target
   points |-> [t \in Names |-> {}],         \* attach point of each texture's image
   target |-> [p \in Points |-> 0],         \* m_CurrentTargetColor[0], -Depth, -Stencil
   depthBuffer |-> 0,                       \* m_CurrentDepthBuffer
   backBuffer |-> [p \in Points |-> 0],     \* m_BackBufferColor, -Depth, -Stencil
   consts |-> [k \in Targets |-> [i \in Indices |-> 0]],  \* m_States.shader
   env |-> [k \in Targets |-> [i \in Indices |-> 0]],     \* OpenGL's
   range |-> [k \in Targets |-> <<0, 0>>],  \* m_DirtyVertexShaderConsts, -Pixel-
   xform |-> [view |-> "identity", projection |-> <<"identity", 0>>,
              projectionDirty |-> TRUE, modelViewDirty |-> TRUE, status |-> "modelview"],
   glXform |-> [modelview |-> "identity", projection |-> <<"identity", 0>>],
   released |-> {},                         \* textures with m_LastFrameUsed = 0
   resent |-> <<>>,                         \* textures that RecreateGLTexture mapped and unmapped
   failed |-> {}]                           \* BLIZZARD_ASSERTs that failed

\* Parts of m_States.
Bindings == {"activeTexture", "framebuffer", "vertexProgram", "pixelProgram"}
DepthStates == {"depthTest", "depthFunc", "depthMask", "stencilTest"}
RasterizerStates == {"cull", "viewport", "depthRange", "scissorTest", "scissor"}
BlendStates == {"colorMask", "blend", "blendFunc", "blendOp"}
FixedStates == {"fogColor", "fogStart", "fogEnd", "fogDensity", "alphaTest", "alphaFunc", "lighting"}
ShaderStates == {"vertex", "pixel"}
ClearValues == {"clearColor", "clearDepth", "clearStencil"}

\* ApplyGLBindings and ApplyGLStates of m_States itself, by force: everything is sent,
\* but fogEnable only where m_States is not what is asked for, which is never.  The
\* transforms are then to be sent again.
SentToGL(d, states) == [d EXCEPT !.ctx = [s \in DOMAIN @ |-> IF s \in states THEN d.st[s] ELSE @[s]]]
ApplyGLBindings(d) == [SentToGL(d, Bindings) EXCEPT !.unit = d.bound]
ApplyGLStates(d) ==
  [SentToGL(d, DepthStates \cup RasterizerStates \cup BlendStates \cup FixedStates
               \cup ShaderStates \cup ClearValues)
     EXCEPT !.env = d.consts,
            !.xform = [@ EXCEPT !.modelViewDirty = TRUE, !.projectionDirty = TRUE],
            !.glXform = [modelview |-> d.xform.view,
                         projection |-> <<d.xform.projection[1], 1 - d.xform.projection[2]>>]]

LoadDefaultStates == ApplyGLStates(ApplyGLBindings(NewDevice))

Checked(d, holds, what) == IF holds THEN d ELSE [d EXCEPT !.failed = @ \cup {what}]

\* A setter: OpenGL is called when m_States differs.
Cached(d, s, v) == IF d.st[s] = v THEN d ELSE [d EXCEPT !.st[s] = v, !.ctx[s] = v]
\* A call of OpenGL that m_States does not learn of.
Gl(d, s, v) == [d EXCEPT !.ctx[s] = v]

-----------------------------------------------------------------------------
(* Setters                                                                 *)

SetActiveTexture(d, u) == Cached(d, "activeTexture", u)
SetAlphaBlend(d, func, op) == Cached(Cached(d, "blendFunc", func), "blendOp", op)
SetAlphaBlendEnable(d, on) == Cached(d, "blend", on)
SetAlphaTest(d, func, ref) == Cached(d, "alphaFunc", <<func, ref>>)
\* m_States is not written.
SetAlphaTestEnable(d, on) == IF d.st.alphaTest = on THEN d ELSE Gl(d, "alphaTest", on)
SetClearColor(d, c) == Cached(d, "clearColor", c)
SetClearDepth(d, z) == Cached(d, "clearDepth", z)
SetClearStencil(d, s) == Cached(d, "clearStencil", s)
SetColorWriteMask(d, mask) == Cached(d, "colorMask", mask)
SetCullMode(d, mode) == Cached(d, "cull", mode)
SetDepthTestEnable(d, on) == Cached(d, "depthTest", on)
SetDepthTestFunc(d, func) == Cached(d, "depthFunc", func)
SetDepthWriteMask(d, on) == Cached(d, "depthMask", on)
SetFogColor(d, c) == Cached(d, "fogColor", c)
SetFogEnable(d, on) == Cached(d, "fog", on)
SetFogParam(d, param, v) == Cached(d, param, v)
SetLightingEnable(d, on) == Cached(d, "lighting", on)
SetViewport(d, rect, range) == Cached(Cached(d, "viewport", rect), "depthRange", range)
\* scissorEnable is cleared here and set nowhere.
SetScissor(d, on, rect) ==
  IF on THEN Cached(IF d.st.scissorTest THEN Gl(d, "scissorTest", TRUE) ELSE d, "scissor", rect)
  ELSE Cached(d, "scissorTest", FALSE)

-----------------------------------------------------------------------------
(* Textures: GLTexture, BindTexture and SetTexture.  Texture 0 is nullptr. *)

Active(d) == d.st.activeTexture

\* GLTexture::Unbind
Unbind(d, t, u) == [Checked(d, u \in d.stages[t], "Unbind") EXCEPT !.stages[t] = @ \ {u}]

\* A texture that is bound again after it was released is made once more: its images
\* are mapped and unmapped.
RecreateGLTexture(d, t) == [d EXCEPT !.released = @ \ {t}, !.resent = Append(@, t)]

\* At the active unit, whose texture is told that it is no longer there.
UnbindUnit(d, u) == IF d.bound[u] = 0 THEN d ELSE Unbind(d, d.bound[u], u)
Recreated(d, t) == IF t \in d.released THEN RecreateGLTexture(d, t) ELSE d
BindTexture(d, t) ==
  LET u == Active(d) IN
  Recreated([UnbindUnit(Checked(d, d.bound[u] # t, "BindTexture"), u)
               EXCEPT !.bound[u] = t, !.unit[d.ctx.activeTexture] = t], t)

\* Wrong variant: the unit where the texture is already is not made active.
BindElsewhere(d, t, force) ==
  LET u == Active(d) IN
  IF u \in d.stages[t] \/ (~force /\ d.stages[t] # {}) THEN d
  ELSE BindTexture([d EXCEPT !.stages[t] = @ \cup {u}], t)

\* GLTexture::Bind.  Unless force, a unit where the texture is already will do.
BindAt(d, t, force) ==
  LET u == Active(d) IN
  IF u \in d.stages[t] THEN d
  ELSE IF ~force /\ d.stages[t] # {} THEN SetActiveTexture(d, Min(d.stages[t]))
  ELSE BindTexture([d EXCEPT !.stages[t] = @ \cup {u}], t)
Bind(d, t, force) == BindAt(Checked(d, t \in d.valid, "Bind"), t, force)

BindOrUnbind(d, t) == IF t = 0 THEN BindTexture(d, 0) ELSE Bind(d, t, TRUE)
TextureAt(d, u, t) == IF d.bound[u] = t THEN d ELSE BindOrUnbind(SetActiveTexture(d, u), t)
SetTexture(d, u, t) ==
  [TextureAt(Checked(d, t = 0 \/ t \in d.valid, "SetTexture"), u, t) EXCEPT !.textures[u] = t]

\* Every unit gets m_Textures' texture again, or none if that has been freed.
RestoreTexture(d, u) == SetTexture(d, u, IF d.textures[u] \in d.valid THEN d.textures[u] ELSE 0)
RestoreTextures(d) ==
  LET restored[i \in 0..NumUnits] == IF i = 0 THEN d ELSE RestoreTexture(restored[i - 1], i - 1)
  IN restored[NumUnits]

\* The new texture is bound to be set up.
SetupTexture(d, t) == Bind(d, t, FALSE)

\* GLTexture2D::Create
Create(d) == SetupTexture([d EXCEPT !.next = @ + 1, !.valid = @ \cup {d.next}], d.next)

\* glDeleteTextures takes the texture off the units; m_BoundTextures, the texture's
\* boundStages and the attachments of its images, which are deleted, stay.
FreeTexture(d, t) ==
  [d EXCEPT !.valid = @ \ {t},
            !.unit = [u \in Units |-> IF @[u] = t THEN 0 ELSE @[u]],
            !.image[t] = Nothing]

\* TexImage, TexSubImage: OpenGL stores into what is bound where it is active.
TexImage(d, content) ==
  LET u == d.unit[d.ctx.activeTexture]
  IN IF u = 0 THEN d ELSE [d EXCEPT !.image[u] = content]

\* GLMipmap::Unmap, of content that was written into what Map returned.
Unmap(d, t, content) == TexImage(Bind(d, t, FALSE), content)

\* The back buffer into a texture.
CopyTex(d, t) == TexImage(Bind(d, t, FALSE), "frame")

\* SetMagFilterMode and the like: the texture is bound to be told.
SetSampler(d, t) == Bind(d, t, FALSE)

\* At least one of the flags differs.
GLSDLTexSetFlags(d, t) == SetSampler(d, t)

\* The device's own textures, of which one stands for all, and then the window's framebuffer.
StaticInit(d) == Unmap(Create(d), d.next, "white")

-----------------------------------------------------------------------------
(* Framebuffers: GLFramebuffer and GLMipmap.  The only target is the       *)
(* window's (flag 4), whose name is 0: OpenGL is not told of attachments.  *)

\* GLMipmap::Detach
DetachImage(d, t, p) ==
  LET checked == Checked(d, t \in d.valid /\ p \in d.points[t], "GLMipmap::Detach")
  IN [checked EXCEPT !.points[t] = @ \ {p}]

\* GLFramebuffer::Detach
Detach(d, p) ==
  IF d.attached[p] = 0 THEN d
  ELSE [DetachImage(d, d.attached[p], p) EXCEPT !.attached[p] = 0]

\* GLMipmap::Attach.  Depth and stencil go together, anything else replaces.
AttachImage(d, t, p) ==
  LET old == d.points[t]
      pair == old \cup {p} = {"depth", "stencil"} /\ p \notin old
      freed == IF pair THEN {} ELSE old
  IN [Checked(d, old # {p}, "GLMipmap::Attach")
        EXCEPT !.attached = [q \in Points |-> IF q \in freed THEN 0 ELSE @[q]],
               !.points[t] = (old \ freed) \cup {p}]

\* GLFramebuffer::Attach
Attach(d, t, p) ==
  IF t = 0 THEN Detach(d, p)
  ELSE IF d.attached[p] = t THEN d
  ELSE AttachImage([Detach(d, p) EXCEPT !.attached[p] = t], t, p)

BindFramebuffer(d) == Cached(d, "framebuffer", 0)

\* Color and depth buffer are of one size: only the sizes of a target other than the
\* window's could differ.
TargetDepth(d) ==
  IF d.depthBuffer = 0 \/ d.target["depth"] = d.depthBuffer THEN d
  ELSE [Attach(Attach(d, d.depthBuffer, "depth"), d.depthBuffer, "stencil")
          EXCEPT !.target = [@ EXCEPT !["depth"] = d.depthBuffer, !["stencil"] = d.depthBuffer]]
CheckDepthTarget(d) ==
  TargetDepth(Checked(d, {d.target["color"], d.depthBuffer} \subseteq d.valid \cup {0},
                      "CheckDepthTarget"))

-----------------------------------------------------------------------------
(* Shaders and their constants                                             *)

Program(k) == IF k = "vertex" THEN "vertexProgram" ELSE "pixelProgram"

BindShader(d, k, sh) == Cached(d, Program(k), sh)

SetShader(d, k, sh) ==
  [Cached(IF sh = "none" THEN d ELSE BindShader(d, k, sh), k, sh # "none") EXCEPT !.shader[k] = sh]

\* Constants i .. j of k.  A range that was flushed starts at 0 again.
SetShaderConstantsInternal(d, k, i, j, values) ==
  LET start == d.range[k][1]
      end == d.range[k][2]
  IN [d EXCEPT !.consts[k] = [x \in Indices |-> IF x \in i..j THEN values[x] ELSE @[x]],
               !.range[k] = <<IF i < start THEN i ELSE start, IF j + 1 > end THEN j + 1 ELSE end>>]

\* Of one kind of shader, if there is one.
FlushConstants(d, k) ==
  IF d.shader[k] = "none" \/ d.range[k][1] = d.range[k][2] THEN d
  ELSE [d EXCEPT !.env[k] = [x \in Indices |-> IF d.range[k][1] <= x /\ x < d.range[k][2]
                                               THEN d.consts[k][x] ELSE @[x]],
                 !.range[k] = <<0, 0>>]
ApplyShaderConstants(d) == FlushConstants(FlushConstants(d, "vertex"), "pixel")

-----------------------------------------------------------------------------
(* Transforms, for drawing without a vertex shader.  A projection is a     *)
(* matrix and the number of times, modulo 2, it was turned upside down.    *)

SetView(d, m) ==
  IF d.xform.view = m THEN d
  ELSE [d EXCEPT !.xform = [@ EXCEPT !.view = m, !.modelViewDirty = TRUE]]
SetProjection(d, m) ==
  IF d.xform.projection = <<m, 0>> THEN d
  ELSE [d EXCEPT !.xform = [@ EXCEPT !.projection = <<m, 0>>, !.projectionDirty = TRUE]]

\* modelView.isDirty is set again, never cleared.
SetModelView(d) ==
  IF d.xform.status # "modelview" \/ d.xform.modelViewDirty
  THEN [d EXCEPT !.glXform.modelview = d.xform.view, !.xform.status = "modelview"]
  ELSE d

\* The projection is stored as it is sent: upside down.
SendProjection(d) ==
  LET turned == <<d.xform.projection[1], 1 - d.xform.projection[2]>>
  IN IF ~d.xform.projectionDirty THEN d
     ELSE [d EXCEPT !.xform = [@ EXCEPT !.projection = turned, !.projectionDirty = FALSE],
                    !.glXform.projection = turned]
ApplyTransforms(d) == SendProjection(SetModelView(d))

-----------------------------------------------------------------------------
(* Clearing, drawing and swapping                                          *)

\* A target that is bound at the active unit is taken off it.
Untexture(d, p) ==
  IF d.target[p] # 0 /\ d.bound[Active(d)] = d.target[p] THEN BindTexture(d, 0) ELSE d

\* glClear, with the viewport as scissor rectangle when it is not the whole target.
ClearViewport(d) ==
  IF d.st.viewport = "full" THEN d
  ELSE LET on == d.st.scissorTest
           rect == d.st.scissor
       IN SetScissor(SetScissor(d, TRUE, d.st.viewport), on, rect)

\* Green and blue change places when the mask is put back.
RestoreMask(d, mask) ==
  IF mask = <<>> THEN d ELSE SetColorWriteMask(d, <<mask[1], mask[3], mask[2], mask[4]>>)

\* Wrong variant: the depth mask stays on.
RestoreDepthUnmasked(d, parts) ==
  IF "depth" \in parts \/ d.target["depth"] = 0 THEN d ELSE Attach(d, d.target["depth"], "depth")

\* The depth mask is put back, or the depth buffer that was not to be cleared.
RestoreDepth(d, parts) ==
  IF "depth" \in parts
  THEN IF d.st.depthMask THEN d ELSE Gl(d, "depthMask", FALSE)
  ELSE IF d.target["depth"] = 0 THEN d ELSE Attach(d, d.target["depth"], "depth")

RestoreStencil(d, parts) ==
  IF "stencil" \in parts \/ d.target["stencil"] = 0 THEN d ELSE Attach(d, d.target["stencil"], "stencil")

\* What is not cleared is detached meanwhile.
UnmaskDepth(d) == IF d.st.depthMask THEN d ELSE Gl(d, "depthMask", TRUE)
PrepareColor(d, mask, color) ==
  IF "color" \notin mask THEN d
  ELSE SetClearColor(SetColorWriteMask(Untexture(d, "color"), AllOn), color)
PrepareDepth(d, mask) ==
  IF d.target["depth"] = 0 THEN d
  ELSE IF "depth" \notin mask THEN Detach(d, "depth")
  ELSE SetClearDepth(UnmaskDepth(Untexture(d, "depth")), 1)
PrepareStencil(d, mask) ==
  IF d.target["stencil"] = 0 THEN d
  ELSE IF "stencil" \notin mask THEN Detach(d, "stencil")
  ELSE SetClearStencil(Untexture(d, "stencil"), 0)

PrepareTarget(d) == RestoreTextures(CheckDepthTarget(d))

Clear(d, mask, color) ==
  LET parts == mask \ {p \in {"depth", "stencil"} : d.target[p] = 0}
      colored == PrepareColor(PrepareTarget(d), mask, color)
      cleared == ClearViewport(PrepareStencil(PrepareDepth(colored, mask), mask))
      masked == IF "color" \in mask THEN d.st.colorMask ELSE <<>>
  IN RestoreStencil(RestoreDepth(RestoreMask(cleared, masked), parts), parts)

\* Draw the texture src over the window: tests are switched off where m_States has them on.
Toggled == {"alphaTest", "depthTest", "blend", "scissorTest", "stencilTest"}
SwitchTests(d, on) ==
  [d EXCEPT !.ctx = [s \in DOMAIN @ |-> IF s \in Toggled /\ d.st[s] THEN on ELSE
                                        IF s = "cull" /\ d.st.cull # "off"
                                        THEN IF on THEN d.st.cull ELSE "off" ELSE @[s]]]
UseShaders(d, vertex, pixel) == SetShader(SetShader(d, "vertex", vertex), "pixel", pixel)
BlitFramebuffer(d, src) ==
  LET states == SwitchTests(Gl(Gl(d, "vertex", TRUE), "pixel", TRUE), FALSE)
      whole == Gl(Gl(Gl(states, "colorMask", AllOn), "framebuffer", 0), "viewport", "full")
      drawn == UseShaders(Bind(SetActiveTexture(whole, 0), src, TRUE), "blit", "blit")
      unset == UseShaders(drawn, d.shader["vertex"], d.shader["pixel"])
  IN Gl(Gl(SwitchTests(unset, TRUE), "colorMask", d.st.colorMask), "viewport", d.st.viewport)

DrawRect(d) ==
  IF d.backBuffer["color"] = 0 THEN d
  ELSE [BlitFramebuffer(d, d.backBuffer["color"]) EXCEPT !.st.framebuffer = 0, !.ctx.framebuffer = 0]

Swap(d) == DrawRect(CopyTex(d, d.backBuffer["color"]))

DrawnVertex(d) ==
  IF d.shader["vertex"] = "none" THEN ApplyTransforms(d) ELSE SetShader(d, "vertex", d.shader["vertex"])
DrawnPixel(d) ==
  IF d.shader["pixel"] = "none" THEN d ELSE SetShader(d, "pixel", d.shader["pixel"])
GLSDLDraw(d) == ApplyShaderConstants(DrawnPixel(DrawnVertex(PrepareTarget(d))))

-----------------------------------------------------------------------------
(* The back buffers                                                        *)

\* GLObject::Release.  The depth and stencil buffer are one texture with two references.
ReleaseBuffer(d, t) == IF t = 0 THEN d ELSE FreeTexture(d, t)
ReleaseBackBuffers(d) ==
  [ReleaseBuffer(ReleaseBuffer(d, d.backBuffer["color"]), d.backBuffer["depth"])
     EXCEPT !.backBuffer = [p \in Points |-> 0]]

\* The color buffer: made, attached and, since the system buffer is flipped, filled.
MakeColorBuffer(d) ==
  LET c == d.next
      made == [Create(d) EXCEPT !.backBuffer["color"] = c, !.target["color"] = c]
  IN CopyTex(SetViewport(Attach(made, c, "color"), "full", <<0, 1>>), c)

\* The depth and stencil buffer (GLTF_D24S8).
MakeDepthBuffer(d) ==
  LET z == d.next
      buffers(f) == [f EXCEPT !["depth"] = z, !["stencil"] = z]
      made == [Create(d) EXCEPT !.backBuffer = buffers(@), !.target = buffers(@)]
      attached == Attach(Attach(made, z, "stencil"), z, "depth")
  IN SetDepthTestEnable([attached EXCEPT !.depthBuffer = z], TRUE)

Everything == {"color", "depth", "stencil"}

ClearFirst(d, first) == IF first THEN Clear(d, Everything, 0) ELSE d
ResetBackbuffer(d) ==
  LET released == BindFramebuffer(ReleaseBackBuffers(d))
      cleared == ClearFirst(released, d.backBuffer["color"] = 0)
  IN Clear(MakeDepthBuffer(MakeColorBuffer(cleared)), Everything, 0)

InitDevice == BindFramebuffer(StaticInit(LoadDefaultStates))
SetDisplay(d) == ResetBackbuffer(d)
=============================================================================
