------------------------------ MODULE GxBuffers ------------------------------
(***************************************************************************)
(* Vertex and index buffers: CGxBuf and CGxPool of src/gx, the GLBuffer of *)
(* each pool, and the drawing code that fills buffers and draws with them  *)
(* (interface, text, models, console, cursor), on CGxDeviceGLSDL.          *)
(*                                                                         *)
(* What is drawn every frame goes through two stream pools, one for        *)
(* vertices and one for indices.  Each lock hands out the next part of     *)
(* the pool; when that does not fit the GLBuffer gets new storage and the  *)
(* pool starts again.  OpenGL still reads what was drawn before, so a part *)
(* must not be handed out twice before that.  Models and the indices of    *)
(* text have pools of their own, which are filled once.                    *)
(*                                                                         *)
(* Every pool has one CGxBuf.  The buffers are a record g; a member        *)
(* function is an operator from g before the call to g after it.           *)
(* Left out: unk1D, which is 1 from the constructor on, and unk1F, which   *)
(* nothing reads.                                                          *)
(***************************************************************************)
EXTENDS Integers, Sequences

CONSTANTS VertexPoolSize, IndexPoolSize,  \* s_streamPoolSize
          MeshSizes,                      \* vertices and indices of interface meshes
          TextCapacity,                   \* vertices that text locks at once (2048)
          MaxSize, Objects                \* bounds: bytes of a pool, GLBuffers

StreamPools == {"Stream_vtx", "Stream_idx"}
Pools == StreamPools \cup {"model_vtx", "model_idx", "font_idx"}
IndexPools == {"Stream_idx", "model_idx", "font_idx"}

\* s_vertexBufDesc: attributes by slot, 1 and 2 being bone weights and indices, and size.
Slots == [PC |-> {0, 4}, PCT |-> {0, 4, 6}, PBNT2 |-> {0, 1, 2, 3, 6, 7}]
SizeOf == [PC |-> 3, PCT |-> 2, PBNT2 |-> 2]
Unbuilt == {}

Bytes == 0..(MaxSize - 1)
Part(offset, size) == offset..(offset + size - 1)

NoObject == [live |-> FALSE, size |-> 0, mapped |-> FALSE, content |-> [b \in Bytes |-> "none"], reading |-> {}]
NewObject(size) == [NoObject EXCEPT !.live = TRUE, !.size = size]

(* What is locked fits into MaxSize bytes, and there is an object for each *)
(* pool and for each time that a stream grows.                             *)
ASSUME BufferAssumption ==
  /\ MaxSize \in Nat /\ VertexPoolSize \in 0..MaxSize /\ IndexPoolSize \in 0..MaxSize
  /\ TextCapacity \in Nat \ {0} /\ TextCapacity * SizeOf["PCT"] <= MaxSize /\ SizeOf["PC"] <= MaxSize
  /\ MeshSizes \subseteq Nat \ {0} /\ \A n \in MeshSizes : n * SizeOf["PCT"] <= MaxSize
  /\ Objects \subseteq Nat \ {0}
  /\ 1..(5 + (MaxSize - VertexPoolSize) + (MaxSize - IndexPoolSize)) \subseteq Objects

VARIABLE g

bufferVars == <<g>>

Start ==
  [pool |-> [p \in Pools |-> [size |-> CASE p = "Stream_vtx" -> VertexPoolSize
                                         [] p = "Stream_idx" -> IndexPoolSize
                                         [] OTHER -> TextCapacity,
                              next |-> 0, gl |-> 0]],
   buf |-> [p \in Pools |-> [item |-> 1, size |-> IF p \in StreamPools THEN 0 ELSE TextCapacity,
                             index |-> 0, filled |-> FALSE, changed |-> FALSE]],
   object |-> [n \in Objects |-> NoObject], next |-> 1,
   primIndexBuf |-> "none", primIndexDirty |-> FALSE,
   primVertexBuf |-> "none", primFormat |-> "none",
   glFormats |-> [f \in DOMAIN Slots |-> Unbuilt],
   indexBuffer |-> 0, vertexBuffer |-> 0, vertexOffset |-> 0, vertexFormat |-> {},
   enabled |-> [shader |-> {}, fixed |-> {}],
   failed |-> {}]

BuffersInit == g = Start

Checked(h, holds, what) == IF holds THEN h ELSE [h EXCEPT !.failed = @ \cup {what}]

-----------------------------------------------------------------------------
(* GLBuffer and CGxPool                                                    *)

CreateBuffer(h, p) ==
  [h EXCEPT !.object[h.next] = NewObject(h.pool[p].size), !.pool[p].gl = h.next, !.next = @ + 1]

\* GLMap_Unk2 gives the buffer new storage.
Map(h, n, offset, size, orphan) ==
  LET right == /\ h.object[n].live /\ offset + size <= h.object[n].size
               /\ ~h.object[n].mapped
               /\ orphan => offset = 0
  IN [Checked(h, right, "Map")
        EXCEPT !.object[n] = [(IF orphan THEN NewObject(@.size) ELSE @) EXCEPT !.mapped = TRUE]]

Unmap(h, n) == [Checked(h, h.object[n].mapped, "Unmap") EXCEPT !.object[n].mapped = FALSE]

Discard(h, p) == [h EXCEPT !.buf[p].filled = FALSE, !.pool[p].next = 0]

PoolSizeSet(h, p, size) ==
  LET n == h.pool[p].gl
      deleted == IF n = 0 THEN h ELSE [h EXCEPT !.object[n] = NoObject]
  IN CreateBuffer([deleted EXCEPT !.pool[p].next = 0, !.pool[p].size = size], p)

-----------------------------------------------------------------------------
(* CGxDevice and CGxDeviceGLSDL                                            *)

BufStream(h, p, item, count) ==
  LET size == item * count
      grown == IF h.pool[p].size < size THEN PoolSizeSet(h, p, size) ELSE h
  IN [grown EXCEPT !.buf[p] = [@ EXCEPT !.item = item, !.size = size, !.filled = FALSE]]

\* Wrong variant: the next part starts where the last one did.
AlignedTwice(h, p) == LET v == h.buf[p].index + h.buf[p].item - 1 IN v - (v % h.buf[p].item)

\* pool->unk1C rounded up to the next item.
AlignedNext(h, p) == LET v == h.pool[p].next + h.buf[p].item - 1 IN v - (v % h.buf[p].item)

\* CGxDevice::BufLock and IBufLock.  A stream hands out its next part, or starts again.
Take(h, p, index, full) ==
  IF p \notin StreamPools THEN h
  ELSE [(IF full THEN Discard(h, p) ELSE h) EXCEPT !.buf[p].index = index,
                                                   !.pool[p].next = index + h.buf[p].size]
Created(h, p) == IF h.pool[p].gl = 0 THEN CreateBuffer(h, p) ELSE h
MapOf(h, p, orphan) == Map(h, h.pool[p].gl, h.buf[p].index, h.buf[p].size, orphan)
MapPool(h, p, orphan) == MapOf(Created(h, p), p, orphan)
BufLock(h, p) ==
  LET next == AlignedNext(h, p)
      full == p \in StreamPools /\ next + h.buf[p].size > h.pool[p].size
      index == IF p \notin StreamPools THEN h.buf[p].index ELSE IF full THEN 0 ELSE next
  IN MapPool(Take([h EXCEPT !.buf[p].changed = TRUE], p, index, full), p, full)

\* BufUnlock and IBufUnlock; GxBufUnlock also marks the buffer as filled.
BufUnlock(h, p) == Unmap(h, h.pool[p].gl)
GxBufUnlock(h, p) == [BufUnlock(h, p) EXCEPT !.buf[p].filled = TRUE]

\* Drawing code writes size bytes of the locked part, where OpenGL must not be reading.
Write(h, p, size, what) ==
  LET n == h.pool[p].gl
      part == Part(h.buf[p].index, size)
  IN [Checked(h, h.object[n].reading \cap part = {}, "Overwritten")
        EXCEPT !.object[n].content = [b \in Bytes |-> IF b \in part THEN what ELSE @[b]]]

PrimIndexPtr(h, p) ==
  IF ~h.buf[p].changed /\ h.primIndexBuf = p THEN h
  ELSE [h EXCEPT !.buf[p].changed = FALSE, !.primIndexDirty = TRUE, !.primIndexBuf = p]

\* PrimVertexFormat, PrimVertexMask and PrimVertexPtr: m_primVertexDirty is not looked at.
GxPrimVertexPtr(h, p, format) ==
  [h EXCEPT !.buf[p].changed = FALSE, !.primVertexBuf = p, !.primFormat = format]

\* A vertex format is put together when it is first drawn with.
IStateSyncVertexPtrs(h) ==
  LET f == h.primFormat
      built == IF h.glFormats[f] # Unbuilt THEN h.glFormats[f] ELSE Slots[f]
  IN [h EXCEPT !.glFormats[f] = built, !.vertexFormat = built,
               !.vertexBuffer = h.pool[h.primVertexBuf].gl,
               !.vertexOffset = h.buf[h.primVertexBuf].index]

IStateSyncIndexPtr(h) ==
  IF ~h.primIndexDirty THEN h
  ELSE [h EXCEPT !.primIndexDirty = FALSE, !.indexBuffer = h.pool[h.primIndexBuf].gl]

\* Wrong variant: arrays of the format before stay on.
AddVertexFormat(h, shader) ==
  IF shader THEN [h EXCEPT !.enabled.shader = @ \cup h.vertexFormat]
  ELSE [h EXCEPT !.enabled.fixed = @ \cup (h.vertexFormat \ {1, 2})]

\* GLVertexArray::ApplyVertexFormat.  Without a vertex shader there are no bones.
ApplyVertexFormat(h, shader) ==
  IF shader THEN [h EXCEPT !.enabled.shader = h.vertexFormat]
  ELSE [h EXCEPT !.enabled.fixed = h.vertexFormat \ {1, 2}]

\* OpenGL reads size bytes of an object, which should be what was written for this draw.
Reads(h, n, offset, size, what) ==
  LET right == /\ h.object[n].live /\ ~h.object[n].mapped
               /\ \A b \in Part(offset, size) : h.object[n].content[b] = what
  IN [Checked(h, right, "Read") EXCEPT !.object[n].reading = @ \cup Part(offset, size)]

\* The index buffer still exists, and the arrays that are on are those of the format.
CheckDraw(h, shader) ==
  LET arrays == IF shader THEN h.enabled.shader = Slots[h.primFormat]
                ELSE h.enabled.fixed = Slots[h.primFormat] \ {1, 2}
  IN Checked(h, arrays /\ (h.indexBuffer # 0 => h.object[h.indexBuffer].live), "Draw")
ReadVertices(h, size, what) == Reads(h, h.vertexBuffer, h.vertexOffset, size, what)
ReadIndices(h, size, what) ==
  IF size = 0 THEN h ELSE Reads(h, h.indexBuffer, h.buf[h.primIndexBuf].index, size, what)

\* CGxDeviceGLSDL::Draw of v bytes of vertices and i of indices, 0 if not indexed, with
\* the contents they should have.
GxDraw(h, shader, v, i, vertices, indices) ==
  LET s == ApplyVertexFormat(IStateSyncIndexPtr(IStateSyncVertexPtrs(h)), shader)
  IN ReadIndices(ReadVertices(CheckDraw(s, shader), v, vertices), i, indices)

-----------------------------------------------------------------------------
(* Drawing code.  A draw or a batch is one call.                           *)

\* What was written for the last draw is old.
Aged(o) == [o EXCEPT !.content = [b \in Bytes |-> IF @[b] = "new" THEN "old" ELSE @[b]]]
Begin == [g EXCEPT !.object = [n \in Objects |-> Aged(@[n])]]

Fill(h, p, size, what) == GxBufUnlock(Write(BufLock(h, p), p, size, what), p)

\* CSimpleRender::DrawBatch, of one mesh: both streams are locked at a time.
DrawMesh(pos, idx) ==
  LET v == BufLock(BufStream(Begin, "Stream_vtx", SizeOf["PCT"], pos), "Stream_vtx")
      i == BufLock(BufStream(v, "Stream_idx", 1, idx), "Stream_idx")
      w == Write(Write(i, "Stream_vtx", SizeOf["PCT"] * pos, "new"), "Stream_idx", idx, "new")
      u == GxBufUnlock(GxBufUnlock(w, "Stream_vtx"), "Stream_idx")
  IN g' = GxDraw(PrimIndexPtr(GxPrimVertexPtr(u, "Stream_vtx", "PCT"), "Stream_idx"), TRUE,
               SizeOf["PCT"] * pos, idx, "new", "new")

\* UnlockVertexPtrAndRender: the indices are filled once, the stream is locked again
\* after the draw.
UnlockVertexPtrAndRender(h, count) ==
  LET size == SizeOf["PCT"] * count
      u == GxBufUnlock(Write(h, "Stream_vtx", size, "new"), "Stream_vtx")
      i == IF u.buf["font_idx"].filled THEN u ELSE Fill(u, "font_idx", TextCapacity, "quads")
      p == PrimIndexPtr(GxPrimVertexPtr(i, "Stream_vtx", "PCT"), "font_idx")
  IN BufLock(GxDraw(p, TRUE, size, count, "new", "quads"), "Stream_vtx")

\* BATCHEDRENDERFONTDESC::RenderBatch, of batches of so many vertices.
RenderBatch(counts) ==
  LET locked == BufLock(BufStream(Begin, "Stream_vtx", SizeOf["PCT"], TextCapacity), "Stream_vtx")
      after[i \in 0..Len(counts)] ==
        IF i = 0 THEN locked ELSE UnlockVertexPtrAndRender(after[i - 1], counts[i])
  IN g' = BufUnlock(after[Len(counts)], "Stream_vtx")

\* CM2Shared::SetVertices and SetIndices; the model is always the same.
DrawModel ==
  LET filled(h, p) == IF h.buf[p].filled THEN h ELSE Fill(h, p, TextCapacity, "model")
      v == GxPrimVertexPtr(filled(Begin, "model_vtx"), "model_vtx", "PBNT2")
      i == PrimIndexPtr(filled(v, "model_idx"), "model_idx")
  IN g' = GxDraw(i, TRUE, TextCapacity, TextCapacity, "model", "model")

\* The console: GxPrimLockVertexPtrs and GxDrawLockedElements, without a shader.
DrawLocked(count, idx) ==
  LET size == SizeOf["PC"] * count
      v == Fill(BufStream(Begin, "Stream_vtx", SizeOf["PC"], count), "Stream_vtx", size, "new")
      i == Fill(BufStream(GxPrimVertexPtr(v, "Stream_vtx", "PC"), "Stream_idx", 1, idx), "Stream_idx", idx, "new")
  IN g' = GxDraw(PrimIndexPtr(i, "Stream_idx"), FALSE, size, idx, "new", "new")

\* CGxDevice::ICursorDraw, without indices.
ICursorDraw ==
  LET v == Fill(BufStream(Begin, "Stream_vtx", SizeOf["PCT"], 1), "Stream_vtx", SizeOf["PCT"], "new")
  IN g' = GxDraw(GxPrimVertexPtr(v, "Stream_vtx", "PCT"), TRUE, SizeOf["PCT"], 0, "new", "none")

BuffersNext ==
  \/ \E pos, idx \in MeshSizes : DrawMesh(pos, idx)
  \/ \E counts \in {<<1>>, <<1, TextCapacity \div SizeOf["PCT"]>>} : RenderBatch(counts)
  \/ DrawModel
  \/ \E idx \in MeshSizes : DrawLocked(1, idx)
  \/ ICursorDraw

BuffersSpec == BuffersInit /\ [][BuffersNext]_bufferVars

-----------------------------------------------------------------------------
(* Properties                                                              *)

(* A draw reads what its own code has written, from a buffer that exists   *)
(* and is not mapped; no part of a stream is handed out while OpenGL may   *)
(* still read it; the vertex arrays that are on are those of the draw's    *)
(* format, with and without a shader; and no BLIZZARD_ASSERT of GLBuffer   *)
(* fails, whatever was drawn before and whenever a pool was grown,         *)
(* discarded or filled.                                                    *)
BuffersAreSound == g.failed = {}
=============================================================================
