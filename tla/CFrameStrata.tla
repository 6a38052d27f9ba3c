---------------------------- MODULE CFrameStrata ----------------------------
(***************************************************************************)
(* What the interface draws (ui/CFrameStrata, CSimpleRegion, CSimpleTexture*)
(* CRenderBatch and the drawing side of CSimpleFrame). Visible frames hang *)
(* in a list per stratum and level; a level keeps one batch per draw layer,*)
(* made of the regions of its frames, and makes it again only when the     *)
(* layer is marked dirty. The operators map a state u of the interface to  *)
(* the next one; CSimpleTop uses them.                                     *)
(***************************************************************************)
EXTENDS Integers, Sequences, SequencesExt

CONSTANTS Frames,           \* frames
          TextureRegions,   \* textures that frames may own
          LayerOf,          \* the draw layer each of them is made for
          Strata,           \* strata, lowest first, as a sequence
          MaxLevel,         \* largest frame level
          null

Layers == {"artwork", "highlight"}
Levels == 0..MaxLevel
StrataSet == {Strata[i] : i \in DOMAIN Strata}
EmptyNode == [frames |-> <<>>, pendingFrames |-> <<>>, pendingFrame |-> null,
              dirty |-> {}, batches |-> [k \in Layers |-> {}]]

Without(list, x) == SelectSeq(list, LAMBDA y : y # x)
Listed(list, x) == \E i \in DOMAIN list : list[i] = x
NextIn(list, x) ==
  LET i == CHOOSE i \in DOMAIN list : list[i] = x
  IN IF i = Len(list) THEN null ELSE list[i + 1]

----------------------------------------------------------------------------
(* Frames in their levels *)

NodeOf(u, f) == u.nodes[u.strata[f]][u.level[f]]
IsLinked(u, f) ==
  \E s \in StrataSet, l \in Levels :
    Listed(u.nodes[s][l].frames, f) \/ Listed(u.nodes[s][l].pendingFrames, f)

\* A frame becomes visible: it joins its level, or, while the level updates, those waiting.
Joined(n, f) ==
  IF n.pendingFrame = null THEN [n EXCEPT !.frames = Append(@, f), !.dirty = Layers]
  ELSE [n EXCEPT !.pendingFrames = Append(@, f), !.dirty = Layers]
AddFrame(u, f) ==
  LET s == u.strata[f]
      l == u.level[f]
      n == IF IsLinked(u, f) THEN u.nodes[s][l] ELSE Joined(u.nodes[s][l], f)
  IN [u EXCEPT !.nodes[s][l] = n,
               !.topLevel[s] = IF l >= @ THEN l + 1 ELSE @,
               !.batchDirty[s] = @ \/ n.dirty # {}]

Left(n, f) ==
  [n EXCEPT !.pendingFrame = IF @ = f THEN NextIn(n.frames, f) ELSE @,
            !.frames = Without(@, f), !.pendingFrames = Without(@, f), !.dirty = Layers]
\* Drawn without the frame that left it: the wrong variant for RemoveFrame.
RemoveFrameQuietly(u, f) ==
  IF ~IsLinked(u, f) THEN u
  ELSE [u EXCEPT !.nodes[u.strata[f]][u.level[f]] = [Left(@, f) EXCEPT !.dirty = NodeOf(u, f).dirty]]

RemoveFrame(u, f) ==
  IF ~IsLinked(u, f) THEN u
  ELSE [u EXCEPT !.nodes[u.strata[f]][u.level[f]] = Left(@, f), !.batchDirty[u.strata[f]] = TRUE]

----------------------------------------------------------------------------
(* Regions in the draw layers of their frame *)

NotifyFrameLayerChanged(u, f, k) ==
  [u EXCEPT !.nodes[u.strata[f]][u.level[f]].dirty = @ \cup {k}, !.batchDirty[u.strata[f]] = TRUE]
NotifyDrawLayerChanged(u, f, k) == IF u.visible[f] THEN NotifyFrameLayerChanged(u, f, k) ELSE u
EnableDrawLayer(u, f, k) == NotifyDrawLayerChanged([u EXCEPT !.drawEnabled[f][k] = TRUE], f, k)
DisableDrawLayer(u, f, k) == NotifyDrawLayerChanged([u EXCEPT !.drawEnabled[f][k] = FALSE], f, k)

AddFrameRegion(u, f, r) ==
  NotifyDrawLayerChanged([u EXCEPT !.drawLayers[f][LayerOf[r]] = Append(@, r)], f, LayerOf[r])
RemoveFrameRegion(u, f, r) ==
  NotifyDrawLayerChanged([u EXCEPT !.drawLayers[f][LayerOf[r]] = Without(@, r)], f, LayerOf[r])

RegionHideThis(u, r) ==
  IF u.region[r].visible
  THEN [RemoveFrameRegion(u, u.region[r].parent, r) EXCEPT !.region[r].visible = FALSE]
  ELSE u
RegionHide(u, r) == RegionHideThis([u EXCEPT !.region[r].shown = FALSE], r)
RegionShowThis(u, r) ==
  LET g == u.region[r]
  IN IF g.shown /\ g.parent # null /\ ~g.visible /\ u.visible[g.parent]
     THEN [AddFrameRegion(u, g.parent, r) EXCEPT !.region[r].visible = TRUE]
     ELSE u
RegionShow(u, r) == RegionShowThis([u EXCEPT !.region[r].shown = TRUE], r)
OnRegionChanged(u, r) ==
  IF u.region[r].visible THEN NotifyDrawLayerChanged(u, u.region[r].parent, LayerOf[r]) ELSE u

Unregistered(u, r) ==
  IF u.region[r].parent = null THEN u
  ELSE [RegionHideThis(u, r) EXCEPT !.regions[u.region[r].parent] = Without(@, r)]
ShowIf(u, r, show) == IF show THEN RegionShow(u, r) ELSE RegionHide(u, r)
Registered(u, r, f) == [u EXCEPT !.region[r].parent = f, !.regions[f] = Append(@, r)]
SetFrame(u, r, f, show) ==
  CASE u.region[r].parent = f -> IF show = u.region[r].shown THEN u ELSE ShowIf(u, r, show)
    [] u.region[r].parent # f /\ f # null -> ShowIf(Registered(Unregistered(u, r), r, f), r, show)
    [] OTHER -> [Unregistered(u, r) EXCEPT !.region[r].parent = null]

\* A texture's image, its tint (only the first one makes the batch again: the mesh
\* points at the colour) and its blending.
SetTexture(u, r, t) ==
  IF u.region[r].texture = t THEN u ELSE OnRegionChanged([u EXCEPT !.region[r].texture = t], r)
SetVertexColor(u, r, c) ==
  LET before == u.region[r].color
      after == [u EXCEPT !.region[r].color = c]
  IN IF before = c \/ (before = "none" /\ c = "white") THEN u
     ELSE IF before = "none" THEN OnRegionChanged(after, r) ELSE after
SetBlendMode(u, r, b) ==
  IF u.region[r].blend = b THEN u ELSE OnRegionChanged([u EXCEPT !.region[r].blend = b], r)
\* delete: the image is closed and the frame forgets the texture.
NoRegion == [parent |-> null, shown |-> FALSE, visible |-> FALSE,
             texture |-> null, color |-> "none", blend |-> "Alpha"]
Deleted(u, r) == [SetFrame(u, r, null, FALSE) EXCEPT !.region[r] = NoRegion]

----------------------------------------------------------------------------
(* Batches *)

\* What a batch keeps of a texture: the image and blending as they were, a pointer to
\* the colour if there was one.
Mesh(u, r) == [region |-> r, texture |-> u.region[r].texture, blend |-> u.region[r].blend,
               tinted |-> u.region[r].color # "none"]
QueueTexture(u, r) == IF u.region[r].texture = null THEN {} ELSE {Mesh(u, r)}
OnFrameRender(u, f, k) ==
  IF u.drawEnabled[f][k] THEN UNION {QueueTexture(u, r) : r \in ToSet(u.drawLayers[f][k])} ELSE {}
BatchOf(u, n, k) == UNION {OnFrameRender(u, f, k) : f \in ToSet(n.frames)}

BuildNode(u, n) ==
  [n EXCEPT !.dirty = {},
            !.batches = [k \in Layers |-> IF k \in n.dirty THEN BatchOf(u, n, k) ELSE @[k]]]
BuildBatches(u, s) ==
  IF ~u.batchDirty[s] THEN u
  ELSE [u EXCEPT !.batchDirty[s] = FALSE,
                 !.nodes[s] = [l \in Levels |-> IF l < u.topLevel[s] THEN BuildNode(u, @[l]) ELSE @[l]]]

(* A batch that nothing marks dirty is the one that would be made now: no  *)
(* mesh of an image that was closed, no region missing, none of a frame    *)
(* that was hidden or moved.                                               *)
Current(u) ==
  \A s \in StrataSet, l \in Levels :
    LET n == u.nodes[s][l]
    IN /\ n.dirty # {} => u.batchDirty[s]
       /\ \A k \in Layers \ n.dirty : n.batches[k] = BatchOf(u, n, k)
=============================================================================
