------------------------------ MODULE Textures ------------------------------
(***************************************************************************)
(* Textures made of files and of colours: the cache that shares them, the  *)
(* handles by which they are held, and the way the levels of a file get    *)
(* into the device.                                                        *)
(*                                                                         *)
(* PumpBlpTextureAsync has the device fetch the levels at once, through    *)
(* s_mipBits, an array of pointers shared by all textures which point into *)
(* the buffer of the file that is being read and is freed afterwards.  A   *)
(* level is <<file, level>>.  Textures are held by the regions of the      *)
(* interface (CSimpleTexture) and by models (CM2Shared).                   *)
(*                                                                         *)
(* Left out: TGA files, cube maps, atlases, substitution and asynchronous  *)
(* creation, all TODO in Texture.cpp; files with palettes, whose levels    *)
(* MippedImgSet places at an address it reads from uninitialised memory;   *)
(* the device is one of the OpenGL ones, which always have a context.      *)
(***************************************************************************)
EXTENDS Integers, FiniteSets

CONSTANTS Requests,     \* of regions: names of files, without the extension, and wrap
          ModelNames,   \* of the files models ask for; "" is none
          Header,       \* the header and the number of levels of each file there is
          Colours,
          Regions, Models,
          Ids,          \* CTexture objects, 1, 2, ...
          MaxSize,      \* m_texMaxSize of the device
          FewLevels,    \* a texture less wide than that is not filtered without levels (256)
          Compressed    \* m_texFmt: the DXT formats the device has

VARIABLES tex,       \* the CTextures
          mipBits,   \* s_mipBits
          region,    \* m_texture of a CSimpleTexture and what it was last given
          model      \* textures[0] of a CM2Shared

vars == <<tex, mipBits, region, model>>

FileNames == {q[1] : q \in Requests}
Dxt == {"Dxt1", "Dxt3", "Dxt5"}
Levels == 0 .. 15
AtLeast1(n) == IF n < 1 THEN 1 ELSE n
AtLeast4(n) == IF n < 4 THEN 4 ELSE n
ShiftedBy(n, k) == n \div 2 ^ k
None == 0
Unused == [alive |-> FALSE, refs |-> 0, name |-> "", flags |-> <<"Linear", FALSE>>, cached |-> <<>>, opaque |-> FALSE, bestMip |-> 0,
           width |-> 0, height |-> 0, format |-> "Unknown", dataFormat |-> "Unknown",
           shows |-> <<>>]

----------------------------------------------------------------------------
(* Sizes of levels *)

RECURSIVE LevelCount(_, _)
LevelCount(w, h) == IF w <= 1 /\ h <= 1 THEN 1 ELSE 1 + LevelCount(AtLeast1(w \div 2), AtLeast1(h \div 2))
CalcLevelCount(w, h) == LevelCount(IF w = 6 * h THEN w \div 6 ELSE w, h)
TextureCalcMipCount(w, h) == LevelCount(w, h)

GetBitDepth(format) ==
  CASE format = "Dxt1" -> 4 [] format \in {"Dxt3", "Dxt5", "A8"} -> 8 [] format = "Argb8888" -> 32
    [] format \in {"Argb1555", "Argb4444", "Rgb565"} -> 16 [] OTHER -> 0

\* In bytes; compressed levels are of whole blocks of four by four.
CalcLevelSize(level, w, h, format) ==
  LET lw == AtLeast1(ShiftedBy(w, level))
      lh == AtLeast1(ShiftedBy(h, level))
      bw == IF format \notin Dxt THEN lw ELSE IF lw = 6 * lh THEN 6 * AtLeast4(lh) ELSE AtLeast4(lw)
      bh == IF format \notin Dxt THEN lh ELSE AtLeast4(lh)
  IN  IF format = "Argb2565" THEN AtLeast1((lw * lh) \div 4) + 2 * lw * lh
      ELSE (bw * bh * GetBitDepth(format)) \div 8

GxCalcTexelStrideInBytes(format, w) ==
  LET block == IF format = "Dxt1" THEN 8 ELSE 16
  IN  IF format \in Dxt THEN (IF (w \div 4) * block < block THEN block ELSE (w \div 4) * block)
      ELSE (w * GetBitDepth(format)) \div 8

\* Halved until the device takes it.
RECURSIVE RequestImageDimensions(_, _, _)
RequestImageDimensions(w, h, bestMip) ==
  IF w <= MaxSize /\ h <= MaxSize THEN [width |-> w, height |-> h, bestMip |-> bestMip]
  ELSE RequestImageDimensions(AtLeast1(w \div 2), AtLeast1(h \div 2), bestMip + 1)

\* The format of the file's data and the one of the texture.
GetTextureFormats(preferred, alpha) ==
  CASE preferred \in Dxt ->
         LET f == IF preferred \in Compressed THEN preferred
                  ELSE IF preferred # "Dxt1" THEN "Argb4444"
                  ELSE IF alpha # 0 THEN "Argb1555" ELSE "Rgb565"
         IN  [pix |-> f, gx |-> f]
    [] preferred \in {"Argb8888", "Argb1555", "Argb4444", "Rgb565"} ->
         [pix |-> "Argb8888", gx |-> preferred]
    [] OTHER -> [pix |-> "Argb8888",
                 gx |-> CASE alpha = 0 -> "Rgb565" [] alpha = 1 -> "Argb1555"
                          [] alpha = 4 -> "Argb4444" [] OTHER -> "Argb8888"]

----------------------------------------------------------------------------
(* The device's side *)

RECURSIVE Halvings(_, _)
Halvings(n, until) == IF n <= until THEN 0 ELSE 1 + Halvings(n \div 2, until)

\* ITexWHDStartEnd: the levels a texture has (m_baseMipLevel is 0).
MipCount(t) ==
  IF t.flags[1] \in {"Nearest", "Linear"} THEN 1
  ELSE IF t.format \in Dxt
       THEN 1 + Halvings(IF t.width < t.height THEN t.width ELSE t.height, 4)
       ELSE 1 + Halvings(IF t.width < t.height THEN t.height ELSE t.width, 1)

\* The callback's Latch: where the level is, in the file that is in memory.
UpdateBlpTextureAsync(t, bits, level, file) ==
  [from |-> IF bits[level][1] = file THEN bits[level] ELSE <<"freed", level>>,
   stride |-> GxCalcTexelStrideInBytes(t.dataFormat, ShiftedBy(t.width, level))]
ITexUpload(t, bits, file) ==
  [t EXCEPT !.shows = [l \in 0 .. MipCount(t) - 1 |-> UpdateBlpTextureAsync(t, bits, l, file)]]

\* GxuUpdateSingleColorTexture fills its one image before it gives it away.
GxuUpdateSingleColorTexture(t, colour) ==
  [t EXCEPT !.shows = [l \in {0} |-> [from |-> <<colour, 0>>,
                                      stride |-> GxCalcTexelStrideInBytes("Argb8888", 8)]]]

\* What GxTexCreate asserts.
Creatable(w, h) == /\ w >= 8 /\ h >= 8 /\ w <= MaxSize /\ h <= MaxSize
                   /\ \E k \in Levels : w = 2 ^ k
                   /\ \E k \in Levels : h = 2 ^ k

----------------------------------------------------------------------------
(* Reading a file *)

\* Levels come from the file as they are; else they would have to be unpacked.
IsValidMip(header, level) == level = 0 \/ (header.mips /\ level < CalcLevelCount(header.width, header.height))
AsStored(header, format) ==
  header.encoding = "raw" \/ (header.encoding = "dxt" /\ format \in Dxt)
MippedImgSet(bits, header, level) ==
  LET count == CalcLevelCount(AtLeast1(ShiftedBy(header.width, level)), AtLeast1(ShiftedBy(header.height, level)))
  IN  [l \in Levels |-> IF l < count THEN <<"nowhere", l>> ELSE bits[l]]
\* A mutant: the first level is left where the last file put it.
LockChainSkipsFirst(bits, name, header) ==
  [l \in Levels |-> IF l > 0 /\ l < header.levels THEN <<name, l>> ELSE bits[l]]

LockChain2(bits, name, header) ==
  [l \in Levels |-> IF l < header.levels THEN <<name, l>> ELSE bits[l]]

FillInSolidTexture(t, colour) ==
  GxuUpdateSingleColorTexture(
    [t EXCEPT !.name = "SolidTexture", !.opaque = TRUE, !.width = 8, !.height = 8,
              !.format = "Argb8888", !.dataFormat = "Argb8888", !.flags = <<"Linear", FALSE>>],
    colour)

\* A file that is not one, or whose levels cannot be had, leaves green.
PumpBlpTextureAsync(t, bits, name) ==
  LET header == Header[name]
      dims == RequestImageDimensions(header.width, header.height, 0)
      formats == GetTextureFormats(header.preferred, header.alpha)
      failed(b) == [tex |-> FillInSolidTexture(t, "green"), bits |-> b]
      chain == LockChain2(bits, name, header)
      made == [t EXCEPT !.opaque = (header.alpha = 0), !.bestMip = dims.bestMip,
                 !.width = dims.width, !.height = dims.height,
                 !.format = formats.gx, !.dataFormat = formats.pix,
                 !.flags = <<IF dims.width < FewLevels /\ ~header.mips THEN "Nearest" ELSE @[1], @[2]>>]
  IN  IF ~header.magic \/ ~IsValidMip(header, dims.bestMip) THEN failed(bits)
      ELSE IF ~AsStored(header, formats.pix) THEN failed(MippedImgSet(bits, header, dims.bestMip))
      ELSE [tex |-> ITexUpload(made, chain, name), bits |-> chain]

----------------------------------------------------------------------------
(* The cache and the handles *)

\* Every texture made of a file is in the cache while it lives, under the name it has.
TextureCacheGetTexture(name, flags) ==
  {i \in Ids : tex[i].alive /\ tex[i].cached = <<name, flags>>}
NewTexture == CHOOSE i \in Ids : ~tex[i].alive /\ \A j \in Ids : tex[j].alive \/ i <= j
Full == \A i \in Ids : tex[i].alive

\* The flags of a request: createFlags & 1 takes the filter from s_filterMode.
Flags(filter, wrap, createFlags) == <<IF 1 \in createFlags THEN "LinearMipNearest" ELSE filter, wrap>>

\* The outcome of a TextureCreate: the textures, s_mipBits and the handle.
Made(t, bits, id) == [tex |-> [tex EXCEPT ![id] = t], bits |-> bits, id |-> id]
Held(i) == [tex |-> [tex EXCEPT ![i].refs = @ + 1], bits |-> mipBits, id |-> i]
TextureCreateSolid(colour) ==
  Made(FillInSolidTexture([Unused EXCEPT !.alive = TRUE, !.refs = 1], colour), mipBits, NewTexture)
CreateBlpSync(name, flags) ==
  LET fresh == [Unused EXCEPT !.alive = TRUE, !.refs = 1, !.name = name, !.flags = flags]
      read == PumpBlpTextureAsync(fresh, mipBits, name)
  IN  Made([read.tex EXCEPT !.cached = <<read.tex.name, flags>>], read.bits, NewTexture)
TextureCreate(name, flags) ==
  LET there == TextureCacheGetTexture(name, flags)
  IN  IF there # {} THEN Held(CHOOSE i \in there : TRUE)
      ELSE IF name \notin DOMAIN Header THEN TextureCreateSolid("green")
      ELSE CreateBlpSync(name, flags)

\* HandleClose; the last one frees the texture, which leaves the cache and the device.
Closed(all, i) ==
  IF i = None THEN all
  ELSE IF all[i].refs = 1 THEN [all EXCEPT ![i] = Unused] ELSE [all EXCEPT ![i].refs = @ - 1]

----------------------------------------------------------------------------
(* Those who hold textures *)

Init ==
  /\ tex = [i \in Ids |-> Unused]
  /\ mipBits = [l \in Levels |-> <<"nowhere", l>>]
  /\ region = [r \in Regions |-> [tex |-> None, asked |-> <<>>]]
  /\ model = [m \in Models |-> [tex |-> None, asked |-> <<>>]]

TextureIsSame(i, name) == tex[i].name = name
Becomes(r, made, asked) ==
  /\ tex' = Closed(made.tex, region[r].tex)
  /\ mipBits' = made.bits
  /\ region' = [region EXCEPT ![r] = [tex |-> made.id, asked |-> asked]]
  /\ UNCHANGED model

\* CSimpleTexture::SetTexture: nothing if the name is that of the texture it has.
SetTexture(r, name, wrap) ==
  /\ ~Full
  /\ region[r].tex # None => ~TextureIsSame(region[r].tex, name)
  /\ Becomes(r, TextureCreate(name, Flags("Linear", wrap, {1, 2, 4, 16})), <<"file", name>>)
SetColour(r, colour) == ~Full /\ Becomes(r, TextureCreateSolid(colour), <<"colour", colour>>)
ClearTexture(r) ==
  /\ region[r].tex # None
  /\ Becomes(r, [tex |-> tex, bits |-> mipBits, id |-> None], <<>>)

\* CM2Shared::Initialize, of a model with one texture, which nothing closes.
Initialize(m, name) ==
  LET made == IF name = "" THEN TextureCreateSolid("white") ELSE TextureCreate(name, Flags("Linear", FALSE, {}))
  IN
  /\ ~Full /\ model[m].tex = None
  /\ tex' = made.tex /\ mipBits' = made.bits
  /\ model' = [model EXCEPT ![m] = [tex |-> made.id,
                                   asked |-> IF name = "" THEN <<"colour", "white">> ELSE <<"file", name>>]]
  /\ UNCHANGED region

Next ==
  \/ \E r \in Regions :
       \/ \E q \in Requests : SetTexture(r, q[1], q[2])
       \/ \E colour \in Colours : SetColour(r, colour)
       \/ ClearTexture(r)
  \/ \E m \in Models, name \in ModelNames : Initialize(m, name)
Spec == Init /\ [][Next]_vars

----------------------------------------------------------------------------
(* Properties *)

\* A file from which every level a texture may have comes as the device wants it: it fits the
\* device, which has the format, and it has all its levels or is too small to need them.
Whole(name) ==
  /\ name \in DOMAIN Header
  /\ LET h == Header[name] IN
     /\ h.magic /\ h.width <= MaxSize /\ h.height <= MaxSize
     /\ AsStored(h, GetTextureFormats(h.preferred, h.alpha).pix)
     /\ IF h.mips THEN h.levels = CalcLevelCount(h.width, h.height) ELSE h.width < FewLevels

\* What is read of a level is that level of the file, all of it and no more.
Rows(t, level) ==
  AtLeast1(ShiftedBy(t.height, level) \div (IF t.dataFormat \in Dxt THEN 4 ELSE 1))
ShowsFile(t, name) ==
  \A l \in DOMAIN t.shows :
    /\ t.shows[l].from = <<name, l>>
    /\ t.dataFormat \in Dxt \/ t.width >= t.height =>
         t.shows[l].stride * Rows(t, l) = CalcLevelSize(l, t.width, t.height, t.dataFormat)
ShowsColour(t, colour) == t.shows[0].from = <<colour, 0>>

\* What a region or a model has is what it was given, whatever was read, shared, failed or
\* released in between: every level from its own file, or one colour, and green if the file is
\* not there or is none.
ShowsWhatWasAsked ==
  \A h \in {region[r] : r \in Regions} \cup {model[m] : m \in Models} : h.tex # None =>
    LET t == tex[h.tex] IN
    /\ t.alive /\ Creatable(t.width, t.height)
    /\ h.asked[1] = "file" /\ Whole(h.asked[2]) => ShowsFile(t, h.asked[2])
    /\ h.asked[1] = "file" /\ (h.asked[2] \in DOMAIN Header => ~Header[h.asked[2]].magic) => ShowsColour(t, "green")
    /\ h.asked[1] = "colour" => ShowsColour(t, h.asked[2])

\* A texture lives as long as it is held, and a file that can be read is there once for each set
\* of flags.
HeldOnce ==
  \A i \in Ids :
    /\ tex[i].refs = Cardinality({r \in Regions : region[r].tex = i}) + Cardinality({m \in Models : model[m].tex = i})
    /\ tex[i].alive <=> tex[i].refs > 0
    /\ \A j \in Ids \ {i} : tex[i].alive /\ tex[j].alive /\ tex[i].name \in FileNames
                           => tex[i].cached # tex[j].cached
TexturesAreSound == ShowsWhatWasAsked /\ HeldOnce
=============================================================================
