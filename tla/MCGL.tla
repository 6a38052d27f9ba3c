-------------------------------- MODULE MCGL --------------------------------
(***************************************************************************)
(* CGxDeviceGLSDL in parts, each about one kind of what drawing code sets. *)
(* One more part are the textures that files and colours are made into     *)
(* (Textures).  A behaviour keeps to one part: the others stay as they     *)
(* start.                                                                  *)
(***************************************************************************)
EXTENDS CGxDeviceGLSDL, TLC

CONSTANTS t1, t2

VARIABLES part,
          fileTex, mipBits, region, model  \* those of Textures

Parts == {"textures", "updates", "vertex", "pixel", "transforms", "blending", "states"}

\* Nothing tells the two textures apart.
Symmetry == Permutations({t1, t2})

\* The files: several formats, without levels below the first, too large, in a format that the
\* device lacks, and one that is no texture.
File(encoding, preferred, alpha, mips, width, height, levels) ==
  [magic |-> TRUE, encoding |-> encoding, preferred |-> preferred, alpha |-> alpha, mips |-> mips,
   width |-> width, height |-> height, levels |-> levels]
Header ==
  [skin |-> File("dxt", "Dxt5", 8, TRUE, 32, 16, 6),
   icon |-> File("raw", "Argb8888", 8, FALSE, 8, 8, 1), big |-> File("dxt", "Dxt1", 1, TRUE, 64, 64, 7),
   plain |-> File("dxt", "Dxt1", 0, FALSE, 32, 32, 1), other |-> File("dxt", "Dxt3", 8, TRUE, 16, 16, 5),
   broken |-> [File("dxt", "Dxt1", 0, TRUE, 16, 16, 5) EXCEPT !.magic = FALSE]]
Requests == ((DOMAIN Header \cup {"lost"}) \X {FALSE}) \cup {<<"skin", TRUE>>}
Files == INSTANCE Textures WITH
  tex <- fileTex, ModelNames <- {"skin", ""}, Colours <- {"red"}, Regions <- {1, 2}, Models <- {1},
  Ids <- 1 .. 3, MaxSize <- 32, FewLevels <- 16, Compressed <- {"Dxt1", "Dxt5"}
fileVars == <<fileTex, mipBits, region, model>>

MCInit == Init /\ Files!Init /\ part \in Parts \cup {"files"}
MCNext ==
  \/ part # "files" /\ Next /\ UNCHANGED <<part, fileVars>>
  \/ part = "files" /\ Files!Next /\ UNCHANGED <<part, vars>>
MCSpec == MCInit /\ [][MCNext]_<<vars, part, fileVars>>

Only(S) == \A s \in DOMAIN value \ S : value[s] = Defaults[s]
Alive == {t \in Textures : tex[t].alive}
Fresh(k) == shadow[k] = ShaderConstantsClear[k]
Other == {s \in DOMAIN value : value[s] # Defaults[s]}
FewSet == Cardinality(Other) + (IF viewport = "full" THEN 0 ELSE 1) <= IF Other \subseteq {"DepthTest", "DepthWrite"} THEN 2 ELSE 1

\* What may be set in each part, and how much of it at a time.
InPart ==
  /\ part \notin {"textures", "updates"} => Alive = {}
  /\ Cardinality({t \in Alive : tex[t].data = 1}) <= 1
  /\ part # "vertex" => Fresh("vertex")
  /\ part # "pixel" => Fresh("pixel")
  /\ shadow["pixel"].consts[1] = -1 /\ shadow["vertex"].consts[1] # 1
  /\ part # "transforms" => view = "identity" /\ projection = "identity"
  /\ part \notin {"blending", "states"} => viewport = "full" /\ dev.st.clearColor = 0
  /\ CASE part \in {"textures", "updates"} -> Only(TextureStates)
       [] part \in {"vertex", "transforms"} -> Only({"VertexShader"})
       [] part = "pixel" -> Only({"PixelShader"})
       [] part = "blending" -> Only({"BlendingMode", "AlphaRef"}) /\ FewSet
       [] part = "states" -> Only(DOMAIN value \ (Shaders \cup TextureStates \cup {"BlendingMode", "AlphaRef"}))
                             /\ FewSet
Updates == \E t \in Textures : tex[t].alive /\ tex'[t].data # tex[t].data
Wraps == \E s \in TextureStates : hw'[s] = Inverted /\ hw[s] # Inverted
Bound ==
  /\ IF part = "files" THEN TRUE ELSE InPart'
  /\ part \in {"updates", "blending", "states"} => Len(dirtyStates') <= 1
  /\ part = "textures" => ~Updates /\ (Wraps => Cardinality(Alive) = 1)
  /\ part = "updates" => ~Wraps /\ ~ScenePresent

\* The property of Textures, stated there.
TexturesAreSound == Files!TexturesAreSound
=============================================================================
