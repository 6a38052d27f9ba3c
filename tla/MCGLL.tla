------------------------------- MODULE MCGLL -------------------------------
(***************************************************************************)
(* CGxDeviceGLL in parts, each about one kind of what drawing code sets.   *)
(* A behaviour keeps to one part: the others stay as they start.           *)
(***************************************************************************)
EXTENDS CGxDeviceGLL, TLC

CONSTANTS t1, t2

VARIABLE part

Parts == {"textures", "updates", "resize", "vertex", "pixel", "transforms", "states"}

\* Nothing tells the two textures apart.
Symmetry == Permutations({t1, t2})

MCInit == Init /\ size = 1 /\ part \in Parts
TexturesInit == MCInit /\ part = "textures"
MCSpec == MCInit /\ [][Next /\ UNCHANGED part]_<<vars, part>>
TexturesSpec == TexturesInit /\ [][Next /\ UNCHANGED part]_<<vars, part>>

Only(S) == \A s \in DOMAIN value \ S : value[s] = Defaults[s]
Alive == {t \in Textures : tex[t].alive}
Updated == {t \in Alive : tex[t].data = 1}
Fresh(k) == shadow[k] = ShaderConstantsClear[k]
Other == {s \in DOMAIN value : value[s] # Defaults[s]}

\* What may be set in each part, and how much of it at a time.
InPart ==
  /\ part \notin {"textures", "updates", "resize"} => Alive = {}
  /\ part \in {"updates", "resize"} => Cardinality(Alive) <= 1
  /\ part \in {"textures", "updates"} => dev.next <= 6
  /\ part = "textures" => Cardinality(Updated) <= 1
  /\ part = "resize" => Updated = {}
  /\ part # "vertex" => Fresh("vertex")
  /\ part # "pixel" => Fresh("pixel")
  /\ part # "transforms" => view = "identity" /\ projection = "identity"
  /\ part # "states" => viewport = "full" /\ dev.st.clearColor = 0
  /\ CASE part \in {"textures", "updates", "resize"} -> Only(TextureStates)
       [] part \in {"vertex", "transforms"} -> Only({"VertexShader"})
       [] part = "pixel" -> Only({"PixelShader"})
       [] part = "states" -> Only(DOMAIN value \ (Shaders \cup TextureStates)) /\ Cardinality(Other) <= 1
Wraps == \E s \in TextureStates : hw'[s] = Inverted /\ hw[s] # Inverted
Bound ==
  /\ InPart'
  /\ part \in {"textures", "updates"} => ~ScenePresent
  /\ part # "resize" => size' = size
  /\ part # "updates" => ~Wraps

(* A texture is released when no unit of m_Textures names it, that is,     *)
(* after the states that do no more name it have been sent.                *)
Settles ==
  \A t \in Textures :
    tex[t].alive /\ ~tex'[t].alive => tex[t].gl = 0 \/ \A u \in Units : dev.textures[u] # tex[t].gl
=============================================================================
