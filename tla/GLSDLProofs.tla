----------------------------- MODULE GLSDLProofs -----------------------------
(***************************************************************************)
(* CGxDeviceGLSDL keeps its account of OpenGL straight (AccountIsTrue):    *)
(* for any textures, values, constants and names, and up to three units.   *)
(*                                                                         *)
(* AccountIsTrue is not inductive: that a texture may be bound or an image *)
(* attached at a step depends on what the device's other fields say of it. *)
(* AccountInv adds what the calls rely on.  Sound(d, S, O): m_States is    *)
(* what OpenGL has but for the states S, each unit has the texture that is *)
(* bound there as long as that is valid, the textures and mipmaps know the *)
(* units and points they are at, names are given in order, and the objects *)
(* O, which nobody may free, are valid.  Between calls S is empty and O    *)
(* are the device's three own textures; every texture of the program has a *)
(* valid name of its own, and states name only textures that are alive.    *)
(*                                                                         *)
(* The lemmas follow the calls.  Inside Clear and Blit OpenGL is changed   *)
(* behind m_States: S grows by a state that is overwritten and loses it    *)
(* when it is put back, and is empty again at the end because everything   *)
(* that was taken is.  States are sent in a loop, which is proved by       *)
(* induction over the states sent: each leaves enough free names for the   *)
(* textures that are still to be made.                                     *)
(***************************************************************************)
EXTENDS CGxDeviceGLSDL, SequenceFacts, TLAPS

\* The fields of an OpenGL device, and the states it has.
Fields ==
  {"st", "ctx", "textures", "bound", "unit", "stages", "valid", "image", "next", "shader", "attached",
   "points", "target", "depthBuffer", "backBuffer", "consts", "env", "range", "xform", "glXform",
   "released", "resent", "failed"}
StateNames ==
  {"depthTest", "depthFunc", "depthMask", "stencilTest", "cull", "viewport", "depthRange",
   "scissorTest", "scissor", "colorMask", "blend", "blendFunc", "blendOp", "fog", "fogColor",
   "fogStart", "fogEnd", "fogDensity", "alphaTest", "alphaFunc", "lighting", "clearColor",
   "clearDepth", "clearStencil", "vertex", "pixel", "vertexProgram", "pixelProgram",
   "framebuffer", "activeTexture"}
\* States that are on or off.
Switches == Toggled \cup {"depthMask"}
\* m_States is what OpenGL has, but for S and the alpha test, which is never stored in it.
Agree(d, S) == \A s \in StateNames \ (S \cup {"alphaTest"}) : d.st[s] = d.ctx[s]
\* m_States is what OpenGL has but for S.
StatesSound(d, S) ==
  /\ DOMAIN d.st = StateNames /\ DOMAIN d.ctx = StateNames
  /\ d.st.activeTexture \in Units
  /\ \A s \in Switches : d.st[s] \in BOOLEAN
  /\ Agree(d, S)
  /\ "depthMask" \in S => d.ctx.depthMask = TRUE
\* Units, and the notes that textures make of them.
UnitsSound(d) ==
  /\ DOMAIN d.textures = Units /\ DOMAIN d.bound = Units /\ DOMAIN d.unit = Units
  /\ DOMAIN d.stages = Names
  /\ \A u \in Units : d.bound[u] \in Names \cup {0}
  /\ \A t \in Names : d.stages[t] \subseteq Units
  /\ \A u \in Units : d.unit[u] = IF d.bound[u] \in d.valid THEN d.bound[u] ELSE 0
  /\ \A u \in Units : d.bound[u] < d.next
  /\ \A u \in Units, t \in Names : u \in d.stages[t] <=> d.bound[u] = t
\* Attached images are of the objects O, and mipmaps know where they are attached.
ImagesSound(d, O) ==
  /\ d.attached \in [Points -> O \cup {0}]
  /\ d.target \in [Points -> O \cup {0}]
  /\ d.depthBuffer \in O \cup {0}
  /\ DOMAIN d.points = Names
  /\ \A t \in Names : d.points[t] \subseteq Points
  /\ \A p \in Points, t \in Names : p \in d.points[t] <=> d.attached[p] = t
\* Names are given in order, those of O are valid, and no assertion has failed.
ObjectsSound(d, O) ==
  /\ d.next \in Nat \ {0}
  /\ d.valid \subseteq Names
  /\ \A t \in d.valid : t < d.next
  /\ O \subseteq d.valid
  /\ d.released = {} /\ d.failed = {}
Sound(d, S, O) ==
  /\ DOMAIN d = Fields
  /\ StatesSound(d, S) /\ UnitsSound(d) /\ ImagesSound(d, O) /\ ObjectsSound(d, O)
\* e is d but for the fields F.
Same(e, d, F) == \A f \in Fields \ F : e[f] = d[f]

Stored == {"st", "ctx"}

\* States other than s are as they were.
StatesBut(e, d, s) ==
  \A x \in StateNames \ {s} : e.st[x] = d.st[x] /\ e.ctx[x] = d.ctx[x]

\* e is d with the state s stored as v.
Stores(e, d, s, v) == Same(e, d, Stored) /\ e.st[s] = v /\ StatesBut(e, d, s)

\* Fields that Sound says nothing of, and the states.
Free == {"st", "ctx", "image", "shader", "consts", "env", "range", "xform", "glXform", "resent"}

\* Calls that leave bindings, images and names alone leave them sound.
LEMMA SameParts ==
  ASSUME NEW d, NEW e, NEW F \in SUBSET Free, NEW S, NEW O, Same(e, d, F), Sound(d, S, O)
  PROVE  /\ UnitsSound(e) /\ ImagesSound(e, O) /\ ObjectsSound(e, O)
         /\ e.valid = d.valid /\ e.next = d.next
         /\ e.target = d.target /\ e.depthBuffer = d.depthBuffer /\ e.backBuffer = d.backBuffer
<1>1. /\ e.textures = d.textures /\ e.bound = d.bound /\ e.stages = d.stages /\ e.unit = d.unit
      /\ e.valid = d.valid /\ e.next = d.next /\ e.released = d.released /\ e.failed = d.failed
  BY DEF Same, Fields, Free
<1>2. /\ e.attached = d.attached /\ e.target = d.target /\ e.depthBuffer = d.depthBuffer
      /\ e.points = d.points /\ e.backBuffer = d.backBuffer
  BY DEF Same, Fields, Free
<1>3. UnitsSound(e)
  BY <1>1 DEF Sound, UnitsSound
<1>4. ImagesSound(e, O)
  BY <1>2 DEF Sound, ImagesSound
<1>5. ObjectsSound(e, O)
  BY <1>1 DEF Sound, ObjectsSound
<1> QED BY <1>1, <1>2, <1>3, <1>4, <1>5

\* A state that is set through m_States.  If OpenGL already has it, it is one that agrees.
LEMMA CachedSound ==
  ASSUME NEW d, NEW S, NEW O, Sound(d, S, O), NEW s \in StateNames, NEW v,
         s = "activeTexture" => v \in Units, s \in Switches => v \in BOOLEAN /\ s \notin S
  PROVE  /\ Sound(Cached(d, s, v), S, O)
         /\ Stores(Cached(d, s, v), d, s, v)
         /\ d.ctx[s] = v => Sound(Cached(d, s, v), S \ {s}, O)
<1> DEFINE e == Cached(d, s, v)
<1>1. CASE d.st[s] = v
  <2>1. e = d
    BY <1>1 DEF Cached
  <2>2. d.ctx[s] = v => Agree(d, S \ {s})
    BY <1>1 DEF Sound, StatesSound, Agree
  <2> QED BY <1>1, <2>1, <2>2 DEF Sound, StatesSound, Stores, Same, StatesBut
<1>2. CASE d.st[s] # v
  <2>1. e = [d EXCEPT !.st[s] = v, !.ctx[s] = v]
    BY <1>2 DEF Cached
  <2>2. DOMAIN d = Fields /\ DOMAIN d.st = StateNames /\ DOMAIN d.ctx = StateNames
    BY DEF Sound, StatesSound
  <2>3. e.st = [d.st EXCEPT ![s] = v] /\ e.ctx = [d.ctx EXCEPT ![s] = v]
    BY <2>1, <2>2 DEF Fields
  <2>4. DOMAIN e = Fields /\ Same(e, d, Stored)
    BY <2>1, <2>2 DEF Fields, Same, Stored
  <2>5. /\ e.st[s] = v /\ e.ctx[s] = v
        /\ \A x \in StateNames \ {s} : e.st[x] = d.st[x] /\ e.ctx[x] = d.ctx[x]
        /\ DOMAIN e.st = StateNames /\ DOMAIN e.ctx = StateNames
    BY <2>2, <2>3
  <2>6. e.st.activeTexture \in Units /\ \A x \in Switches : e.st[x] \in BOOLEAN
    <3>1. Switches \subseteq StateNames /\ "activeTexture" \in StateNames
      BY DEF Switches, Toggled, StateNames
    <3>2. d.st["activeTexture"] \in Units /\ \A x \in Switches : d.st[x] \in BOOLEAN
      BY DEF Sound, StatesSound
    <3>3. e.st["activeTexture"] \in Units
      BY <2>5, <3>1, <3>2
    <3>4. ASSUME NEW x \in Switches PROVE e.st[x] \in BOOLEAN
      <4>1. CASE x = s
        BY <2>5, <4>1
      <4>2. CASE x # s
        BY <2>5, <3>1, <3>2, <4>2
      <4> QED BY <4>1, <4>2
    <3> QED BY <3>3, <3>4
  <2>8. Agree(e, S) /\ Agree(e, S \ {s})
    <3>1. Agree(d, S)
      BY DEF Sound, StatesSound
    <3> HIDE DEF e
    <3> QED BY <2>5, <3>1 DEF Agree
  <2>7. UnitsSound(e) /\ ImagesSound(e, O) /\ ObjectsSound(e, O)
    BY <2>4, Stored \in SUBSET Free, SameParts DEF Stored, Free
  <2>9. StatesSound(e, S) /\ StatesSound(e, S \ {s})
    <3>1. "depthMask" \in Switches /\ "depthMask" \in StateNames
      BY DEF Switches, StateNames
    <3>2. "depthMask" \in S => e.ctx["depthMask"] = TRUE
      BY <2>5, <3>1 DEF Sound, StatesSound
    <3> HIDE DEF e
    <3> QED BY <2>5, <2>6, <2>8, <3>2 DEF StatesSound
  <2>10. Sound(e, S, O) /\ Sound(e, S \ {s}, O)
    <3> HIDE DEF e
    <3> QED BY <2>4, <2>7, <2>9 DEF Sound
  <2>11. Stores(e, d, s, v)
    BY <2>4, <2>5 DEF Stores, StatesBut
  <2> QED BY <2>4, <2>5, <2>10, <2>11
<1> QED BY <1>1, <1>2

\* OpenGL is told behind m_States: the state differs, unless it is told what m_States says.
LEMMA GlSound ==
  ASSUME NEW d, NEW S, NEW O, Sound(d, S, O), NEW s \in StateNames, NEW v
  PROVE  /\ (s = "depthMask" => v = TRUE) => Sound(Gl(d, s, v), S \cup {s}, O)
         /\ Same(Gl(d, s, v), d, {"ctx"})
         /\ Gl(d, s, v).ctx[s] = v
         /\ StatesBut(Gl(d, s, v), d, s)
         /\ (s = "alphaTest" \/ d.st[s] = v) => Sound(Gl(d, s, v), S \ {s}, O)
<1> DEFINE e == Gl(d, s, v)
<1>1. e = [d EXCEPT !.ctx[s] = v]
  BY DEF Gl
<1>2. DOMAIN d = Fields /\ DOMAIN d.st = StateNames /\ DOMAIN d.ctx = StateNames
  BY DEF Sound, StatesSound
<1>3. e.ctx = [d.ctx EXCEPT ![s] = v] /\ e.st = d.st
  BY <1>1, <1>2 DEF Fields
<1>4. DOMAIN e = Fields /\ Same(e, d, {"ctx"})
  BY <1>1, <1>2 DEF Fields, Same
<1>5. /\ e.ctx[s] = v
      /\ \A x \in StateNames \ {s} : e.ctx[x] = d.ctx[x]
      /\ DOMAIN e.st = StateNames /\ DOMAIN e.ctx = StateNames
  BY <1>2, <1>3
<1>6. /\ (s = "depthMask" => v = TRUE) => StatesSound(e, S \cup {s})
      /\ (s = "alphaTest" \/ d.st[s] = v) => StatesSound(e, S \ {s})
  <2>1. "depthMask" \in StateNames
    BY DEF StateNames
  <2> HIDE DEF e
  <2>2. Agree(e, S \cup {s}) /\ ((s = "alphaTest" \/ d.st[s] = v) => Agree(e, S \ {s}))
    BY <1>3, <1>5 DEF Sound, StatesSound, Agree
  <2>3. s # "depthMask" => e.ctx["depthMask"] = d.ctx["depthMask"]
    BY <1>5, <2>1
  <2> QED BY <1>3, <1>5, <2>2, <2>3 DEF Sound, StatesSound
<1>7. UnitsSound(e) /\ ImagesSound(e, O) /\ ObjectsSound(e, O)
  BY <1>4, {"ctx"} \in SUBSET Free, SameParts DEF Free
<1>8. /\ (s = "depthMask" => v = TRUE) => Sound(e, S \cup {s}, O)
      /\ (s = "alphaTest" \/ d.st[s] = v) => Sound(e, S \ {s}, O)
  <2> HIDE DEF e
  <2> QED BY <1>4, <1>6, <1>7 DEF Sound
<1>9. StatesBut(e, d, s)
  BY <1>3, <1>5 DEF StatesBut
<1> QED BY <1>4, <1>5, <1>8, <1>9

\* The parts of a device that binding a texture changes.
Rebound == {"bound", "unit", "stages"}
Binding == Stored \cup Rebound

\* What GLDevice::BindTexture does where no assertion can fail.
LEMMA BindTextureFields ==
  ASSUME NEW d, NEW t, NEW u, DOMAIN d = Fields, DOMAIN d.st = StateNames,
         d.st.activeTexture = u, d.ctx.activeTexture = u,
         d.released = {}, d.failed = {}, d.bound[u] # t,
         d.bound[u] # 0 => u \in d.stages[d.bound[u]]
  PROVE  LET e == BindTexture(d, t) IN
         /\ DOMAIN e = Fields
         /\ Same(e, d, Rebound)
         /\ e.bound = [d.bound EXCEPT ![u] = t]
         /\ e.unit = [d.unit EXCEPT ![u] = t]
         /\ e.stages = IF d.bound[u] = 0 THEN d.stages
                       ELSE [d.stages EXCEPT ![d.bound[u]] = @ \ {u}]
<1> DEFINE x == UnbindUnit(d, u)
           y == [x EXCEPT !.bound[u] = t, !.unit[d.ctx.activeTexture] = t]
           e == BindTexture(d, t)
<1>1. Checked(d, d.bound[u] # t, "BindTexture") = d
  BY DEF Checked
<1>2. x = IF d.bound[u] = 0 THEN d ELSE [d EXCEPT !.stages[d.bound[u]] = @ \ {u}]
  BY DEF UnbindUnit, Unbind, Checked
<1>3. /\ DOMAIN x = Fields /\ Same(x, d, {"stages"})
      /\ x.stages = IF d.bound[u] = 0 THEN d.stages
                    ELSE [d.stages EXCEPT ![d.bound[u]] = @ \ {u}]
  <2>1. CASE d.bound[u] = 0
    BY <1>2, <2>1 DEF Same
  <2>2. CASE d.bound[u] # 0
    <3>1. x = [d EXCEPT !.stages[d.bound[u]] = @ \ {u}]
      BY <1>2, <2>2
    <3> HIDE DEF x
    <3> QED BY <2>2, <3>1 DEF Same, Fields
  <2> QED BY <2>1, <2>2
<1>4. x.bound = d.bound /\ x.unit = d.unit /\ x.released = {}
  <2> HIDE DEF x
  <2> QED BY <1>3 DEF Same, Fields
<1>5. /\ DOMAIN y = Fields /\ Same(y, x, {"bound", "unit"})
      /\ y.bound = [x.bound EXCEPT ![u] = t] /\ y.unit = [x.unit EXCEPT ![u] = t]
  <2> HIDE DEF x
  <2> QED BY <1>3 DEF Same, Fields
<1>6. e = Recreated(y, t)
  <2>1. e = Recreated([UnbindUnit(Checked(d, d.bound[Active(d)] # t, "BindTexture"), Active(d))
                         EXCEPT !.bound[Active(d)] = t, !.unit[d.ctx.activeTexture] = t], t)
    BY DEF BindTexture
  <2>2. Active(d) = u
    BY DEF Active
  <2> HIDE DEF e
  <2> QED BY <1>1, <2>1, <2>2, Zenon
<1> HIDE DEF x, y
<1>7. y.released = {}
  BY <1>4, <1>5 DEF Same, Fields
<1>8. e = y
  BY <1>6, <1>7 DEF Recreated
<1>9. Same(y, d, Rebound) /\ y.stages = x.stages
  BY <1>3, <1>5 DEF Same, Fields, Rebound
<1> QED BY <1>3, <1>4, <1>5, <1>8, <1>9

\* What the parts that binding changes do not say.
LEMMA BoundParts ==
  ASSUME NEW d, NEW e, NEW S, NEW O, Sound(d, S, O), Same(e, d, Binding),
         DOMAIN e = Fields, StatesSound(e, S), UnitsSound(e)
  PROVE  Sound(e, S, O)
<1>1. /\ e.valid = d.valid /\ e.next = d.next /\ e.released = d.released /\ e.failed = d.failed
      /\ e.attached = d.attached /\ e.target = d.target /\ e.depthBuffer = d.depthBuffer
      /\ e.points = d.points
  BY DEF Same, Fields, Binding, Rebound, Stored
<1>2. ImagesSound(e, O)
  BY <1>1 DEF Sound, ImagesSound
<1>3. ObjectsSound(e, O)
  BY <1>1 DEF Sound, ObjectsSound
<1> QED BY <1>2, <1>3 DEF Sound

\* The active unit is the one m_States says.
LEMMA ActiveAgrees ==
  ASSUME NEW d, NEW S, NEW O, Sound(d, S, O), "activeTexture" \notin S
  PROVE  d.st.activeTexture \in Units /\ d.ctx.activeTexture = d.st.activeTexture
<1>1. "activeTexture" \in StateNames \ (S \cup {"alphaTest"})
  BY DEF StateNames
<1> QED BY <1>1 DEF Sound, StatesSound, Agree

\* Names are numbers, from 1 on.
LEMMA NamesRange == \E n \in Nat : n >= 3 /\ Names = 1..n
<1>1. Cardinality(Names) \in Nat
  BY AccountAssumption, FS_CardinalityType
<1> QED BY <1>1, AccountAssumption

\* 0 is the name of no texture.
LEMMA NoName == 0 \notin Names /\ \A t \in Names : t \in Nat \ {0}
BY NamesRange

\* BindTexture, together with the note of the unit that GLTexture::Bind makes.
LEMMA BindTextureSound ==
  ASSUME NEW d, NEW S, NEW O, Sound(d, S, O), "activeTexture" \notin S,
         NEW t \in d.valid \cup {0}, t # d.bound[Active(d)]
  PROVE  LET x == IF t = 0 THEN d ELSE [d EXCEPT !.stages[t] = @ \cup {Active(d)}]
             e == BindTexture(x, t)
         IN Sound(e, S, O) /\ Same(e, d, Rebound)
<1> DEFINE u == Active(d)
           x == IF t = 0 THEN d ELSE [d EXCEPT !.stages[t] = @ \cup {u}]
           e == BindTexture(x, t)
<1>1. u \in Units /\ d.st.activeTexture = u /\ d.ctx.activeTexture = u
  BY ActiveAgrees DEF Active
<1> HIDE DEF u
<1>2. DOMAIN d = Fields /\ DOMAIN d.st = StateNames /\ d.released = {} /\ d.failed = {}
  BY DEF Sound, StatesSound, ObjectsSound
<1>3. /\ DOMAIN d.textures = Units /\ DOMAIN d.bound = Units /\ DOMAIN d.unit = Units
      /\ DOMAIN d.stages = Names
      /\ \A v \in Units : d.bound[v] \in Names \cup {0}
      /\ \A n \in Names : d.stages[n] \subseteq Units
      /\ \A v \in Units : d.unit[v] = IF d.bound[v] \in d.valid THEN d.bound[v] ELSE 0
      /\ \A v \in Units : d.bound[v] < d.next
      /\ \A v \in Units, n \in Names : v \in d.stages[n] <=> d.bound[v] = n
  BY DEF Sound, UnitsSound
<1>4. /\ d.next \in Nat \ {0} /\ d.valid \subseteq Names
      /\ \A n \in d.valid : n < d.next
  BY DEF Sound, ObjectsSound
<1>5. t \in Names \cup {0} /\ t < d.next /\ (t \in d.valid <=> t # 0)
  BY <1>4, NoName
<1>6. /\ DOMAIN x = Fields /\ Same(x, d, {"stages"})
      /\ x.stages = IF t = 0 THEN d.stages ELSE [d.stages EXCEPT ![t] = @ \cup {u}]
  BY <1>2 DEF Same, Fields
<1> HIDE DEF x
<1>7. /\ x.st = d.st /\ x.ctx = d.ctx /\ x.bound = d.bound /\ x.unit = d.unit
      /\ x.released = {} /\ x.failed = {}
  BY <1>2, <1>6 DEF Same, Fields
<1>8. d.bound[u] # t
  BY DEF u
<1>9. d.bound[u] # 0 => u \in x.stages[d.bound[u]]
  <2> SUFFICES ASSUME d.bound[u] # 0
               PROVE  u \in x.stages[d.bound[u]]
    OBVIOUS
  <2>1. d.bound[u] \in Names /\ u \in d.stages[d.bound[u]]
    BY <1>1, <1>3
  <2> QED BY <1>3, <1>5, <1>6, <1>8, <2>1
<1>10. /\ DOMAIN e = Fields
       /\ Same(e, x, Rebound)
       /\ e.bound = [x.bound EXCEPT ![u] = t]
       /\ e.unit = [x.unit EXCEPT ![u] = t]
       /\ e.stages = IF x.bound[u] = 0 THEN x.stages
                     ELSE [x.stages EXCEPT ![x.bound[u]] = @ \ {u}]
  <2>1. DOMAIN x.st = StateNames /\ x.st.activeTexture = u /\ x.ctx.activeTexture = u
    BY <1>1, <1>2, <1>7
  <2>2. x.bound[u] # t /\ (x.bound[u] # 0 => u \in x.stages[x.bound[u]])
    BY <1>7, <1>8, <1>9
  <2>3. DOMAIN x = Fields /\ x.released = {} /\ x.failed = {}
    BY <1>6, <1>7
  <2> HIDE DEF e
  <2> QED BY <2>1, <2>2, <2>3, BindTextureFields DEF e
<1> HIDE DEF e
<1>11. Same(e, d, Rebound)
  BY <1>6, <1>10 DEF Same, Fields, Rebound
<1>12. e.bound = [d.bound EXCEPT ![u] = t] /\ e.unit = [d.unit EXCEPT ![u] = t]
  BY <1>7, <1>10
<1>13. e.valid = d.valid /\ e.next = d.next /\ e.textures = d.textures /\ e.st = d.st /\ e.ctx = d.ctx
  BY <1>11 DEF Same, Fields, Rebound
<1>14. /\ DOMAIN e.stages = Names
       /\ \A n \in Names : e.stages[n] =
            (IF n = d.bound[u] THEN d.stages[n] \ {u} ELSE IF n = t THEN d.stages[n] \cup {u} ELSE d.stages[n])
  <2>1. DOMAIN x.stages = Names
    BY <1>3, <1>5, <1>6
  <2>2. ASSUME NEW n \in Names
        PROVE  x.stages[n] = IF n = t THEN d.stages[n] \cup {u} ELSE d.stages[n]
    <3>1. CASE t = 0
      BY <1>6, <3>1, NoName
    <3>2. CASE t # 0
      <4>1. x.stages = [d.stages EXCEPT ![t] = @ \cup {u}]
        BY <1>6, <3>2
      <4> QED BY <1>3, <4>1
    <3> QED BY <3>1, <3>2
  <2>3. DOMAIN e.stages = Names
    BY <1>10, <2>1
  <2>4. ASSUME NEW n \in Names
        PROVE  e.stages[n] = IF n = d.bound[u] THEN x.stages[n] \ {u} ELSE x.stages[n]
    <3>1. CASE d.bound[u] = 0
      BY <1>7, <1>10, <3>1, NoName
    <3>2. CASE d.bound[u] # 0
      <4>1. e.stages = [x.stages EXCEPT ![d.bound[u]] = @ \ {u}]
        BY <1>7, <1>10, <3>2
      <4> QED BY <2>1, <4>1
    <3> QED BY <3>1, <3>2
  <2> QED BY <1>8, <2>2, <2>3, <2>4
<1>15. UnitsSound(e)
  <2>1. \A v \in Units : e.bound[v] \in Names \cup {0}
    BY <1>3, <1>5, <1>12
  <2>2. DOMAIN e.unit = Units /\ DOMAIN e.bound = Units /\ DOMAIN e.textures = Units
    BY <1>3, <1>12, <1>13
  <2>3. \A v \in Units : e.bound[v] = IF v = u THEN t ELSE d.bound[v]
    BY <1>3, <1>12
  <2>4. \A v \in Units : e.unit[v] = IF v = u THEN t ELSE d.unit[v]
    BY <1>3, <1>12
  <2>5. DOMAIN e.stages = Names /\ \A n \in Names : e.stages[n] \subseteq Units
    <3>1. ASSUME NEW n \in Names
          PROVE  e.stages[n] \subseteq Units
      <4>1. d.stages[n] \subseteq Units
        BY <1>3
      <4>2. e.stages[n] \subseteq d.stages[n] \cup {u}
        BY <1>14
      <4> QED BY <1>1, <4>1, <4>2
    <3> QED BY <1>14, <3>1
  <2>6. \A v \in Units : e.unit[v] = IF e.bound[v] \in e.valid THEN e.bound[v] ELSE 0
    BY <1>3, <1>5, <1>13, <2>3, <2>4
  <2>7. \A v \in Units : e.bound[v] < e.next
    BY <1>3, <1>5, <1>13, <2>3
  <2>8. ASSUME NEW v \in Units, NEW n \in Names
        PROVE  v \in e.stages[n] <=> e.bound[v] = n
    <3>1. v \in d.stages[n] <=> d.bound[v] = n
      BY <1>3
    <3>2. u \in d.stages[n] <=> d.bound[u] = n
      BY <1>1, <1>3
    <3>3. CASE v = u
      BY ZenonT(30), <1>8, <1>14, <2>3, <3>2, <3>3
    <3>4. CASE v # u
      <4>1. v \in e.stages[n] <=> v \in d.stages[n]
        BY <1>14, <3>4
      <4>2. e.bound[v] = d.bound[v]
        BY <2>3, <3>4
      <4> QED BY <3>1, <4>1, <4>2
    <3> QED BY <3>3, <3>4
  <2> QED BY <2>1, <2>2, <2>5, <2>6, <2>7, <2>8 DEF UnitsSound
<1>16. StatesSound(e, S)
  BY <1>13 DEF Sound, StatesSound, Agree
<1>17. Sound(e, S, O)
  <2>1. Same(e, d, Binding)
    BY <1>11 DEF Same, Binding, Rebound, Stored
  <2> QED BY <1>10, <1>15, <1>16, <2>1, BoundParts
<1> QED BY <1>11, <1>17 DEF e, x, u

\* Another unit is active, and textures are bound elsewhere; nothing else is different.
Moved(e, d) ==
  /\ Same(e, d, Binding)
  /\ StatesBut(e, d, "activeTexture")

\* Two calls that only bind are one.
LEMMA MovedAgain ==
  ASSUME NEW c, NEW d, NEW e, Moved(d, c), Moved(e, d)
  PROVE  Moved(e, c)
BY DEF Moved, Same, StatesBut

\* What binding leaves alone.
LEMMA MovedFacts ==
  ASSUME NEW d, NEW e, Moved(e, d)
  PROVE  /\ e.valid = d.valid /\ e.next = d.next /\ e.textures = d.textures /\ e.image = d.image
         /\ e.attached = d.attached /\ e.points = d.points /\ e.target = d.target
         /\ e.depthBuffer = d.depthBuffer /\ e.backBuffer = d.backBuffer /\ e.shader = d.shader
BY DEF Moved, Same, StatesBut, Fields, Binding, Rebound, Stored

\* SetActiveTexture, which binds nothing.
LEMMA SetActiveTextureSound ==
  ASSUME NEW d, NEW S, NEW O, Sound(d, S, O), NEW u \in Units
  PROVE  LET e == SetActiveTexture(d, u) IN
         /\ Sound(e, S, O) /\ Moved(e, d) /\ e.bound = d.bound /\ e.unit = d.unit /\ Active(e) = u
<1> DEFINE e == SetActiveTexture(d, u)
<1>1. e = Cached(d, "activeTexture", u)
  BY DEF SetActiveTexture
<1> HIDE DEF e
<1>2. "activeTexture" \in StateNames /\ "activeTexture" \notin Switches
  BY DEF StateNames, Switches, Toggled
<1>3. Sound(e, S, O) /\ Stores(e, d, "activeTexture", u)
  BY <1>1, <1>2, CachedSound
<1>4. Moved(e, d) /\ e.bound = d.bound /\ e.unit = d.unit
  BY <1>3 DEF Stores, Moved, Same, StatesBut, Binding, Rebound, Stored, Fields
<1> QED BY <1>3, <1>4 DEF e, Stores, Active

\* Binding at the active unit is binding.
LEMMA ReboundMoved ==
  ASSUME NEW d, NEW e, Same(e, d, Rebound)
  PROVE  Moved(e, d)
BY DEF Moved, Same, StatesBut, Binding, Rebound, Stored, Fields

\* GLTexture::Bind.
LEMMA BindSound ==
  ASSUME NEW d, NEW S, NEW O, Sound(d, S, O), "activeTexture" \notin S,
         NEW t \in d.valid, NEW force
  PROVE  Sound(Bind(d, t, force), S, O) /\ Moved(Bind(d, t, force), d)
<1> DEFINE u == Active(d)
<1>1. Bind(d, t, force) = BindAt(d, t, force)
  BY DEF Bind, Checked
<1>2. t \in Names /\ t # 0
  BY NoName DEF Sound, ObjectsSound
<1>3. u \in Units
  BY ActiveAgrees DEF Active
<1>4. /\ d.stages[t] \subseteq Units /\ (u \in d.stages[t] <=> d.bound[u] = t)
  BY <1>2, <1>3 DEF Sound, UnitsSound
<1>5. CASE u \in d.stages[t]
  BY <1>1, <1>5 DEF BindAt, Moved, Same, StatesBut
<1>6. CASE u \notin d.stages[t] /\ ~force /\ d.stages[t] # {}
  <2>1. Min(d.stages[t]) \in Units
    BY <1>4, <1>6, MinIsLeast DEF Units
  <2>2. Bind(d, t, force) = SetActiveTexture(d, Min(d.stages[t]))
    BY <1>1, <1>6 DEF BindAt
  <2> QED BY <2>1, <2>2, SetActiveTextureSound
<1>7. CASE u \notin d.stages[t] /\ ~(~force /\ d.stages[t] # {})
  <2> DEFINE x == [d EXCEPT !.stages[t] = @ \cup {Active(d)}]
  <2>1. Bind(d, t, force) = BindTexture(x, t)
    BY <1>1, <1>7 DEF BindAt
  <2>2. t # d.bound[Active(d)]
    BY <1>4, <1>7
  <2>3. Sound(BindTexture(x, t), S, O) /\ Same(BindTexture(x, t), d, Rebound)
    BY <1>2, <2>2, BindTextureSound
  <2> QED BY <2>1, <2>3, ReboundMoved
<1> QED BY <1>5, <1>6, <1>7

\* SetTexture: the unit is made active and the texture is bound there.
LEMMA SetTextureSound ==
  ASSUME NEW d, NEW S, NEW O, Sound(d, S, O), "activeTexture" \notin S,
         NEW u \in Units, NEW t \in d.valid \cup {0}
  PROVE  LET e == SetTexture(d, u, t) IN
         /\ Sound(e, S, O) /\ Same(e, d, Binding \cup {"textures"})
         /\ StatesBut(e, d, "activeTexture")
<1> DEFINE c == TextureAt(d, u, t)
           e == SetTexture(d, u, t)
           a == SetActiveTexture(d, u)
<1>1. e = [c EXCEPT !.textures[u] = t]
  BY DEF SetTexture, Checked
<1>2. Sound(c, S, O) /\ Moved(c, d)
  <2>1. CASE d.bound[u] = t
    BY <2>1 DEF TextureAt, Moved, Same, StatesBut
  <2>2. CASE d.bound[u] # t
    <3>1. c = BindOrUnbind(a, t)
      BY <2>2 DEF TextureAt
    <3> HIDE DEF a, c
    <3>2. Sound(a, S, O) /\ Moved(a, d) /\ a.bound = d.bound /\ Active(a) = u
      BY SetActiveTextureSound DEF a
    <3>3. a.valid = d.valid
      BY <3>2, MovedFacts
    <3>4. CASE t = 0
      <4>1. c = BindTexture(a, 0)
        BY <3>1, <3>4 DEF BindOrUnbind
      <4>2. 0 # a.bound[Active(a)]
        BY <2>2, <3>2, <3>4
      <4>3. Sound(BindTexture(a, 0), S, O) /\ Same(BindTexture(a, 0), a, Rebound)
        BY <3>2, <4>2, BindTextureSound
      <4> QED BY <3>2, <4>1, <4>3, ReboundMoved, MovedAgain
    <3>5. CASE t # 0
      <4>1. c = Bind(a, t, TRUE)
        BY <3>1, <3>5 DEF BindOrUnbind
      <4>2. t \in a.valid
        BY <3>3, <3>5
      <4>3. Sound(c, S, O) /\ Moved(c, a)
        BY <3>2, <4>1, <4>2, BindSound
      <4> QED BY <3>2, <4>3, MovedAgain
    <3> QED BY <3>4, <3>5
  <2> QED BY <2>1, <2>2
<1> HIDE DEF c
<1>3. DOMAIN c = Fields /\ DOMAIN c.textures = Units
  BY <1>2 DEF Sound, UnitsSound
<1>4. DOMAIN e = Fields /\ Same(e, c, {"textures"}) /\ DOMAIN e.textures = Units
  BY <1>1, <1>3 DEF Same, Fields
<1> HIDE DEF e
<1>5. /\ e.st = c.st /\ e.ctx = c.ctx /\ e.bound = c.bound /\ e.stages = c.stages /\ e.unit = c.unit
      /\ e.valid = c.valid /\ e.next = c.next /\ e.released = c.released /\ e.failed = c.failed
      /\ e.attached = c.attached /\ e.target = c.target /\ e.depthBuffer = c.depthBuffer
      /\ e.points = c.points
  BY <1>4 DEF Same, Fields
<1>6. StatesSound(e, S)
  BY <1>2, <1>5 DEF Sound, StatesSound, Agree
<1>7. UnitsSound(e)
  BY <1>2, <1>4, <1>5 DEF Sound, UnitsSound
<1>8. ImagesSound(e, O)
  BY <1>2, <1>5 DEF Sound, ImagesSound
<1>9. ObjectsSound(e, O)
  BY <1>2, <1>5 DEF Sound, ObjectsSound
<1>10. Sound(e, S, O)
  BY <1>4, <1>6, <1>7, <1>8, <1>9 DEF Sound
<1>11. Same(e, d, Binding \cup {"textures"})
  BY <1>2, <1>4 DEF Moved, Same, StatesBut
<1> QED BY <1>2, <1>5, <1>10, <1>11 DEF e, Moved, StatesBut

\* Other textures may be bound and asked for.
Retextured(e, d) == Same(e, d, Binding \cup {"textures"}) /\ StatesBut(e, d, "activeTexture")

\* What SetTexture leaves alone.
LEMMA RetexturedFacts ==
  ASSUME NEW d, NEW e, Retextured(e, d)
  PROVE  /\ e.valid = d.valid /\ e.next = d.next /\ e.image = d.image
         /\ e.attached = d.attached /\ e.points = d.points /\ e.target = d.target
         /\ e.depthBuffer = d.depthBuffer /\ e.backBuffer = d.backBuffer /\ e.shader = d.shader
BY DEF Retextured, Same, Fields, Binding, Rebound, Stored

\* One unit of RestoreTextures.
LEMMA RestoreTextureSound ==
  ASSUME NEW d, NEW S, NEW O, Sound(d, S, O), "activeTexture" \notin S, NEW u \in Units
  PROVE  Sound(RestoreTexture(d, u), S, O) /\ Retextured(RestoreTexture(d, u), d)
<1> DEFINE t == IF d.textures[u] \in d.valid THEN d.textures[u] ELSE 0
<1>1. t \in d.valid \cup {0}
  OBVIOUS
<1> HIDE DEF t
<1>2. Sound(SetTexture(d, u, t), S, O) /\ Retextured(SetTexture(d, u, t), d)
  BY <1>1, SetTextureSound DEF Retextured
<1> QED BY <1>2 DEF RestoreTexture, t

\* RestoreTextures is a chain of calls.
LEMMA RestoreTexturesUnrolls ==
  ASSUME NEW d
  PROVE  \E f : /\ f[0] = d
                /\ \A i \in 1..NumUnits : f[i] = RestoreTexture(f[i - 1], i - 1)
                /\ RestoreTextures(d) = f[NumUnits]
<1> DEFINE Step(g, i) == IF i = 0 THEN d ELSE RestoreTexture(g[i - 1], i - 1)
           Upto(n) == \E g : g = [i \in 0..n |-> Step(g, i)]
           f == CHOOSE g : g = [i \in 0..NumUnits |-> Step(g, i)]
<1>1. NumUnits \in Nat
  BY AccountAssumption DEF TextureNames
<1>2. Upto(0)
  <2>1. [i \in 0..0 |-> d] = [i \in 0..0 |-> Step([j \in 0..0 |-> d], i)]
    OBVIOUS
  <2> QED BY <2>1
<1>3. ASSUME NEW n \in Nat, Upto(n)
      PROVE  Upto(n + 1)
  <2>1. PICK g : g = [i \in 0..n |-> Step(g, i)]
    BY <1>3
  <2>2. \A i \in 0..n : g[i] = Step(g, i)
    <3> HIDE DEF Step
    <3> QED BY <2>1
  <2> DEFINE h == [i \in 0..(n + 1) |-> IF i = n + 1 THEN Step(g, i) ELSE g[i]]
  <2>3. \A i \in 0..(n + 1) : h[i] = Step(h, i)
    <3> TAKE i \in 0..(n + 1)
    <3>1. CASE i = n + 1
      <4>1. h[i] = Step(g, i) /\ i - 1 \in 0..n /\ h[i - 1] = g[i - 1] /\ i # 0
        BY <3>1
      <4> HIDE DEF h
      <4> QED BY <4>1
    <3>2. CASE i # n + 1
      <4>1. i \in 0..n /\ h[i] = g[i] /\ g[i] = Step(g, i)
        BY <2>2, <3>2
      <4>2. i # 0 => i - 1 \in 0..n /\ h[i - 1] = g[i - 1]
        BY <3>2
      <4> HIDE DEF h
      <4> QED BY <4>1, <4>2
    <3> QED BY <3>1, <3>2
  <2>4. h = [i \in 0..(n + 1) |-> Step(h, i)]
    <3>1. h = [i \in 0..(n + 1) |-> h[i]]
      OBVIOUS
    <3> HIDE DEF h, Step
    <3> QED BY <2>3, <3>1
  <2> HIDE DEF h
  <2> QED BY <2>4
<1>4. Upto(NumUnits)
  <2> DEFINE A == {n \in Nat : Upto(n)}
  <2> HIDE DEF Upto
  <2>1. 0 \in A
    BY <1>2
  <2>2. ASSUME NEW i \in 1..NumUnits, i - 1 \in A
        PROVE  i \in A
    <3>1. i - 1 \in Nat /\ (i - 1) + 1 = i
      OBVIOUS
    <3>2. Upto((i - 1) + 1)
      BY <1>3, <2>2, <3>1
    <3> QED BY <3>1, <3>2
  <2> HIDE DEF A
  <2>3. 0..NumUnits \subseteq A
    BY <1>1, <2>1, <2>2, IntervalInduction
  <2> QED BY <1>1, <2>3 DEF A
<1>5. f = [i \in 0..NumUnits |-> Step(f, i)]
  BY <1>4
<1>6. RestoreTextures(d) = f[NumUnits]
  BY DEF RestoreTextures
<1> HIDE DEF f
<1>7. \A i \in 0..NumUnits : f[i] = Step(f, i)
  <2> HIDE DEF Step
  <2> QED BY <1>5
<1> QED BY <1>1, <1>6, <1>7

\* RestoreTextures, by induction over the units.
LEMMA RestoreTexturesSound ==
  ASSUME NEW d, NEW S, NEW O, Sound(d, S, O), "activeTexture" \notin S
  PROVE  Sound(RestoreTextures(d), S, O) /\ Retextured(RestoreTextures(d), d)
<1>1. PICK f : /\ f[0] = d
               /\ \A i \in 1..NumUnits : f[i] = RestoreTexture(f[i - 1], i - 1)
               /\ RestoreTextures(d) = f[NumUnits]
  BY RestoreTexturesUnrolls
<1>2. NumUnits \in Nat
  BY AccountAssumption DEF TextureNames
<1> DEFINE A == {i \in 0..NumUnits : Sound(f[i], S, O) /\ Retextured(f[i], d)}
<1>3. 0 \in A
  BY <1>1, <1>2 DEF Retextured, Same, StatesBut
<1>4. ASSUME NEW i \in 1..NumUnits, i - 1 \in A
      PROVE  i \in A
  <2>1. Sound(f[i - 1], S, O) /\ Retextured(f[i - 1], d)
    BY <1>4
  <2>2. f[i] = RestoreTexture(f[i - 1], i - 1) /\ i - 1 \in Units
    BY <1>1, <1>2 DEF Units
  <2>3. Sound(f[i], S, O) /\ Retextured(f[i], f[i - 1])
    BY <2>1, <2>2, RestoreTextureSound
  <2>4. Retextured(f[i], d)
    BY <2>1, <2>3 DEF Retextured, Same, StatesBut
  <2> QED BY <2>3, <2>4
<1>5. 0..NumUnits \subseteq A
  <2> HIDE DEF A
  <2> QED BY <1>2, <1>3, <1>4, IntervalInduction
<1>6. NumUnits \in A
  BY <1>2, <1>5
<1> QED BY <1>1, <1>6

\* What is attached now may be kept from being freed.
LEMMA MoreOwned ==
  ASSUME NEW d, NEW S, NEW O, NEW P \in SUBSET d.valid, Sound(d, S, O), O \subseteq P
  PROVE  Sound(d, S, P)
BY DEF Sound, ImagesSound, ObjectsSound

\* A new name, and whatever is bound for it to be set up.
Created(e, d) ==
  /\ Same(e, d, Binding \cup {"next", "valid"}) /\ StatesBut(e, d, "activeTexture")
  /\ e.next = d.next + 1 /\ e.valid = d.valid \cup {d.next}

\* What making a texture leaves alone.
LEMMA CreatedFacts ==
  ASSUME NEW d, NEW e, Created(e, d)
  PROVE  /\ e.textures = d.textures /\ e.image = d.image
         /\ e.attached = d.attached /\ e.points = d.points /\ e.target = d.target
         /\ e.depthBuffer = d.depthBuffer /\ e.backBuffer = d.backBuffer /\ e.shader = d.shader
BY DEF Created, Same, Fields, Binding, Rebound, Stored

\* GLTexture::Create, and the new texture may be kept from being freed.
LEMMA CreateSound ==
  ASSUME NEW d, NEW S, NEW O, Sound(d, S, O), "activeTexture" \notin S, d.next \in Names
  PROVE  /\ Sound(Create(d), S, O) /\ Created(Create(d), d)
         /\ Sound(Create(d), S, O \cup {d.next})
<1> DEFINE x == [d EXCEPT !.next = @ + 1, !.valid = @ \cup {d.next}]
           e == Create(d)
<1>1. e = Bind(x, d.next, FALSE)
  BY DEF Create, SetupTexture
<1>2. DOMAIN d = Fields
  BY DEF Sound
<1>3. /\ DOMAIN x = Fields /\ Same(x, d, {"next", "valid"})
      /\ x.next = d.next + 1 /\ x.valid = d.valid \cup {d.next}
  BY <1>2 DEF Same, Fields
<1> HIDE DEF x
<1>4. /\ x.st = d.st /\ x.ctx = d.ctx /\ x.bound = d.bound /\ x.stages = d.stages /\ x.unit = d.unit
      /\ x.textures = d.textures /\ x.released = d.released /\ x.failed = d.failed
      /\ x.attached = d.attached /\ x.target = d.target /\ x.depthBuffer = d.depthBuffer
      /\ x.points = d.points
  BY <1>3 DEF Same, Fields
<1>5. StatesSound(x, S)
  BY <1>4 DEF Sound, StatesSound, Agree
<1>6. /\ d.next \in Nat \ {0} /\ d.valid \subseteq Names /\ O \subseteq d.valid
      /\ \A t \in d.valid : t \in Nat /\ t < d.next
  BY NoName DEF Sound, ObjectsSound
<1>7. UnitsSound(x)
  <2>1. \A u \in Units : d.bound[u] \in Nat /\ d.bound[u] < d.next
    BY NoName DEF Sound, UnitsSound
  <2>2. \A u \in Units : d.unit[u] = IF d.bound[u] \in d.valid \cup {d.next} THEN d.bound[u] ELSE 0
    BY <1>6, <2>1 DEF Sound, UnitsSound
  <2>3. \A u \in Units : d.bound[u] < d.next + 1
    BY <1>6, <2>1
  <2> QED BY <1>3, <1>4, <2>2, <2>3 DEF Sound, UnitsSound
<1>8. ImagesSound(x, O)
  BY <1>4 DEF Sound, ImagesSound
<1>9. ObjectsSound(x, O)
  <2>1. d.next + 1 \in Nat \ {0} /\ \A t \in d.valid \cup {d.next} : t < d.next + 1
    BY <1>6
  <2> QED BY <1>3, <1>4, <1>6, <2>1 DEF Sound, ObjectsSound
<1>10. Sound(x, S, O)
  BY <1>3, <1>5, <1>7, <1>8, <1>9 DEF Sound
<1>11. Sound(e, S, O) /\ Moved(e, x)
  <2>1. d.next \in x.valid
    BY <1>3
  <2> HIDE DEF e
  <2> QED BY <1>1, <1>10, <2>1, BindSound
<1>12. e.next = x.next /\ e.valid = x.valid
  BY <1>11, MovedFacts
<1>13. Created(e, d)
  <2> HIDE DEF e
  <2>1. Same(e, d, Binding \cup {"next", "valid"})
    BY <1>3, <1>11 DEF Moved, Same
  <2>2. StatesBut(e, d, "activeTexture")
    BY <1>4, <1>11 DEF Moved, StatesBut
  <2> QED BY <1>3, <1>12, <2>1, <2>2 DEF Created
<1>14. Sound(e, S, O \cup {d.next})
  <2> HIDE DEF e
  <2>1. O \cup {d.next} \in SUBSET e.valid /\ O \subseteq O \cup {d.next}
    BY <1>3, <1>6, <1>12
  <2> QED BY <1>11, <2>1, MoreOwned
<1> QED BY <1>11, <1>13, <1>14

\* An upload to the texture at the active unit.
LEMMA TexImageSound ==
  ASSUME NEW d, NEW S, NEW O, Sound(d, S, O), NEW content
  PROVE  Sound(TexImage(d, content), S, O) /\ Same(TexImage(d, content), d, {"image"})
<1> DEFINE u == d.unit[d.ctx.activeTexture]
           e == TexImage(d, content)
<1>1. DOMAIN d = Fields
  BY DEF Sound
<1>2. DOMAIN e = Fields /\ Same(e, d, {"image"})
  <2>1. CASE u = 0
    BY <1>1, <2>1 DEF TexImage, Same
  <2>2. CASE u # 0
    <3>1. e = [d EXCEPT !.image[u] = content]
      BY <2>2 DEF TexImage
    <3> HIDE DEF e
    <3> QED BY <1>1, <3>1 DEF Same, Fields
  <2> QED BY <2>1, <2>2
<1> HIDE DEF e
<1>3. e.st = d.st /\ e.ctx = d.ctx
  BY <1>2 DEF Same, Fields
<1>4. StatesSound(e, S)
  BY <1>3 DEF Sound, StatesSound, Agree
<1>5. UnitsSound(e) /\ ImagesSound(e, O) /\ ObjectsSound(e, O)
  BY <1>2, {"image"} \in SUBSET Free, SameParts DEF Free
<1>6. Sound(e, S, O)
  BY <1>2, <1>4, <1>5 DEF Sound
<1> QED BY <1>2, <1>6 DEF e

\* A texture is bound and given content.
Filled(e, d) == Same(e, d, Binding \cup {"image"}) /\ StatesBut(e, d, "activeTexture")

\* What an upload leaves alone.
LEMMA FilledFacts ==
  ASSUME NEW d, NEW e, Filled(e, d)
  PROVE  /\ e.valid = d.valid /\ e.next = d.next /\ e.textures = d.textures
         /\ e.attached = d.attached /\ e.points = d.points /\ e.target = d.target
         /\ e.depthBuffer = d.depthBuffer /\ e.backBuffer = d.backBuffer /\ e.shader = d.shader
BY DEF Filled, Same, Fields, Binding, Rebound, Stored

\* GLMipmap::Unmap.
LEMMA UnmapSound ==
  ASSUME NEW d, NEW S, NEW O, Sound(d, S, O), "activeTexture" \notin S, NEW t \in d.valid, NEW content
  PROVE  Sound(Unmap(d, t, content), S, O) /\ Filled(Unmap(d, t, content), d)
<1> DEFINE b == Bind(d, t, FALSE)
           e == TexImage(b, content)
<1>1. Sound(b, S, O) /\ Moved(b, d)
  BY BindSound
<1> HIDE DEF b
<1>2. Sound(e, S, O) /\ Same(e, b, {"image"})
  BY <1>1, TexImageSound
<1> HIDE DEF e
<1>3. e.st = b.st /\ e.ctx = b.ctx
  BY <1>2 DEF Same, Fields
<1>4. Filled(e, d)
  BY <1>1, <1>2, <1>3 DEF Filled, Moved, Same, StatesBut
<1> QED BY <1>2, <1>4 DEF e, b, Unmap

\* GLDevice::CopyTex.
LEMMA CopyTexSound ==
  ASSUME NEW d, NEW S, NEW O, Sound(d, S, O), "activeTexture" \notin S, NEW t \in d.valid
  PROVE  Sound(CopyTex(d, t), S, O) /\ Filled(CopyTex(d, t), d)
<1>1. CopyTex(d, t) = Unmap(d, t, "frame")
  BY DEF CopyTex, Unmap
<1> QED BY <1>1, UnmapSound

\* FreeTexture, of a texture that nothing is drawn to: every unit that had it has none.
LEMMA FreeTextureSound ==
  ASSUME NEW d, NEW S, NEW O, Sound(d, S, O), NEW t \in d.valid \ O
  PROVE  LET e == FreeTexture(d, t) IN
         /\ Sound(e, S, O) /\ Same(e, d, {"valid", "unit", "image"}) /\ e.valid = d.valid \ {t}
<1> DEFINE e == FreeTexture(d, t)
<1>1. DOMAIN d = Fields /\ DOMAIN d.unit = Units
  BY DEF Sound, UnitsSound
<1>2. /\ DOMAIN e = Fields /\ Same(e, d, {"valid", "unit", "image"})
      /\ e.valid = d.valid \ {t}
      /\ e.unit = [u \in Units |-> IF d.unit[u] = t THEN 0 ELSE d.unit[u]]
  BY <1>1 DEF FreeTexture, Same, Fields
<1> HIDE DEF e
<1>4. /\ e.st = d.st /\ e.ctx = d.ctx /\ e.bound = d.bound /\ e.stages = d.stages /\ e.next = d.next
      /\ e.textures = d.textures /\ e.released = d.released /\ e.failed = d.failed
      /\ e.attached = d.attached /\ e.target = d.target /\ e.depthBuffer = d.depthBuffer
      /\ e.points = d.points
  BY <1>2 DEF Same, Fields
<1>5. StatesSound(e, S)
  BY <1>4 DEF Sound, StatesSound, Agree
<1>6. t \in Names /\ t # 0 /\ t \in d.valid /\ t \notin O
  BY NoName DEF Sound, ObjectsSound
<1>7. UnitsSound(e)
  <2>1. ASSUME NEW u \in Units
        PROVE  e.unit[u] = IF e.bound[u] \in e.valid THEN e.bound[u] ELSE 0
    <3>1. d.unit[u] = IF d.bound[u] \in d.valid THEN d.bound[u] ELSE 0
      BY DEF Sound, UnitsSound
    <3>2. e.unit[u] = IF d.unit[u] = t THEN 0 ELSE d.unit[u]
      BY <1>2
    <3> QED BY <1>2, <1>4, <1>6, <3>1, <3>2
  <2>2. DOMAIN e.unit = Units
    BY <1>2
  <2> QED BY <1>4, <2>1, <2>2 DEF Sound, UnitsSound
<1>8. ImagesSound(e, O)
  BY <1>4 DEF Sound, ImagesSound
<1>9. ObjectsSound(e, O)
  BY <1>2, <1>4, <1>6 DEF Sound, ObjectsSound
<1>10. Sound(e, S, O)
  BY <1>2, <1>5, <1>7, <1>8, <1>9 DEF Sound
<1> QED BY <1>2, <1>10 DEF e

\* Images are attached elsewhere.
Attachments == {"points", "attached"}
Reattached(e, d) == Same(e, d, Attachments)

\* What attaching leaves alone.
LEMMA ReattachedFacts ==
  ASSUME NEW d, NEW e, Reattached(e, d)
  PROVE  /\ e.st = d.st /\ e.ctx = d.ctx /\ e.bound = d.bound /\ e.stages = d.stages /\ e.unit = d.unit
         /\ e.textures = d.textures /\ e.released = d.released /\ e.failed = d.failed
         /\ e.valid = d.valid /\ e.next = d.next /\ e.target = d.target
         /\ e.depthBuffer = d.depthBuffer /\ e.backBuffer = d.backBuffer /\ e.shader = d.shader
BY DEF Reattached, Same, Fields, Attachments

\* Attaching leaves states, bindings and names sound.
LEMMA ReattachedSound ==
  ASSUME NEW d, NEW e, NEW S, NEW O, Sound(d, S, O), Reattached(e, d), DOMAIN e = Fields, ImagesSound(e, O)
  PROVE  Sound(e, S, O)
<1>1. StatesSound(e, S)
  BY ReattachedFacts DEF Sound, StatesSound, Agree
<1>2. UnitsSound(e)
  BY ReattachedFacts DEF Sound, UnitsSound
<1>3. ObjectsSound(e, O)
  BY ReattachedFacts DEF Sound, ObjectsSound
<1> QED BY <1>1, <1>2, <1>3 DEF Sound

\* GLFramebuffer::Detach.
LEMMA DetachSound ==
  ASSUME NEW d, NEW S, NEW O, Sound(d, S, O), NEW p \in Points
  PROVE  LET e == Detach(d, p) IN
         Sound(e, S, O) /\ Reattached(e, d) /\ e.attached = [d.attached EXCEPT ![p] = 0]
<1> DEFINE e == Detach(d, p)
           t == d.attached[p]
<1>1. /\ DOMAIN d = Fields /\ d.attached \in [Points -> O \cup {0}] /\ DOMAIN d.points = Names
      /\ d.target \in [Points -> O \cup {0}] /\ d.depthBuffer \in O \cup {0}
      /\ O \subseteq d.valid /\ d.valid \subseteq Names /\ d.failed = {}
      /\ \A n \in Names : d.points[n] \subseteq Points
      /\ \A q \in Points, n \in Names : q \in d.points[n] <=> d.attached[q] = n
  BY DEF Sound, ImagesSound, ObjectsSound
<1>2. CASE t = 0
  <2>1. e = d
    BY <1>2 DEF Detach
  <2>2. d.attached = [d.attached EXCEPT ![p] = 0]
    BY <1>1, <1>2
  <2> QED BY <2>1, <2>2 DEF Reattached, Same
<1>3. CASE t # 0
  <2>1. t \in d.valid /\ t \in Names /\ p \in d.points[t]
    BY <1>1, <1>3
  <2>2. DetachImage(d, t, p) = [d EXCEPT !.points[t] = @ \ {p}]
    BY <2>1 DEF DetachImage, Checked
  <2>3. e = [DetachImage(d, t, p) EXCEPT !.attached[p] = 0]
    BY <1>3 DEF Detach
  <2> DEFINE x == DetachImage(d, t, p)
  <2>4. /\ DOMAIN x = Fields /\ Same(x, d, {"points"})
        /\ x.points = [d.points EXCEPT ![t] = @ \ {p}]
    <3> HIDE DEF x
    <3> QED BY <1>1, <2>2 DEF x, Same, Fields
  <2> HIDE DEF x, e, t
  <2>5. /\ DOMAIN e = Fields /\ Same(e, x, {"attached"}) /\ x.attached = d.attached
        /\ e.attached = [d.attached EXCEPT ![p] = 0] /\ e.points = x.points
    BY <2>3, <2>4 DEF x, Same, Fields
  <2>6. Reattached(e, d)
    BY <2>4, <2>5 DEF Reattached, Same, Attachments
  <2>7. e.target = d.target /\ e.depthBuffer = d.depthBuffer
    BY <2>6, ReattachedFacts
  <2>8. \A q \in Points : e.attached[q] = IF q = p THEN 0 ELSE d.attached[q]
    BY <1>1, <2>5
  <2>9. e.attached \in [Points -> O \cup {0}]
    <3>1. d.attached \in [Points -> O \cup {0}]
      BY <1>1
    <3> QED BY <2>5, <3>1
  <2>10. /\ DOMAIN e.points = Names
         /\ \A n \in Names : e.points[n] = IF n = t THEN d.points[n] \ {p} ELSE d.points[n]
    <3>1. DOMAIN d.points = Names /\ e.points = [d.points EXCEPT ![t] = @ \ {p}]
      BY <1>1, <2>4, <2>5
    <3> QED BY <3>1
  <2>11. ASSUME NEW q \in Points, NEW n \in Names
         PROVE  q \in e.points[n] <=> e.attached[q] = n
    <3>1. q \in d.points[n] <=> d.attached[q] = n
      BY <1>1
    <3>2. CASE q = p
      <4>1. q \in d.points[n] <=> n = t
        BY <3>1, <3>2 DEF t
      <4> QED BY ZenonT(30), <2>8, <2>10, <3>2, <4>1, NoName
    <3>3. CASE q # p
      BY <2>8, <2>10, <3>1, <3>3
    <3> QED BY <3>2, <3>3
  <2>12. ImagesSound(e, O)
    <3>1. ASSUME NEW n \in Names
          PROVE  e.points[n] \subseteq Points
      <4>1. d.points[n] \subseteq Points
        BY <1>1
      <4>2. e.points[n] \subseteq d.points[n]
        BY <2>10
      <4> QED BY <4>1, <4>2
    <3> QED BY <1>1, <2>7, <2>9, <2>10, <2>11, <3>1 DEF ImagesSound
  <2>13. Sound(e, S, O)
    BY <2>5, <2>6, <2>12, ReattachedSound
  <2> QED BY <2>5, <2>6, <2>13 DEF e
<1> QED BY <1>2, <1>3

\* GLFramebuffer::Attach, of a texture nobody frees: what was there is detached first.
LEMMA AttachSound ==
  ASSUME NEW d, NEW S, NEW O, Sound(d, S, O), NEW p \in Points, NEW t \in O \cup {0}
  PROVE  Sound(Attach(d, t, p), S, O) /\ Reattached(Attach(d, t, p), d)
<1> DEFINE e == Attach(d, t, p)
           c == Detach(d, p)
           x == [c EXCEPT !.attached[p] = t]
<1>1. CASE t = 0
  BY <1>1, DetachSound DEF Attach
<1>2. CASE t # 0 /\ d.attached[p] = t
  BY <1>2 DEF Attach, Reattached, Same
<1>3. CASE t # 0 /\ d.attached[p] # t
  <2>1. e = AttachImage(x, t, p)
    BY <1>3 DEF Attach
  <2>2. Sound(c, S, O) /\ Reattached(c, d) /\ c.attached = [d.attached EXCEPT ![p] = 0]
    BY DetachSound
  <2>3. d.attached \in [Points -> O \cup {0}]
    BY DEF Sound, ImagesSound
  <2> HIDE DEF c
  <2>4. /\ DOMAIN c = Fields /\ c.attached \in [Points -> O \cup {0}] /\ DOMAIN c.points = Names
        /\ c.target \in [Points -> O \cup {0}] /\ c.depthBuffer \in O \cup {0}
        /\ O \subseteq c.valid /\ c.valid \subseteq Names /\ c.failed = {}
        /\ \A n \in Names : c.points[n] \subseteq Points
        /\ \A q \in Points, n \in Names : q \in c.points[n] <=> c.attached[q] = n
    BY <2>2 DEF Sound, ImagesSound, ObjectsSound
  <2>5. /\ DOMAIN x = Fields /\ Same(x, c, {"attached"}) /\ x.points = c.points /\ x.failed = {}
        /\ x.attached = [c.attached EXCEPT ![p] = t]
    BY <2>4 DEF Same, Fields
  <2> HIDE DEF x
  <2>6. t \in Names
    BY <1>3, <2>4
  <2> DEFINE old == c.points[t]
             pair == old \cup {p} = {"depth", "stencil"} /\ p \notin old
             freed == IF pair THEN {} ELSE old
  <2>7. c.attached[p] = 0 /\ p \notin old
    BY <2>2, <2>3, <2>4, <2>6, NoName
  <2>8. Checked(x, x.points[t] # {p}, "GLMipmap::Attach") = x
    BY <2>5, <2>7 DEF Checked
  <2>9. e = [x EXCEPT !.attached = [q \in Points |-> IF q \in freed THEN 0 ELSE @[q]],
                      !.points[t] = (old \ freed) \cup {p}]
    BY <2>1, <2>5, <2>8 DEF AttachImage
  <2>10. freed \subseteq old
    OBVIOUS
  <2> HIDE DEF freed, e
  <2>11. /\ DOMAIN e = Fields /\ Same(e, x, Attachments)
         /\ e.attached = [q \in Points |-> IF q \in freed THEN 0 ELSE x.attached[q]]
         /\ e.points = [c.points EXCEPT ![t] = (old \ freed) \cup {p}]
    BY <2>5, <2>9 DEF Same, Fields, Attachments
  <2>12. Reattached(e, d)
    BY <2>2, <2>5, <2>11 DEF Reattached, Same, Attachments
  <2>13. \A q \in Points : e.attached[q] = IF q \in freed THEN 0 ELSE IF q = p THEN t ELSE c.attached[q]
    BY <2>4, <2>5, <2>11
  <2>14. \A n \in Names : e.points[n] = IF n = t THEN (old \ freed) \cup {p} ELSE c.points[n]
    BY <2>4, <2>11
  <2>15. ASSUME NEW q \in Points, NEW n \in Names
         PROVE  q \in e.points[n] <=> e.attached[q] = n
    <3>1. (q \in c.points[n] <=> c.attached[q] = n) /\ (q \in old <=> c.attached[q] = t)
      BY <2>4, <2>6
    <3>2. CASE q = p
      BY <2>7, <2>10, <2>13, <2>14, <3>1, <3>2, NoName
    <3>3. CASE q # p /\ q \in freed
      BY <2>7, <2>10, <2>13, <2>14, <3>1, <3>3, NoName
    <3>4. CASE q # p /\ q \notin freed
      BY <2>13, <2>14, <3>1, <3>4
    <3> QED BY <3>2, <3>3, <3>4
  <2>16. ImagesSound(e, O)
    <3>1. e.target = c.target /\ e.depthBuffer = c.depthBuffer
      BY <2>2, <2>12, ReattachedFacts
    <3>2. ASSUME NEW n \in Names
          PROVE  e.points[n] \subseteq Points
      <4>1. c.points[n] \subseteq Points /\ old \subseteq Points
        BY <2>4, <2>6
      <4>2. e.points[n] \subseteq c.points[n] \cup old \cup {p}
        BY <2>14
      <4> HIDE DEF old
      <4> QED BY <4>1, <4>2
    <3>3. DOMAIN e.points = Names
      BY <2>4, <2>11
    <3>4. e.attached \in [Points -> O \cup {0}]
      BY <2>4, <2>11, <2>13
    <3> QED BY <2>4, <2>15, <3>1, <3>2, <3>3, <3>4 DEF ImagesSound
  <2>17. Sound(e, S, O)
    BY <2>11, <2>12, <2>16, ReattachedSound
  <2> QED BY <2>12, <2>17 DEF e
<1> QED BY <1>1, <1>2, <1>3

\* The objects are the same ones.
Kept(e, d) ==
  /\ e.valid = d.valid /\ e.next = d.next
  /\ e.target = d.target /\ e.depthBuffer = d.depthBuffer /\ e.backBuffer = d.backBuffer

\* Every call so far keeps names, targets and back buffers.
LEMMA KeptAll ==
  ASSUME NEW d, NEW e,
         \/ Moved(e, d) \/ Retextured(e, d) \/ Filled(e, d) \/ Reattached(e, d)
         \/ \E F \in SUBSET Free : Same(e, d, F)
  PROVE  Kept(e, d)
<1>1. CASE Moved(e, d)
  BY <1>1, MovedFacts DEF Kept
<1>2. CASE Retextured(e, d)
  BY <1>2, RetexturedFacts DEF Kept
<1>3. CASE Filled(e, d)
  BY <1>3, FilledFacts DEF Kept
<1>4. CASE Reattached(e, d)
  BY <1>4, ReattachedFacts DEF Kept
<1>5. CASE \E F \in SUBSET Free : Same(e, d, F)
  BY <1>5 DEF Kept, Same, Free, Fields
<1> QED BY <1>1, <1>2, <1>3, <1>4, <1>5

Others == Free \ Stored

\* Calls that change only what Sound says nothing of.
LEMMA OthersSound ==
  ASSUME NEW d, NEW e, NEW F \in SUBSET Others, NEW S, NEW O,
         Same(e, d, F), DOMAIN e = Fields, Sound(d, S, O)
  PROVE  Sound(e, S, O) /\ Kept(e, d) /\ e.st = d.st /\ e.ctx = d.ctx
<1>1. F \in SUBSET Free
  BY DEF Others
<1>2. UnitsSound(e) /\ ImagesSound(e, O) /\ ObjectsSound(e, O) /\ Kept(e, d)
  BY <1>1, SameParts DEF Kept
<1>3. e.st = d.st /\ e.ctx = d.ctx
  BY DEF Same, Fields, Others, Stored
<1>4. StatesSound(e, S)
  BY <1>3 DEF Sound, StatesSound, Agree
<1> QED BY <1>2, <1>3, <1>4 DEF Sound

\* Storing a state keeps names, targets and back buffers.
LEMMA StoresKept ==
  ASSUME NEW d, NEW e, NEW s, NEW v, Stores(e, d, s, v)
  PROVE  Kept(e, d) /\ e.shader = d.shader
<1>1. Same(e, d, Stored) /\ Stored \in SUBSET Free
  BY DEF Stores, Stored, Free
<1> QED BY <1>1, KeptAll DEF Same, Fields, Stored

\* States that are as they were.
StatesKept(e, d, X) == \A x \in X : e.st[x] = d.st[x] /\ e.ctx[x] = d.ctx[x]

\* The states of a kind of shader.
LEMMA ProgramStates ==
  ASSUME NEW k \in Targets
  PROVE  /\ k \in StateNames /\ Program(k) \in StateNames /\ k # Program(k)
         /\ k # "activeTexture" /\ Program(k) # "activeTexture"
         /\ k \notin Switches /\ Program(k) \notin Switches
<1>1. CASE k = "vertex"
  BY <1>1 DEF Program, StateNames, Switches, Toggled
<1>2. CASE k = "pixel"
  BY <1>2 DEF Program, StateNames, Switches, Toggled
<1> QED BY <1>1, <1>2 DEF Targets

\* SetShader.  After it OpenGL and m_States agree about whether there is one.
LEMMA SetShaderSound ==
  ASSUME NEW d, NEW S, NEW O, Sound(d, S, O), NEW k \in Targets, NEW sh
  PROVE  LET e == SetShader(d, k, sh) IN
         /\ Sound(e, S, O) /\ Kept(e, d)
         /\ StatesKept(e, d, StateNames \ {k, Program(k)})
         /\ d.ctx[k] = (sh # "none") => Sound(e, S \ {k}, O)
<1> DEFINE b == IF sh = "none" THEN d ELSE Cached(d, Program(k), sh)
           on == sh # "none"
           c == Cached(b, k, on)
           e == SetShader(d, k, sh)
<1>1. e = [c EXCEPT !.shader[k] = sh]
  BY DEF SetShader, BindShader
<1>2. Sound(b, S, O) /\ Kept(b, d) /\ StatesBut(b, d, Program(k))
  <2>1. CASE sh = "none"
    BY <2>1 DEF Kept, StatesBut
  <2>2. CASE sh # "none"
    <3>1. b = Cached(d, Program(k), sh)
      BY <2>2
    <3> HIDE DEF b
    <3>2. Sound(b, S, O) /\ Stores(b, d, Program(k), sh)
      BY <3>1, ProgramStates, CachedSound
    <3> QED BY <3>2, StoresKept DEF Stores
  <2> QED BY <2>1, <2>2
<1> HIDE DEF b, on
<1>3. Sound(c, S, O) /\ Stores(c, b, k, on) /\ (b.ctx[k] = on => Sound(c, S \ {k}, O))
  BY <1>2, ProgramStates, CachedSound
<1> HIDE DEF c
<1>4. Kept(c, d)
  BY <1>2, <1>3, StoresKept DEF Kept
<1>5. b.ctx[k] = d.ctx[k]
  BY <1>2, ProgramStates DEF StatesBut
<1>6. DOMAIN c = Fields
  BY <1>3 DEF Sound
<1>7. DOMAIN e = Fields /\ Same(e, c, {"shader"}) /\ {"shader"} \in SUBSET Others
  BY <1>1, <1>6 DEF Same, Fields, Others, Free, Stored
<1> HIDE DEF e
<1>8. Sound(e, S, O) /\ Kept(e, c) /\ e.st = c.st /\ e.ctx = c.ctx
  BY <1>3, <1>7, OthersSound
<1>9. Kept(e, d)
  BY <1>4, <1>8 DEF Kept
<1>10. StatesKept(e, d, StateNames \ {k, Program(k)})
  BY <1>2, <1>3, <1>8 DEF StatesKept, StatesBut, Stores
<1>11. ASSUME d.ctx[k] = on
       PROVE  Sound(e, S \ {k}, O)
  <2>1. Sound(c, S \ {k}, O)
    BY <1>3, <1>5, <1>11
  <2> QED BY <1>7, <2>1, OthersSound
<1> QED BY <1>8, <1>9, <1>10, <1>11 DEF e, on

\* SetShaderConstantsInternal.
LEMMA SetShaderConstantsSound ==
  ASSUME NEW d, NEW S, NEW O, Sound(d, S, O), NEW k, NEW i, NEW j, NEW values
  PROVE  LET e == SetShaderConstantsInternal(d, k, i, j, values) IN Sound(e, S, O) /\ Kept(e, d)
<1> DEFINE e == SetShaderConstantsInternal(d, k, i, j, values)
<1>1. DOMAIN d = Fields
  BY DEF Sound
<1>2. DOMAIN e = Fields /\ Same(e, d, {"consts", "range"})
  BY <1>1 DEF SetShaderConstantsInternal, Same, Fields
<1>3. {"consts", "range"} \in SUBSET Others
  BY DEF Others, Free, Stored
<1> HIDE DEF e
<1>4. Sound(e, S, O) /\ Kept(e, d)
  BY <1>2, <1>3, OthersSound
<1> QED BY <1>4 DEF e

\* Sending the constants of one kind of shader.
LEMMA FlushConstantsSound ==
  ASSUME NEW d, NEW S, NEW O, Sound(d, S, O), NEW k
  PROVE  Sound(FlushConstants(d, k), S, O) /\ Kept(FlushConstants(d, k), d)
<1> DEFINE e == FlushConstants(d, k)
<1>1. DOMAIN d = Fields
  BY DEF Sound
<1>2. DOMAIN e = Fields /\ Same(e, d, {"env", "range"})
  <2>1. CASE d.shader[k] = "none" \/ d.range[k][1] = d.range[k][2]
    BY <1>1, <2>1 DEF FlushConstants, Same
  <2>2. CASE ~(d.shader[k] = "none" \/ d.range[k][1] = d.range[k][2])
    <3>1. e = [d EXCEPT !.env[k] = [x \in Indices |-> IF d.range[k][1] <= x /\ x < d.range[k][2]
                                                      THEN d.consts[k][x] ELSE @[x]],
                        !.range[k] = <<0, 0>>]
      BY <2>2 DEF FlushConstants
    <3> HIDE DEF e
    <3> QED BY <1>1, <3>1 DEF Same, Fields
  <2> QED BY <2>1, <2>2
<1>3. {"env", "range"} \in SUBSET Others
  BY DEF Others, Free, Stored
<1> QED BY <1>2, <1>3, OthersSound

\* Sending all constants.
LEMMA ApplyShaderConstantsSound ==
  ASSUME NEW d, NEW S, NEW O, Sound(d, S, O)
  PROVE  Sound(ApplyShaderConstants(d), S, O) /\ Kept(ApplyShaderConstants(d), d)
BY FlushConstantsSound DEF ApplyShaderConstants, Kept

\* The two matrices.
LEMMA SetViewSound ==
  ASSUME NEW d, NEW S, NEW O, Sound(d, S, O), NEW m
  PROVE  /\ Sound(SetView(d, m), S, O) /\ Kept(SetView(d, m), d)
         /\ Sound(SetProjection(d, m), S, O) /\ Kept(SetProjection(d, m), d)
<1>1. DOMAIN d = Fields /\ {"xform"} \in SUBSET Others
  BY DEF Sound, Others, Free, Stored
<1>2. DOMAIN SetView(d, m) = Fields /\ Same(SetView(d, m), d, {"xform"})
  BY <1>1 DEF SetView, Same, Fields
<1>3. DOMAIN SetProjection(d, m) = Fields /\ Same(SetProjection(d, m), d, {"xform"})
  BY <1>1 DEF SetProjection, Same, Fields
<1> QED BY <1>1, <1>2, <1>3, OthersSound

\* ApplyTransforms.
LEMMA ApplyTransformsSound ==
  ASSUME NEW d, NEW S, NEW O, Sound(d, S, O)
  PROVE  Sound(ApplyTransforms(d), S, O) /\ Kept(ApplyTransforms(d), d)
<1> DEFINE F == {"xform", "glXform"}
           c == SetModelView(d)
           e == SendProjection(c)
<1>1. DOMAIN d = Fields /\ F \in SUBSET Others
  BY DEF Sound, Others, Free, Stored
<1>2. DOMAIN c = Fields /\ Same(c, d, F)
  BY <1>1 DEF SetModelView, Same, Fields
<1> HIDE DEF c
<1>3. DOMAIN e = Fields /\ Same(e, c, F)
  BY <1>2 DEF SendProjection, Same, Fields
<1> HIDE DEF e
<1>4. Same(e, d, F)
  BY <1>2, <1>3 DEF Same
<1> HIDE DEF F
<1>5. Sound(e, S, O) /\ Kept(e, d)
  BY <1>1, <1>3, <1>4, OthersSound
<1> QED BY <1>5 DEF e, c, ApplyTransforms

\* As it is between calls of CGxDeviceGLSDL: one depth buffer is the target's.
Settled(d, O) == Sound(d, {}, O) /\ d.target["depth"] = d.depthBuffer

\* A sound device stays settled while its targets are kept.
LEMMA SettledKept ==
  ASSUME NEW d, NEW e, NEW O, Settled(d, O), Sound(e, {}, O), Kept(e, d)
  PROVE  Settled(e, O)
BY DEF Settled, Kept

\* A setter of the device other than SetActiveTexture.
LEMMA SetterSound ==
  ASSUME NEW d, NEW S, NEW O, Sound(d, S, O), NEW s \in StateNames \ {"activeTexture"}, NEW v,
         s \in Switches => v \in BOOLEAN /\ s \notin S
  PROVE  Sound(Cached(d, s, v), S, O) /\ Kept(Cached(d, s, v), d) /\ StatesBut(Cached(d, s, v), d, s)
<1> DEFINE e == Cached(d, s, v)
<1>1. Sound(e, S, O) /\ Stores(e, d, s, v)
  BY CachedSound
<1> HIDE DEF e
<1>2. Kept(e, d) /\ StatesBut(e, d, s)
  BY <1>1, StoresKept DEF Stores
<1> QED BY <1>1, <1>2 DEF e

\* The depth target is the depth buffer already.
LEMMA CheckDepthTargetIs ==
  ASSUME NEW d, NEW S, NEW O, Sound(d, S, O), d.target["depth"] = d.depthBuffer
  PROVE  CheckDepthTarget(d) = d
<1>1. {d.target["color"], d.depthBuffer} \subseteq d.valid \cup {0}
  BY DEF Sound, ImagesSound, ObjectsSound, Points
<1> QED BY <1>1 DEF CheckDepthTarget, Checked, TargetDepth

\* What Clear and Draw begin with.
LEMMA PrepareTargetSound ==
  ASSUME NEW d, NEW O, Settled(d, O)
  PROVE  Settled(PrepareTarget(d), O) /\ Kept(PrepareTarget(d), d)
<1> DEFINE e == PrepareTarget(d)
<1>1. e = RestoreTextures(d)
  BY CheckDepthTargetIs DEF PrepareTarget, Settled
<1>2. Sound(e, {}, O) /\ Kept(e, d)
  BY <1>1, RestoreTexturesSound, KeptAll DEF Settled
<1> QED BY <1>2, SettledKept

\* A target is taken off the active unit.
LEMMA UntextureSound ==
  ASSUME NEW d, NEW S, NEW O, Sound(d, S, O), "activeTexture" \notin S, NEW p
  PROVE  Sound(Untexture(d, p), S, O) /\ Moved(Untexture(d, p), d)
<1>1. CASE d.target[p] # 0 /\ d.bound[Active(d)] = d.target[p]
  <2>1. Untexture(d, p) = BindTexture(d, 0) /\ 0 # d.bound[Active(d)]
    BY <1>1 DEF Untexture
  <2>2. Sound(BindTexture(d, 0), S, O) /\ Same(BindTexture(d, 0), d, Rebound)
    BY <2>1, BindTextureSound
  <2> QED BY <2>1, <2>2, ReboundMoved
<1>2. CASE ~(d.target[p] # 0 /\ d.bound[Active(d)] = d.target[p])
  BY <1>2 DEF Untexture, Moved, Same, StatesBut
<1> QED BY <1>1, <1>2

\* The states that Clear works with.
LEMMA ClearStates ==
  /\ {"colorMask", "clearColor", "clearDepth", "clearStencil", "scissor", "scissorTest", "viewport",
      "depthRange", "framebuffer"} \subseteq StateNames \ {"activeTexture"}
  /\ {"colorMask", "clearColor", "clearDepth", "clearStencil", "scissor", "viewport",
      "depthRange", "framebuffer"} \cap Switches = {}
  /\ {"scissorTest", "depthMask", "depthTest"} \subseteq Switches
  /\ Switches \subseteq StateNames \ {"activeTexture"}
BY DEF StateNames, Switches, Toggled

\* Clear: the color mask and the clear color.
LEMMA PrepareColorSound ==
  ASSUME NEW d, NEW O, Sound(d, {}, O), NEW mask, NEW color
  PROVE  Sound(PrepareColor(d, mask, color), {}, O) /\ Kept(PrepareColor(d, mask, color), d)
<1>1. CASE "color" \notin mask
  BY <1>1 DEF PrepareColor, Kept
<1>2. CASE "color" \in mask
  <2> DEFINE a == Untexture(d, "color")
             b == SetColorWriteMask(a, AllOn)
             e == SetClearColor(b, color)
  <2>1. Sound(a, {}, O) /\ Kept(a, d)
    BY UntextureSound, KeptAll
  <2> HIDE DEF a
  <2>2. Sound(b, {}, O) /\ Kept(b, a)
    BY <2>1, ClearStates, SetterSound DEF SetColorWriteMask
  <2> HIDE DEF b
  <2>3. Sound(e, {}, O) /\ Kept(e, b)
    BY <2>2, ClearStates, SetterSound DEF SetClearColor
  <2>4. e = PrepareColor(d, mask, color)
    BY <1>2 DEF b, a, PrepareColor
  <2> HIDE DEF e
  <2>5. Kept(e, d)
    BY <2>1, <2>2, <2>3 DEF Kept
  <2> QED BY <2>3, <2>4, <2>5
<1> QED BY <1>1, <1>2

\* The depth mask is not what m_States says until RestoreDepth.
Unmasked(d, mask) == IF d.target["depth"] # 0 /\ "depth" \in mask THEN {"depthMask"} ELSE {}

\* Clear: the depth buffer, after which the depth mask may be on behind m_States.
LEMMA PrepareDepthSound ==
  ASSUME NEW d, NEW O, Sound(d, {}, O), NEW mask
  PROVE  Sound(PrepareDepth(d, mask), Unmasked(d, mask), O) /\ Kept(PrepareDepth(d, mask), d)
<1>1. CASE d.target["depth"] = 0
  BY <1>1 DEF PrepareDepth, Kept, Unmasked
<1>2. CASE d.target["depth"] # 0 /\ "depth" \notin mask
  BY <1>2, DetachSound, KeptAll DEF PrepareDepth, Unmasked, Points
<1>3. CASE d.target["depth"] # 0 /\ "depth" \in mask
  <2> DEFINE a == Untexture(d, "depth")
             b == UnmaskDepth(a)
             e == SetClearDepth(b, 1)
  <2>1. Sound(a, {}, O) /\ Kept(a, d)
    BY UntextureSound, KeptAll
  <2> HIDE DEF a
  <2>2. Sound(b, {"depthMask"}, O) /\ Kept(b, a)
    <3>1. CASE a.st.depthMask
      <4>1. b = a
        BY <3>1 DEF UnmaskDepth
      <4>2. a.st["depthMask"] = TRUE /\ a.ctx["depthMask"] = TRUE
        <5>1. a.st["depthMask"] \in BOOLEAN /\ a.st["depthMask"] = a.ctx["depthMask"]
          BY <2>1 DEF Sound, StatesSound, Agree, Switches, StateNames
        <5> QED BY <3>1, <5>1
      <4>3. Sound(a, {"depthMask"}, O)
        BY <2>1, <4>2 DEF Sound, StatesSound, Agree
      <4> HIDE DEF b
      <4> QED BY <4>1, <4>3 DEF Kept
    <3>2. CASE ~a.st.depthMask
      <4>1. b = Gl(a, "depthMask", TRUE)
        BY <3>2 DEF UnmaskDepth
      <4> HIDE DEF b
      <4>2. Sound(b, {} \cup {"depthMask"}, O) /\ Same(b, a, {"ctx"})
        BY <2>1, <4>1, ClearStates, GlSound
      <4>3. {} \cup {"depthMask"} = {"depthMask"} /\ {"ctx"} \in SUBSET Free
        BY DEF Free
      <4> QED BY <4>2, <4>3, KeptAll
    <3> QED BY <3>1, <3>2
  <2> HIDE DEF b
  <2>3. Sound(e, {"depthMask"}, O) /\ Kept(e, b)
    BY <2>2, ClearStates, SetterSound DEF SetClearDepth
  <2>4. e = PrepareDepth(d, mask) /\ Unmasked(d, mask) = {"depthMask"}
    BY <1>3 DEF b, a, PrepareDepth, Unmasked
  <2> HIDE DEF e
  <2>5. Kept(e, d)
    BY <2>1, <2>2, <2>3 DEF Kept
  <2> QED BY <2>3, <2>4, <2>5
<1> QED BY <1>1, <1>2, <1>3

\* Clear: the stencil buffer.
LEMMA PrepareStencilSound ==
  ASSUME NEW d, NEW S, NEW O, Sound(d, S, O), "activeTexture" \notin S, NEW mask
  PROVE  Sound(PrepareStencil(d, mask), S, O) /\ Kept(PrepareStencil(d, mask), d)
<1>1. CASE d.target["stencil"] = 0
  BY <1>1 DEF PrepareStencil, Kept
<1>2. CASE d.target["stencil"] # 0 /\ "stencil" \notin mask
  BY <1>2, DetachSound, KeptAll DEF PrepareStencil, Points
<1>3. CASE d.target["stencil"] # 0 /\ "stencil" \in mask
  <2> DEFINE a == Untexture(d, "stencil")
             e == SetClearStencil(a, 0)
  <2>1. Sound(a, S, O) /\ Kept(a, d)
    BY UntextureSound, KeptAll
  <2> HIDE DEF a
  <2>2. Sound(e, S, O) /\ Kept(e, a)
    BY <2>1, ClearStates, SetterSound DEF SetClearStencil
  <2>3. e = PrepareStencil(d, mask)
    BY <1>3 DEF a, PrepareStencil
  <2> HIDE DEF e
  <2> QED BY <2>1, <2>2, <2>3 DEF Kept
<1> QED BY <1>1, <1>2, <1>3

\* SetScissor.
LEMMA SetScissorSound ==
  ASSUME NEW d, NEW S, NEW O, Sound(d, S, O), "scissorTest" \notin S, NEW on, NEW rect
  PROVE  Sound(SetScissor(d, on, rect), S, O) /\ Kept(SetScissor(d, on, rect), d)
<1>1. CASE ~on
  BY <1>1, ClearStates, SetterSound DEF SetScissor
<1>2. CASE on
  <2> DEFINE b == IF d.st.scissorTest THEN Gl(d, "scissorTest", TRUE) ELSE d
             e == Cached(b, "scissor", rect)
  <2>1. Sound(b, S, O) /\ Kept(b, d)
    <3>1. CASE ~d.st.scissorTest
      BY <3>1 DEF Kept
    <3>2. CASE d.st.scissorTest
      <4>1. d.st["scissorTest"] \in BOOLEAN
        BY ClearStates DEF Sound, StatesSound
      <4>2. d.st["scissorTest"] = TRUE
        BY <3>2, <4>1
      <4>3. Sound(Gl(d, "scissorTest", TRUE), S \ {"scissorTest"}, O) /\ Same(Gl(d, "scissorTest", TRUE), d, {"ctx"})
        BY <4>2, ClearStates, GlSound
      <4>4. S \ {"scissorTest"} = S /\ {"ctx"} \in SUBSET Free
        BY DEF Free
      <4> QED BY <3>2, <4>3, <4>4, KeptAll
    <3> QED BY <3>1, <3>2
  <2> HIDE DEF b
  <2>2. Sound(e, S, O) /\ Kept(e, b)
    BY <2>1, ClearStates, SetterSound
  <2>3. e = SetScissor(d, on, rect)
    BY <1>2 DEF b, SetScissor
  <2> HIDE DEF e
  <2> QED BY <2>1, <2>2, <2>3 DEF Kept
<1> QED BY <1>1, <1>2

\* Clear: glClear within the viewport; the scissor states are as before.
LEMMA ClearViewportSound ==
  ASSUME NEW d, NEW S, NEW O, Sound(d, S, O), "scissorTest" \notin S
  PROVE  Sound(ClearViewport(d), S, O) /\ Kept(ClearViewport(d), d)
<1> DEFINE a == SetScissor(d, TRUE, d.st.viewport)
           e == SetScissor(a, d.st.scissorTest, d.st.scissor)
<1>1. CASE d.st.viewport = "full"
  BY <1>1 DEF ClearViewport, Kept
<1>2. CASE d.st.viewport # "full"
  <2>1. Sound(a, S, O) /\ Kept(a, d)
    BY SetScissorSound
  <2>2. ClearViewport(d) = e
    BY <1>2 DEF ClearViewport
  <2> HIDE DEF a
  <2>3. Sound(e, S, O) /\ Kept(e, a)
    BY <2>1, SetScissorSound
  <2> QED BY <2>1, <2>2, <2>3 DEF Kept
<1> QED BY <1>1, <1>2

\* Clear: the color mask is put back.
LEMMA RestoreMaskSound ==
  ASSUME NEW d, NEW S, NEW O, Sound(d, S, O), NEW mask
  PROVE  Sound(RestoreMask(d, mask), S, O) /\ Kept(RestoreMask(d, mask), d)
<1>1. CASE mask = <<>>
  BY <1>1 DEF RestoreMask, Kept
<1>2. CASE mask # <<>>
  BY <1>2, ClearStates, SetterSound DEF RestoreMask, SetColorWriteMask
<1> QED BY <1>1, <1>2

\* Clear: the depth mask is put back, if it was taken, or the depth buffer.
LEMMA RestoreDepthSound ==
  ASSUME NEW d, NEW S, NEW O, Sound(d, S, O), NEW parts,
         S = IF "depth" \in parts THEN {"depthMask"} ELSE {}
  PROVE  Sound(RestoreDepth(d, parts), {}, O) /\ Kept(RestoreDepth(d, parts), d)
<1>1. CASE "depth" \notin parts
  <2>1. d.target["depth"] \in O \cup {0}
    BY DEF Sound, ImagesSound, Points
  <2>2. CASE d.target["depth"] = 0
    BY <1>1, <2>2 DEF RestoreDepth, Kept
  <2>3. CASE d.target["depth"] # 0
    <3> DEFINE e == Attach(d, d.target["depth"], "depth")
    <3>1. Sound(e, {}, O) /\ Kept(e, d)
      BY <1>1, <2>1, AttachSound, KeptAll DEF Points
    <3>2. RestoreDepth(d, parts) = e
      BY <1>1, <2>3 DEF RestoreDepth
    <3> QED BY <3>1, <3>2
  <2> QED BY <2>2, <2>3
<1>2. CASE "depth" \in parts
  <2>1. S = {"depthMask"}
    BY <1>2
  <2>2. d.st["depthMask"] \in BOOLEAN /\ d.ctx["depthMask"] = TRUE
    BY <2>1, ClearStates DEF Sound, StatesSound
  <2>3. CASE d.st["depthMask"] = TRUE
    <3>1. RestoreDepth(d, parts) = d
      BY <1>2, <2>3 DEF RestoreDepth
    <3>2. Sound(d, {}, O)
      BY <2>1, <2>2, <2>3 DEF Sound, StatesSound, Agree
    <3> QED BY <3>1, <3>2 DEF Kept
  <2>4. CASE d.st["depthMask"] = FALSE
    <3> DEFINE e == Gl(d, "depthMask", FALSE)
    <3>1. RestoreDepth(d, parts) = e
      BY <1>2, <2>4 DEF RestoreDepth
    <3>2. Sound(e, S \ {"depthMask"}, O) /\ Same(e, d, {"ctx"})
      BY <2>4, ClearStates, GlSound
    <3>3. S \ {"depthMask"} = {} /\ {"ctx"} \in SUBSET Free
      BY <2>1 DEF Free
    <3> HIDE DEF e
    <3>4. Kept(e, d)
      BY <3>2, <3>3, KeptAll
    <3> QED BY <3>1, <3>2, <3>3, <3>4
  <2> QED BY <2>2, <2>3, <2>4
<1> QED BY <1>1, <1>2

\* Clear: the stencil buffer is put back.
LEMMA RestoreStencilSound ==
  ASSUME NEW d, NEW O, Sound(d, {}, O), NEW parts
  PROVE  Sound(RestoreStencil(d, parts), {}, O) /\ Kept(RestoreStencil(d, parts), d)
<1>1. CASE "stencil" \in parts \/ d.target["stencil"] = 0
  BY <1>1 DEF RestoreStencil, Kept
<1>2. CASE ~("stencil" \in parts \/ d.target["stencil"] = 0)
  <2> DEFINE e == Attach(d, d.target["stencil"], "stencil")
  <2>1. d.target["stencil"] \in O \cup {0}
    BY DEF Sound, ImagesSound, Points
  <2>2. Sound(e, {}, O) /\ Kept(e, d)
    BY <2>1, AttachSound, KeptAll DEF Points
  <2>3. RestoreStencil(d, parts) = e
    BY <1>2 DEF RestoreStencil
  <2> QED BY <2>2, <2>3
<1> QED BY <1>1, <1>2

\* GLDevice::Clear leaves OpenGL as m_States says.
LEMMA ClearSound ==
  ASSUME NEW d, NEW O, Settled(d, O), NEW mask, NEW color
  PROVE  Settled(Clear(d, mask, color), O) /\ Kept(Clear(d, mask, color), d)
<1> DEFINE parts == mask \ {p \in {"depth", "stencil"} : d.target[p] = 0}
           a == PrepareTarget(d)
           b == PrepareColor(a, mask, color)
           c == PrepareDepth(b, mask)
           f == PrepareStencil(c, mask)
           g == ClearViewport(f)
           masked == IF "color" \in mask THEN d.st.colorMask ELSE <<>>
           h == RestoreMask(g, masked)
           i == RestoreDepth(h, parts)
           e == RestoreStencil(i, parts)
           S == Unmasked(d, mask)
<1>1. Clear(d, mask, color) = e
  BY DEF Clear
<1>2. Settled(a, O) /\ Kept(a, d)
  BY PrepareTargetSound
<1> HIDE DEF a
<1>3. Sound(b, {}, O) /\ Kept(b, a)
  BY <1>2, PrepareColorSound DEF Settled
<1> HIDE DEF b
<1>4. Sound(c, Unmasked(b, mask), O) /\ Kept(c, b)
  BY <1>3, PrepareDepthSound
<1>5. Unmasked(b, mask) = S
  BY <1>2, <1>3 DEF Unmasked, Kept
<1>6. "activeTexture" \notin S /\ "scissorTest" \notin S
  BY DEF Unmasked
<1>7. S = IF "depth" \in parts THEN {"depthMask"} ELSE {}
  BY DEF Unmasked
<1> HIDE DEF c, S, parts
<1>8. Sound(f, S, O) /\ Kept(f, c)
  BY <1>4, <1>5, <1>6, PrepareStencilSound
<1> HIDE DEF f
<1>9. Sound(g, S, O) /\ Kept(g, f)
  BY <1>6, <1>8, ClearViewportSound
<1> HIDE DEF g, masked
<1>10. Sound(h, S, O) /\ Kept(h, g)
  BY <1>9, RestoreMaskSound
<1> HIDE DEF h
<1>11. Sound(i, {}, O) /\ Kept(i, h)
  BY <1>7, <1>10, RestoreDepthSound
<1> HIDE DEF i
<1>12. Sound(e, {}, O) /\ Kept(e, i)
  BY <1>11, RestoreStencilSound
<1> HIDE DEF e
<1>13. Kept(e, d)
  BY <1>2, <1>3, <1>4, <1>8, <1>9, <1>10, <1>11, <1>12 DEF Kept
<1>14. Settled(e, O)
  BY <1>12, <1>13, SettledKept
<1> QED BY <1>1, <1>13, <1>14

\* What BlitFramebuffer sets in OpenGL only, and puts back.
Blitted == Toggled \cup {"cull", "colorMask", "framebuffer", "viewport"}

\* The states that Blit works with.
LEMMA BlitStates ==
  /\ Blitted \subseteq StateNames /\ Toggled \subseteq Switches
  /\ {"vertex", "pixel"} \subseteq StateNames \ Blitted
  /\ \A k \in Targets : Program(k) \notin Blitted \cup Targets
  /\ {"activeTexture", "depthMask"} \cap (Blitted \cup Targets) = {}
<1>1. Blitted \subseteq StateNames /\ Toggled \subseteq Switches
  BY DEF Blitted, Toggled, Switches, StateNames
<1>2. {"vertex", "pixel"} \subseteq StateNames \ Blitted
  BY DEF Blitted, Toggled, StateNames
<1>3. \A k \in Targets : Program(k) \notin Blitted \cup Targets
  BY DEF Blitted, Toggled, Targets, Program
<1>4. {"activeTexture", "depthMask"} \cap (Blitted \cup Targets) = {}
  BY DEF Blitted, Toggled, Targets
<1> QED BY <1>1, <1>2, <1>3, <1>4

\* What switching the tests off or on makes of each state.
LEMMA SwitchTestsFields ==
  ASSUME NEW d, NEW on, DOMAIN d = Fields, DOMAIN d.ctx = StateNames
  PROVE  LET e == SwitchTests(d, on) IN
         /\ DOMAIN e = Fields /\ Same(e, d, {"ctx"}) /\ DOMAIN e.ctx = StateNames
         /\ \A s \in StateNames : e.ctx[s] =
              (IF s \in Toggled /\ d.st[s] THEN on
               ELSE IF s = "cull" /\ d.st.cull # "off" THEN IF on THEN d.st.cull ELSE "off" ELSE d.ctx[s])
BY DEF SwitchTests, Same, Fields

\* x is d except for what OpenGL has.
Told(x, d) == DOMAIN x = Fields /\ Same(x, d, {"ctx"}) /\ DOMAIN x.ctx = StateNames
Tells(e, x, s, v) == e.ctx = [x.ctx EXCEPT ![s] = v]

\* OpenGL is told one more state behind m_States.
LEMMA GlTells ==
  ASSUME NEW d, NEW x, Told(x, d), NEW s \in StateNames, NEW v
  PROVE  Told(Gl(x, s, v), d) /\ Tells(Gl(x, s, v), x, s, v)
BY DEF Told, Tells, Gl, Same, Fields

\* What OpenGL is told to begin with.
LEMMA WholeSound ==
  ASSUME NEW d, NEW O, Sound(d, {}, O)
  PROVE  LET states == SwitchTests(Gl(Gl(d, "vertex", TRUE), "pixel", TRUE), FALSE)
             whole == Gl(Gl(Gl(states, "colorMask", AllOn), "framebuffer", 0), "viewport", "full")
         IN /\ Sound(whole, Blitted \cup Targets, O) /\ Kept(whole, d)
            /\ whole.st = d.st /\ whole.shader = d.shader
            /\ whole.ctx.vertex = TRUE /\ whole.ctx.pixel = TRUE
            /\ \A s \in Toggled : d.st[s] \/ whole.ctx[s] = d.ctx[s]
            /\ d.st.cull = "off" => whole.ctx.cull = d.ctx.cull
<1> DEFINE a == Gl(d, "vertex", TRUE)
           b == Gl(a, "pixel", TRUE)
           c == SwitchTests(b, FALSE)
           f == Gl(c, "colorMask", AllOn)
           g == Gl(f, "framebuffer", 0)
           e == Gl(g, "viewport", "full")
<1>1. /\ DOMAIN d = Fields /\ DOMAIN d.ctx = StateNames
      /\ DOMAIN d.st = StateNames
  BY DEF Sound, StatesSound
<1>3. /\ {"vertex", "pixel", "colorMask", "framebuffer", "viewport", "cull"} \subseteq StateNames
      /\ Toggled \subseteq StateNames
      /\ {"vertex", "pixel", "colorMask", "framebuffer", "viewport", "cull"} \cap Toggled = {}
  BY DEF StateNames, Toggled
<1>4. Told(d, d)
  BY <1>1 DEF Told, Same
<1>5. Told(a, d) /\ Tells(a, d, "vertex", TRUE)
  <2>1. "vertex" \in StateNames
    BY <1>3
  <2> QED BY GlTells, <1>4, <2>1
<1> HIDE DEF a
<1>6. Told(b, d) /\ Tells(b, a, "pixel", TRUE)
  <2>1. "pixel" \in StateNames
    BY <1>3
  <2> QED BY GlTells, <1>5, <2>1
<1> HIDE DEF b
<1>7. b.st = d.st
  BY <1>6 DEF Told, Same, Fields
<1>8. /\ Told(c, d)
      /\ \A s \in StateNames : c.ctx[s] =
              (IF s \in Toggled /\ d.st[s] THEN FALSE
               ELSE IF s = "cull" /\ d.st.cull # "off" THEN "off" ELSE b.ctx[s])
  <2>1. /\ DOMAIN c = Fields /\ Same(c, b, {"ctx"}) /\ DOMAIN c.ctx = StateNames
        /\ \A s \in StateNames : c.ctx[s] =
              (IF s \in Toggled /\ b.st[s] THEN FALSE
               ELSE IF s = "cull" /\ b.st.cull # "off" THEN IF FALSE THEN b.st.cull ELSE "off" ELSE b.ctx[s])
    BY <1>6, SwitchTestsFields DEF Told
  <2> HIDE DEF c
  <2>2. Told(c, d)
    BY <1>6, <2>1 DEF Told, Same
  <2> QED BY <1>7, <2>1, <2>2
<1> HIDE DEF c
<1>9. Told(f, d) /\ Tells(f, c, "colorMask", AllOn)
  <2>1. "colorMask" \in StateNames
    BY <1>3
  <2> QED BY GlTells, <1>8, <2>1
<1> HIDE DEF f
<1>10. Told(g, d) /\ Tells(g, f, "framebuffer", 0)
  <2>1. "framebuffer" \in StateNames
    BY <1>3
  <2> QED BY GlTells, <1>9, <2>1
<1> HIDE DEF g
<1>11. Told(e, d) /\ Tells(e, g, "viewport", "full")
  <2>1. "viewport" \in StateNames
    BY <1>3
  <2> QED BY GlTells, <1>10, <2>1
<1> HIDE DEF e
<1>12. /\ DOMAIN a.ctx = StateNames /\ DOMAIN b.ctx = StateNames /\ DOMAIN c.ctx = StateNames
       /\ DOMAIN f.ctx = StateNames /\ DOMAIN g.ctx = StateNames /\ DOMAIN e.ctx = StateNames
       /\ DOMAIN e = Fields /\ Same(e, d, {"ctx"})
  BY <1>5, <1>6, <1>8, <1>9, <1>10, <1>11 DEF Told
<1>13. e.st = d.st /\ e.shader = d.shader
  BY <1>12 DEF Same, Fields
<1>14. \A s \in StateNames \ {"colorMask", "framebuffer", "viewport"} : e.ctx[s] = c.ctx[s]
  BY <1>9, <1>10, <1>11, <1>12 DEF Tells
<1>15. \A s \in StateNames \ {"vertex", "pixel"} : b.ctx[s] = d.ctx[s]
  BY <1>1, <1>5, <1>6, <1>12 DEF Tells
<1>16. b.ctx["vertex"] = TRUE /\ b.ctx["pixel"] = TRUE
  BY <1>1, <1>3, <1>5, <1>6, <1>12 DEF Tells
<1>17. e.ctx["vertex"] = TRUE /\ e.ctx["pixel"] = TRUE
  <2>1. c.ctx["vertex"] = TRUE /\ c.ctx["pixel"] = TRUE
    BY <1>3, <1>8, <1>16
  <2> QED BY <1>3, <1>14, <2>1
<1>18. \A s \in StateNames \ (Blitted \cup Targets) : e.ctx[s] = d.ctx[s]
  <2> SUFFICES ASSUME NEW s \in StateNames \ (Blitted \cup Targets)
               PROVE  e.ctx[s] = d.ctx[s]
    OBVIOUS
  <2>1. s \notin Toggled /\ s \notin {"cull", "colorMask", "framebuffer", "viewport", "vertex", "pixel"}
    BY DEF Blitted, Targets
  <2> QED BY <1>8, <1>14, <1>15, <2>1
<1>19. ASSUME NEW s \in Toggled, ~d.st[s]
       PROVE  e.ctx[s] = d.ctx[s]
  <2>1. s \in StateNames /\ s \notin {"cull", "colorMask", "framebuffer", "viewport", "vertex", "pixel"}
    BY <1>3
  <2>2. c.ctx[s] = b.ctx[s]
    BY <1>8, <1>19, <2>1
  <2> QED BY <1>14, <1>15, <2>1, <2>2
<1>20. ASSUME d.st.cull = "off"
       PROVE  e.ctx.cull = d.ctx.cull
  <2>1. c.ctx["cull"] = b.ctx["cull"]
    BY <1>3, <1>8, <1>20
  <2>2. "cull" \in StateNames
    BY <1>3
  <2>3. e.ctx["cull"] = c.ctx["cull"] /\ b.ctx["cull"] = d.ctx["cull"]
    BY <1>14, <1>15, <2>2
  <2> QED BY <2>1, <2>3
<1>21. Kept(e, d) /\ UnitsSound(e) /\ ImagesSound(e, O) /\ ObjectsSound(e, O)
  BY <1>12, {"ctx"} \in SUBSET Free, SameParts DEF Free, Kept
<1>22. StatesSound(e, Blitted \cup Targets)
  <2>1. Agree(e, Blitted \cup Targets)
    BY <1>13, <1>18 DEF Sound, StatesSound, Agree
  <2>2. "depthMask" \notin Blitted \cup Targets
    BY BlitStates
  <2> QED BY <1>12, <1>13, <2>1, <2>2 DEF Sound, StatesSound
<1>23. Sound(e, Blitted \cup Targets, O)
  BY <1>12, <1>21, <1>22 DEF Sound
<1>24. /\ \A s \in Toggled : d.st[s] \/ e.ctx[s] = d.ctx[s]
       /\ d.st.cull = "off" => e.ctx.cull = d.ctx.cull
  BY <1>19, <1>20
<1> QED BY <1>13, <1>17, <1>21, <1>23, <1>24 DEF a, b, c, f, g, e

\* Both shaders; they agree again when OpenGL is where m_States thinks it is.
LEMMA UseShadersSound ==
  ASSUME NEW d, NEW S, NEW O, Sound(d, S, O), NEW vertex, NEW pixel
  PROVE  LET e == UseShaders(d, vertex, pixel) IN
         /\ Sound(e, S, O) /\ Kept(e, d)
         /\ StatesKept(e, d, Blitted)
         /\ (d.ctx["vertex"] = (vertex # "none") /\ d.ctx["pixel"] = (pixel # "none"))
            => Sound(e, S \ Targets, O)
<1> DEFINE c == SetShader(d, "vertex", vertex)
           e == SetShader(c, "pixel", pixel)
<1>1. UseShaders(d, vertex, pixel) = e
  BY DEF UseShaders
<1>2. "vertex" \in Targets /\ "pixel" \in Targets
  BY DEF Targets
<1>3. /\ Sound(c, S, O) /\ Kept(c, d) /\ StatesKept(c, d, StateNames \ {"vertex", Program("vertex")})
      /\ d.ctx["vertex"] = (vertex # "none") => Sound(c, S \ {"vertex"}, O)
  BY <1>2, SetShaderSound
<1> HIDE DEF c
<1>4. /\ Sound(e, S, O) /\ Kept(e, c) /\ StatesKept(e, c, StateNames \ {"pixel", Program("pixel")})
  BY <1>2, <1>3, SetShaderSound
<1>5. ASSUME d.ctx["vertex"] = (vertex # "none"), d.ctx["pixel"] = (pixel # "none")
      PROVE  Sound(e, S \ Targets, O)
  <2>1. Sound(c, S \ {"vertex"}, O)
    BY <1>3, <1>5
  <2>2. c.ctx["pixel"] = d.ctx["pixel"]
    BY <1>3 DEF StatesKept, StateNames, Program
  <2>3. Sound(e, (S \ {"vertex"}) \ {"pixel"}, O)
    BY <1>2, <1>5, <2>1, <2>2, SetShaderSound
  <2>4. (S \ {"vertex"}) \ {"pixel"} = S \ Targets
    BY DEF Targets
  <2> QED BY <2>3, <2>4
<1> HIDE DEF e
<1>6. StatesKept(e, d, Blitted)
  <2>1. Blitted \subseteq StateNames \ {"vertex", Program("vertex")}
    BY <1>2, BlitStates
  <2>2. Blitted \subseteq StateNames \ {"pixel", Program("pixel")}
    BY <1>2, BlitStates
  <2>3. StatesKept(c, d, Blitted) /\ StatesKept(e, c, Blitted)
    BY <1>3, <1>4, <2>1, <2>2 DEF StatesKept
  <2> QED BY <2>3 DEF StatesKept
<1>7. Kept(e, d)
  BY <1>3, <1>4 DEF Kept
<1> QED BY <1>1, <1>4, <1>5, <1>6, <1>7

\* Blit: of everything it tells OpenGL only the framebuffer is not put back.
LEMMA BlitFramebufferSound ==
  ASSUME NEW d, NEW O, Sound(d, {}, O), NEW src \in d.valid
  PROVE  LET e == BlitFramebuffer(d, src) IN Sound(e, {"framebuffer"}, O) /\ Kept(e, d)
<1> DEFINE X == Blitted \cup Targets
           states == SwitchTests(Gl(Gl(d, "vertex", TRUE), "pixel", TRUE), FALSE)
           whole == Gl(Gl(Gl(states, "colorMask", AllOn), "framebuffer", 0), "viewport", "full")
           a == SetActiveTexture(whole, 0)
           b == Bind(a, src, TRUE)
           drawn == UseShaders(b, "blit", "blit")
           unset == UseShaders(drawn, d.shader["vertex"], d.shader["pixel"])
           r == SwitchTests(unset, TRUE)
           m == Gl(r, "colorMask", d.st.colorMask)
           e == Gl(m, "viewport", d.st.viewport)
<1>1. BlitFramebuffer(d, src) = e
  BY DEF BlitFramebuffer
<1>2. /\ Sound(whole, X, O) /\ Kept(whole, d)
      /\ whole.st = d.st
      /\ whole.ctx["vertex"] = TRUE /\ whole.ctx["pixel"] = TRUE
      /\ \A s \in Toggled : d.st[s] \/ whole.ctx[s] = d.ctx[s]
      /\ d.st["cull"] = "off" => whole.ctx["cull"] = d.ctx["cull"]
  BY WholeSound
<1> HIDE DEF whole
<1>3. "activeTexture" \notin X /\ "depthMask" \notin X
  BY BlitStates
<1>4. 0 \in Units
  BY AccountAssumption DEF Units, TextureNames
<1> HIDE DEF X
<1>5. Sound(a, X, O) /\ Moved(a, whole)
  BY <1>2, <1>4, SetActiveTextureSound
<1> HIDE DEF a
<1>6. src \in a.valid
  BY <1>2, <1>5, MovedFacts DEF Kept
<1>7. Sound(b, X, O) /\ Moved(b, whole)
  BY <1>3, <1>5, <1>6, BindSound, MovedAgain
<1> HIDE DEF b
<1>8. /\ b.ctx["vertex"] = TRUE /\ b.ctx["pixel"] = TRUE /\ StatesKept(b, whole, Blitted)
  <2>1. "vertex" \in StateNames \ {"activeTexture"} /\ "pixel" \in StateNames \ {"activeTexture"}
    BY BlitStates DEF StateNames
  <2>2. Blitted \subseteq StateNames \ {"activeTexture"}
    BY BlitStates
  <2>3. StatesBut(b, whole, "activeTexture")
    BY <1>7 DEF Moved
  <2>4. b.ctx["vertex"] = TRUE /\ b.ctx["pixel"] = TRUE
    BY <1>2, <2>1, <2>3 DEF StatesBut
  <2> QED BY <2>2, <2>3, <2>4 DEF StatesBut, StatesKept
<1>9. Kept(b, d)
  <2>1. Kept(b, whole)
    BY <1>7, KeptAll
  <2> QED BY <1>2, <2>1 DEF Kept
<1>10. Sound(drawn, X \ Targets, O) /\ Kept(drawn, b) /\ StatesKept(drawn, b, Blitted)
  <2>1. b.ctx["vertex"] = ("blit" # "none") /\ b.ctx["pixel"] = ("blit" # "none")
    BY <1>8
  <2> QED BY <1>7, <2>1, UseShadersSound
<1> HIDE DEF drawn
<1>11. X \ Targets = Blitted
  BY BlitStates DEF X, Targets
<1>12. Sound(unset, Blitted, O) /\ Kept(unset, drawn) /\ StatesKept(unset, drawn, Blitted)
  BY <1>10, <1>11, UseShadersSound
<1> HIDE DEF unset
<1>13. Kept(unset, d)
  BY <1>9, <1>10, <1>12 DEF Kept
<1>14. \A s \in Blitted : unset.st[s] = d.st[s] /\ unset.ctx[s] = whole.ctx[s]
  BY <1>2, <1>8, <1>10, <1>12 DEF StatesKept
<1>15. /\ DOMAIN unset = Fields /\ DOMAIN unset.ctx = StateNames /\ DOMAIN unset.st = StateNames
  BY <1>12 DEF Sound, StatesSound
<1>16. /\ DOMAIN r = Fields /\ Same(r, unset, {"ctx"}) /\ DOMAIN r.ctx = StateNames
       /\ \A s \in StateNames : r.ctx[s] =
              (IF s \in Toggled /\ unset.st[s] THEN TRUE
               ELSE IF s = "cull" /\ unset.st.cull # "off" THEN IF TRUE THEN unset.st.cull ELSE "off"
               ELSE unset.ctx[s])
  BY <1>15, SwitchTestsFields
<1> HIDE DEF r
<1>17. r.st = unset.st
  BY <1>16 DEF Same, Fields
<1> DEFINE R == {"colorMask", "framebuffer", "viewport"}
<1>18. Agree(r, R)
  <2> SUFFICES ASSUME NEW s \in StateNames, s # "alphaTest", s \notin R
               PROVE  r.st[s] = r.ctx[s]
    BY DEF Agree
  <2>1. CASE s \in Toggled
    <3>1. s \in Blitted /\ s # "cull" /\ s \in Switches
      BY <2>1, BlitStates DEF Blitted, Toggled
    <3>2. unset.st[s] \in BOOLEAN /\ unset.st[s] = d.st[s] /\ unset.ctx[s] = whole.ctx[s]
      BY <1>12, <1>14, <3>1 DEF Sound, StatesSound
    <3>3. d.st[s] = d.ctx[s]
      BY DEF Sound, StatesSound, Agree
    <3>4. CASE unset.st[s] = TRUE
      BY <1>16, <1>17, <2>1, <3>4
    <3>5. CASE unset.st[s] = FALSE
      <4>1. r.ctx[s] = unset.ctx[s]
        BY <1>16, <3>1, <3>5
      <4>2. whole.ctx[s] = d.ctx[s]
        BY <1>2, <2>1, <3>2, <3>5
      <4> QED BY <1>17, <3>2, <3>3, <4>1, <4>2
    <3> QED BY <3>2, <3>4, <3>5
  <2>2. CASE s = "cull"
    <3>1. "cull" \in Blitted /\ "cull" \notin Toggled /\ "cull" \in StateNames
      BY DEF Blitted, Toggled, StateNames
    <3>2. d.st["cull"] = d.ctx["cull"]
      BY <2>2 DEF Sound, StatesSound, Agree
    <3>3. unset.st["cull"] = d.st["cull"] /\ unset.ctx["cull"] = whole.ctx["cull"]
      BY <1>14, <3>1
    <3>4. r.ctx["cull"] = IF unset.st["cull"] # "off" THEN unset.st["cull"] ELSE unset.ctx["cull"]
      BY <1>16, <3>1
    <3> QED BY <1>2, <1>17, <2>2, <3>2, <3>3, <3>4
  <2>3. CASE s \notin Toggled /\ s # "cull"
    <3>1. s \notin Blitted
      BY <2>3 DEF Blitted
    <3>2. unset.st[s] = unset.ctx[s]
      BY <1>12, <3>1 DEF Sound, StatesSound, Agree
    <3> QED BY <1>16, <1>17, <2>3, <3>2
  <2> QED BY <2>1, <2>2, <2>3
<1>19. UnitsSound(r) /\ ImagesSound(r, O) /\ ObjectsSound(r, O) /\ Kept(r, unset)
  BY <1>12, <1>16, {"ctx"} \in SUBSET Free, SameParts DEF Free, Kept
<1>20. Sound(r, R, O)
  <2>1. StatesSound(r, R)
    BY <1>12, <1>15, <1>16, <1>17, <1>18 DEF Sound, StatesSound
  <2> QED BY <1>16, <1>19, <2>1 DEF Sound
<1>21. r.st["colorMask"] = d.st["colorMask"] /\ r.st["viewport"] = d.st["viewport"]
  BY <1>14, <1>17 DEF Blitted
<1>22. Sound(m, R \ {"colorMask"}, O) /\ Same(m, r, {"ctx"})
  BY <1>20, <1>21, ClearStates, GlSound
<1> HIDE DEF m
<1>23. m.st = r.st /\ Kept(m, r)
  BY <1>22, {"ctx"} \in SUBSET Free, KeptAll DEF Same, Fields, Free
<1>24. Sound(e, (R \ {"colorMask"}) \ {"viewport"}, O) /\ Same(e, m, {"ctx"})
  <2>1. "viewport" \in StateNames /\ m.st["viewport"] = d.st["viewport"]
    BY <1>21, <1>23, ClearStates
  <2> QED BY <1>22, <2>1, GlSound
<1> HIDE DEF e
<1>25. Kept(e, m)
  BY <1>24, {"ctx"} \in SUBSET Free, KeptAll DEF Free
<1>26. Kept(e, d)
  BY <1>13, <1>19, <1>23, <1>25 DEF Kept
<1>27. (R \ {"colorMask"}) \ {"viewport"} = {"framebuffer"}
  OBVIOUS
<1> QED BY <1>1, <1>24, <1>26, <1>27

-----------------------------------------------------------------------------
(* Sending the render states.                                              *)

PlainStates ==
  {"BlendingMode", "AlphaRef", "FogStart", "FogEnd", "FogColor", "Lighting", "Fog", "DepthTest",
   "DepthFunc", "DepthWrite", "Culling"}

\* The texture states are those of the units.
LEMMA TextureSeqFacts ==
  /\ NumUnits \in 1..3 /\ DOMAIN TextureSeq = 1..NumUnits /\ Len(TextureSeq) = NumUnits
  /\ TextureSeq \in Seq(TextureStates)
  /\ \A u \in Units : TextureState(u) \in TextureStates
  /\ \A s \in TextureStates : \E u \in Units : TextureState(u) = s
  /\ TextureStates \subseteq {"Texture0", "Texture1", "Texture2"}
<1>1. NumUnits \in 1..3
  BY AccountAssumption DEF TextureNames
<1>2. TextureSeq \in [1..NumUnits -> TextureStates] /\ DOMAIN TextureSeq = 1..NumUnits
  BY <1>1 DEF TextureSeq, TextureStates, Range
<1>3. TextureSeq \in Seq(TextureStates) /\ Len(TextureSeq) = NumUnits
  BY <1>1, <1>2
<1>4. \A u \in Units : u + 1 \in 1..NumUnits /\ TextureState(u) = TextureSeq[u + 1]
  BY <1>1 DEF Units, TextureSeq, TextureState
<1>5. ASSUME NEW s \in TextureStates
      PROVE  \E u \in Units : TextureState(u) = s
  <2>1. PICK i \in 1..NumUnits : s = TextureSeq[i]
    BY <1>2 DEF TextureStates, Range
  <2>2. i - 1 \in Units /\ (i - 1) + 1 = i
    BY <1>1 DEF Units
  <2>3. TextureState(i - 1) = s
    BY <1>4, <2>1, <2>2
  <2> QED BY <2>2, <2>3
<1>6. \A u \in Units : TextureState(u) \in TextureStates
  BY <1>2, <1>4
<1>7. TextureStates \subseteq {"Texture0", "Texture1", "Texture2"}
  <2>1. \A i \in 1..NumUnits : TextureSeq[i] \in {"Texture0", "Texture1", "Texture2"}
    BY <1>1 DEF TextureSeq, TextureNames
  <2> QED BY <1>2, <2>1 DEF TextureStates, Range
<1> QED BY <1>1, <1>2, <1>3, <1>5, <1>6, <1>7

\* The unit of a texture state.
LEMMA UnitOfFacts ==
  ASSUME NEW s \in TextureStates
  PROVE  UnitOf(s) \in Units /\ TextureState(UnitOf(s)) = s
BY TextureSeqFacts DEF UnitOf

\* The states: plain ones, textures and shaders.
LEMMA AllStatesFacts ==
  /\ AllStates \in Seq(Range(AllStates))
  /\ Range(AllStates) = PlainStates \cup TextureStates \cup Shaders
  /\ (PlainStates \cup Shaders) \cap TextureStates = {}
<1> DEFINE first == <<"BlendingMode", "AlphaRef", "FogStart", "FogEnd", "FogColor", "Lighting", "Fog", "DepthTest",
                      "DepthFunc", "DepthWrite", "Culling">>
           last == <<"PixelShader", "VertexShader">>
           T == PlainStates \cup TextureStates \cup Shaders
           mid == first \o TextureSeq
<1>1. first \in Seq(T) /\ last \in Seq(T) /\ TextureSeq \in Seq(T)
  BY TextureSeqFacts DEF PlainStates, Shaders
<1>2. /\ \A x : Has(first, x) <=> x \in PlainStates
      /\ \A x : Has(last, x) <=> x \in Shaders
      /\ \A x : Has(TextureSeq, x) <=> x \in TextureStates
  <2>1. Len(first) = 11 /\ Len(last) = 2
    OBVIOUS
  <2>2. ASSUME NEW x PROVE Has(first, x) <=> x \in PlainStates
    <3>1. \A i \in 1..11 : first[i] \in PlainStates
      BY DEF PlainStates
    <3>2. \A y \in PlainStates : \E i \in 1..11 : first[i] = y
      BY DEF PlainStates
    <3> HIDE DEF first
    <3> QED BY <2>1, <3>1, <3>2 DEF Has
  <2>3. ASSUME NEW x PROVE Has(last, x) <=> x \in Shaders
    BY <2>1 DEF Has, Shaders
  <2>4. ASSUME NEW x PROVE Has(TextureSeq, x) <=> x \in TextureStates
    BY TextureSeqFacts DEF Has, TextureStates, Range
  <2> QED BY <2>2, <2>3, <2>4
<1> HIDE DEF first, last
<1>3. mid \in Seq(T) /\ \A x : Has(mid, x) <=> Has(first, x) \/ Has(TextureSeq, x)
  BY <1>1, ConcatFacts
<1>4. AllStates = mid \o last
  BY DEF AllStates, first, last
<1> HIDE DEF mid
<1>5. AllStates \in Seq(T) /\ \A x : Has(AllStates, x) <=> Has(mid, x) \/ Has(last, x)
  BY <1>1, <1>3, <1>4, ConcatFacts
<1> HIDE DEF T
<1>6. DOMAIN AllStates = 1..Len(AllStates)
  BY <1>5, LenProperties
<1>7. \A x : x \in Range(AllStates) <=> Has(AllStates, x)
  BY <1>6 DEF Range, Has
<1>8. Range(AllStates) = PlainStates \cup TextureStates \cup Shaders
  BY <1>2, <1>3, <1>5, <1>7
<1>9. AllStates \in Seq(Range(AllStates))
  BY <1>5, <1>8 DEF T
<1>10. (PlainStates \cup Shaders) \cap TextureStates = {}
  BY TextureSeqFacts DEF PlainStates, Shaders
<1> QED BY <1>8, <1>9, <1>10

\* Swap stores the framebuffer it left OpenGL with.
LEMMA SwapSound ==
  ASSUME NEW d, NEW O, Settled(d, O), d.backBuffer["color"] \in O
  PROVE  Settled(Swap(d), O) /\ Kept(Swap(d), d)
<1> DEFINE src == d.backBuffer["color"]
           c == CopyTex(d, src)
           b == BlitFramebuffer(c, src)
           e == [b EXCEPT !.st.framebuffer = 0, !.ctx.framebuffer = 0]
<1>1. Sound(d, {}, O) /\ src \in d.valid /\ src # 0
  BY NoName DEF Settled, Sound, ObjectsSound
<1>2. Sound(c, {}, O) /\ Kept(c, d)
  BY <1>1, CopyTexSound, KeptAll
<1>3. c.backBuffer["color"] = src /\ src \in c.valid
  BY <1>1, <1>2 DEF Kept
<1>4. Swap(d) = e
  BY <1>1, <1>3 DEF Swap, DrawRect
<1> HIDE DEF c, src
<1>5. Sound(b, {"framebuffer"}, O) /\ Kept(b, c)
  BY <1>2, <1>3, BlitFramebufferSound
<1> HIDE DEF b
<1>6. /\ DOMAIN b = Fields /\ DOMAIN b.st = StateNames /\ DOMAIN b.ctx = StateNames
      /\ b.st["activeTexture"] \in Units
      /\ \A s \in Switches : b.st[s] \in BOOLEAN
      /\ Agree(b, {"framebuffer"})
  BY <1>5 DEF Sound, StatesSound
<1>7. /\ DOMAIN e = Fields /\ Same(e, b, Stored)
      /\ e.st = [b.st EXCEPT !["framebuffer"] = 0] /\ e.ctx = [b.ctx EXCEPT !["framebuffer"] = 0]
  BY <1>6 DEF Same, Fields, Stored
<1> HIDE DEF e
<1>8. UnitsSound(e) /\ ImagesSound(e, O) /\ ObjectsSound(e, O) /\ Kept(e, b)
  BY <1>5, <1>7, Stored \in SUBSET Free, SameParts DEF Free, Stored, Kept
<1>9. "framebuffer" \in StateNames /\ "framebuffer" \notin Switches /\ "activeTexture" \in StateNames
      /\ Switches \subseteq StateNames
  BY ClearStates DEF StateNames
<1>10. \A s \in Switches : e.st[s] = b.st[s]
  BY <1>6, <1>7, <1>9
<1>11. Agree(e, {})
  BY <1>6, <1>7, <1>9 DEF Agree
<1>12. e.st["activeTexture"] \in Units
  BY <1>6, <1>7, <1>9
<1>13. StatesSound(e, {})
  BY <1>6, <1>7, <1>10, <1>11, <1>12 DEF StatesSound
<1>14. Sound(e, {}, O)
  BY <1>7, <1>8, <1>13 DEF Sound
<1>15. Kept(e, d)
  BY <1>2, <1>5, <1>8 DEF Kept
<1> QED BY <1>4, <1>14, <1>15, SettledKept

\* GLDevice::Draw.
LEMMA DrawSound ==
  ASSUME NEW d, NEW O, Settled(d, O)
  PROVE  Settled(GLSDLDraw(d), O) /\ Kept(GLSDLDraw(d), d)
<1> DEFINE a == PrepareTarget(d)
           b == DrawnVertex(a)
           c == DrawnPixel(b)
           e == ApplyShaderConstants(c)
<1>1. Sound(a, {}, O) /\ Kept(a, d)
  BY PrepareTargetSound DEF Settled
<1> HIDE DEF a
<1>2. "vertex" \in Targets /\ "pixel" \in Targets
  BY DEF Targets
<1>3. Sound(b, {}, O) /\ Kept(b, a)
  <2>1. CASE a.shader["vertex"] = "none"
    BY <1>1, <2>1, ApplyTransformsSound DEF DrawnVertex
  <2>2. CASE a.shader["vertex"] # "none"
    BY <1>1, <1>2, <2>2, SetShaderSound DEF DrawnVertex
  <2> QED BY <2>1, <2>2
<1> HIDE DEF b
<1>4. Sound(c, {}, O) /\ Kept(c, b)
  <2>1. CASE b.shader["pixel"] = "none"
    BY <1>3, <2>1 DEF DrawnPixel, Kept
  <2>2. CASE b.shader["pixel"] # "none"
    BY <1>2, <1>3, <2>2, SetShaderSound DEF DrawnPixel
  <2> QED BY <2>1, <2>2
<1> HIDE DEF c
<1>5. Sound(e, {}, O) /\ Kept(e, c)
  BY <1>4, ApplyShaderConstantsSound
<1>6. GLSDLDraw(d) = e
  BY DEF GLSDLDraw, a, b, c
<1> HIDE DEF e
<1>7. Kept(e, d)
  BY <1>1, <1>3, <1>4, <1>5 DEF Kept
<1> QED BY <1>5, <1>6, <1>7, SettledKept

\* The states that Sound asks something of.
ValueFits(s, v) == s \in {"DepthTest", "DepthWrite"} => v \in BOOLEAN

\* Sending one state that is no texture.
LEMMA SendStateSound ==
  ASSUME NEW d, NEW O, Sound(d, {}, O), NEW s \in Range(AllStates) \ TextureStates, NEW v, ValueFits(s, v)
  PROVE  Sound(SendState(d, s, v), {}, O) /\ Kept(SendState(d, s, v), d)
<1> DEFINE e == SendState(d, s, v)
<1>1. s \in {"BlendingMode", "AlphaRef", "FogStart", "FogEnd", "FogColor", "Lighting", "Fog", "DepthTest",
             "DepthFunc", "DepthWrite", "Culling", "VertexShader", "PixelShader"}
  BY AllStatesFacts DEF PlainStates, Shaders
<1>2. CASE s = "BlendingMode"
  <2> DEFINE b == Cached(d, "blend", TRUE)
             c == Cached(b, "blendFunc", v)
             f == Cached(c, "blendOp", "add")
  <2>1. /\ {"blend", "blendFunc", "blendOp"} \subseteq StateNames \ {"activeTexture"}
        /\ "blendFunc" \notin Switches /\ "blendOp" \notin Switches
    BY DEF StateNames, Switches, Toggled
  <2>4. ASSUME NEW on \in BOOLEAN
        PROVE  Sound(Cached(d, "blend", on), {}, O) /\ Kept(Cached(d, "blend", on), d)
    BY <2>1, SetterSound
  <2>2. CASE v \in {"opaque", "alphakey"}
    <3>1. e = Cached(d, "blend", FALSE)
      BY <1>2, <2>2 DEF SendState, Shaders, SetAlphaBlendEnable
    <3> QED BY <2>4, <3>1
  <2>3. CASE v \notin {"opaque", "alphakey"}
    <3>1. e = f
      BY <1>2, <2>3 DEF SendState, Shaders, SetAlphaBlend, SetAlphaBlendEnable
    <3>2. Sound(b, {}, O) /\ Kept(b, d)
      BY <2>4
    <3> HIDE DEF b
    <3>3. Sound(c, {}, O) /\ Kept(c, b)
      BY <2>1, <3>2, SetterSound
    <3> HIDE DEF c
    <3>4. Sound(f, {}, O) /\ Kept(f, c)
      BY <2>1, <3>3, SetterSound
    <3>5. Kept(f, d)
      <4> HIDE DEF f
      <4> QED BY <3>2, <3>3, <3>4 DEF Kept
    <3> QED BY <3>1, <3>4, <3>5
  <2> QED BY <2>2, <2>3
<1>3. CASE s = "AlphaRef"
  <2>1. ASSUME NEW x, Sound(x, {}, O), NEW on
        PROVE  Sound(SetAlphaTestEnable(x, on), {}, O) /\ Kept(SetAlphaTestEnable(x, on), x)
    <3>1. CASE x.st.alphaTest = on
      BY <2>1, <3>1 DEF SetAlphaTestEnable, Kept
    <3>2. CASE x.st.alphaTest # on
      <4> DEFINE g == Gl(x, "alphaTest", on)
      <4>1. SetAlphaTestEnable(x, on) = g /\ "alphaTest" \in StateNames
        BY <3>2 DEF SetAlphaTestEnable, StateNames
      <4>2. Sound(g, {} \ {"alphaTest"}, O) /\ Same(g, x, {"ctx"})
        BY <2>1, <4>1, GlSound
      <4>3. {} \ {"alphaTest"} = {} /\ {"ctx"} \in SUBSET Free
        BY DEF Free
      <4> HIDE DEF g
      <4> QED BY <4>1, <4>2, <4>3, KeptAll
    <3> QED BY <3>1, <3>2
  <2>2. CASE v <= 0
    <3>1. e = SetAlphaTestEnable(d, FALSE)
      BY <1>3, <2>2 DEF SendState, Shaders
    <3> QED BY <2>1, <3>1
  <2>3. CASE ~(v <= 0)
    <3> DEFINE b == Cached(d, "alphaFunc", <<"gequal", v>>)
    <3>1. e = SetAlphaTestEnable(b, TRUE)
      BY <1>3, <2>3 DEF SendState, Shaders, SetAlphaTest
    <3>2. "alphaFunc" \in StateNames \ {"activeTexture"} /\ "alphaFunc" \notin Switches
      BY DEF StateNames, Switches, Toggled
    <3>3. Sound(b, {}, O) /\ Kept(b, d)
      BY <3>2, SetterSound
    <3> HIDE DEF b
    <3>4. Sound(e, {}, O) /\ Kept(e, b)
      BY <2>1, <3>1, <3>3
    <3>5. Kept(e, d)
      <4> HIDE DEF e
      <4> QED BY <3>3, <3>4 DEF Kept
    <3> QED BY <3>4, <3>5
  <2> QED BY <2>2, <2>3
<1>4. CASE s \in {"VertexShader", "PixelShader"}
  <2>1. e = SetShader(d, KindOf(s), v) /\ KindOf(s) \in Targets
    BY <1>4 DEF SendState, Shaders, KindOf, Targets
  <2> QED BY <2>1, SetShaderSound
<1>5. CASE s \in {"FogStart", "FogEnd", "FogColor", "Lighting", "Fog", "DepthTest", "DepthFunc", "DepthWrite", "Culling"}
  <2> DEFINE x == CASE s = "FogStart" -> "fogStart" [] s = "FogEnd" -> "fogEnd" [] s = "FogColor" -> "fogColor"
                    [] s = "Lighting" -> "lighting" [] s = "Fog" -> "fog" [] s = "DepthTest" -> "depthTest"
                    [] s = "DepthFunc" -> "depthFunc" [] s = "DepthWrite" -> "depthMask" [] s = "Culling" -> "cull"
  <2>1. e = Cached(d, x, v)
    BY <1>5 DEF SendState, Shaders, SetFogParam, SetFogColor, SetLightingEnable, SetFogEnable, SetDepthTestEnable,
                SetDepthTestFunc, SetDepthWriteMask, SetCullMode
  <2>2. x \in StateNames \ {"activeTexture"}
    BY <1>5 DEF StateNames
  <2>3. x \in Switches => s \in {"DepthTest", "DepthWrite"}
    BY <1>5 DEF Switches, Toggled
  <2>4. x \in Switches => v \in BOOLEAN
    BY <2>3 DEF ValueFits
  <2> HIDE DEF x
  <2> QED BY <2>1, <2>2, <2>4, SetterSound
<1> QED BY <1>1, <1>2, <1>3, <1>4, <1>5

\* f[i] is what there is after i states are sent.
Sending(f, w, states, values) ==
  /\ f[0] = w
  /\ \A i \in 1..Len(states) : f[i] = IRsSendToHw(f[i - 1], states[i], values[states[i]])
  /\ SendStates(w, states, values) = f[Len(states)]


\* SendStates is a chain of calls.
LEMMA SendStatesUnrolls ==
  ASSUME NEW w, NEW states, NEW values, Len(states) \in Nat
  PROVE  \E f : Sending(f, w, states, values)
<1> DEFINE Step(g, i) == IF i = 0 THEN w ELSE IRsSendToHw(g[i - 1], states[i], values[states[i]])
           Upto(n) == \E g : g = [i \in 0..n |-> Step(g, i)]
           f == CHOOSE g : g = [i \in 0..Len(states) |-> Step(g, i)]
<1>1. Len(states) \in Nat
  OBVIOUS
<1>2. Upto(0)
  <2>1. [i \in 0..0 |-> w] = [i \in 0..0 |-> Step([j \in 0..0 |-> w], i)]
    OBVIOUS
  <2> QED BY <2>1
<1>3. ASSUME NEW n \in Nat, Upto(n)
      PROVE  Upto(n + 1)
  <2>1. PICK g : g = [i \in 0..n |-> Step(g, i)]
    BY <1>3
  <2>2. \A i \in 0..n : g[i] = Step(g, i)
    <3> HIDE DEF Step
    <3> QED BY <2>1
  <2> DEFINE h == [i \in 0..(n + 1) |-> IF i = n + 1 THEN Step(g, i) ELSE g[i]]
  <2>3. \A i \in 0..(n + 1) : h[i] = Step(h, i)
    <3> TAKE i \in 0..(n + 1)
    <3>1. CASE i = n + 1
      <4>1. h[i] = Step(g, i) /\ i - 1 \in 0..n /\ h[i - 1] = g[i - 1] /\ i # 0
        BY <3>1
      <4> HIDE DEF h
      <4> QED BY <4>1
    <3>2. CASE i # n + 1
      <4>1. i \in 0..n /\ h[i] = g[i] /\ g[i] = Step(g, i)
        BY <2>2, <3>2
      <4>2. i # 0 => i - 1 \in 0..n /\ h[i - 1] = g[i - 1]
        BY <3>2
      <4> HIDE DEF h
      <4> QED BY <4>1, <4>2
    <3> QED BY <3>1, <3>2
  <2>4. h = [i \in 0..(n + 1) |-> Step(h, i)]
    <3>1. h = [i \in 0..(n + 1) |-> h[i]]
      OBVIOUS
    <3> HIDE DEF h, Step
    <3> QED BY <2>3, <3>1
  <2> HIDE DEF h
  <2> QED BY <2>4
<1>4. Upto(Len(states))
  <2> DEFINE A == {n \in Nat : Upto(n)}
  <2> HIDE DEF Upto
  <2>1. 0 \in A
    BY <1>2
  <2>2. ASSUME NEW i \in 1..Len(states), i - 1 \in A
        PROVE  i \in A
    <3>1. i - 1 \in Nat /\ (i - 1) + 1 = i
      OBVIOUS
    <3>2. Upto((i - 1) + 1)
      BY <1>3, <2>2, <3>1
    <3> QED BY <3>1, <3>2
  <2> HIDE DEF A
  <2>3. 0..Len(states) \subseteq A
    BY <1>1, <2>1, <2>2, IntervalInduction
  <2> QED BY <1>1, <2>3 DEF A
<1>5. f = [i \in 0..Len(states) |-> Step(f, i)]
  BY <1>4
<1>6. SendStates(w, states, values) = f[Len(states)]
  BY DEF SendStates
<1> HIDE DEF f
<1>7. \A i \in 0..Len(states) : f[i] = Step(f, i)
  <2> HIDE DEF Step
  <2> QED BY <1>5
<1>8. Sending(f, w, states, values)
  BY <1>1, <1>6, <1>7 DEF Sending
<1> QED BY <1>8

\* The dirty states, from the last one to the first.
LEMMA IRsSyncUnrolls ==
  ASSUME Len(dirtyStates) \in Nat
  PROVE  \E f : /\ f[0] = <<>>
                /\ \A i \in 1..Len(dirtyStates) : f[i] = SentAfter(f[i - 1], dirtyStates[Len(dirtyStates) + 1 - i])
                /\ IRsSync = f[Len(dirtyStates)]
<1> DEFINE Step(g, i) == IF i = 0 THEN <<>> ELSE SentAfter(g[i - 1], dirtyStates[Len(dirtyStates) + 1 - i])
           Upto(n) == \E g : g = [i \in 0..n |-> Step(g, i)]
           f == CHOOSE g : g = [i \in 0..Len(dirtyStates) |-> Step(g, i)]
<1>1. Len(dirtyStates) \in Nat
  OBVIOUS
<1>2. Upto(0)
  <2>1. [i \in 0..0 |-> <<>>] = [i \in 0..0 |-> Step([j \in 0..0 |-> <<>>], i)]
    OBVIOUS
  <2> QED BY <2>1
<1>3. ASSUME NEW n \in Nat, Upto(n)
      PROVE  Upto(n + 1)
  <2>1. PICK g : g = [i \in 0..n |-> Step(g, i)]
    BY <1>3
  <2>2. \A i \in 0..n : g[i] = Step(g, i)
    <3> HIDE DEF Step
    <3> QED BY <2>1
  <2> DEFINE h == [i \in 0..(n + 1) |-> IF i = n + 1 THEN Step(g, i) ELSE g[i]]
  <2>3. \A i \in 0..(n + 1) : h[i] = Step(h, i)
    <3> TAKE i \in 0..(n + 1)
    <3>1. CASE i = n + 1
      <4>1. h[i] = Step(g, i) /\ i - 1 \in 0..n /\ h[i - 1] = g[i - 1] /\ i # 0
        BY <3>1
      <4> HIDE DEF h
      <4> QED BY <4>1
    <3>2. CASE i # n + 1
      <4>1. i \in 0..n /\ h[i] = g[i] /\ g[i] = Step(g, i)
        BY <2>2, <3>2
      <4>2. i # 0 => i - 1 \in 0..n /\ h[i - 1] = g[i - 1]
        BY <3>2
      <4> HIDE DEF h
      <4> QED BY <4>1, <4>2
    <3> QED BY <3>1, <3>2
  <2>4. h = [i \in 0..(n + 1) |-> Step(h, i)]
    <3>1. h = [i \in 0..(n + 1) |-> h[i]]
      OBVIOUS
    <3> HIDE DEF h, Step
    <3> QED BY <2>3, <3>1
  <2> HIDE DEF h
  <2> QED BY <2>4
<1>4. Upto(Len(dirtyStates))
  <2> DEFINE A == {n \in Nat : Upto(n)}
  <2> HIDE DEF Upto
  <2>1. 0 \in A
    BY <1>2
  <2>2. ASSUME NEW i \in 1..Len(dirtyStates), i - 1 \in A
        PROVE  i \in A
    <3>1. i - 1 \in Nat /\ (i - 1) + 1 = i
      OBVIOUS
    <3>2. Upto((i - 1) + 1)
      BY <1>3, <2>2, <3>1
    <3> QED BY <3>1, <3>2
  <2> HIDE DEF A
  <2>3. 0..Len(dirtyStates) \subseteq A
    BY <1>1, <2>1, <2>2, IntervalInduction
  <2> QED BY <1>1, <2>3 DEF A
<1>5. f = [i \in 0..Len(dirtyStates) |-> Step(f, i)]
  BY <1>4
<1>6. IRsSync = f[Len(dirtyStates)]
  BY DEF IRsSync
<1> HIDE DEF f
<1>7. \A i \in 0..Len(dirtyStates) : f[i] = Step(f, i)
  <2> HIDE DEF Step
  <2> QED BY <1>5
<1> QED BY <1>1, <1>6, <1>7

\* What is sent are dirty states.
LEMMA IRsSyncFacts ==
  ASSUME dirtyStates \in Seq(Range(AllStates)), dirty \subseteq Range(AllStates)
  PROVE  IRsSync \in Seq(dirty)
<1> DEFINE N == Len(dirtyStates)
<1>1. N \in Nat
  OBVIOUS
<1>2. PICK f : /\ f[0] = <<>>
               /\ \A i \in 1..N : f[i] = SentAfter(f[i - 1], dirtyStates[N + 1 - i])
               /\ IRsSync = f[N]
  BY <1>1, IRsSyncUnrolls
<1> DEFINE A == {i \in 0..N : f[i] \in Seq(dirty)}
<1>3. 0 \in A
  <2>1. 0 \in 0..N /\ <<>> \in Seq(dirty)
    BY <1>1
  <2> QED BY <1>2, <2>1
<1>4. ASSUME NEW i \in 1..N, i - 1 \in A
      PROVE  i \in A
  <2>1. f[i - 1] \in Seq(dirty)
    BY <1>4
  <2>2. f[i] = SentAfter(f[i - 1], dirtyStates[N + 1 - i])
    BY <1>2
  <2>3. f[i] \in Seq(dirty)
    BY <2>1, <2>2, AppendProperties DEF SentAfter
  <2> QED BY <2>3
<1>5. 0..N \subseteq A
  <2> HIDE DEF A, N
  <2> QED BY <1>1, <1>3, <1>4, IntervalInduction
<1>6. N \in A
  BY <1>1, <1>5
<1> QED BY <1>2, <1>6

-----------------------------------------------------------------------------
(* The device and the textures together.                                   *)

\* The device's own textures: the static one and the buffers of the window.
Own == 1..3
DeviceSound(d) == Settled(d, Own) /\ d.backBuffer["color"] \in Own
TexFields == {"alive", "gl", "needsUpdate", "needsFlagUpdate", "data"}
TexturesSound(d, x) ==
  /\ DOMAIN x = Textures
  /\ \A t \in Textures :
       /\ DOMAIN x[t] = TexFields
       /\ x[t].gl \in (d.valid \ Own) \cup {0}
       /\ ~x[t].alive => x[t].gl = 0
  /\ \A t, u \in Textures : x[t].gl = x[u].gl /\ x[t].gl # 0 => t = u
World(w) == DOMAIN w = {"dev", "tex"} /\ DeviceSound(w.dev) /\ TexturesSound(w.dev, w.tex)

Unmade(x) == {t \in Textures : x[t].gl = 0}
SameAlive(x, y) == \A t \in Textures : x[t].alive = y[t].alive
\* From w to e nothing was made, or v was.
NoneMade(e, w) == Unmade(e.tex) = Unmade(w.tex) /\ e.dev.next = w.dev.next
Made(e, w, v) ==
  v \in Unmade(w.tex) /\ Unmade(e.tex) = Unmade(w.tex) \ {v} /\ e.dev.next = w.dev.next + 1

\* A device stays sound between calls while its targets are kept.
LEMMA DeviceSoundKept ==
  ASSUME NEW d, NEW e, DeviceSound(d), Sound(e, {}, Own), Kept(e, d)
  PROVE  DeviceSound(e)
BY SettledKept DEF DeviceSound, Kept

\* Calls of the device that make no texture.
LEMMA WorldKept ==
  ASSUME NEW w, NEW e, NEW d, World(w), DOMAIN e = DOMAIN w, e.tex = w.tex, e.dev = d,
         Sound(d, {}, Own), Kept(d, w.dev)
  PROVE  World(e) /\ NoneMade(e, w) /\ SameAlive(e.tex, w.tex)
<1>1. DeviceSound(e.dev)
  BY DeviceSoundKept DEF World
<1>2. TexturesSound(e.dev, e.tex)
  BY DEF World, TexturesSound, Kept
<1> QED BY <1>1, <1>2 DEF World, NoneMade, SameAlive, Kept

\* The names of textures.
LEMMA WorldNames ==
  ASSUME NEW w, World(w), NEW t \in Textures
  PROVE  /\ w.tex[t].gl \in w.dev.valid \cup {0} /\ 0 \notin w.dev.valid
         /\ "activeTexture" \notin {} /\ Sound(w.dev, {}, Own)
BY NoName DEF World, TexturesSound, DeviceSound, Settled, Sound, ObjectsSound

\* Changes of a texture that neither its name nor its being alive are.
Touched(y, x, t) ==
  /\ DOMAIN y = Textures
  /\ \A u \in Textures \ {t} : y[u] = x[u]
  /\ DOMAIN y[t] = TexFields /\ y[t].alive = x[t].alive /\ y[t].gl = x[t].gl

\* A texture changes, but neither its name nor its being alive.
LEMMA WorldTouched ==
  ASSUME NEW w, NEW e, NEW t \in Textures, World(w), DOMAIN e = {"dev", "tex"},
         Touched(e.tex, w.tex, t), Sound(e.dev, {}, Own), Kept(e.dev, w.dev)
  PROVE  World(e) /\ NoneMade(e, w) /\ SameAlive(e.tex, w.tex)
<1>1. DeviceSound(e.dev)
  BY DeviceSoundKept DEF World
<1>2. /\ \A u \in Textures : e.tex[u].gl = w.tex[u].gl /\ e.tex[u].alive = w.tex[u].alive
      /\ \A u \in Textures : DOMAIN e.tex[u] = TexFields
  BY DEF World, TexturesSound, Touched
<1>3. TexturesSound(e.dev, e.tex)
  BY <1>2 DEF World, TexturesSound, Touched, Kept
<1> QED BY <1>1, <1>2, <1>3 DEF World, NoneMade, SameAlive, Unmade, Kept

\* ITexSetFlags.
LEMMA ITexSetFlagsSound ==
  ASSUME NEW w, World(w), NEW t \in Textures, w.tex[t].gl # 0
  PROVE  LET e == ITexSetFlags(w, t) IN World(e) /\ NoneMade(e, w) /\ SameAlive(e.tex, w.tex)
<1> DEFINE e == ITexSetFlags(w, t)
           d == Bind(w.dev, w.tex[t].gl, FALSE)
<1>1. Sound(d, {}, Own) /\ Kept(d, w.dev)
  BY WorldNames, BindSound, KeptAll
<1>2. DOMAIN e = {"dev", "tex"} /\ e.dev = d /\ e.tex = [w.tex EXCEPT ![t].needsFlagUpdate = FALSE]
  BY DEF ITexSetFlags, GLSDLTexSetFlags, SetSampler
<1>3. DOMAIN w.tex = Textures /\ DOMAIN w.tex[t] = TexFields
  BY DEF World, TexturesSound
<1> HIDE DEF d, e
<1>4. Touched(e.tex, w.tex, t)
  BY <1>2, <1>3 DEF Touched, TexFields
<1>5. World(e) /\ NoneMade(e, w) /\ SameAlive(e.tex, w.tex)
  BY <1>1, <1>2, <1>4, WorldTouched
<1> QED BY <1>5 DEF e

\* ITexUpload.
LEMMA ITexUploadSound ==
  ASSUME NEW w, World(w), NEW t \in Textures, w.tex[t].gl # 0
  PROVE  LET e == ITexUpload(w, t) IN World(e) /\ NoneMade(e, w) /\ SameAlive(e.tex, w.tex)
<1> DEFINE e == ITexUpload(w, t)
           d == Unmap(w.dev, w.tex[t].gl, <<t, w.tex[t].data>>)
<1>1. Sound(d, {}, Own) /\ Kept(d, w.dev)
  BY WorldNames, UnmapSound, KeptAll
<1>2. DOMAIN e = {"dev", "tex"} /\ e.dev = d /\ e.tex = [w.tex EXCEPT ![t].needsUpdate = FALSE]
  BY DEF ITexUpload
<1>3. DOMAIN w.tex = Textures /\ DOMAIN w.tex[t] = TexFields
  BY DEF World, TexturesSound
<1> HIDE DEF d, e
<1>4. Touched(e.tex, w.tex, t)
  BY <1>2, <1>3 DEF Touched, TexFields
<1>5. World(e) /\ NoneMade(e, w) /\ SameAlive(e.tex, w.tex)
  BY <1>1, <1>2, <1>4, WorldTouched
<1> QED BY <1>5 DEF e

\* ITexCreate takes the next name, which no other texture has.
LEMMA ITexCreateSound ==
  ASSUME NEW w, World(w), NEW t \in Textures, w.tex[t].gl = 0, w.tex[t].alive, w.dev.next \in Names
  PROVE  LET e == ITexCreate(w, t) IN
         World(e) /\ Made(e, w, t) /\ SameAlive(e.tex, w.tex) /\ e.tex[t].gl # 0
<1> DEFINE x == [dev |-> Create(w.dev), tex |-> [w.tex EXCEPT ![t].gl = w.dev.next]]
           e == ITexCreate(w, t)
           n == w.dev.next
<1>1. Sound(w.dev, {}, Own) /\ w.dev.target["depth"] = w.dev.depthBuffer /\ w.dev.backBuffer["color"] \in Own
  BY DEF World, DeviceSound, Settled
<1>2. n \in Names /\ n \notin w.dev.valid /\ n # 0
  <2>1. n \in Nat \ {0} /\ \A u \in w.dev.valid : u < n
    BY <1>1 DEF Sound, ObjectsSound
  <2> QED BY <2>1
<1>3. Sound(Create(w.dev), {}, Own) /\ Created(Create(w.dev), w.dev)
  BY <1>1, <1>2, CreateSound
<1> DEFINE d == Create(w.dev)
<1>4. DOMAIN w.tex = Textures /\ DOMAIN w.tex[t] = TexFields
  BY DEF World, TexturesSound
<1>5. /\ DOMAIN x = {"dev", "tex"} /\ x.dev = d /\ DOMAIN x.tex = Textures /\ DOMAIN x.tex[t] = TexFields
      /\ x.tex[t].gl = n /\ x.tex[t].alive = w.tex[t].alive
      /\ \A u \in Textures \ {t} : x.tex[u] = w.tex[u]
  BY <1>4 DEF TexFields
<1>6. e = ITexSetFlags(x, t)
  BY DEF ITexCreate
<1> HIDE DEF x, d, n
<1>7. /\ d.target = w.dev.target /\ d.depthBuffer = w.dev.depthBuffer /\ d.backBuffer = w.dev.backBuffer
      /\ d.next = w.dev.next + 1 /\ d.valid = w.dev.valid \cup {w.dev.next}
  BY SMTT(30), <1>3, CreatedFacts DEF d, Created
<1>8. DeviceSound(d)
  BY <1>1, <1>3, <1>7 DEF DeviceSound, Settled, d
<1>9. TexturesSound(d, x.tex)
  <2>1. Own \subseteq w.dev.valid
    BY <1>1 DEF Sound, ObjectsSound
  <2>2. n \in d.valid \ Own
    BY <1>2, <1>7, <2>1 DEF n
  <2>3. /\ \A u \in Textures : w.tex[u].gl \in (w.dev.valid \ Own) \cup {0} /\ (~w.tex[u].alive => w.tex[u].gl = 0)
        /\ \A u \in Textures : DOMAIN w.tex[u] = TexFields
        /\ \A a, b \in Textures : w.tex[a].gl = w.tex[b].gl /\ w.tex[a].gl # 0 => a = b
    BY DEF World, TexturesSound
  <2>4. \A u \in Textures : w.tex[u].gl # n
    BY <1>2, <2>3
  <2>5. \A u \in Textures : /\ DOMAIN x.tex[u] = TexFields
                            /\ x.tex[u].gl \in (d.valid \ Own) \cup {0}
                            /\ ~x.tex[u].alive => x.tex[u].gl = 0
    <3> TAKE u \in Textures
    <3>1. CASE u = t
      <4>1. x.tex[t].alive
        BY <1>5
      <4> QED BY <1>5, <2>2, <3>1, <4>1
    <3>2. CASE u # t
      <4>1. x.tex[u] = w.tex[u]
        BY <1>5, <3>2
      <4> QED BY <1>7, <2>3, <4>1
    <3> QED BY <3>1, <3>2
  <2>6. \A a, b \in Textures : x.tex[a].gl = x.tex[b].gl /\ x.tex[a].gl # 0 => a = b
    BY <1>5, <2>3, <2>4
  <2> QED BY <1>5, <2>5, <2>6 DEF TexturesSound
<1>10. World(x)
  BY <1>5, <1>8, <1>9 DEF World
<1>11. Made(x, w, t) /\ SameAlive(x.tex, w.tex)
  <2>1. \A u \in Textures : x.tex[u].gl = 0 <=> w.tex[u].gl = 0 /\ u # t
    BY <1>2, <1>5
  <2>2. Unmade(x.tex) = Unmade(w.tex) \ {t} /\ t \in Unmade(w.tex)
    BY <2>1 DEF Unmade
  <2>3. SameAlive(x.tex, w.tex)
    BY <1>5 DEF SameAlive
  <2> QED BY <1>5, <1>7, <2>2, <2>3 DEF Made
<1>12. World(e) /\ NoneMade(e, x) /\ SameAlive(e.tex, x.tex)
  BY <1>2, <1>5, <1>6, <1>10, ITexSetFlagsSound
<1> HIDE DEF e
<1>13. Made(e, w, t) /\ SameAlive(e.tex, w.tex)
  BY <1>11, <1>12 DEF Made, NoneMade, SameAlive
<1>14. e.tex[t].gl # 0
  BY <1>2, <1>5, <1>12 DEF NoneMade, Unmade
<1> QED BY <1>12, <1>13, <1>14 DEF e

\* ITexMarkAsUpdated makes the texture if it is not there yet, and no other.
LEMMA ITexMarkAsUpdatedSound ==
  ASSUME NEW w, World(w), NEW t \in Textures, w.tex[t].alive, w.tex[t].gl = 0 => w.dev.next \in Names
  PROVE  LET e == ITexMarkAsUpdated(w, t) IN
         World(e) /\ SameAlive(e.tex, w.tex) /\ (NoneMade(e, w) \/ Made(e, w, t))
<1> DEFINE x == ITexFlagged(w, t)
           y == ITexMade(x, t)
           z == ITexUpload(y, t)
           e == ITexMarkAsUpdated(w, t)
<1>1. World(x) /\ NoneMade(x, w) /\ SameAlive(x.tex, w.tex)
  <2>1. CASE w.tex[t].needsFlagUpdate /\ w.tex[t].gl # 0
    BY <2>1, ITexSetFlagsSound DEF ITexFlagged
  <2>2. CASE ~(w.tex[t].needsFlagUpdate /\ w.tex[t].gl # 0)
    BY <2>2 DEF ITexFlagged, NoneMade, SameAlive
  <2> QED BY <2>1, <2>2
<1>2. e = ITexUpdated(x, t)
  BY DEF ITexMarkAsUpdated
<1> HIDE DEF x
<1>3. x.tex[t].alive /\ (x.tex[t].gl = 0 => x.dev.next \in Names)
  BY <1>1 DEF NoneMade, Unmade, SameAlive
<1>4. CASE x.tex[t].needsUpdate
  <2>1. e = z
    BY <1>2, <1>4 DEF ITexUpdated
  <2>2. World(y) /\ SameAlive(y.tex, x.tex) /\ y.tex[t].gl # 0 /\ (NoneMade(y, x) \/ Made(y, x, t))
    <3>1. CASE x.tex[t].gl = 0
      <4>1. y = ITexCreate(x, t)
        BY <3>1 DEF ITexMade
      <4> QED BY <1>1, <1>3, <3>1, <4>1, ITexCreateSound
    <3>2. CASE x.tex[t].gl # 0
      <4>1. y = x
        BY <3>2 DEF ITexMade
      <4> QED BY <1>1, <3>2, <4>1 DEF SameAlive, NoneMade
    <3> QED BY <3>1, <3>2
  <2> HIDE DEF y
  <2>3. World(z) /\ NoneMade(z, y) /\ SameAlive(z.tex, y.tex)
    BY <2>2, ITexUploadSound
  <2> HIDE DEF z
  <2>4. SameAlive(z.tex, w.tex) /\ (NoneMade(z, w) \/ Made(z, w, t))
    BY <1>1, <2>2, <2>3 DEF SameAlive, NoneMade, Made
  <2> QED BY <2>1, <2>3, <2>4
<1>5. CASE ~x.tex[t].needsUpdate
  <2>1. e = x
    BY <1>2, <1>5 DEF ITexUpdated
  <2> QED BY <1>1, <2>1
<1> QED BY <1>4, <1>5

\* A value that drawing code may give a state.
Fits(w, s, v) ==
  /\ ValueFits(s, v)
  /\ s \in TextureStates =>
       v = NoTexture \/ (v \in Textures /\ w.tex[v].alive /\ (w.tex[v].gl = 0 => w.dev.next \in Names))

\* IRsSendToHw makes at most the texture it sends.
LEMMA IRsSendToHwSound ==
  ASSUME NEW w, World(w), NEW s \in Range(AllStates), NEW v, Fits(w, s, v)
  PROVE  LET e == IRsSendToHw(w, s, v) IN
         /\ World(e) /\ SameAlive(e.tex, w.tex)
         /\ NoneMade(e, w) \/ (s \in TextureStates /\ v # NoTexture /\ Made(e, w, v))
<1> DEFINE e == IRsSendToHw(w, s, v)
<1>1. Sound(w.dev, {}, Own) /\ DOMAIN w = {"dev", "tex"}
  BY DEF World, DeviceSound, Settled
<1>2. CASE s \notin TextureStates
  <2> DEFINE d == SendState(w.dev, s, v)
  <2>1. Sound(d, {}, Own) /\ Kept(d, w.dev)
    BY <1>1, <1>2, SendStateSound DEF Fits
  <2>2. DOMAIN e = DOMAIN w /\ e.tex = w.tex /\ e.dev = d
    BY <1>1, <1>2 DEF IRsSendToHw
  <2> HIDE DEF d, e
  <2>3. World(e) /\ NoneMade(e, w) /\ SameAlive(e.tex, w.tex)
    BY <2>1, <2>2, WorldKept
  <2> QED BY <2>3 DEF e
<1>3. ASSUME s \in TextureStates, NEW x, World(x), NEW t \in x.dev.valid \cup {0}, NEW f,
             f = [x EXCEPT !.dev = SetTexture(@, UnitOf(s), t)]
      PROVE  World(f) /\ NoneMade(f, x) /\ SameAlive(f.tex, x.tex)
  <2> DEFINE d == SetTexture(x.dev, UnitOf(s), t)
  <2>1. Sound(x.dev, {}, Own) /\ DOMAIN x = {"dev", "tex"}
    BY <1>3 DEF World, DeviceSound, Settled
  <2>2. UnitOf(s) \in Units
    BY <1>3, UnitOfFacts
  <2>3. "activeTexture" \notin {}
    OBVIOUS
  <2>4. Sound(d, {}, Own) /\ Retextured(d, x.dev)
    BY <2>1, <2>2, <2>3, SetTextureSound DEF Retextured
  <2>5. DOMAIN f = DOMAIN x /\ f.tex = x.tex /\ f.dev = d
    BY <1>3, <2>1
  <2> HIDE DEF d
  <2>6. Kept(d, x.dev)
    BY <2>4, KeptAll
  <2> QED BY <1>3, <2>4, <2>5, <2>6, WorldKept
<1>4. CASE s \in TextureStates /\ v = NoTexture
  <2>1. e = [w EXCEPT !.dev = SetTexture(@, UnitOf(s), 0)]
    BY <1>4 DEF IRsSendToHw
  <2> HIDE DEF e
  <2>2. World(e) /\ NoneMade(e, w) /\ SameAlive(e.tex, w.tex)
    BY <1>3, <1>4, <2>1
  <2> QED BY <2>2 DEF e
<1>5. CASE s \in TextureStates /\ v # NoTexture
  <2> DEFINE x == ITexMarkAsUpdated(w, v)
             t == x.tex[v].gl
  <2>1. v \in Textures /\ w.tex[v].alive /\ (w.tex[v].gl = 0 => w.dev.next \in Names)
    BY <1>5 DEF Fits
  <2>2. World(x) /\ SameAlive(x.tex, w.tex) /\ (NoneMade(x, w) \/ Made(x, w, v))
    BY <2>1, ITexMarkAsUpdatedSound
  <2>3. e = [x EXCEPT !.dev = SetTexture(@, UnitOf(s), t)]
    BY <1>5 DEF IRsSendToHw, SetTextureOf
  <2> HIDE DEF x, e
  <2>4. t \in x.dev.valid \cup {0}
    BY <2>1, <2>2, WorldNames
  <2>5. World(e) /\ NoneMade(e, x) /\ SameAlive(e.tex, x.tex)
    BY <1>3, <1>5, <2>2, <2>3, <2>4
  <2>6. SameAlive(e.tex, w.tex) /\ (NoneMade(e, w) \/ Made(e, w, v))
    BY <2>2, <2>5 DEF SameAlive, NoneMade, Made
  <2> QED BY <1>5, <2>5, <2>6 DEF e
<1> QED BY <1>2, <1>4, <1>5

\* The textures of Wd that are not made yet find names.
Room(w, Wd) ==
  /\ IsFiniteSet(Wd \cap Unmade(w.tex))
  /\ w.dev.next + Cardinality(Wd \cap Unmade(w.tex)) - 1 \in Names \cup {0}
\* Values that drawing code may give each of some states, textures among Wd.
Wanted(w, states, values, Wd) ==
  \A i \in 1..Len(states) :
    LET v == values[states[i]] IN
    /\ ValueFits(states[i], v)
    /\ states[i] \in TextureStates => v = NoTexture \/ (v \in Wd /\ w.tex[v].alive)

\* A texture that is still to be made has a name.
LEMMA RoomForOne ==
  ASSUME NEW w, World(w), NEW Wd \in SUBSET Textures, Room(w, Wd), NEW v \in Wd, w.tex[v].gl = 0
  PROVE  w.dev.next \in Names
<1> DEFINE U == Wd \cap Unmade(w.tex)
           c == Cardinality(U)
<1>1. v \in U /\ IsFiniteSet(U)
  BY DEF Unmade, Room
<1>2. c \in Nat \ {0}
  BY <1>1, FS_CardinalityType, FS_EmptySet
<1>3. w.dev.next \in Nat \ {0}
  BY DEF World, DeviceSound, Settled, Sound, ObjectsSound
<1>4. w.dev.next + c - 1 \in Names \cup {0}
  BY DEF Room
<1> HIDE DEF c, U
<1>5. PICK n \in Nat : Names = 1..n
  BY NamesRange
<1> QED BY <1>2, <1>3, <1>4, <1>5

\* A texture that was made is no longer to be made.
LEMMA RoomStays ==
  ASSUME NEW w, NEW e, World(w), NEW Wd \in SUBSET Textures, Room(w, Wd),
         NoneMade(e, w) \/ \E v \in Wd : Made(e, w, v)
  PROVE  Room(e, Wd)
<1> DEFINE U == Wd \cap Unmade(w.tex)
           V == Wd \cap Unmade(e.tex)
<1>1. CASE NoneMade(e, w)
  BY <1>1 DEF NoneMade, Room
<1>2. ASSUME NEW v \in Wd, Made(e, w, v)
      PROVE  Room(e, Wd)
  <2>1. V = U \ {v} /\ v \in U /\ IsFiniteSet(U)
    BY <1>2 DEF Made, Room
  <2>2. IsFiniteSet(V) /\ Cardinality(V) = Cardinality(U) - 1 /\ Cardinality(U) \in Nat
    BY <2>1, FS_RemoveElement, FS_CardinalityType
  <2>3. w.dev.next \in Nat \ {0} /\ e.dev.next = w.dev.next + 1
    BY <1>2 DEF Made, World, DeviceSound, Settled, Sound, ObjectsSound
  <2>4. w.dev.next + Cardinality(U) - 1 \in Names \cup {0}
    BY DEF Room
  <2> DEFINE a == Cardinality(U)
             b == Cardinality(V)
  <2>5. e.dev.next + b - 1 = w.dev.next + a - 1
    <3> HIDE DEF U, V
    <3> QED BY <2>2, <2>3
  <2>6. e.dev.next + b - 1 \in Names \cup {0}
    BY <2>4, <2>5
  <2> QED BY <2>2, <2>6 DEF Room
<1> QED BY <1>1, <1>2

\* Sending states, by induction over them.
LEMMA SendStatesSound ==
  ASSUME NEW w, World(w), NEW states \in Seq(Range(AllStates)), NEW values,
         NEW Wd \in SUBSET Textures, Wanted(w, states, values, Wd), Room(w, Wd)
  PROVE  LET e == SendStates(w, states, values) IN World(e) /\ SameAlive(e.tex, w.tex)
<1> DEFINE N == Len(states)
<1>1. N \in Nat /\ \A i \in 1..N : states[i] \in Range(AllStates)
  BY LenProperties, ElementOfSeq
<1>0. PICK f : Sending(f, w, states, values)
  BY <1>1, SendStatesUnrolls
<1>2. /\ f[0] = w
      /\ \A i \in 1..N : f[i] = IRsSendToHw(f[i - 1], states[i], values[states[i]])
      /\ SendStates(w, states, values) = f[N]
  BY <1>0 DEF Sending
<1> DEFINE Good(x) == World(x) /\ SameAlive(x.tex, w.tex) /\ Room(x, Wd)
           A == {i \in 0..N : Good(f[i])}
<1>3. 0 \in A
  BY <1>1, <1>2 DEF SameAlive
<1>4. ASSUME NEW i \in 1..N, i - 1 \in A
      PROVE  i \in A
  <2> DEFINE x == f[i - 1]
             e == f[i]
             s == states[i]
             v == values[s]
  <2>1. Good(x)
    BY <1>4
  <2>2. e = IRsSendToHw(x, s, v) /\ s \in Range(AllStates)
    BY <1>1, <1>2
  <2>3. ValueFits(s, v) /\ (s \in TextureStates => v = NoTexture \/ (v \in Wd /\ w.tex[v].alive))
    BY DEF Wanted
  <2> HIDE DEF x, e, s, v, N
  <2>4. v \in Wd => v \in Textures /\ (x.tex[v].alive <=> w.tex[v].alive) /\ (x.tex[v].gl = 0 => x.dev.next \in Names)
    BY <2>1, RoomForOne DEF SameAlive
  <2>5. Fits(x, s, v)
    BY <2>3, <2>4 DEF Fits
  <2>6. /\ World(e) /\ SameAlive(e.tex, x.tex)
        /\ NoneMade(e, x) \/ (s \in TextureStates /\ v # NoTexture /\ Made(e, x, v))
    BY <2>1, <2>2, <2>5, IRsSendToHwSound
  <2>7. NoneMade(e, x) \/ \E u \in Wd : Made(e, x, u)
    BY <2>3, <2>6
  <2>8. Room(e, Wd)
    BY <2>1, <2>7, RoomStays
  <2>9. SameAlive(e.tex, w.tex)
    BY <2>1, <2>6 DEF SameAlive
  <2>10. Good(e)
    BY <2>6, <2>8, <2>9
  <2> HIDE DEF Good
  <2> QED BY <1>4, <2>10 DEF e
<1>5. 0..N \subseteq A
  <2> HIDE DEF A, N
  <2> QED BY <1>1, <1>3, <1>4, IntervalInduction
<1>6. Good(f[N])
  <2> HIDE DEF Good, N
  <2> QED BY <1>1, <1>5
<1> QED BY <1>2, <1>6

\* IShaderConstantsFlush.
LEMMA IShaderConstantsFlushSound ==
  ASSUME NEW d, NEW S, NEW O, Sound(d, S, O)
  PROVE  Sound(IShaderConstantsFlush(d), S, O) /\ Kept(IShaderConstantsFlush(d), d)
<1>1. ASSUME NEW x, Sound(x, S, O), NEW k
      PROVE  Sound(FlushShadow(x, k), S, O) /\ Kept(FlushShadow(x, k), x)
  BY <1>1, SetShaderConstantsSound DEF FlushShadow, Kept
<1> DEFINE a == FlushShadow(d, "vertex")
           e == FlushShadow(a, "pixel")
<1>2. Sound(a, S, O) /\ Kept(a, d)
  BY <1>1
<1>3. IShaderConstantsFlush(d) = e
  BY DEF IShaderConstantsFlush
<1> HIDE DEF a
<1>4. Sound(e, S, O) /\ Kept(e, a)
  BY <1>1, <1>2
<1> HIDE DEF e
<1>5. Kept(e, d)
  BY <1>2, <1>4 DEF Kept
<1> QED BY <1>3, <1>4, <1>5

\* IXformSetViewport.
LEMMA IXformSetViewportSound ==
  ASSUME NEW d, Sound(d, {}, Own)
  PROVE  Sound(IXformSetViewport(d), {}, Own) /\ Kept(IXformSetViewport(d), d)
<1> DEFINE a == Cached(d, "viewport", viewport)
           e == Cached(a, "depthRange", <<0, 1>>)
<1>1. IXformSetViewport(d) = e
  BY DEF IXformSetViewport, SetViewport
<1>2. /\ {"viewport", "depthRange"} \subseteq StateNames \ {"activeTexture"}
      /\ "viewport" \notin Switches /\ "depthRange" \notin Switches
  BY ClearStates
<1>3. Sound(a, {}, Own) /\ Kept(a, d)
  BY <1>2, SetterSound
<1> HIDE DEF a
<1>4. Sound(e, {}, Own) /\ Kept(e, a)
  BY <1>2, <1>3, SetterSound
<1> HIDE DEF e
<1>5. Kept(e, d)
  BY <1>3, <1>4 DEF Kept
<1> QED BY <1>1, <1>4, <1>5

-----------------------------------------------------------------------------
(* DeviceCreate.                                                           *)

\* The states that LoadDefaultStates leaves as OpenGL has them are its defaults.
LEMMA DefaultNames ==
  /\ DOMAIN DefaultStates = StateNames /\ DOMAIN ContextDefaults = StateNames
  /\ \A s \in StateNames \ (Bindings \cup DepthStates \cup RasterizerStates \cup BlendStates
                            \cup FixedStates \cup ShaderStates \cup ClearValues) :
       ContextDefaults[s] = DefaultStates[s]
  /\ DefaultStates.activeTexture = 0
  /\ \A s \in Switches : DefaultStates[s] \in BOOLEAN
<1>1. DOMAIN DefaultStates = StateNames
  BY DEF DefaultStates, StateNames
<1>2. DOMAIN ContextDefaults = StateNames
  BY <1>1 DEF ContextDefaults
<1>3. ASSUME NEW s \in StateNames, s \notin DepthStates, s \notin RasterizerStates, s \notin FixedStates
      PROVE  ContextDefaults[s] = DefaultStates[s]
  <2>1. s # "depthFunc" /\ s # "cull" /\ s # "lighting"
    BY <1>3 DEF DepthStates, RasterizerStates, FixedStates
  <2>2. ContextDefaults = [[[DefaultStates EXCEPT !["depthFunc"] = "less"] EXCEPT !["cull"] = "off"]
                             EXCEPT !["lighting"] = FALSE]
    BY DEF ContextDefaults
  <2> QED BY <1>1, <1>3, <2>1, <2>2
<1>4. DefaultStates.activeTexture = 0
  BY DEF DefaultStates
<1>5. \A s \in Switches : DefaultStates[s] \in BOOLEAN
  <2>1. /\ DefaultStates["alphaTest"] = FALSE /\ DefaultStates["depthTest"] = FALSE
        /\ DefaultStates["blend"] = FALSE /\ DefaultStates["scissorTest"] = FALSE
        /\ DefaultStates["stencilTest"] = FALSE /\ DefaultStates["depthMask"] = TRUE
    BY DEF DefaultStates
  <2>2. \A s \in Switches : s \in {"alphaTest", "depthTest", "blend", "scissorTest", "stencilTest", "depthMask"}
    BY DEF Switches, Toggled
  <2> QED BY <2>1, <2>2
<1> QED BY <1>1, <1>2, <1>3, <1>4, <1>5

\* LoadDefaultStates: m_States is what OpenGL has, and there is no texture yet.
LEMMA LoadDefaultStatesSound ==
  LET d == LoadDefaultStates IN
  /\ Sound(d, {}, {}) /\ d.next = 1 /\ d.valid = {}
  /\ d.target = [p \in Points |-> 0] /\ d.depthBuffer = 0 /\ d.backBuffer = [p \in Points |-> 0]
<1> DEFINE a == NewDevice
           R == DepthStates \cup RasterizerStates \cup BlendStates \cup FixedStates \cup ShaderStates \cup ClearValues
           b == ApplyGLBindings(a)
           d == LoadDefaultStates
<1>1. /\ DOMAIN a = Fields /\ a.st = DefaultStates /\ a.ctx = ContextDefaults
      /\ a.textures = [u \in Units |-> 0] /\ a.bound = [u \in Units |-> 0] /\ a.stages = [t \in Names |-> {}]
      /\ a.valid = {} /\ a.next = 1 /\ a.attached = [p \in Points |-> 0] /\ a.points = [t \in Names |-> {}]
      /\ a.target = [p \in Points |-> 0] /\ a.depthBuffer = 0 /\ a.backBuffer = [p \in Points |-> 0]
      /\ a.released = {} /\ a.failed = {}
  BY DEF NewDevice, Fields
<1> HIDE DEF a
<1>2. /\ DOMAIN b = Fields /\ Same(b, a, {"ctx", "unit"}) /\ b.unit = a.bound
      /\ b.ctx = [s \in DOMAIN a.ctx |-> IF s \in Bindings THEN a.st[s] ELSE a.ctx[s]]
  BY <1>1 DEF ApplyGLBindings, SentToGL, Same, Fields
<1>3. d = ApplyGLStates(b)
  BY DEF LoadDefaultStates, a
<1> HIDE DEF b, d
<1>4. /\ DOMAIN d = Fields /\ Same(d, b, {"ctx", "env", "xform", "glXform"})
      /\ d.ctx = [s \in DOMAIN b.ctx |-> IF s \in R THEN b.st[s] ELSE b.ctx[s]]
  BY <1>2, <1>3 DEF ApplyGLStates, SentToGL, Same, Fields
<1>5. /\ d.st = a.st /\ d.textures = a.textures /\ d.bound = a.bound /\ d.unit = a.bound /\ d.stages = a.stages
      /\ d.valid = a.valid /\ d.next = a.next /\ d.attached = a.attached /\ d.points = a.points
      /\ d.target = a.target /\ d.depthBuffer = a.depthBuffer /\ d.backBuffer = a.backBuffer
      /\ d.released = a.released /\ d.failed = a.failed /\ b.st = a.st
  BY <1>2, <1>4 DEF Same, Fields
<1>6. DOMAIN d.ctx = StateNames /\ \A s \in StateNames : d.ctx[s] = d.st[s]
  <2>1. DOMAIN b.ctx = StateNames
    BY <1>1, <1>2, DefaultNames
  <2>2. DOMAIN d.ctx = StateNames
    BY <1>4, <2>1
  <2>3. ASSUME NEW s \in StateNames
        PROVE  d.ctx[s] = d.st[s]
    <3>1. d.ctx[s] = IF s \in R THEN a.st[s] ELSE IF s \in Bindings THEN a.st[s] ELSE a.ctx[s]
      <4> HIDE DEF R
      <4> QED BY <1>1, <1>2, <1>4, <1>5, <2>1, DefaultNames
    <3>2. s \notin R /\ s \notin Bindings => a.ctx[s] = a.st[s]
      BY <1>1, DefaultNames
    <3> HIDE DEF R
    <3> QED BY <1>5, <3>1, <3>2
  <2> QED BY <2>2, <2>3
<1>7. StatesSound(d, {})
  <2>1. 0 \in Units
    BY AccountAssumption DEF Units
  <2> QED BY <1>1, <1>5, <1>6, <2>1, DefaultNames DEF StatesSound, Agree
<1>8. UnitsSound(d)
  <2>1. d.bound = [u \in Units |-> 0] /\ d.unit = d.bound /\ d.stages = [t \in Names |-> {}] /\ d.next = 1
        /\ d.textures = [u \in Units |-> 0] /\ d.valid = {}
    BY <1>1, <1>5
  <2> QED BY <2>1, NoName DEF UnitsSound
<1>9. ImagesSound(d, {})
  <2>1. d.attached = [p \in Points |-> 0] /\ d.points = [t \in Names |-> {}] /\ d.target = [p \in Points |-> 0]
        /\ d.depthBuffer = 0
    BY <1>1, <1>5
  <2> QED BY <2>1, NoName DEF ImagesSound
<1>10. ObjectsSound(d, {})
  BY <1>1, <1>5 DEF ObjectsSound
<1>11. Sound(d, {}, {})
  BY <1>4, <1>7, <1>8, <1>9, <1>10 DEF Sound
<1> QED BY <1>1, <1>5, <1>11 DEF d

\* Only what is drawn on changes.
WindowFields == {"target", "depthBuffer", "backBuffer"}

\* Back buffers and targets that nobody frees.
LEMMA WindowSound ==
  ASSUME NEW d, NEW e, NEW S, NEW O, Sound(d, S, O), DOMAIN e = Fields, Same(e, d, WindowFields),
         e.target \in [Points -> O \cup {0}], e.depthBuffer \in O \cup {0}
  PROVE  Sound(e, S, O) /\ e.next = d.next /\ e.valid = d.valid
<1>1. /\ e.st = d.st /\ e.ctx = d.ctx /\ e.textures = d.textures /\ e.bound = d.bound /\ e.unit = d.unit
      /\ e.stages = d.stages /\ e.valid = d.valid /\ e.next = d.next /\ e.attached = d.attached
      /\ e.points = d.points /\ e.released = d.released /\ e.failed = d.failed
  BY DEF Same, Fields, WindowFields
<1>2. StatesSound(e, S)
  BY <1>1 DEF Sound, StatesSound, Agree
<1>3. UnitsSound(e)
  BY <1>1 DEF Sound, UnitsSound
<1>4. ImagesSound(e, O)
  BY <1>1 DEF Sound, ImagesSound
<1>5. ObjectsSound(e, O)
  BY <1>1 DEF Sound, ObjectsSound
<1> QED BY <1>1, <1>2, <1>3, <1>4, <1>5 DEF Sound

\* The window is drawn to the color buffer c and the depth buffer z.
Window(d, n, c, z) ==
  /\ d.next = n
  /\ d.backBuffer \in [Points -> 0..3] /\ d.backBuffer["color"] = c
  /\ d.target["depth"] = z /\ d.depthBuffer = z

\* The back buffers while the device is being made.
LEMMA WindowKept ==
  ASSUME NEW d, NEW e, NEW n, NEW c, NEW z, Window(d, n, c, z), Kept(e, d)
  PROVE  Window(e, n, c, z)
BY DEF Window, Kept

\* There are names for the device's own textures.
LEMMA WindowNames == {1, 2, 3} \subseteq Names
BY NamesRange

\* The device before it has a window.
LEMMA InitDeviceSound ==
  /\ Sound(InitDevice, {}, {1}) /\ Window(InitDevice, 2, 0, 0)
  /\ InitDevice.backBuffer = [p \in Points |-> 0]
<1> DEFINE a == LoadDefaultStates
           b == Create(a)
           c == Unmap(b, 1, "white")
           e == BindFramebuffer(c)
<1>1. /\ Sound(a, {}, {}) /\ a.next = 1 /\ a.valid = {}
      /\ a.target = [p \in Points |-> 0] /\ a.depthBuffer = 0 /\ a.backBuffer = [p \in Points |-> 0]
  BY LoadDefaultStatesSound
<1> HIDE DEF a
<1>2. "activeTexture" \notin {} /\ 1 \in Names
  BY WindowNames
<1>3. Sound(b, {}, {} \cup {a.next}) /\ Created(b, a)
  BY <1>1, <1>2, CreateSound
<1>4. Sound(b, {}, {1}) /\ b.valid = {1} /\ b.next = 2 /\ b.target = a.target
      /\ b.depthBuffer = a.depthBuffer /\ b.backBuffer = a.backBuffer
  <2>1. {} \cup {a.next} = {1}
    BY <1>1
  <2> QED BY <1>1, <1>3, <2>1, CreatedFacts DEF Created
<1>5. e = InitDevice
  BY <1>1 DEF InitDevice, StaticInit, a
<1> HIDE DEF b
<1>6. Sound(c, {}, {1}) /\ Kept(c, b)
  BY <1>2, <1>4, UnmapSound, KeptAll
<1> HIDE DEF c
<1>7. Sound(e, {}, {1}) /\ Kept(e, c)
  BY <1>6, ClearStates, SetterSound DEF BindFramebuffer
<1> HIDE DEF e
<1>8. Window(b, 2, 0, 0)
  BY <1>1, <1>4 DEF Window, Points
<1>9. Window(e, 2, 0, 0)
  BY <1>6, <1>7, <1>8, WindowKept
<1>10. e.backBuffer = [p \in Points |-> 0]
  BY <1>1, <1>4, <1>6, <1>7 DEF Kept
<1> QED BY <1>5, <1>7, <1>9, <1>10

\* The color buffer is the second texture.
LEMMA MakeColorBufferSound ==
  ASSUME NEW d, Sound(d, {}, {1}), Window(d, 2, 0, 0)
  PROVE  Sound(MakeColorBuffer(d), {}, {1, 2}) /\ Window(MakeColorBuffer(d), 3, 2, 0)
<1> DEFINE x == Create(d)
           a == [x EXCEPT !.backBuffer["color"] = 2, !.target["color"] = 2]
           b == Attach(a, 2, "color")
           c == Cached(b, "viewport", "full")
           f == Cached(c, "depthRange", <<0, 1>>)
           e == CopyTex(f, 2)
<1>1. d.next = 2 /\ 2 \in Names /\ "activeTexture" \notin {}
  BY WindowNames DEF Window
<1>2. Sound(x, {}, {1} \cup {d.next}) /\ Created(x, d)
  BY <1>1, CreateSound
<1>3. Sound(x, {}, {1, 2})
  <2>1. {1} \cup {d.next} = {1, 2}
    BY <1>1
  <2> QED BY <1>2, <2>1
<1>4. /\ x.target = d.target /\ x.depthBuffer = d.depthBuffer /\ x.backBuffer = d.backBuffer /\ x.next = 3
  BY <1>1, <1>2, CreatedFacts DEF Created
<1>5. e = MakeColorBuffer(d)
  BY <1>1 DEF MakeColorBuffer, SetViewport
<1> HIDE DEF x
<1>6. /\ DOMAIN x = Fields /\ x.target \in [Points -> {1, 2} \cup {0}] /\ x.depthBuffer \in {1, 2} \cup {0}
      /\ x.backBuffer \in [Points -> 0..3] /\ "color" \in Points /\ "depth" \in Points /\ 2 \in x.valid
  BY <1>3, <1>4 DEF Sound, ImagesSound, ObjectsSound, Window, Points
<1>7. /\ DOMAIN a = Fields /\ Same(a, x, WindowFields) /\ a.depthBuffer = x.depthBuffer
      /\ a.target = [x.target EXCEPT !["color"] = 2] /\ a.backBuffer = [x.backBuffer EXCEPT !["color"] = 2]
  BY <1>6 DEF Same, WindowFields, Fields
<1> HIDE DEF a
<1>8. a.target \in [Points -> {1, 2} \cup {0}] /\ a.target["depth"] = x.target["depth"]
      /\ a.backBuffer \in [Points -> 0..3] /\ a.backBuffer["color"] = 2
  BY <1>6, <1>7
<1>9. Sound(a, {}, {1, 2}) /\ a.next = 3 /\ a.valid = x.valid
  BY <1>3, <1>4, <1>6, <1>7, <1>8, WindowSound
<1>10. Window(a, 3, 2, 0)
  BY <1>4, <1>7, <1>8, <1>9 DEF Window
<1>11. Sound(b, {}, {1, 2}) /\ Kept(b, a)
  <2>1. 2 \in {1, 2} \cup {0}
    OBVIOUS
  <2> QED BY <1>6, <1>9, <2>1, AttachSound, KeptAll
<1> HIDE DEF b
<1>12. Sound(c, {}, {1, 2}) /\ Kept(c, b)
  BY <1>11, ClearStates, SetterSound
<1> HIDE DEF c
<1>13. Sound(f, {}, {1, 2}) /\ Kept(f, c)
  BY <1>12, ClearStates, SetterSound
<1> HIDE DEF f
<1>14. 2 \in f.valid
  BY <1>13 DEF Sound, ObjectsSound
<1>15. Sound(e, {}, {1, 2}) /\ Kept(e, f)
  BY <1>1, <1>13, <1>14, CopyTexSound, KeptAll
<1> HIDE DEF e
<1>16. Kept(e, a)
  BY <1>11, <1>12, <1>13, <1>15 DEF Kept
<1>17. Window(e, 3, 2, 0)
  BY <1>10, <1>16, WindowKept
<1> QED BY <1>5, <1>15, <1>17

\* The depth buffer is the third.
LEMMA MakeDepthBufferSound ==
  ASSUME NEW d, Sound(d, {}, {1, 2}), Window(d, 3, 2, 0)
  PROVE  Sound(MakeDepthBuffer(d), {}, Own) /\ Window(MakeDepthBuffer(d), 4, 2, 3)
<1> DEFINE x == Create(d)
           buffers(f) == [f EXCEPT !["depth"] = 3, !["stencil"] = 3]
           a == [x EXCEPT !.backBuffer = buffers(@), !.target = buffers(@)]
           b == Attach(a, 3, "stencil")
           c == Attach(b, 3, "depth")
           g == [c EXCEPT !.depthBuffer = 3]
           e == Cached(g, "depthTest", TRUE)
<1>1. d.next = 3 /\ 3 \in Names /\ "activeTexture" \notin {}
  BY WindowNames DEF Window
<1>2. Sound(x, {}, {1, 2} \cup {d.next}) /\ Created(x, d)
  BY <1>1, CreateSound
<1>3. Sound(x, {}, Own)
  <2>1. {1, 2} \cup {d.next} = Own
    BY <1>1 DEF Own
  <2> QED BY <1>2, <2>1
<1>4. /\ x.target = d.target /\ x.depthBuffer = d.depthBuffer /\ x.backBuffer = d.backBuffer /\ x.next = 4
  BY <1>1, <1>2, CreatedFacts DEF Created
<1>5. e = MakeDepthBuffer(d)
  BY <1>1 DEF MakeDepthBuffer, SetDepthTestEnable
<1> HIDE DEF x
<1>6. /\ DOMAIN x = Fields /\ x.target \in [Points -> Own \cup {0}] /\ x.depthBuffer \in Own \cup {0}
      /\ x.backBuffer \in [Points -> 0..3] /\ x.backBuffer["color"] = 2
      /\ "color" \in Points /\ "depth" \in Points /\ "stencil" \in Points /\ 3 \in Own \cup {0}
  BY <1>3, <1>4 DEF Sound, ImagesSound, Window, Points, Own
<1>7. /\ DOMAIN a = Fields /\ Same(a, x, WindowFields) /\ a.depthBuffer = x.depthBuffer
      /\ a.target = [x.target EXCEPT !["depth"] = 3, !["stencil"] = 3]
      /\ a.backBuffer = [x.backBuffer EXCEPT !["depth"] = 3, !["stencil"] = 3]
  BY <1>6 DEF Same, WindowFields, Fields
<1> HIDE DEF a
<1>8. a.target \in [Points -> Own \cup {0}] /\ a.target["depth"] = 3
      /\ a.backBuffer \in [Points -> 0..3] /\ a.backBuffer["color"] = 2
  BY <1>6, <1>7
<1>9. Sound(a, {}, Own) /\ a.next = 4
  BY <1>3, <1>4, <1>6, <1>7, <1>8, WindowSound
<1>10. Sound(b, {}, Own) /\ Kept(b, a)
  BY <1>6, <1>9, AttachSound, KeptAll
<1> HIDE DEF b
<1>11. Sound(c, {}, Own) /\ Kept(c, b)
  BY <1>6, <1>10, AttachSound, KeptAll
<1>12. /\ c.next = 4 /\ c.target["depth"] = 3 /\ c.backBuffer \in [Points -> 0..3] /\ c.backBuffer["color"] = 2
  BY <1>8, <1>9, <1>10, <1>11 DEF Kept
<1> HIDE DEF c
<1>13. DOMAIN c = Fields /\ c.target \in [Points -> Own \cup {0}]
  BY <1>11 DEF Sound, ImagesSound
<1>14. /\ DOMAIN g = Fields /\ Same(g, c, WindowFields) /\ g.depthBuffer = 3
       /\ g.target = c.target /\ g.backBuffer = c.backBuffer
  BY <1>13 DEF Same, WindowFields, Fields
<1> HIDE DEF g
<1>15. Sound(g, {}, Own) /\ g.next = 4
  BY <1>6, <1>11, <1>12, <1>13, <1>14, WindowSound
<1>16. Window(g, 4, 2, 3)
  BY <1>12, <1>14, <1>15 DEF Window
<1>17. Sound(e, {}, Own) /\ Kept(e, g)
  <2>1. "depthTest" \in StateNames \ {"activeTexture"}
    BY ClearStates
  <2>2. ASSUME NEW on \in BOOLEAN
        PROVE  Sound(Cached(g, "depthTest", on), {}, Own) /\ Kept(Cached(g, "depthTest", on), g)
    BY <1>15, <2>1, SetterSound
  <2> QED BY <2>2
<1> HIDE DEF e
<1>18. Window(e, 4, 2, 3)
  BY <1>16, <1>17, WindowKept
<1> QED BY <1>5, <1>17, <1>18

\* The device when its window is there.
LEMMA SetDisplaySound == DeviceSound(SetDisplay(InitDevice)) /\ SetDisplay(InitDevice).next = 4
<1> DEFINE i == InitDevice
           r == ReleaseBackBuffers(i)
           a == BindFramebuffer(r)
           b == Clear(a, Everything, 0)
           c == MakeColorBuffer(b)
           f == MakeDepthBuffer(c)
           e == Clear(f, Everything, 0)
<1>1. Sound(i, {}, {1}) /\ Window(i, 2, 0, 0) /\ i.backBuffer = [p \in Points |-> 0]
  BY InitDeviceSound
<1>2. e = SetDisplay(i)
  <2>1. i.backBuffer["color"] = 0
    BY <1>1 DEF Points
  <2> HIDE DEF i
  <2> QED BY <2>1 DEF SetDisplay, ResetBackbuffer, ClearFirst
<1> HIDE DEF i
<1>3. r = [i EXCEPT !.backBuffer = [p \in Points |-> 0]]
  BY <1>1 DEF ReleaseBackBuffers, ReleaseBuffer, Points
<1>4. /\ DOMAIN i = Fields /\ i.target \in [Points -> {1} \cup {0}] /\ i.depthBuffer \in {1} \cup {0}
  BY <1>1 DEF Sound, ImagesSound
<1>5. /\ DOMAIN r = Fields /\ Same(r, i, WindowFields) /\ r.target = i.target /\ r.depthBuffer = i.depthBuffer
      /\ r.backBuffer = i.backBuffer
  BY <1>1, <1>3, <1>4 DEF Same, WindowFields, Fields
<1> HIDE DEF r
<1>6. Sound(r, {}, {1}) /\ Window(r, 2, 0, 0)
  BY <1>1, <1>4, <1>5, WindowSound DEF Window
<1>7. Sound(a, {}, {1}) /\ Kept(a, r)
  BY <1>6, ClearStates, SetterSound DEF BindFramebuffer
<1> HIDE DEF a
<1>8. Window(a, 2, 0, 0)
  BY <1>6, <1>7, WindowKept
<1>9. Settled(a, {1})
  BY <1>7, <1>8 DEF Settled, Window
<1>10. Settled(b, {1}) /\ Kept(b, a)
  BY <1>9, ClearSound
<1> HIDE DEF b
<1>11. Sound(b, {}, {1}) /\ Window(b, 2, 0, 0)
  BY <1>8, <1>10, WindowKept DEF Settled
<1>12. Sound(c, {}, {1, 2}) /\ Window(c, 3, 2, 0)
  BY <1>11, MakeColorBufferSound
<1> HIDE DEF c
<1>13. Sound(f, {}, Own) /\ Window(f, 4, 2, 3)
  BY <1>12, MakeDepthBufferSound
<1> HIDE DEF f
<1>14. Settled(f, Own)
  BY <1>13 DEF Settled, Window
<1>15. Settled(e, Own) /\ Kept(e, f)
  BY <1>14, ClearSound
<1> HIDE DEF e
<1>16. Window(e, 4, 2, 3)
  BY <1>13, <1>15, WindowKept
<1>17. DeviceSound(e) /\ e.next = 4
  BY <1>15, <1>16 DEF DeviceSound, Window, Own
<1> QED BY <1>2, <1>17 DEF i

-----------------------------------------------------------------------------
(* The inductive invariant: the device and the textures as above, and      *)
(* values that can be sent.                                                *)

ValuesSound ==
  /\ DOMAIN value = Range(AllStates)
  /\ \A s \in Range(AllStates) : ValueFits(s, value[s])
  /\ \A s \in TextureStates : value[s] = NoTexture \/ (value[s] \in Textures /\ tex[value[s]].alive)
  /\ dirtyStates \in Seq(Range(AllStates)) /\ dirty \subseteq Range(AllStates)
AccountInv == World([dev |-> dev, tex |-> tex]) /\ ValuesSound

\* No texture state is a state of another kind.
LEMMA StateFacts ==
  /\ TextureStates \subseteq Range(AllStates)
  /\ \A s \in TextureStates : s \notin Flags /\ s \notin Shaders /\ s # "BlendingMode" /\ s # "DepthFunc"
                              /\ s # "Culling" /\ s # "FogStart"
  /\ {"DepthTest", "DepthWrite"} \subseteq Flags
BY TextureSeqFacts, AllStatesFacts DEF Flags, Shaders

\* What drawing code sets fits the state.
LEMMA ValuesOfFit ==
  ASSUME NEW s, NEW v \in ValuesOf(s)
  PROVE  /\ ValueFits(s, v)
         /\ s \in TextureStates => v = NoTexture \/ (v \in Textures /\ tex[v].alive)
<1>1. s \in {"DepthTest", "DepthWrite"} => s \notin TextureStates /\ s \in Flags
  BY StateFacts
<1>2. ASSUME s \in {"DepthTest", "DepthWrite"}
      PROVE  v \in BOOLEAN
  <2>1. ValuesOf(s) = BOOLEAN
    BY <1>1, <1>2 DEF ValuesOf, Shaders
  <2> QED BY <2>1
<1>3. ASSUME s \in TextureStates
      PROVE  v = NoTexture \/ (v \in Textures /\ tex[v].alive)
  <2>1. ValuesOf(s) = {t \in Textures : tex[t].alive} \cup {NoTexture}
    BY <1>3, StateFacts DEF ValuesOf
  <2> QED BY <2>1
<1> QED BY <1>2, <1>3 DEF ValueFits

\* The defaults fit the states.
LEMMA DefaultsFit ==
  /\ DOMAIN Defaults = Range(AllStates)
  /\ \A s \in Range(AllStates) : ValueFits(s, Defaults[s])
  /\ \A s \in TextureStates : Defaults[s] = NoTexture
<1>1. DOMAIN Defaults = Range(AllStates)
  BY DEF Defaults
<1>2. ASSUME NEW s \in Range(AllStates), s \in {"DepthTest", "DepthWrite"}
      PROVE  Defaults[s] \in BOOLEAN
  <2>1. Defaults[s] = TRUE
    BY <1>2, StateFacts DEF Defaults, Shaders
  <2> QED BY <2>1
<1>3. ASSUME NEW s \in TextureStates
      PROVE  Defaults[s] = NoTexture
  BY <1>3, StateFacts DEF Defaults
<1> QED BY <1>1, <1>2, <1>3 DEF ValueFits

\* Steps that set no state.
LEMMA ValuesStay ==
  ASSUME ValuesSound, UNCHANGED <<value, dirty, dirtyStates>>, SameAlive(tex', tex)
  PROVE  ValuesSound'
BY DEF ValuesSound, SameAlive

\* What the invariant says of the device.
LEMMA InvSound ==
  ASSUME AccountInv
  PROVE  /\ Sound(dev, {}, Own) /\ DeviceSound(dev) /\ TexturesSound(dev, tex) /\ ValuesSound
         /\ Settled(dev, Own) /\ dev.backBuffer["color"] \in Own
BY DEF AccountInv, World, DeviceSound, Settled

\* World, of a device and textures.
LEMMA PairIsWorld ==
  ASSUME NEW d, NEW x
  PROVE  World([dev |-> d, tex |-> x]) <=> DeviceSound(d) /\ TexturesSound(d, x)
BY DEF World

\* A step that only calls the device.
LEMMA DeviceStep ==
  ASSUME AccountInv, Sound(dev', {}, Own), Kept(dev', dev), UNCHANGED <<value, dirty, dirtyStates, tex>>
  PROVE  AccountInv'
<1>1. DeviceSound(dev')
  BY InvSound, DeviceSoundKept
<1>2. TexturesSound(dev', tex')
  BY InvSound DEF TexturesSound, Kept
<1>3. ValuesSound'
  BY InvSound, ValuesStay DEF SameAlive
<1> QED BY <1>1, <1>2, <1>3, PairIsWorld DEF AccountInv

\* A step that only changes textures, but neither their names nor their being alive.
LEMMA TextureStep ==
  ASSUME AccountInv, NEW t \in Textures, Touched(tex', tex, t), UNCHANGED dev
  PROVE  World([dev |-> dev', tex |-> tex']) /\ SameAlive(tex', tex)
<1> DEFINE w == [dev |-> dev, tex |-> tex]
           e == [dev |-> dev', tex |-> tex']
<1>1. World(w)
  BY DEF AccountInv
<1>2. DOMAIN e = {"dev", "tex"} /\ e.tex = tex' /\ e.dev = dev /\ w.tex = tex /\ w.dev = dev
  OBVIOUS
<1> HIDE DEF w, e
<1>3. Sound(e.dev, {}, Own) /\ Kept(e.dev, w.dev) /\ Touched(e.tex, w.tex, t)
  BY <1>2, InvSound DEF Kept
<1>4. World(e) /\ SameAlive(e.tex, w.tex)
  BY <1>1, <1>2, <1>3, WorldTouched
<1> QED BY <1>2, <1>4 DEF e

-----------------------------------------------------------------------------
(* Each action.                                                            *)

\* RsSet keeps the invariant.
LEMMA RsSetKeeps ==
  ASSUME AccountInv, GlRsSet
  PROVE  AccountInv'
<1>1. PICK s \in Changing : \E v \in ValuesOf(s) : RsSet(s, v)
  BY DEF GlRsSet
<1>2. PICK v \in ValuesOf(s) : RsSet(s, v)
  BY <1>1
<1>3. s \in Range(AllStates) /\ UNCHANGED <<dev, tex>>
  BY <1>2, AccountAssumption DEF GlRsSet, RsSet
<1>4. value' = [value EXCEPT ![s] = v] /\ DOMAIN value = Range(AllStates)
  BY <1>2, InvSound DEF RsSet, ValuesSound
<1>5. dirtyStates' \in Seq(Range(AllStates)) /\ dirty' \subseteq Range(AllStates)
  <2>1. dirtyStates \in Seq(Range(AllStates)) /\ dirty \subseteq Range(AllStates)
    BY InvSound DEF ValuesSound
  <2>2. Append(dirtyStates, s) \in Seq(Range(AllStates))
    BY <1>3, <2>1, AppendProperties
  <2> QED BY <1>2, <1>3, <2>1, <2>2 DEF RsSet
<1>6. \A r \in Range(AllStates) : ValueFits(r, value'[r])
  BY <1>4, InvSound, ValuesOfFit DEF ValuesSound
<1>7. \A r \in TextureStates : value'[r] = NoTexture \/ (value'[r] \in Textures /\ tex'[value'[r]].alive)
  BY <1>3, <1>4, InvSound, ValuesOfFit, StateFacts DEF ValuesSound
<1>8. DOMAIN value' = Range(AllStates)
  BY <1>4
<1>9. ValuesSound'
  BY <1>5, <1>6, <1>7, <1>8 DEF ValuesSound
<1> QED BY <1>3, <1>9 DEF AccountInv

\* TexCreate keeps the invariant.
LEMMA TexCreateKeeps ==
  ASSUME AccountInv, NEW t \in Textures, GlTexCreate(t)
  PROVE  AccountInv'
<1>1. /\ ~tex[t].alive /\ tex' = [tex EXCEPT ![t] = NewCGxTex(0)] /\ UNCHANGED <<rsVars, dev>>
  BY DEF GlTexCreate, TexCreate
<1>2. TexturesSound(dev, tex) /\ ValuesSound
  BY InvSound
<1>3. DOMAIN tex' = Textures /\ tex'[t] = NewCGxTex(0) /\ \A u \in Textures \ {t} : tex'[u] = tex[u]
  BY <1>1, <1>2 DEF TexturesSound
<1>4. DOMAIN NewCGxTex(0) = TexFields /\ NewCGxTex(0).gl = 0 /\ NewCGxTex(0).alive
  BY DEF NewCGxTex, TexFields
<1>5. TexturesSound(dev', tex')
  BY <1>1, <1>2, <1>3, <1>4 DEF TexturesSound
<1>6. ValuesSound'
  BY <1>1, <1>2, <1>3, <1>4 DEF ValuesSound, rsVars
<1> QED BY <1>1, <1>5, <1>6, InvSound, PairIsWorld DEF AccountInv

\* TexSetWrap keeps the invariant.
LEMMA TexSetWrapKeeps ==
  ASSUME AccountInv, NEW t \in Textures, GlTexSetWrap(t)
  PROVE  AccountInv'
<1>1. /\ tex' = [tex EXCEPT ![t].needsFlagUpdate = TRUE] /\ UNCHANGED <<value, dev>>
      /\ dirty' = dirty \cup TextureStates /\ dirtyStates' = dirtyStates \o TextureSeq
  BY DEF GlTexSetWrap, TexSetWrap
<1>2. TexturesSound(dev, tex) /\ ValuesSound
  BY InvSound
<1>3. Touched(tex', tex, t)
  BY <1>1, <1>2 DEF TexturesSound, Touched, TexFields
<1>4. World([dev |-> dev', tex |-> tex']) /\ SameAlive(tex', tex)
  BY <1>1, <1>3, TextureStep
<1>5. dirtyStates' \in Seq(Range(AllStates))
  <2>1. dirtyStates \in Seq(Range(AllStates))
    BY <1>2 DEF ValuesSound
  <2>2. TextureSeq \in Seq(Range(AllStates))
    <3> DEFINE R == Range(AllStates)
               q == TextureSeq
    <3>1. q \in Seq(TextureStates) /\ TextureStates \subseteq R
      BY TextureSeqFacts, StateFacts
    <3> HIDE DEF R, q
    <3>2. q \in Seq(R)
      BY <3>1
    <3> QED BY <3>2 DEF R, q
  <2> QED BY <1>1, <2>1, <2>2, ConcatProperties
<1>6. dirty' \subseteq Range(AllStates)
  BY <1>1, <1>2, StateFacts DEF ValuesSound
<1>7. ValuesSound'
  BY <1>1, <1>2, <1>4, <1>5, <1>6 DEF ValuesSound, SameAlive
<1> QED BY <1>4, <1>7 DEF AccountInv

\* TexMarkForUpdate keeps the invariant.
LEMMA TexMarkForUpdateKeeps ==
  ASSUME AccountInv, NEW t \in Textures, TexMarkForUpdate(t)
  PROVE  AccountInv'
<1> DEFINE y == Marked(t)
           x == [dev |-> dev, tex |-> y]
           w == ITexMarkAsUpdated(x, t)
<1>1. /\ tex[t].alive /\ (tex[t].gl = 0 => dev.next \in Names)
      /\ tex' = w.tex /\ dev' = w.dev /\ UNCHANGED rsVars
  BY DEF TexMarkForUpdate
<1>2. DOMAIN tex = Textures /\ DOMAIN tex[t] = TexFields
  BY InvSound DEF TexturesSound
<1>3. Touched(y, tex, t)
  BY <1>2 DEF Marked, Touched, TexFields
<1>4. World([dev |-> dev, tex |-> tex]) /\ Sound(dev, {}, Own)
  BY InvSound DEF AccountInv
<1> HIDE DEF y
<1>5. World(x) /\ SameAlive(x.tex, tex)
  <2> DEFINE v == [dev |-> dev, tex |-> tex]
  <2>1. DOMAIN x = {"dev", "tex"} /\ x.tex = y /\ x.dev = dev /\ v.tex = tex /\ v.dev = dev
    OBVIOUS
  <2>2. World(v)
    BY <1>4
  <2> HIDE DEF x, v
  <2>3. Touched(x.tex, v.tex, t) /\ Sound(x.dev, {}, Own) /\ Kept(x.dev, v.dev)
    BY <1>3, <1>4, <2>1 DEF Kept
  <2> QED BY <2>1, <2>2, <2>3, WorldTouched
<1>6. x.dev = dev /\ x.tex = y
  OBVIOUS
<1> HIDE DEF x
<1>7. x.tex[t].alive /\ (x.tex[t].gl = 0 => x.dev.next \in Names)
  BY <1>1, <1>3, <1>6 DEF Touched
<1>8. World(w) /\ SameAlive(w.tex, x.tex)
  BY <1>5, <1>7, ITexMarkAsUpdatedSound
<1> HIDE DEF w
<1>9. World([dev |-> dev', tex |-> tex'])
  BY <1>1, <1>8, PairIsWorld DEF World
<1>10. SameAlive(tex', tex)
  BY <1>1, <1>5, <1>8 DEF SameAlive
<1>11. ValuesSound'
  BY <1>1, <1>10, InvSound, ValuesStay DEF rsVars
<1> QED BY <1>9, <1>11 DEF AccountInv

\* TexDestroy keeps the invariant: the texture is none of the device and of no state.
LEMMA TexDestroyKeeps ==
  ASSUME AccountInv, NEW t \in Textures, GlTexDestroy(t)
  PROVE  AccountInv'
<1> DEFINE n == tex[t].gl
<1>1. /\ \A s \in TextureStates : value[s] # t
      /\ tex' = [tex EXCEPT ![t] = NoCGxTex] /\ UNCHANGED rsVars
      /\ dev' = IF n = 0 THEN dev ELSE FreeTexture(dev, n)
  BY DEF GlTexDestroy, TexDestroy
<1>2. /\ DOMAIN tex = Textures
      /\ \A u \in Textures : /\ DOMAIN tex[u] = TexFields
                             /\ tex[u].gl \in (dev.valid \ Own) \cup {0}
                             /\ ~tex[u].alive => tex[u].gl = 0
      /\ \A u, v \in Textures : tex[u].gl = tex[v].gl /\ tex[u].gl # 0 => u = v
  BY InvSound DEF TexturesSound
<1>3. Sound(dev, {}, Own) /\ DeviceSound(dev)
  BY InvSound
<1>4. DeviceSound(dev') /\ dev'.valid = IF n = 0 THEN dev.valid ELSE dev.valid \ {n}
  <2>1. CASE n = 0
    BY <1>1, <1>3, <2>1
  <2>2. CASE n # 0
    <3> DEFINE e == FreeTexture(dev, n)
    <3>1. n \in dev.valid \ Own /\ dev' = e
      BY <1>1, <1>2, <2>2
    <3> HIDE DEF n
    <3>2. Sound(e, {}, Own) /\ Same(e, dev, {"valid", "unit", "image"}) /\ e.valid = dev.valid \ {n}
      BY <1>3, <3>1, FreeTextureSound
    <3> HIDE DEF e
    <3>3. e.target = dev.target /\ e.depthBuffer = dev.depthBuffer /\ e.backBuffer = dev.backBuffer
      BY <3>2 DEF Same, Fields
    <3>4. DeviceSound(e)
      BY <1>3, <3>2, <3>3 DEF DeviceSound, Settled
    <3> QED BY <2>2, <3>1, <3>2, <3>4
  <2> QED BY <2>1, <2>2
<1>5. DOMAIN NoCGxTex = TexFields /\ NoCGxTex.gl = 0
  BY DEF NoCGxTex, TexFields
<1>6. DOMAIN tex' = Textures /\ tex'[t] = NoCGxTex /\ \A u \in Textures \ {t} : tex'[u] = tex[u]
  BY <1>1, <1>2
<1>7. \A u \in Textures : /\ DOMAIN tex'[u] = TexFields
                          /\ tex'[u].gl \in (dev'.valid \ Own) \cup {0}
                          /\ ~tex'[u].alive => tex'[u].gl = 0
  <2> TAKE u \in Textures
  <2>1. CASE u = t
    BY <1>5, <1>6, <2>1
  <2>2. CASE u # t
    <3>1. tex'[u] = tex[u] /\ (tex[u].gl # 0 => tex[u].gl # n)
      BY <1>2, <1>6, <2>2
    <3> HIDE DEF n
    <3> QED BY <1>2, <1>4, <3>1
  <2> QED BY <2>1, <2>2
<1>8. \A u, v \in Textures : tex'[u].gl = tex'[v].gl /\ tex'[u].gl # 0 => u = v
  BY <1>2, <1>5, <1>6
<1>9. TexturesSound(dev', tex')
  BY <1>6, <1>7, <1>8 DEF TexturesSound
<1>10. ValuesSound'
  <2>1. ValuesSound /\ UNCHANGED <<value, dirty, dirtyStates>>
    BY <1>1, InvSound DEF rsVars
  <2>2. \A s \in TextureStates : value[s] \in Textures => tex'[value[s]] = tex[value[s]]
    BY <1>1, <1>6
  <2> QED BY <2>1, <2>2 DEF ValuesSound
<1> QED BY <1>4, <1>9, <1>10, PairIsWorld DEF AccountInv

\* Draw keeps the invariant: there are names for all textures it makes.
LEMMA DrawKeeps ==
  ASSUME AccountInv, Draw
  PROVE  AccountInv'
<1> DEFINE f == IShaderConstantsFlush(dev)
           x == [dev |-> f, tex |-> tex]
           y == SendStates(x, IRsSync, value)
           v == IXformSetViewport(y.dev)
           w == IStateSync
           e == GLSDLDraw(v)
           Wd == {value[s] : s \in dirty \cap TextureStates} \ {NoTexture}
<1>1. /\ dev.next + Cardinality(ToMake) - 1 \in Names \cup {0}
      /\ tex' = w.tex /\ dev' = GLSDLDraw(w.dev)
      /\ dirty' = {} /\ dirtyStates' = <<>> /\ UNCHANGED value
  BY DEF Draw
<1>2. Sound(dev, {}, Own) /\ DeviceSound(dev) /\ TexturesSound(dev, tex) /\ ValuesSound
  BY InvSound
<1>3. Sound(f, {}, Own) /\ Kept(f, dev)
  BY <1>2, IShaderConstantsFlushSound
<1> HIDE DEF f
<1>4. World(x) /\ x.dev.next = dev.next /\ x.tex = tex
  <2>1. DeviceSound(f) /\ TexturesSound(f, tex)
    BY <1>2, <1>3, DeviceSoundKept DEF TexturesSound, Kept
  <2> QED BY <1>3, <2>1, PairIsWorld DEF Kept
<1>5. Wd \in SUBSET Textures
  BY <1>2 DEF ValuesSound
<1>6. Wd \cap Unmade(x.tex) = ToMake
  <2>1. Wd \cap Unmade(tex) = ToMake
    BY <1>5, AccountAssumption DEF Unmade, ToMake
  <2> QED BY <1>4, <2>1
<1>7. Room(x, Wd)
  <2>1. ToMake \in SUBSET Textures
    BY DEF ToMake
  <2>2. IsFiniteSet(ToMake)
    BY <2>1, AccountAssumption, FS_Subset
  <2> HIDE DEF x, Wd
  <2> QED BY <1>1, <1>4, <1>6, <2>2 DEF Room
<1> DEFINE q == IRsSync
           R == Range(AllStates)
<1>8. q \in Seq(dirty) /\ dirty \subseteq R
  BY <1>2, IRsSyncFacts DEF ValuesSound
<1>9. q \in Seq(R) /\ Wanted(x, q, value, Wd)
  <2>1. \A i \in 1..Len(q) : q[i] \in dirty
    <3> HIDE DEF q
    <3> QED BY <1>8
  <2>2. q \in Seq(R)
    <3> HIDE DEF q, R
    <3> QED BY <1>8
  <2>3. ASSUME NEW s \in dirty
        PROVE  /\ ValueFits(s, value[s])
               /\ s \in TextureStates => value[s] = NoTexture \/ (value[s] \in Wd /\ x.tex[value[s]].alive)
    BY <1>2, <1>4, <1>8 DEF ValuesSound
  <2> HIDE DEF Wd, x, q
  <2>4. Wanted(x, q, value, Wd)
    BY <2>1, <2>3 DEF Wanted
  <2> QED BY <2>2, <2>4
<1>10. World(y) /\ SameAlive(y.tex, tex)
  <2>1. World(SendStates(x, q, value)) /\ SameAlive(SendStates(x, q, value).tex, x.tex)
    <3> HIDE DEF Wd, x, q
    <3> QED BY <1>4, <1>5, <1>7, <1>9, SendStatesSound DEF R
  <2> QED BY <1>4, <2>1
<1>11. w = [y EXCEPT !.dev = IXformSetViewport(@)]
  BY DEF IStateSync, x, f
<1> HIDE DEF y, w, x, q, R
<1>12. w.tex = y.tex /\ w.dev = v /\ Sound(y.dev, {}, Own)
  BY <1>10, <1>11, InvSound DEF World, DeviceSound, Settled
<1>13. Sound(v, {}, Own) /\ Kept(v, y.dev)
  BY <1>12, IXformSetViewportSound
<1> HIDE DEF v
<1>14. Settled(v, Own)
  BY <1>10, <1>13, SettledKept DEF World, DeviceSound
<1>15. Settled(e, Own) /\ Kept(e, v)
  BY <1>14, DrawSound
<1> HIDE DEF e
<1>16. Kept(e, y.dev) /\ Sound(e, {}, Own) /\ dev' = e /\ tex' = y.tex
  BY <1>1, <1>12, <1>13, <1>15 DEF Kept, Settled, e
<1>17. DeviceSound(dev') /\ TexturesSound(dev', tex')
  <2>1. DeviceSound(y.dev) /\ TexturesSound(y.dev, y.tex)
    BY <1>10 DEF World
  <2> QED BY <1>16, <2>1, DeviceSoundKept DEF TexturesSound, Kept
<1>18. ValuesSound'
  <2>1. SameAlive(tex', tex)
    BY <1>10, <1>16
  <2>2. dirtyStates' \in Seq(Range(AllStates)) /\ dirty' \subseteq Range(AllStates)
    BY <1>1
  <2> QED BY <1>1, <1>2, <2>1, <2>2 DEF ValuesSound, SameAlive
<1> QED BY <1>17, <1>18, PairIsWorld DEF AccountInv

\* SceneClear keeps the invariant.
LEMMA SceneClearKeeps ==
  ASSUME AccountInv, NEW mask, NEW color, SceneClear(mask, color)
  PROVE  AccountInv'
<1> DEFINE a == IXformSetViewport(dev)
           e == Clear(a, mask, color)
<1>1. dev' = e /\ UNCHANGED appVars
  BY DEF SceneClear
<1>2. Sound(a, {}, Own) /\ Kept(a, dev) /\ Settled(dev, Own)
  BY InvSound, IXformSetViewportSound
<1> HIDE DEF a
<1>3. Settled(a, Own)
  BY <1>2, SettledKept
<1>4. Settled(e, Own) /\ Kept(e, a)
  BY <1>3, ClearSound
<1> HIDE DEF e
<1>5. Sound(dev', {}, Own) /\ Kept(dev', dev)
  BY <1>1, <1>2, <1>4 DEF Settled, Kept
<1> QED BY <1>1, <1>5, DeviceStep DEF appVars, rsVars

\* ScenePresent keeps the invariant.
LEMMA ScenePresentKeeps ==
  ASSUME AccountInv, ScenePresent
  PROVE  AccountInv'
<1>1. dev' = Swap(dev) /\ UNCHANGED <<rsVars, tex>>
  BY DEF ScenePresent
<1>2. Settled(Swap(dev), Own) /\ Kept(Swap(dev), dev)
  BY InvSound, SwapSound
<1> QED BY <1>1, <1>2, DeviceStep DEF rsVars, Settled

\* The transforms keep the invariant.
LEMMA XformKeeps ==
  ASSUME AccountInv, NEW m, GlXformSetView(m) \/ GlXformSetProjection(m)
  PROVE  AccountInv'
<1>1. /\ dev' = SetView(dev, m) \/ dev' = SetProjection(dev, m)
      /\ UNCHANGED <<rsVars, tex>>
  BY DEF GlXformSetView, GlXformSetProjection, XformSetView, XformSetProjection
<1>2. Sound(dev', {}, Own) /\ Kept(dev', dev)
  BY <1>1, InvSound, SetViewSound
<1> QED BY <1>1, <1>2, DeviceStep DEF rsVars

\* DeviceCreate establishes the invariant.
LEMMA InitKeeps ==
  ASSUME Init
  PROVE  AccountInv
<1> DEFINE d == SetDisplay(InitDevice)
           x == [dev |-> d, tex |-> tex]
           y == SendStates(x, AllStates, Defaults)
           e == Cached(y.dev, "fogDensity", 0)
<1>1. /\ value = Defaults /\ dirty = {} /\ dirtyStates = <<>> /\ tex = [t \in Textures |-> NoCGxTex]
      /\ dev = e
  BY DEF Init, AppInit, SetFogParam
<1>2. DeviceSound(d) /\ d.next = 4
  BY SetDisplaySound
<1> HIDE DEF d
<1>3. ASSUME NEW c
      PROVE  TexturesSound(c, tex)
  <2>1. DOMAIN NoCGxTex = TexFields /\ NoCGxTex.gl = 0
    BY DEF NoCGxTex, TexFields
  <2> QED BY <1>1, <2>1 DEF TexturesSound
<1>4. World(x) /\ x.dev.next = 4 /\ x.tex = tex
  BY <1>2, <1>3, PairIsWorld
<1> HIDE DEF x
<1>5. Room(x, {})
  <2>1. {} \cap Unmade(x.tex) = {} /\ 4 + 0 - 1 \in Names
    BY WindowNames
  <2> QED BY <1>4, <2>1, FS_EmptySet DEF Room
<1>6. Wanted(x, AllStates, Defaults, {})
  <2>1. \A i \in 1..Len(AllStates) : AllStates[i] \in Range(AllStates)
    BY AllStatesFacts, ElementOfSeq
  <2> QED BY <2>1, DefaultsFit DEF Wanted
<1>7. World(y)
  <2>1. {} \in SUBSET Textures
    OBVIOUS
  <2> QED BY <1>4, <1>5, <1>6, <2>1, AllStatesFacts, SendStatesSound
<1> HIDE DEF y
<1>8. Sound(y.dev, {}, Own) /\ DeviceSound(y.dev)
  BY <1>7 DEF World, DeviceSound, Settled
<1>9. Sound(e, {}, Own) /\ Kept(e, y.dev)
  <2>1. "fogDensity" \in StateNames \ {"activeTexture"} /\ "fogDensity" \notin Switches
    BY DEF StateNames, Switches, Toggled
  <2> QED BY <1>8, <2>1, SetterSound
<1> HIDE DEF e
<1>10. DeviceSound(dev)
  BY <1>1, <1>8, <1>9, DeviceSoundKept
<1>11. ValuesSound
  BY <1>1, DefaultsFit DEF ValuesSound
<1> QED BY <1>3, <1>10, <1>11, PairIsWorld DEF AccountInv

\* Every step keeps the invariant.
LEMMA NextKeeps ==
  ASSUME AccountInv, [Next]_vars
  PROVE  AccountInv'
<1>1. CASE GlRsSet
  BY <1>1, RsSetKeeps
<1>2. CASE \E k \in Targets, i \in Indices : GlShaderConstantsSet(k, i)
  <2>1. UNCHANGED <<value, dirty, dirtyStates, tex, dev>>
    BY <1>2 DEF GlShaderConstantsSet, ShaderConstantsSet, rsVars
  <2> QED BY <2>1 DEF AccountInv, ValuesSound
<1>3. CASE \E rect \in {"full", "part"} : GlXformSetViewport(rect)
  <2>1. UNCHANGED <<value, dirty, dirtyStates, tex, dev>>
    BY <1>3 DEF GlXformSetViewport, XformSetViewport, rsVars
  <2> QED BY <2>1 DEF AccountInv, ValuesSound
<1>4. CASE \E t \in Textures : GlTexCreate(t) \/ GlTexSetWrap(t)
  BY <1>4, TexCreateKeeps, TexSetWrapKeeps
<1>5. CASE \E t \in Textures : TexMarkForUpdate(t) \/ GlTexDestroy(t)
  BY <1>5, TexMarkForUpdateKeeps, TexDestroyKeeps
<1>6. CASE \E m \in {"identity", "camera"} : GlXformSetView(m) \/ GlXformSetProjection(m)
  BY <1>6, XformKeeps
<1>7. CASE Draw
  BY <1>7, DrawKeeps
<1>8. CASE \E mask \in {{"color"}, {"depth"}, {"color", "depth"}}, color \in {0, 1} : SceneClear(mask, color)
  BY <1>8, SceneClearKeeps
<1>9. CASE ScenePresent
  BY <1>9, ScenePresentKeeps
<1>10. CASE UNCHANGED vars
  BY <1>10 DEF AccountInv, ValuesSound, vars, appVars, rsVars
<1> QED BY <1>1, <1>2, <1>3, <1>4, <1>5, <1>6, <1>7, <1>8, <1>9, <1>10 DEF Next

\* The invariant implies the property.
LEMMA InvIsTrue ==
  ASSUME AccountInv
  PROVE  AccountIsTrue
<1>1. Sound(dev, {}, Own)
  BY InvSound
<1>2. DOMAIN dev.st = StateNames /\ \A s \in StateNames \ {"alphaTest"} : dev.st[s] = dev.ctx[s]
  BY <1>1 DEF Sound, StatesSound, Agree
<1>3. dev.failed = {}
  BY <1>1 DEF Sound, ObjectsSound
<1> QED BY <1>1, <1>2, <1>3 DEF AccountIsTrue, NoAssertFails, ShadowAgrees, Sound, UnitsSound

(* The OpenGL device keeps its account of OpenGL straight, whatever is set, *)
(* drawn with, updated, freed, cleared and presented in whatever order: no  *)
(* BLIZZARD_ASSERT of a texture, mipmap or framebuffer fails, m_States is   *)
(* what OpenGL has, and so are the bindings of every unit (CGxDeviceGLSDL,  *)
(* GLDevice, GLTexture::Bind, GLFramebuffer::Attach).                       *)
THEOREM AccountTrue == Spec => []AccountIsTrue
<1>1. Init => AccountInv
  BY InitKeeps
<1>2. AccountInv /\ [Next]_vars => AccountInv'
  BY NextKeeps
<1>3. AccountInv => AccountIsTrue
  BY InvIsTrue
<1> QED BY <1>1, <1>2, <1>3, PTL DEF Spec
=============================================================================
