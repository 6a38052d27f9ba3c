SPECIFICATION MCSpec
CONSTANTS
  s1 = s1
  s2 = s2
  o1 = o1
  o2 = o2
  o3 = o3
  Shareds = {s1, s2}
  Objects = {o1, o2, o3}
  NoShared = NoShared
  NoObject = NoObject
  ReadTries = 2
INVARIANTS WellFormed SkinAfterData
PROPERTIES BufferIsStable ImplementsLoading ReadsComplete LoopIsSound
