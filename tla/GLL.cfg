SPECIFICATION MCSpec
CONSTANTS
  t1 = t1
  t2 = t2
  Textures = {t1, t2}
  NoTexture = NoTexture
  Nothing = Nothing
  Inverted = Inverted
  NumUnits = 1
  Names = {1, 2, 3, 4, 5, 6, 7}
  Indices = {0}
  Changing = {"Texture0", "VertexShader", "PixelShader", "BlendingMode", "AlphaRef", "Fog", "Lighting", "FogStart", "DepthTest", "DepthFunc", "DepthWrite", "Culling"}
  MaxDirty = 1
  Sizes = {1, 2}
  MaxCommands = 3
ACTION_CONSTRAINTS Bound Settles
SYMMETRY Symmetry
INVARIANTS ObjectsAreSound
PROPERTIES DrawSeesStates
