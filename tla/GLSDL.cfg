SPECIFICATION MCSpec
CONSTANTS
  t1 = t1
  t2 = t2
  Textures = {t1, t2}
  NoTexture = NoTexture
  Nothing = Nothing
  Inverted = Inverted
  NumUnits = 2
  Names = {1, 2, 3, 4, 5}
  Indices = {0, 1}
  Changing = {"Texture0", "Texture1", "VertexShader", "PixelShader", "BlendingMode", "AlphaRef", "Fog", "Lighting", "FogStart", "DepthTest", "DepthFunc", "DepthWrite", "Culling"}
  MaxDirty = 2
ACTION_CONSTRAINT Bound
SYMMETRY Symmetry
INVARIANTS AccountIsTrue TexturesAreSound
PROPERTIES DrawSeesStates
