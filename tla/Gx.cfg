SPECIFICATION MCSpec
CONSTANTS
  DepthTest = DepthTest
  DepthFunc = DepthFunc
  BlendingMode = BlendingMode
  Off = Off
  On = On
  States = {DepthTest, DepthFunc, BlendingMode}
  Pair = {DepthTest, DepthFunc}
  Values = {Off, On}
  Inverted = Inverted
  Unknown = Unknown
  MaxDepth = 2
  MaxPushed = 3
  VertexPoolSize = 6
  IndexPoolSize = 3
  MeshSizes = {1, 3}
  TextCapacity = 2
  MaxSize = 8
  Objects = {1, 2, 3, 4, 5, 6, 7, 8, 9, 10, 11, 12}
  MaxSent = 3
INVARIANTS DeviceAgrees BuffersAreSound SettledIsDone
PROPERTIES ImplementsStack ImplementsQueue WaitReturns
