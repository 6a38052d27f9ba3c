SPECIFICATION MCSpec
CONSTANTS
  e1 = e1
  e2 = e2
  Events = {e1, e2}
  Times = {0, 1}
  Size = 4
  RingSize = 3
  Blank <- MCBlank
  shift = shift
  w = w
  left = left
  Keys = {shift, w}
  MetaKeys = {shift}
  Buttons = {left}
  window = window
  button = button
  panel = panel
  normal = normal
  pushed = pushed
  disabled = disabled
  glow = glow
  art = art
  null = null
  Objects = {first, second}
  nothing = nothing
  MaxStarted = 3
  MaxCalls = 2
  MaxFrames = 4
INVARIANTS HeldIsKnown BatchesAreCurrent FocusIsSound
PROPERTIES ImplementsFifo KeysAlternate EventsAreKept
