SPECIFICATION MCSpec
CONSTANTS
  MaxRequests = 2
  l1 = l1
  Logins = {l1}
  NoLogin = NoLogin
  pin = pin
  secret = secret
  note = note
  none = none
  Fit = 2
  Chunk = 4
INVARIANTS CommandsInOrder RealmStatesAgree EditBoxesAreSound
PROPERTIES ReportsAdvance AccountIsLoggedOn LogonIsSettled DialogCloses
CHECK_DEADLOCK FALSE
