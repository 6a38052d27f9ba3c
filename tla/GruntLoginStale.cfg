SPECIFICATION Spec
CONSTANTS
  l1 = l1
  l2 = l2
  Logins = {l1, l2}
  NoLogin = NoLogin
PROPERTIES ConnectsAuthenticated
CHECK_DEADLOCK FALSE
