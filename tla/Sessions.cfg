\* Two tabs, two requests at once, one account of every role.
CONSTANTS
  w1 = w1  w2 = w2  t1 = t1  t2 = t2
  NoTab = NoTab
  Roles = {"STUDENT", "PARENT", "TEACHER", "SCHOOL_ADMIN"}
  Tabs = {t1, t2}
  Workers = {w1, w2}
  MaxTokens <- TokensByRole
  MaxInvitations = 2
SPECIFICATION Spec
SYMMETRY Symmetry
INVARIANTS TypeOK ResetEndsSessions TemporaryIsReplaced NoFalseAlarm OneTokenPerSession
PROPERTIES SignedInUntilLogout
