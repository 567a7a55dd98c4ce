\* A student's account, one tab: a refresh is in progress while the office resets.
CONSTANTS
  w1 = w1  w2 = w2  t1 = t1  t2 = t2
  NoTab = NoTab
  Roles = {"STUDENT"}
  Tabs = {t1}
  Workers = {w1, w2}
  MaxTokens <- TokensByRole
  MaxInvitations = 1
SPECIFICATION Spec
INVARIANTS OldLoginEnds
