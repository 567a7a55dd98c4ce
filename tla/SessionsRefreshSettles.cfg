\* A parent's account, one tab, under fairness of the handlers.
CONSTANTS
  w1 = w1  w2 = w2  t1 = t1  t2 = t2
  NoTab = NoTab
  Roles = {"PARENT"}
  Tabs = {t1}
  Workers = {w1}
  MaxTokens <- TokensByRole
  MaxInvitations = 1
SPECIFICATION FairSpec
PROPERTIES RefreshSettles
