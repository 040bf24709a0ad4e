SPECIFICATION Spec
CONSTANTS
  Conns = {c1}
  t1 = t1
  t2 = t2
  t3 = t3
  Targets = {t1, t2, t3}
  First = t1
  Found = {t2}
  UrlOf <- TwoUrls
  None = None
  MaxRefresh = 1
VIEW Relevant
INVARIANTS
  TypeOK
  ActiveListed
  OneEntryPerTab
  NoStaleFrame
  OpenTabsGetListed
