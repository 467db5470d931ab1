SPECIFICATION Spec
CONSTANTS
  t1 = t1
  t2 = t2
  t3 = t3
  Tabs = {t1, t2, t3}
  Usable = {t1, t2}
  Visits <- MCVisits
  MaxScroll = 2
  Lead = 1
INVARIANTS LanguageFollowsChoice ActiveIsThisPage MarkIsWhereTheReaderIs
