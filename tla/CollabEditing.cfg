SPECIFICATION FairSpec
CONSTANTS
  Tabs = {t1, t2, t3}
  Users = {{t1, t3}, {t2}}
  Ids = {s1}
  Chars = {"a"}
  Prefilled = {t1}
  Now = 1000
  Writing = {t1, t2}
  MaxEdits = 1
  Breakable = {t1}
  NoSession = NoSession
INVARIANTS
  TypeOK
  NothingMissedNorTwice
  PresenceAgrees
  NobodyLeftBehind
  OnlyATwinOrphans
PROPERTIES
  EditsPropagate
CHECK_DEADLOCK FALSE
