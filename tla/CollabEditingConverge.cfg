SPECIFICATION Spec
CONSTANTS
  Tabs = {t1, t2}
  Users = {{t1}, {t2}}
  Ids = {s1}
  Chars = {"a", "b"}
  Prefilled = {}
  Now = 1000
  Writing = {t1, t2}
  MaxEdits = 2
  Breakable = {}
  NoSession = NoSession
INVARIANTS Converged
CHECK_DEADLOCK FALSE
