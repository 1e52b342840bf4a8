CONSTANTS
  Handlers = {h1, h2}
  Texts = {a, b}
  Starts = {1, 2}
  Unset = unset
  Kept = 1
  MaxChanges = 3
  Contents = {"before", "after"}
  MaxCalls = 2
  MaxStack = 2
  MaxActs = 4
SPECIFICATION MCSpec
INVARIANTS TypeOK BaselineIsOriginal ReplacedIsKept StampMatchesStatus
PROPERTIES BaselineStays UndoGoesBack
CHECK_DEADLOCK FALSE
