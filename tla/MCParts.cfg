CONSTANTS
  Cards = {1, 2, 3, 4}
  BoardColumns = {"todo", "done"}
  Present = 3
  MaxChanges = 3
  Ids = {1, 2}
  Tabs = {t1, t2, t3}
  Closed = closed
  Buffer = 1
  MaxInfos = 1
  MaxMoves = 2
  Requests = {r1}
  Others = {o1, o2}
  Workers = {w1, w2}
  BusRoom = 2
  JobRoom = 2
  Entries = {e1}
  Operators = {kim, leo}
  Lengths = {2}
  MaxTime = 4
  MaxAhead = 1
  MaxRequests = 2
  Events = {1, 2, 3}
  Shapes <- MCShapes
  Texts = {"old", "new"}
  Tints = {"red", "blue"}
  Windows = {0, 1}
  Days = 2
  DayLength = 2
  MaxSteps = 3
  MaxFrames = 2
  MaxEdits = 2
  Actions = {a1, a2}
  Slots = 2
  MaxRetries = 1
  MaxPings = 1
  MaxLoads = 1
  People = {ann, ben}
  Nobody = nobody
  MaxActs = 3
SPECIFICATION Spec
INVARIANTS
  ServerTypeOK
  
   AlarmsEveryTabIsTold
  ShutdownBusIsSafe ShutdownQueuedAreTried
  
  BrowserTypeOK
   TimelineColumnsFit
  OfflineLostOnlyIfLate 
  
 
CHECK_DEADLOCK FALSE
