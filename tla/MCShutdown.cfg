CONSTANTS
  Requests = {r1}
  Others = {o1, o2}
  Workers = {w1, w2}
  BusRoom = 2
  JobRoom = 2
SPECIFICATION Spec
INVARIANT RequestsAreDrained
CHECK_DEADLOCK FALSE
