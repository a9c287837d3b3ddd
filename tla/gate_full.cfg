SPECIFICATION GateSpec
CONSTANTS
  r1 = r1
  r2 = r2
  r3 = r3
  r4 = r4
  Requests <- Many
  Async <- OneAsync
  Threads = 3
PROPERTIES
  RequestsAnswered
CHECK_DEADLOCK FALSE
