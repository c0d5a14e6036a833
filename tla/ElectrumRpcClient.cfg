SPECIFICATION ClientSpec
CONSTANTS
  s1 = s1
  s2 = s2
  q1 = q1
  q2 = q2
  q3 = q3
  q4 = q4
  Sockets = {s1, s2}
  Requests = {q1, q2, q3, q4}
  NoSocket = NoSocket
INVARIANTS
  TrackedOnCurrentSocket
  NoLeakedSocket
  ConnectedIsVerified
PROPERTIES
  TimeoutDropsItsOwnConnection
  PromisesSettle
CHECK_DEADLOCK FALSE
