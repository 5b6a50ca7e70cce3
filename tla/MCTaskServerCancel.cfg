SPECIFICATION Spec
CONSTANTS
  t1 = t1
  t2 = t2
  None = None
  Task <- MCTask
INVARIANT
  CancelKeepsServing
