SPECIFICATION Spec
CONSTANTS
  t1 = t1
  Task <- MCTask
  Graphs <- MCGraphs
  MaxSteps <- MCMaxSteps
  EnvFaults <- MCEnvFaults
INVARIANTS
  PlanFollowed
  OrphanOnlyAfterTimeout
  LateFeedbackCause
  OneStartAfterStop
  NeverStuck
PROPERTIES
  ImplementsContract
  UsesPorts
  BoundedWork
