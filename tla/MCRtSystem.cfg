SPECIFICATION Spec
CONSTANTS
  MaxActivations <- MCMaxActivations
  Empty = Empty
INVARIANTS
  TypeOK
  RunningHonest
  HandsOnSound
  NeverStuck
PROPERTIES
  CommandKept
  StopReturns
  ImplementsBus
