SPECIFICATION Spec
CONSTANTS
  N <- MCN
  MaxCycle <- MCMaxCycle
INVARIANTS
  BufferInv
  NotOlder
