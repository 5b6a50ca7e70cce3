SPECIFICATION Spec
CONSTANTS
  r1 = r1
  Raiser <- MCRaiser
  RaisedCode <- MCRaisedCode
  Threshold <- MCThreshold
  MaxMissed <- MCMaxMissed
INVARIANTS
  GateSound
  MotionWithheld
  NeverStuck
PROPERTIES
  RtFaultClears
  FailureIsHeard
