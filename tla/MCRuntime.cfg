SPECIFICATION Spec
CONSTANTS
  c1 = c1
  c2 = c2
  Malformed = Malformed
  NaN = NaN
  Refused = Refused
  NoStep = NoStep
  Call <- MCCall
  Participants <- MCParticipants
  HasNav2 <- MCHasNav2
  Inputs <- MCInputs
  Instructions <- MCInstructions
  Files <- MCFiles
SYMMETRY MCSymmetry
INVARIANTS
  PortInv
  StartedIsAllowed
  LifecycleSound
PROPERTIES
  ImplementsPort
