SPECIFICATION Spec
CONSTANTS
  NaN = NaN
  Empty = Empty
  Kp = 1
  Kd = 1
  Reach = 3
  Params <- MCParams
  Setpoint <- MCSetpoint
  Drives <- MCDrives
INVARIANTS
  BusInv
  NoAutoReenable
