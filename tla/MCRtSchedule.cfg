SPECIFICATION Spec
CONSTANTS
  Period <- MCPeriod
  MeasureWindow <- MCMeasureWindow
  MaxWork <- MCMaxWork
  MaxLatency <- MCMaxLatency
  MaxTime <- MCMaxTime
INVARIANTS
  TypeOK
  NoBurst
  MeasuredRateHonest
PROPERTIES
  StopLeaves
