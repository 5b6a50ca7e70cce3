SPECIFICATION Spec
CONSTANTS
  Period <- MCPeriod
  MeasureWindow <- MCMeasureWindow
  MaxWork <- MCMaxWork
  MaxLatency <- MCMaxLatency
  MaxTime <- MCMaxTime
INVARIANT
  EveryTickServed
