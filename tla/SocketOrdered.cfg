SPECIFICATION FairSpec
CONSTANTS
  Daemons = {unit, hand1, hand2}
  Units = {unit}
  None = None
  Overlapping = FALSE
  MaxStops = 3
INVARIANTS SoleServer
PROPERTIES LiveSocketKept InTheEndReachable
