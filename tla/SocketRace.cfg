SPECIFICATION Spec
CONSTANTS
  Daemons = {unit, hand1}
  Units = {unit}
  None = None
  Overlapping = TRUE
  MaxStops = 0
PROPERTIES LiveSocketKept
