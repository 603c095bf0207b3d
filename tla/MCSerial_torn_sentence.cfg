SPECIFICATION Spec
INVARIANT TimeIsFromGps
CONSTANTS
  Line <- TwoLines
  Traffics <- GpsOnly
CHECK_DEADLOCK FALSE
