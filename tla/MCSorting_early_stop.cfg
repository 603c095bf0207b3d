SPECIFICATION Spec
PROPERTY DoneNamesItsCycle
CONSTANTS
  Buttons <- SortButtons
  Bins <- GreenBin
  RemoteCmds <- NoRemote
  Patient = TRUE
  MaxTouches = 2
  MaxObjects = 0
  MaxRetries = 0
  MaxRemote = 0
  SweepStep = 90
