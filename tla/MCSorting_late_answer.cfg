SPECIFICATION Spec
PROPERTY CycleInSession
CONSTANTS
  Buttons <- SortButtons
  Bins <- GreenBin
  RemoteCmds <- NoRemote
  Patient = FALSE
  MaxTouches = 3
  MaxObjects = 0
  MaxRetries = 0
  MaxRemote = 0
  SweepStep = 90
