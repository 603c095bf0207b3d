SPECIFICATION Spec
PROPERTY StopUnderstood
CONSTANTS
  Buttons <- SortButtons
  Bins <- GreenBin
  RemoteCmds <- NoRemote
  Patient = TRUE
  MaxTouches = 4
  MaxObjects = 1
  MaxRetries = 0
  MaxRemote = 0
  SweepStep = 90
