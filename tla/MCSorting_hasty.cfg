SPECIFICATION Spec
INVARIANT BoxIndexInRange
PROPERTY SessionsDoNotNest
CONSTANTS
  Buttons <- EachButton
  Bins <- GreenBin
  RemoteCmds <- NoRemote
  Patient = FALSE
  MaxTouches = 4
  MaxObjects = 1
  MaxRetries = 1
  MaxRemote = 0
  SweepStep = 90
