SPECIFICATION Spec
INVARIANT BeltOffWhenIdle
INVARIANT OverrideInForce
INVARIANT ArmAtCountedBin
PROPERTY DoneClosesSession
PROPERTY CycleInSession
PROPERTY BoardFreeAtBegin
CONSTANTS
  Buttons <- EachButton
  Bins <- GreenBin
  RemoteCmds <- NoRemote
  Patient = TRUE
  MaxTouches = 5
  MaxObjects = 2
  MaxRetries = 1
  MaxRemote = 0
  SweepStep = 90
