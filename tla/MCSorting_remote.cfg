SPECIFICATION Spec
INVARIANT TypeOK
INVARIANT CategoryKnown
INVARIANT SweepHeld
INVARIANT NoObjectCountedTwice
PROPERTY ObjectsAccounted
CONSTANTS
  Buttons <- EachButton
  Bins <- GreenBin
  RemoteCmds <- EveryRemote
  Patient = FALSE
  MaxTouches = 2
  MaxObjects = 1
  MaxRetries = 1
  MaxRemote = 1
  SweepStep = 90
