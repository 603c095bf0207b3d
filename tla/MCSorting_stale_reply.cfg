SPECIFICATION Spec
PROPERTY ReplyObeyed
CONSTANTS
  Buttons <- SortButtons
  Bins <- GreenBin
  RemoteCmds <- NoRemote
  Patient = TRUE
  MaxTouches = 3
  MaxObjects = 2
  MaxRetries = 0
  MaxRemote = 0
  SweepStep = 90
