SPECIFICATION Spec
PROPERTY SweepStops
PROPERTY BeltStops
PROPERTY ArduinoAnswers
CONSTANTS
  Buttons <- SweepButtons
  Bins <- GreenBin
  RemoteCmds <- NoRemote
  Patient = TRUE
  MaxTouches = 4
  MaxObjects = 1
  MaxRetries = 1
  MaxRemote = 0
  SweepStep = 90
