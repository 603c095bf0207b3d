SPECIFICATION Spec
INVARIANT TypeOK
INVARIANT PacketsRecovered
INVARIANT SentencesRecovered
INVARIANT GpsBufferBounded
INVARIANT TimeUpToDate
PROPERTY EachByteOnce
PROPERTY InitEnds
PROPERTY StuckOnlyByLoss
CONSTANTS
  Line <- TwoLines
  Traffics <- EachLine
CHECK_DEADLOCK FALSE
