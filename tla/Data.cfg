\* Buffers and coding (see MCData); the constants are RingFifo's.
CONSTANTS
  Byte = {"cr", "lf", "x"}
  Size = 4
SPECIFICATION DataSpec
INVARIANTS LinesArriveWhole CodingIsReversible PartsAreTheText HeadersAreRead
PROPERTIES ImplementsFifo ImplementsMixer
CHECK_DEADLOCK FALSE
