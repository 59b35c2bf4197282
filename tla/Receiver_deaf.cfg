\* Sentences that fit, but an end of line may be lost to a full FIFO.
SPECIFICATION FairSpec
CONSTANTS
  kMaxUARTBufLen = 5
  FifoDepth = 1
  Plain <- MCPlain
  EOL = "eol"
  NUL = "nul"
  MaxLine = 4
  MaxArrivals = 8
CHECK_DEADLOCK FALSE
PROPERTY
  Resync
