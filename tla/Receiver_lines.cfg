\* Any line at all, and characters that arrive while the FIFO is full.
SPECIFICATION FairSpec
CONSTANTS
  kMaxUARTBufLen = 4
  FifoDepth = 2
  Plain <- MCPlain
  EOL = "eol"
  NUL = "nul"
  MaxLine = 6
  MaxArrivals = 6
CHECK_DEADLOCK FALSE
INVARIANTS
  TypeOK
  OneSentence
  NothingSkipped
  NeverDeaf
PROPERTY
  Heard
