SPECIFICATION Spec
CONSTANTS
  Half = 2048
  Chars = {"0", "1", "4", "-", "+", ".", " ", "x"}
  MaxLen = 5
CHECK_DEADLOCK FALSE
INVARIANTS PlainIsExact SentReadsBack
