SPECIFICATION Spec
CONSTANTS
  Half = 524288
  Chars = {"0", "1", "4", "-", "+", ".", " ", "x"}
  MaxLen = 4
CHECK_DEADLOCK FALSE
INVARIANT NegativeIsRefused
