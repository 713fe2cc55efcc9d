CONSTANT
  Offsets = {4096, 14848}
SPECIFICATION PatchSpec
INVARIANT
  LineReadsBack
CHECK_DEADLOCK FALSE
