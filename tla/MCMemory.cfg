\* Integers of eight bits: 16 words are as many as have a square that wraps.
SPECIFICATION Spec
CONSTANTS
  MaxUint64 = 255
  WordBytes = 4
  MemoryLimit = 124
  MemoryGas = 3
  QuadCoeffDiv = 8
  FastestStepGas = 1
  Blake2bGas = 3
  Blake2bWordGas = 2
  CopyGas = 1
  ExtCodeCopyGas = 7
  LogGas = 3
  LogTopicGas = 3
  LogDataGas = 1
  CallGas = 7
  StepGas = {1, 2}
  QuotaInit = 40
  Ints <- MCInts
INVARIANTS
  TypeOK
  
  FeeOfMemory
  PaidInFull
  MemoryIsPaidFor
CHECK_DEADLOCK FALSE
