\* Every pair of words of eight bits, every short code and data.
SPECIFICATION Spec
CONSTANTS
  ByteBits = 2
  WordBytes = 4
  LimbBytes = 2
  Words <- MCWords
  SomeWords <- MCSomeWords
  Datas <- MCDatas
  Offsets = {0, 1, 2, 3, 4, 5, 6, 999}
  ExpByteGas = 50
  SlowStepGas = 10
INVARIANTS
  TypeOK
  SignedDivision
  PowersAndModuli
  SignedWords
  BytesOfWords
  OverflowIsSeen
  SlicesArePadded
CHECK_DEADLOCK FALSE
