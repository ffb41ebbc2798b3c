\* Short codes of every kind, long ones at every alignment.
SPECIFICATION Spec
CONSTANTS
  MaxLen = 4
  Codes <- MCCodes
  Words <- MCWords
  Two62 = 64
INVARIANTS
  TypeOK
  BitmapExact
  PcOnInstruction
  IndexInBounds

  
CHECK_DEADLOCK FALSE
