\* A stack of six words, the largest instructions just fit; a pool of one.
SPECIFICATION Spec
CONSTANTS
  Foreign <- MCForeign
  Word = {0, 1}
  StackLimit = 6
  PoolLimit = 1
  ForeignLimit = 2
VIEW UpToNumbers
INVARIANTS
  TypeOK
  NoAlias
  PoolBounded
  NoUnderflow
PROPERTY
  Implements
