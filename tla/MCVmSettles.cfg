\* Refinement of Settlement and termination; 5 is no amount that is received, so
\* what a contract puts in its place can be told apart.
SPECIFICATION FairSpec
CONSTANTS
  A = A
  B = B
  C = C
  VITE = VITE
  COIN = COIN
  NOADDR = NOADDR
  Addr <- MCAddr
  Token <- MCToken
  Word = {0, 1}
  Vite = VITE
  NoAddr = NOADDR
  Txs <- MCTxs
  InitDbs <- MCInitDbs
  Amounts <- OtherAmounts
  QuotaInit = 8
  MaxUint64 = 40
  TxGas = 1
  TxGasContractCreation = 2
  TxDataZeroGas = 1
  TxDataNonZeroGas = 2
  StepGas = {1}
  HaltGas = {0, 1}
  SstoreSetGas = 3
  SstoreResetGas = 2
  SstoreClearGas = 2
  SstoreRefundGas = 3
  ContractCodeGas = 2
  CallCreateDepth = 1
  RetSizes = {0, 1, 3}
  CallValueOps = TRUE
PROPERTIES
  Settles
  Termination
CHECK_DEADLOCK FALSE
