\* The refund of SSTORE and the charge.
SPECIFICATION Spec
CONSTANTS
  A = A
  B = B
  C = C
  VITE = VITE
  COIN = COIN
  NOADDR = NOADDR
  Addr <- MCAddr
  Token <- MCToken
  Word = {0, 1}
  Vite = VITE
  NoAddr = NOADDR
  Txs <- MCTxs
  InitDbs <- MCInitDbs
  Amounts <- MCAmounts
  QuotaInit = 9
  MaxUint64 = 40
  TxGas = 1
  TxGasContractCreation = 2
  TxDataZeroGas = 1
  TxDataNonZeroGas = 2
  StepGas = {1}
  HaltGas = {0, 1}
  SstoreSetGas = 3
  SstoreResetGas = 2
  SstoreClearGas = 2
  SstoreRefundGas = 3
  ContractCodeGas = 2
  CallCreateDepth = 1
  RetSizes = {0, 1, 3}
  CallValueOps = FALSE
INVARIANT
  RefundLowersCharge
CHECK_DEADLOCK FALSE
