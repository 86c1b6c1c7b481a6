SPECIFICATION Spec
CONSTANTS
  s1 = s1
  s2 = s2
  tx = tx
  Sub <- MCSub
  Tx <- MCTx
  TxOf <- MCTxOf
  MaxAttempts = 2
  Depth = 2
  MaxHead = 4
  MaxReorg = 1
  MaxFault = 1
INVARIANTS
  ReleasedIsOnChain
CHECK_DEADLOCK FALSE
