SPECIFICATION Spec
CONSTANTS
  h1 = h1  h2 = h2
  Holder = {h1, h2}
  Op <- MCOp
  MaxOps = 3
  KindOf <- MCKindOf
  HolderOf <- MCHolderOf
  QtyOf <- MCQtyOf
  OrderOf <- MCOrderOf
  StartBalance = 1
  OpFaults = 1
  a1 = a1  a2 = a2  a3 = a3
  b1 = b1  b2 = b2  b3 = b3  b4 = b4  b5 = b5
  Signer = {a1, a2, a3}
  Ballot = {b1, b2, b3, b4, b5}
  SignerOf <- MCSignerOf
  Rejections = {b5}
  Threshold = 2
  MaxRollbacks = 1
  Evaluation = {v1, v2}
  InvestFaults = 2
  Job = {j1, j2}
  JobFaults = 1
  Ingester = {i1, i2}
  MaxEvents = 6
  OverlapEvents = 3
  MaxRetries = 1
  MerkleFaults = 2
INVARIANTS
  TypeOK
  PositionsAddUp
  ExecutedByThreshold
  OneBuyPerListing
  
  ProofsVerify
PROPERTY ExportsEnd
CHECK_DEADLOCK FALSE
