SPECIFICATION Spec
CONSTANTS
  w1 = w1  w2 = w2  g1 = g1  h2 = h2  i1 = i1
  Wallet = {w1, w2}
  NumOptions = 2
  QuorumBps = 4000
  Stake <- MCStake
  HolderWeights = {1}
  SnapshotVotes = {g1}
  HolderVotes = {h2}
  ChainVotes = {i1}
  VoterOf <- MCVoterOf
  OptionOf <- MCOptionOf
  ChainWeights = {1}
  ChainEligible = 2
  Extensions = {x1}
  Closers = {job, list}
  Duration = 1
  MaxTime = 1
  MaxAborts = 0
  Nobody = Nobody
INVARIANT TallyMatchesVotes
CHECK_DEADLOCK FALSE
