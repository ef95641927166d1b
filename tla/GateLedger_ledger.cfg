SPECIFICATION FairSpec
CHECK_DEADLOCK FALSE
CONSTANTS
  g1 = g1
  g2 = g2
  j1 = j1
  j2 = j2
  t1 = t1
  t2 = t2
  c1 = c1
  c2 = c2
  c3 = c3
  c4 = c4
  c5 = c5
  Nobody = Nobody
  Gates <- MCGates
  Jobs <- MCJobs
  Txns <- MCTxns
  GateOfJob <- MCGateOfJob
  Calls <- MCCalls
  GateOf <- MCGateOf
  JobOf <- MCJobOf
  TxnOf <- MCTxnOf
  Appends <- MCAppends
  AppendJob <- MCAppendJob
  Applied <- MCApplied
  Unfit = {}
  MaxFaults = 1
INVARIANTS
  TypeOK
  AnsweredTruthfully
PROPERTIES
  ImplementsGateUse
  CallsEnd
