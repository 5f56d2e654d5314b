SPECIFICATION Spec
CONSTANTS
  m1 = m1
  a1 = a1
  p1 = p1
  key1 = key1
  noName = noName
  w1 = w1
  w2 = w2
  i1 = i1
  d1 = d1
  p2 = p2
  i2 = i2
  n1 = n1
  NoWorker = NoWorker
  Decisions = {d1}
  Models = {m1}
  Agents = {a1}
  Policies = {p1, p2}
  Keys = {key1}
  Key = key1
  Names = {n1}
  NoName = noName
  Workers = {w1, w2}
  Instances = {i1, i2}
  DeterminismInputs <- MCDeterminism
  SeedRows <- MCSeedRows
  MaxRequests = 4
SYMMETRY Symmetry
INVARIANTS TypeOK StoredChainsLinked AckedIsDurable GovernanceCurrent PackagesCoverLedgerPrefix LedgerInv RejectionsAreExplained
PROPERTIES LedgerAppendOnly ImplementsHashChain
