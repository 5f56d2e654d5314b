SPECIFICATION Spec
CONSTANTS
  NoWorker = NoWorker
  Workers = {w1, w2}
  Tenants = {t1, t2}
  Contents = {c1, surrogate, bigint}
  Unhashable = {surrogate}
  Unbindable = {bigint}
  MaxCalls = 3
SYMMETRY Symmetry
INVARIANTS AuditInv ForksNeedOverlap LostCallsAreExplained
PROPERTY LogAppendOnly
