SPECIFICATION Spec
CONSTANTS
  s1 = s1
  l1 = l1
  i1 = i1
  NoWorker = NoWorker
  NoProtocol = NoProtocol
  Servers = {s1}
  Libraries = {l1}
  Instances = {i1}
  States = {"a", "b"}
  Protocols <- MCProtocols
  DecisionStates <- MCDecisionStates
  DecisionSeeds = {FALSE, TRUE}
  MaxRequests = 4
  MaxLives = 3
CHECK_DEADLOCK FALSE
INVARIANTS LifecycleInv PathsNeedOneEngine ReplayRefusalsExplained
