SPECIFICATION SignerSpec
CONSTANTS
  NoProbe = NoProbe
  Callers = {c1, c2}
  Probes = {p1, p2}
  max_consecutive = 2
  MaxOutages = 1
INVARIANT SignerInv
PROPERTY ProbeFailsBack
