SPECIFICATION Spec
CONSTANTS
  Files = {f1, tmp}
  Sessions = {s1}
  MaxChain = 1
  None = None
  Dangling = Dangling
  Confs <- MCConfs
  Texts4Files = {"chain", "private_key"}
  VersionNames = {"TLSv1.3", "other"}
  Tmp = tmp
INVARIANT ChainCertsAlive
