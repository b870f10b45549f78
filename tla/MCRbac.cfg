SPECIFICATION FairSpec
CONSTANTS
  n1 = n1
  n2 = n2
  fd = fd
  numa = numa
  apply = apply
  release = release
  NodeIds <- MCNodeIds
  ResTypes <- MCResTypes
  ActTypes <- MCActTypes
  Wildcard = Wildcard
  BadId = BadId
  Absent = Absent
  Malformed = Malformed
  NoThread = NoThread
  Threads = {t1, t2}
  Conns = {c1}
  MaxRuleId = 3
  MaxRules = 2
  MaxMappings = 1
  RuleInputs <- MCRuleInputs
  CheckInputs <- MCCheckInputs
INVARIANTS TypeOK RuleKeysUnique MatchIsVerdict DecisionIsCurrent
PROPERTIES RuleIdsNeverReused EstablishedRolesFixed MutexReleased
