CONSTANTS
  Candidates <- MCCandidates
  Attr <- MCAttr
  NamespaceOf <- MCNamespaceOf
  ScopeOf <- MCScopeOf
  VisibilityOf <- MCVisibilityOf
  Mortal = {"c1"}
  Callers = {p1, p2}
  MaxCalls = 3
  None = "none"
SYMMETRY CallerSymmetry
SPECIFICATION Spec
INVARIANTS LedgerConsistent OnlyAdmittedIsFound BranchesOnlyFromOverlap
CHECK_DEADLOCK FALSE
