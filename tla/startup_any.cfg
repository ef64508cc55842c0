SPECIFICATION FairSpec
INVARIANTS
  TypeOK
  SetBeforeUse
  IdentityKept
PROPERTIES
  ReachableGetsHandler
