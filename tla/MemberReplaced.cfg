SPECIFICATION Spec
CONSTANTS
  Dir = {"a", "b"}
  Root = "root"
  Stem <- MCStem
  BadName <- MCBadName
  Order <- MCOrder
  BadContent <- MCBadContent
  Sealed <- MCSealed
  Repos <- MCRepos
  TransformDirs <- MCTransformDirs
  NoPod = NoPod
INVARIANTS
  EachIsDeployed
CHECK_DEADLOCK FALSE
