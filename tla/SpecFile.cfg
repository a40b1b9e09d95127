SPECIFICATION Spec
CONSTANTS
  Derived <- MCDerived
  Fold <- MCFold
  BadName = {"1ST"}
  Plain = Plain
  NoKey = NoKey
  Empty = "empty"
  NotBase64 = {"raw"}
  Docs <- MCDocs
  Drafts <- MCDrafts
  Transforms <- MCTransforms
  Key = {k1, k2}
  Pod = "web.pod"
  NoDoc = NoDoc
  Torn = Torn
  NoUnit = NoUnit
INVARIANTS TypeOK FileIsMeant MergedAsDocumented SecretsReachTargets
SYMMETRY Symmetry
