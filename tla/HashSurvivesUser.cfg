SPECIFICATION Spec
CONSTANTS
  Name = {"app", "root"}
  Foreign = {"root"}
  OwnFiles <- MCOwnFiles
  File = {"app.container", "app.timer", "root.container"}
  Unit = {"app.timer"}
  Timer = {"app.timer"}
  ContainerFile <- MCContainerFile
  Content = {"c1", "c2"}
  NoFile = NoFile
  Torn = Torn
  Secret = {"TOKEN"}
  Value = {"x"}
  NoValue = NoValue
  Stopped = Stopped
  Faulty = {"crash"}
  Proc = {timer}
  Free = Free
  Commit = {"v1", "gone"}
  NoCommit = NoCommit
  Unborn = Unborn
  FirstCommit = "v1"
  Between <- MCBetween
  PushTo <- AnyPush
  Build <- MCBuild
  Invalid = Invalid
  NoSpec = NoSpec
  Order <- MCOrder
  NoName = NoName
  NoHash = NoHash
  TornHash = TornHash
  Redeployable = {}
INVARIANTS SuccessMeansInPlace
