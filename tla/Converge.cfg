SPECIFICATION ConvergingSpec
CONSTANTS
  Name = {"app", "root"}
  Foreign = {"root"}
  OwnFiles <- MCOwnFiles
  File = {"app.container", "app.timer", "root.container"}
  Unit = {"app.timer"}
  Timer = {"app.timer"}
  ContainerFile <- MCContainerFile
  Content = {"c1", "c2"}
  NoFile = NoFile
  Torn = Torn
  Secret = {"TOKEN"}
  Value = {"x"}
  NoValue = NoValue
  Stopped = Stopped
  Faulty = {"git", "checkout", "write", "secret", "reload", "savehash", "userdel", "crash"}
  Proc = {timer, daemon}
  Free = Free
  Commit = {"v1", "v2", "gone", "bad"}
  NoCommit = NoCommit
  Unborn = Unborn
  FirstCommit = "v1"
  Between <- ForwardBetween
  PushTo <- ForwardPush
  Build <- MCBuild
  Invalid = Invalid
  NoSpec = NoSpec
  Order <- MCOrder
  NoName = NoName
  NoHash = NoHash
  TornHash = TornHash
  Redeployable = {"app"}
PROPERTIES Converges
