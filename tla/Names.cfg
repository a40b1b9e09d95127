SPECIFICATION Spec
CONSTANTS
  Name = {"app", "web", "root"}
  Foreign = {"root"}
  OwnFiles <- MCOwnFiles
  File = {"app.container", "web.pod", "web.container",
          "root.container"}
  Unit = {}
  Timer = {}
  ContainerFile <- MCContainerFile
  Content = {"c1", "c2"}
  NoFile = NoFile
  Torn = Torn
  Secret = {"TOKEN"}
  Value = {"x"}
  NoValue = NoValue
  Stopped = Stopped
  Faulty = {"git", "checkout", "useradd", "write", "reload", "terminate", "userdel", "crash"}
  Proc = {timer, daemon}
  Free = Free
  Commit = {"both", "clash", "gone", "bad"}
  NoCommit = NoCommit
  Unborn = Unborn
  FirstCommit = "both"
  Between <- MCBetween
  PushTo <- AnyPush
  Build <- MCBuild
  Invalid = Invalid
  NoSpec = NoSpec
  Order <- MCOrder
  NoName = NoName
  NoHash = NoHash
  TornHash = TornHash
  Redeployable = {}
SYMMETRY Callers
INVARIANTS SyncReport
PROPERTIES OnlyUnlistedDeleted
