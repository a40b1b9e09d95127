SPECIFICATION DaemonSpec
CONSTANTS
  Name = {"app", "web", "root"}
  Foreign = {"root"}
  OwnFiles <- MCOwnFiles
  File = {"app.container", "app.timer", "web.pod", "web.container",
          "root.container"}
  Unit = {"app.timer"}
  Timer = {"app.timer"}
  ContainerFile <- MCContainerFile
  Content = {"c1", "c2"}
  NoFile = NoFile
  Torn = Torn
  Secret = {"TOKEN"}
  Value = {"x"}
  NoValue = NoValue
  Stopped = Stopped
  Faulty = {"request", "repull"}
  Proc = {timer, browser}
  Free = Free
  Commit = {"both", "clash", "pod"}
  NoCommit = NoCommit
  Unborn = Unborn
  FirstCommit = "both"
  Between <- MCBetween
  PushTo <- AnyPush
  Build <- MCBuild
  Invalid = Invalid
  NoSpec = NoSpec
  Order <- MCOrder
  NoName = NoName
  NoHash = NoHash
  TornHash = TornHash
  Redeployable = {"web"}
  Conn = {browser}
  NoRequest = NoRequest
INVARIANTS SuccessIsExact
PROPERTIES ForeignOutOfReach RedeployIsTrue RepullIsTrue RequestAnswered
