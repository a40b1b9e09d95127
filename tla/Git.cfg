SPECIFICATION Spec
CONSTANTS
  Commit = {"a", "b", "c"}
  FirstCommit = "a"
  PushTo <- AnyPush
  File = {"app.container", "web.container"}
  Content = {"old", "new"}
  NoFile = NoFile
  Tree <- MCTree
  NoTree = NoTree
  NoClone = NoClone
  Unborn = Unborn
  Faulty = {"clone", "killed", "fetch", "parse", "reset", "checkout"}
PROPERTIES GivesOneCommit CatchesUp
