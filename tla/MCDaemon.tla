------------------------------- MODULE MCDaemon -------------------------------
(***************************************************************************)
(* Three names: a container "app", a pod "web", and a container that has   *)
(* the name of the account "root" of the host.                             *)
(*   both   app with a timer, and web                                      *)
(*   clash  app with a secret and another content, and root                *)
(*   pod    web alone                                                      *)
(***************************************************************************)
EXTENDS Daemon

\* The service of a pod is generated from "web.pod": there is no "web.container"
\* among its files.
MCContainerFile == [n \in Name |-> CASE n = "app"  -> "app.container"
                                     [] n = "web"  -> "web.container"
                                     [] n = "root" -> "root.container"]

\* root runs a quadlet of its own.
MCOwnFiles == [f \in File |-> IF f = "root.container" THEN "c1" ELSE NoFile]

Holding(fs, main, c, s) == [files   |-> [f \in File |-> IF f \in fs THEN c ELSE NoFile],
                            secrets |-> [t \in Secret |-> s],
                            service |-> main]

App(c) == IF c = "clash" THEN Holding({"app.container"}, "app.container", "c2", "x")
          ELSE Holding({"app.container", "app.timer"}, "app.container", "c1", NoValue)

SpecOf(n, c) ==
  CASE n = "app"  -> App(c)
    [] n = "web"  -> Holding({"web.pod"}, "web.pod", "c1", NoValue)
    [] n = "root" -> Holding({"root.container"}, "root.container", "c1", NoValue)

Holds(c) == CASE c = "both"  -> {"app", "web"}
              [] c = "clash" -> {"app", "root"}
              [] c = "pod"   -> {"web"}

MCBuild == [c \in Commit |-> [n \in Name |-> IF n \in Holds(c) THEN SpecOf(n, c) ELSE NoSpec]]

\* No checkout is cut short here.
MCBetween == [b \in Commit \cup {NoCommit} |-> [c \in Commit |-> {}]]

\* Any commit may follow any other: a push, a force push or a revert.
AnyPush == [c \in Commit |-> Commit \ {c}]

\* The order of Go's strings: "app", "root", "web".
MCOrder == [n \in Name |-> CASE n = "app" -> 1 [] n = "root" -> 2 [] n = "web" -> 3]
=============================================================================
