----------------------------- MODULE MCReconcile -----------------------------
(***************************************************************************)
(* One container "app" with a timer of its own, a pod "web", and a         *)
(* container that has the name of an account of the host, through the      *)
(* commits of a history:                                                   *)
(*   v1    app with a timer          v2   app with a secret, no timer      *)
(*   both  app and web               gone nothing                          *)
(*   clash app and root                                                    *)
(*   bad   a repository or transforms that do not validate                 *)
(* An instance has the names and commits that its run asks about.          *)
(***************************************************************************)
EXTENDS KeeperView, TLC

\* The service of a pod is generated from "web.pod": there is no "web.container"
\* among its files.
MCContainerFile == [n \in Name |-> CASE n = "app"  -> "app.container"
                                     [] n = "web"  -> "web.container"
                                     [] n = "root" -> "root.container"]

\* root runs a quadlet of its own.
MCOwnFiles == [f \in File |-> IF f = "root.container" THEN "c1" ELSE NoFile]

FilesWith(fs, c) == [f \in File |-> IF f \in fs THEN c ELSE NoFile]

Spec1 == [files   |-> FilesWith({"app.container", "app.timer"}, "c1"),
          secrets |-> NoStore,
          service |-> "app.container"]
Spec2 == [files   |-> FilesWith({"app.container"}, "c2"),
          secrets |-> [s \in Secret |-> "x"],
          service |-> "app.container"]
Web   == [files   |-> FilesWith({"web.pod"}, "c1"),
          secrets |-> NoStore,
          service |-> "web.pod"]
Root  == [files   |-> FilesWith({"root.container"}, "c1"),
          secrets |-> NoStore,
          service |-> "root.container"]

MCBuild == [c \in Commit |->
  CASE c = "v1"    -> [n \in Name |-> IF n = "app" THEN Spec1 ELSE NoSpec]
    [] c = "v2"    -> [n \in Name |-> IF n = "app" THEN Spec2 ELSE NoSpec]
    [] c = "both"  -> [n \in Name |-> CASE n = "app" -> Spec1 [] n = "web" -> Web
                                          [] OTHER -> NoSpec]
    [] c = "clash" -> [n \in Name |-> CASE n = "app" -> Spec1 [] n = "root" -> Root
                                          [] OTHER -> NoSpec]
    [] c = "gone"  -> [n \in Name |-> NoSpec]
    [] c = "bad"   -> Invalid]

\* What a cut checkout leaves: the old files or the new ones, none at all, or some that
\* do not validate.
MCBetween == [b \in Commit \cup {NoCommit} |-> [c \in Commit |->
                ({b, c, "gone", "bad"} \cap Commit) \ {NoCommit}]]

\* Any commit may follow any other: a push, a force push or a revert.
AnyPush == [c \in Commit |-> Commit \ {c}]

\* The processes are alike, and no property of "faults" and "names" is a liveness
\* property.
Callers == Permutations(Proc)

\* The order of Go's strings.
MCOrder == [n \in Name |-> CASE n = "app" -> 1 [] n = "root" -> 2 [] n = "web" -> 3]
=============================================================================
