------------------------------- MODULE MCGitRepo -------------------------------
(***************************************************************************)
(* Two files and three commits: "a" has both, "b" another content of one,  *)
(* "c" lacks the other.  Any commit may follow any other.                  *)
(***************************************************************************)
EXTENDS GitRepo

MCTree == [c \in Commit |-> [f \in File |->
  CASE f = "app.container" -> IF c = "a" THEN "old" ELSE "new"
    [] f = "web.container" -> IF c = "c" THEN NoFile ELSE "old"]]

AnyPush == [c \in Commit |-> Commit \ {c}]
=============================================================================
