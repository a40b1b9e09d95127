---------------------------- MODULE MCConvergence ----------------------------
(***************************************************************************)
(* The history of MCReconcile in one direction: a content that was once    *)
(* replaced does not come back (SuccessMeansInPlace shows why it must not),*)
(* not even because a checkout was cut short: what one leaves are the old  *)
(* files, or files that do not validate.                                   *)
(***************************************************************************)
EXTENDS MCReconcile, Convergence

ForwardPush == [c \in Commit |-> CASE c = "v1"   -> {"bad", "v2"}
                                   [] c = "bad"  -> {"v2"}
                                   [] c = "v2"   -> {"gone"}
                                   [] c = "gone" -> {}]

ForwardBetween == [b \in Commit \cup {NoCommit} |-> [c \in Commit |-> {b, "bad"} \ {NoCommit}]]
=============================================================================
