------------------------------- MODULE Checkout -------------------------------
(***************************************************************************)
(* What Sync takes its Git step to be: a sync either gives up there, or    *)
(* goes on with the files of one commit, which was the head of the branch  *)
(* at some moment of the step, unless the working copy is damaged.  GitSync*)
(* of Reconcile is this in one step, and says what the damage may be;      *)
(* GitRepo is shown to implement it.                                       *)
(***************************************************************************)
CONSTANTS
  Commit, FirstCommit,
  PushTo,    \* PushTo[c]: the commits that may follow c
  Tree,      \* Tree[c]: the files of c
  Trees,     \* all that a directory may hold
  NoTree

VARIABLES
  upstream,  \* the head of the branch
  phase,     \* where the sync is
  got,       \* the files it has been given, or is going to be
  spoilt     \* the working copy is damaged, and nothing is promised

checkoutVars == <<upstream, phase, got, spoilt>>

Init == upstream = FirstCommit /\ phase = "idle" /\ got = NoTree /\ spoilt = FALSE

Push ==
  /\ upstream' \in PushTo[upstream]
  /\ UNCHANGED <<phase, got, spoilt>>

Begin ==
  /\ phase = "idle"
  /\ phase' = "working"
  /\ UNCHANGED <<upstream, got, spoilt>>

Fetch ==
  /\ phase = "working" /\ got = NoTree
  /\ got' = Tree[upstream]
  /\ UNCHANGED <<upstream, phase, spoilt>>

GoOn ==
  /\ phase = "working" /\ got # NoTree
  /\ phase' = "ready"
  /\ IF spoilt THEN got' \in Trees ELSE UNCHANGED got
  /\ UNCHANGED <<upstream, spoilt>>

GiveUp ==
  /\ phase = "working"
  /\ phase' = "failed"
  /\ got' = NoTree
  /\ spoilt' \in {spoilt, TRUE}
  /\ UNCHANGED upstream

Finish ==
  /\ phase \in {"ready", "failed"}
  /\ phase' = "idle"
  /\ got' = NoTree
  /\ UNCHANGED <<upstream, spoilt>>

Repair ==
  /\ phase = "idle"
  /\ spoilt' = FALSE
  /\ UNCHANGED <<upstream, phase, got>>

Next == Push \/ Begin \/ Fetch \/ GoOn \/ GiveUp \/ Finish \/ Repair

Spec == Init /\ [][Next]_checkoutVars
=============================================================================
