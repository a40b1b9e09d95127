------------------------------ MODULE KeeperView ------------------------------
(***************************************************************************)
(* Reconcile as a Keeper: the refinement mapping.  Who holds the lock is   *)
(* the holder; its plan is its map of desired states once the build is     *)
(* through and until it gives up or returns; the stored hashes are the     *)
(* marks.                                                                  *)
(***************************************************************************)
EXTENDS Reconcile

Keeper == INSTANCE Keeper WITH
  Plan    <- {Build[c] : c \in Commit} \ {Invalid},
  NoPlan  <- Invalid,
  Home    <- <<[n \in Name |-> IF n \in Foreign THEN "foreign" ELSE "none"],
               [n \in Name |-> IF n \in Foreign THEN OwnFiles ELSE NoFiles],
               [n \in Name |-> NoStore]>>,
  holder  <- lock,
  plan    <- IF lock # Free /\ Applying(lock) THEN desired[lock] ELSE Invalid,
  account <- user,
  files   <- disk,
  store   <- secrets,
  mark    <- hash

\* Every step of every process, crash and operator is one a Keeper may take, or
\* changes nothing it speaks of.
KeepsPromise == Keeper!Spec
=============================================================================
