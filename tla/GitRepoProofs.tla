----------------------------- MODULE GitRepoProofs -----------------------------
(***************************************************************************)
(* GitRepo implements Checkout, for any commits, trees and failures.       *)
(***************************************************************************)
EXTENDS GitRepo, TLAPS

\* What the directory holds.  As long as no clone or reset has been cut short, the
\* work tree is that of HEAD, outside a checkout, and a checkout that comes to its last
\* step has every file in place.
Directory ==
  /\ pc \in {"parse", "reset", "files", "head"} => fetched \in Commit
  /\ pc = "head" /\ ~spoilt => tree = Tree[fetched]
  /\ head \in Commit /\ pc \notin {"files", "head"} /\ ~spoilt => tree = Tree[head]
  /\ head = NoClone => pc \in {"idle", "clone", "failed"}
  /\ pc = "clone" => head = NoClone

DirInv == TypeOK /\ Directory

LEMMA InitDirectory == Init => DirInv
BY GitAssumption
   DEF Init, DirInv, TypeOK, Directory, Trees, EmptyDir, Label

LEMMA TreeType ==
  ASSUME NEW c \in Commit
  PROVE  Tree[c] \in Trees /\ Tree[c] # NoTree
BY GitAssumption

LEMMA CheckoutFileTypes ==
  ASSUME DirInv, CheckoutFile
  PROVE  tree' \in Trees
<1>1. fetched \in Commit /\ Tree[fetched] \in Trees
  BY TreeType DEF DirInv, Directory, CheckoutFile
<1> QED
  BY <1>1 DEF CheckoutFile, DirInv, TypeOK, Trees

LEMMA StepDirectory ==
  ASSUME DirInv, [Next]_vars
  PROVE  DirInv'
<1> USE GitAssumption DEF DirInv, TypeOK, Directory, Label
<1>1. CASE Stat
  BY <1>1 DEF Stat
<1>2. CASE CloneObjects
  BY <1>2 DEF CloneObjects
<1>3. CASE CloneFails
  BY <1>3 DEF CloneFails
<1>4. CASE Fetch
  BY <1>4 DEF Fetch
<1>5. CASE Compare
  BY <1>5 DEF Compare
<1>6. CASE ResetBegins
  BY <1>6 DEF ResetBegins
<1>7. CASE CheckoutFile
  <2>1. tree' \in Trees
    BY <1>7, CheckoutFileTypes
  <2> QED
    BY <1>7, <2>1 DEF CheckoutFile
<1>8. CASE CheckoutDone
  <2>1. Tree[fetched] \in Trees /\ tree \in Trees
    BY <1>8, TreeType DEF CheckoutDone
  <2>2. ~spoilt => tree = Tree[fetched]
    BY <1>8, <2>1 DEF CheckoutDone, Trees
  <2> QED
    BY <1>8, <2>2 DEF CheckoutDone
<1>9. CASE MoveHead
  BY <1>9 DEF MoveHead
<1>10. CASE CheckoutFails
  BY <1>10 DEF CheckoutFails
<1>11. CASE Finish
  BY <1>11 DEF Finish
<1>12. CASE Push
  BY <1>12 DEF Push
<1>13. CASE RemoveClone
  <2>1. EmptyDir \in Trees
    BY DEF EmptyDir, Trees
  <2> QED
    BY <1>13, <2>1 DEF RemoveClone
<1>14. CASE CalmDown
  BY <1>14 DEF CalmDown
<1>15. CASE UNCHANGED vars
  BY <1>15 DEF vars
<1> QED
  BY <1>1, <1>2, <1>3, <1>4, <1>5, <1>6, <1>7, <1>8, <1>9, <1>10, <1>11, <1>12, <1>13,
     <1>14, <1>15 DEF Next, SyncStep

-----------------------------------------------------------------------------
(* Every step is one of Checkout, or changes nothing Checkout speaks of.   *)

Same == UNCHANGED <<upstream, Phase, Got, spoilt>>

LEMMA StepImplements ==
  ASSUME DirInv, [Next]_vars
  PROVE  Abstract!Next \/ Same
<1> USE GitAssumption, TreeType DEF DirInv, TypeOK, Directory, Label, Phase, Got
<1>1. CASE Stat
  <2>1. Abstract!Begin
    BY <1>1 DEF Stat, Abstract!Begin
  <2> QED
    BY <2>1 DEF Abstract!Next
<1>2. CASE CloneObjects
  <2>1. Abstract!Fetch
    BY <1>2 DEF CloneObjects, Abstract!Fetch
  <2> QED
    BY <2>1 DEF Abstract!Next
<1>3. CASE CloneFails
  <2>1. Abstract!GiveUp
    BY <1>3 DEF CloneFails, Abstract!GiveUp
  <2> QED
    BY <2>1 DEF Abstract!Next
<1>4. CASE Fetch
  <2>1. Abstract!Fetch \/ Abstract!GiveUp
    BY <1>4 DEF Fetch, Abstract!Fetch, Abstract!GiveUp
  <2> QED
    BY <2>1 DEF Abstract!Next
<1>5. CASE Compare
  <2>1. CASE pc' = "failed"
    <3>1. Abstract!GiveUp
      BY <1>5, <2>1 DEF Compare, Abstract!GiveUp
    <3> QED
      BY <3>1 DEF Abstract!Next
  <2>2. CASE pc' = "ready"
    <3>1. head = fetched /\ (~spoilt => tree = Tree[fetched])
      BY <1>5, <2>2 DEF Compare
    <3>2. Abstract!GoOn
      BY <1>5, <2>2, <3>1 DEF Compare, Abstract!GoOn
    <3> QED
      BY <3>2 DEF Abstract!Next
  <2>3. CASE pc' = "reset"
    BY <1>5, <2>3 DEF Compare, Same
  <2> QED
    BY <1>5, <2>1, <2>2, <2>3 DEF Compare
<1>6. CASE ResetBegins
  <2>1. CASE pc' = "files"
    BY <1>6, <2>1 DEF ResetBegins, Same
  <2>2. CASE pc' = "failed"
    <3>1. Abstract!GiveUp
      BY <1>6, <2>2 DEF ResetBegins, Abstract!GiveUp
    <3> QED
      BY <3>1 DEF Abstract!Next
  <2> QED
    BY <1>6, <2>1, <2>2 DEF ResetBegins
<1>7. CASE CheckoutFile
  BY <1>7 DEF CheckoutFile, Same
<1>8. CASE CheckoutDone
  BY <1>8 DEF CheckoutDone, Same
<1>9. CASE MoveHead
  <2>1. Abstract!GoOn
    BY <1>9 DEF MoveHead, Abstract!GoOn
  <2> QED
    BY <2>1 DEF Abstract!Next
<1>10. CASE CheckoutFails
  <2>1. Abstract!GiveUp
    BY <1>10 DEF CheckoutFails, Abstract!GiveUp
  <2> QED
    BY <2>1 DEF Abstract!Next
<1>11. CASE Finish
  <2>1. Abstract!Finish
    BY <1>11 DEF Finish, Abstract!Finish
  <2> QED
    BY <2>1 DEF Abstract!Next
<1>12. CASE Push
  <2>1. Abstract!Push
    BY <1>12 DEF Push, Abstract!Push
  <2> QED
    BY <2>1 DEF Abstract!Next
<1>13. CASE RemoveClone
  <2>1. Abstract!Repair
    BY <1>13 DEF RemoveClone, Abstract!Repair
  <2> QED
    BY <2>1 DEF Abstract!Next
<1>14. CASE CalmDown \/ UNCHANGED vars
  BY <1>14 DEF CalmDown, vars, Same
<1> QED
  BY <1>1, <1>2, <1>3, <1>4, <1>5, <1>6, <1>7, <1>8, <1>9, <1>10, <1>11, <1>12, <1>13,
     <1>14 DEF Next, SyncStep

\* The working copy keeps its types, and its work tree is that of HEAD unless a clone
\* or a reset of it has been cut short: the invariant behind the comparison of HEAD
\* with FETCH_HEAD.
THEOREM DirectoryCorrect == Spec => []DirInv
BY InitDirectory, StepDirectory, PTL DEF Spec

\* Whatever fails and whatever is pushed meanwhile, a sync that goes on from an
\* unspoilt directory has the files of one commit, fetched in this very step.
THEOREM Implements == Spec => GivesOneCommit
<1>1. Init => Abstract!Init
  BY DEF Init, Abstract!Init, Phase, Got
<1>2. DirInv /\ [Next]_vars => [Abstract!Next]_(Abstract!checkoutVars)
  BY StepImplements DEF Same, Abstract!checkoutVars
<1> QED
  BY <1>1, <1>2, DirectoryCorrect, PTL DEF Spec, GivesOneCommit, Abstract!Spec
=============================================================================
