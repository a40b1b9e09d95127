----------------------------- MODULE KeeperProofs -----------------------------
(***************************************************************************)
(* Reconcile implements Keeper, for any number of processes and names, any *)
(* history of commits and any set of failing commands.                     *)
(***************************************************************************)
EXTENDS KeeperView, ReconcileSafety

\* The plan of the refinement mapping.
PlanNow == IF lock # Free /\ Applying(lock) THEN desired[lock] ELSE Invalid

\* Nothing the Keeper speaks of.
SameWork == UNCHANGED <<user, disk, secrets, hash>>

\* The labels of a process whose plan is decided.
Decided == {"users", "done"} \cup DeployLoop \cup CleanupLoop

LEMMA InitKeeper == Init => Keeper!Init
BY HostAssumption, ReconcileAssumption
   DEF Init, HostInit, Keeper!Init, NoFiles

LEMMA Stutter ==
  ASSUME lock' = lock, PlanNow' = PlanNow, SameWork
  PROVE  UNCHANGED Keeper!keeperVars
BY DEF SameWork, PlanNow, Keeper!keeperVars

LEMMA DecidedIsApplying ==
  ASSUME TypeOK, NEW p \in Proc
  PROVE  Applying(p) <=> pc[p] \in Decided
BY DEF TypeOK, Label, Decided, DeployLoop, CleanupLoop, InDeploy, InCleanup, Deploying,
       Applying, Syncing

\* The plan is that of the process that is applying one.
LEMMA HolderPlan ==
  ASSUME SafeInv, NEW p \in Proc, pc[p] \in Decided
  PROVE  /\ lock = p /\ lock # Free /\ PlanNow = desired[p]
         /\ desired[p] \in [Name -> DesiredState \cup {NoSpec}]
         /\ desired[p] # Invalid
<1>1. TypeOK /\ LockOK(p) /\ Applying(p)
  BY Facts, DecidedIsApplying
<1> QED
  BY <1>1, ReconcileAssumption DEF LockOK, PlanNow, TypeOK, Applying

\* It stays while that process goes on.
LEMMA HeldPlan ==
  ASSUME SafeInv, TypeOK', NEW p \in Proc, pc[p] \in Decided, pc'[p] \in Decided,
         UNCHANGED <<lock, desired>>
  PROVE  PlanNow' = PlanNow
<1>1. lock = p /\ lock # Free /\ PlanNow = desired[p]
  BY HolderPlan
<1>2. Applying(p)'
  BY DecidedIsApplying DEF TypeOK, Label, Decided, DeployLoop, CleanupLoop, InDeploy,
     InCleanup, Deploying, Applying, Syncing
<1> QED
  BY <1>1, <1>2 DEF PlanNow

\* There is none before the build and after the end.
LEMMA NoPlanYet ==
  ASSUME lock = Free \/ pc[lock] \in {"idle", "git", "build", "failed"}
  PROVE  PlanNow = Invalid
BY DEF PlanNow, Applying, Syncing

\* A process that does not hold the lock leaves the plan to the one that does.
LEMMA OtherPlan ==
  ASSUME TypeOK, NEW p \in Proc, Local(p), lock # p, lock' = lock
  PROVE  PlanNow' = PlanNow
BY DEF TypeOK, Local, PlanNow, Applying, Syncing

LEMMA DeployGoesOn ==
  ASSUME SafeInv, TypeOK', NEW p \in Proc, DeployStep(p)
  PROVE  /\ UNCHANGED <<lock, desired>>
         /\ pc[p] \in Decided /\ pc'[p] \in Decided
<1> USE DEF Goto, Move, MoveWith, Iterate, Record, Abort, outer, TypeOK, Decided, DeployLoop,
            CleanupLoop, InDeploy, InCleanup, Deploying
<1>0. TypeOK
  BY DEF SafeInv, TypeInv
<1>1. CASE NextName(p)
  BY <1>0, <1>1 DEF NextName
<1>2. CASE CreateUser(p) \/ CreateUserLinger(p)
  BY <1>0, <1>2 DEF CreateUser, CreateUserLinger
<1>3. CASE SpecChanged(p)
  BY <1>0, <1>3 DEF SpecChanged
<1>4. CASE WriteQuadletFile(p) \/ WaitForUserManager(p)
  BY <1>0, <1>4 DEF WriteQuadletFile, WaitForUserManager
<1>5. CASE ListUserUnits(p) \/ PruneUserUnit(p) \/ PruneDone(p)
  BY <1>0, <1>5 DEF ListUserUnits, PruneUserUnit, PruneDone
<1>6. CASE CreatePodmanSecret(p) \/ ReloadUser(p) \/ EnableOneTimer(p)
  BY <1>0, <1>6 DEF CreatePodmanSecret, ReloadUser, EnableOneTimer
<1>7. CASE SaveHash(p) \/ Restart(p)
  BY <1>0, <1>7 DEF SaveHash, Restart
<1> QED
  BY <1>1, <1>2, <1>3, <1>4, <1>5, <1>6, <1>7 DEF DeployStep

LEMMA CleanupGoesOn ==
  ASSUME SafeInv, TypeOK', NEW p \in Proc, CleanupStep(p)
  PROVE  /\ UNCHANGED <<lock, desired>>
         /\ pc[p] \in Decided /\ pc'[p] \in Decided
<1> USE DEF Goto, Move, MoveWith, Iterate, Record, outer, TypeOK, Decided, DeployLoop,
            CleanupLoop, InDeploy, InCleanup, Deploying
<1>0. TypeOK
  BY DEF SafeInv, TypeInv
<1>1. CASE StartCleanup(p) \/ CleanupName(p)
  BY <1>0, <1>1 DEF StartCleanup, CleanupName
<1>2. CASE CleanupTimer(p) \/ CleanupStop(p)
  BY <1>0, <1>2 DEF CleanupTimer, CleanupStop
<1>3. CASE RemoveAllQuadlets(p) \/ DeleteUserNoLinger(p) \/ DeleteUserTerminate(p)
  BY <1>0, <1>3 DEF RemoveAllQuadlets, DeleteUserNoLinger, DeleteUserTerminate
<1>4. CASE DeleteUser(p) \/ RemoveHash(p) \/ FinishCleanup(p)
  BY <1>0, <1>4 DEF DeleteUser, RemoveHash, FinishCleanup
<1> QED
  BY <1>1, <1>2, <1>3, <1>4 DEF CleanupStep

-----------------------------------------------------------------------------
(* One name at a time.                                                     *)

\* What the process p, at a name of the deploy loop, sees of its plan.
LEMMA DeployView ==
  ASSUME SafeInv, NEW p \in Proc, pc[p] \in InDeploy
  PROVE  /\ name[p] \in Name /\ D(p) \in DesiredState
         /\ PlanNow[name[p]] = D(p) /\ Keeper!Wanted(name[p])
         /\ pc[p] # "useradd" => user[name[p]] = "managed"
         /\ pc[p] \in Deploying => Keeper!Due(name[p])
<1>1. /\ TypeOK /\ NameOK(p) /\ Accounts(p) /\ Placed(p)
      /\ name[p] \in Name /\ D(p) \in DesiredState
  BY Facts, DesiredType
<1>2. /\ lock # Free /\ PlanNow = desired[p] /\ desired[p] # Invalid
  BY HolderPlan DEF Decided, DeployLoop
<1>3. Keeper!Wanted(name[p])
  BY <1>1, <1>2, ReconcileAssumption DEF Keeper!Wanted, Keeper!Decided, PlanNow, D
<1>4. pc[p] # "useradd" => user[name[p]] = "managed"
  BY <1>1 DEF Accounts
<1>5. pc[p] \in Deploying => Keeper!Due(name[p])
  BY <1>1, <1>2, <1>3, <1>4 DEF Keeper!Due, Placed, PlanNow, D, Deploying
<1> QED
  BY <1>1, <1>2, <1>3, <1>4, <1>5 DEF D

\* With all files and secrets there, the name may be marked.
LEMMA MarkView ==
  ASSUME SafeInv, NEW p \in Proc, pc[p] = "enable"
  PROVE  Keeper!InPlace(name[p])
<1>1. /\ Placed(p) /\ PlanNow[name[p]] = D(p)
  BY Facts, DeployView DEF InDeploy, Deploying
<1>2. /\ \A f \in FilesOf(D(p)) : disk[name[p]][f] = D(p).files[f]
      /\ \A s \in SecretsOf(D(p)) : secrets[name[p]][s] = D(p).secrets[s]
  BY <1>1 DEF Placed, Deploying
<1> QED
  BY <1>1, <1>2 DEF Keeper!InPlace, PlanNow, FilesOf, SecretsOf

LEMMA DeployKeeps ==
  ASSUME SafeInv, TypeOK', NEW p \in Proc, DeployStep(p)
  PROVE  Keeper!Next \/ UNCHANGED Keeper!keeperVars
<1> DEFINE n == name[p]
<1>1. /\ TypeOK /\ WorkOK(p) /\ Placed(p) /\ Accounts(p)
  BY Facts
<1>2. /\ UNCHANGED <<lock, desired>> /\ PlanNow' = PlanNow
  BY DeployGoesOn, HeldPlan
<1>3. ASSUME SameWork PROVE UNCHANGED Keeper!keeperVars
  BY <1>2, <1>3, Stutter
<1>4. ASSUME NEW m \in Name,
             \/ Keeper!Adopt(m) \/ Keeper!Mark(m)
             \/ \E f \in File : Keeper!Write(m, f) \/ Keeper!Prune(m, f)
             \/ \E s \in Secret : Keeper!Provide(m, s)
      PROVE  Keeper!Next
  BY <1>4 DEF Keeper!Next
<1>5. CASE NextName(p)
  BY <1>3, <1>5 DEF NextName, SameWork, hostVars
<1>6. CASE CreateUser(p)
  <2>1. /\ n \in Name /\ Keeper!Wanted(n) /\ hash' = hash
    BY <1>6, DeployView DEF CreateUser, InDeploy, Move, Abort, Record
  <2>2. CASE Useradd(n)
    <3>1. Keeper!Adopt(n)
      BY <1>2, <2>1, <2>2 DEF Keeper!Adopt, Useradd, PlanNow
    <3> QED
      BY <1>4, <2>1, <3>1
  <2>3. CASE UNCHANGED hostVars
    BY <1>3, <2>1, <2>3 DEF SameWork, hostVars
  <2> QED
    BY <1>6, <2>2, <2>3 DEF CreateUser, Fails
<1>7. CASE CreateUserLinger(p)
  BY <1>3, <1>7 DEF CreateUserLinger, SameWork, hostVars, EnableLinger, Fails, Move, Abort,
     Record
<1>8. CASE SpecChanged(p)
  BY <1>3, <1>8 DEF SpecChanged, SameWork, hostVars, Move
<1>9. CASE WriteQuadletFile(p)
  <2>1. /\ n \in Name /\ Keeper!Due(n) /\ PlanNow[n] = D(p) /\ hash' = hash
    BY <1>9, DeployView DEF WriteQuadletFile, InDeploy, Deploying, Iterate, Abort, Record
  <2>2. CASE UNCHANGED hostVars
    BY <1>3, <2>1, <2>2 DEF SameWork, hostVars
  <2>3. ASSUME NEW f \in work[p], PutFile(n, f, D(p).files[f]) \/ PutFile(n, f, Torn)
        PROVE  Keeper!Next
    <3>1. f \in FilesOf(D(p)) /\ f \in File
      BY <1>1, <1>9 DEF WorkOK, WriteQuadletFile, FilesOf
    <3>2. Keeper!Write(n, f)
      BY <1>2, <2>1, <2>3, <3>1 DEF Keeper!Write, PutFile, PlanNow, FilesOf
    <3> QED
      BY <1>4, <2>1, <3>1, <3>2
  <2> QED
    BY <1>9, <2>2, <2>3 DEF WriteQuadletFile, Fails
<1>10. CASE WaitForUserManager(p)
  BY <1>3, <1>10 DEF WaitForUserManager, SameWork, hostVars, Move, Abort, Record
<1>11. CASE ListUserUnits(p)
  BY <1>3, <1>11 DEF ListUserUnits, SameWork, hostVars, MoveWith
<1>12. CASE PruneUserUnit(p)
  <2>1. /\ n \in Name /\ Keeper!Due(n) /\ PlanNow[n] = D(p) /\ hash' = hash
    BY <1>12, DeployView DEF PruneUserUnit, InDeploy, Deploying, Iterate
  <2>2. PICK f \in work[p], off \in BOOLEAN, gone \in BOOLEAN :
          DisableAndRemove(n, f, off, gone)
    BY <1>12 DEF PruneUserUnit
  <2>3. f \in File /\ D(p).files[f] = NoFile
    BY <1>1, <1>12, HostAssumption DEF WorkOK, PruneUserUnit, FilesOf
  <2>4. CASE gone
    <3>1. Keeper!Prune(n, f)
      BY <1>2, <2>1, <2>2, <2>3, <2>4 DEF Keeper!Prune, DisableAndRemove, PlanNow
    <3> QED
      BY <1>4, <2>1, <2>3, <3>1
  <2>5. CASE ~gone
    BY <1>1, <1>3, <2>1, <2>2, <2>3, <2>5
       DEF SameWork, DisableAndRemove, TypeOK, HostTypeOK, Files
  <2> QED
    BY <2>4, <2>5
<1>13. CASE PruneDone(p)
  BY <1>3, <1>13 DEF PruneDone, SameWork, hostVars, MoveWith
<1>14. CASE CreatePodmanSecret(p)
  <2>1. /\ n \in Name /\ Keeper!Due(n) /\ PlanNow[n] = D(p) /\ hash' = hash
    BY <1>14, DeployView DEF CreatePodmanSecret, InDeploy, Deploying, Iterate, Abort, Record
  <2>2. CASE UNCHANGED hostVars
    BY <1>3, <2>1, <2>2 DEF SameWork, hostVars
  <2>3. ASSUME NEW s \in work[p], PutSecret(n, s, D(p).secrets[s])
        PROVE  Keeper!Next
    <3>1. s \in SecretsOf(D(p)) /\ s \in Secret
      BY <1>1, <1>14 DEF WorkOK, CreatePodmanSecret, SecretsOf
    <3>2. Keeper!Provide(n, s)
      BY <1>2, <2>1, <2>3, <3>1 DEF Keeper!Provide, PutSecret, PlanNow, SecretsOf
    <3> QED
      BY <1>4, <2>1, <3>1, <3>2
  <2> QED
    BY <1>14, <2>2, <2>3 DEF CreatePodmanSecret, Fails
<1>15. CASE ReloadUser(p)
  BY <1>3, <1>15 DEF ReloadUser, SameWork, hostVars, DaemonReload, Fails, MoveWith, Abort,
     Record
<1>16. CASE EnableOneTimer(p)
  BY <1>3, <1>16 DEF EnableOneTimer, SameWork, hostVars, EnableTimer, Fails, Iterate
<1>17. CASE SaveHash(p)
  <2>1. /\ n \in Name /\ Keeper!Due(n) /\ PlanNow[n] = D(p) /\ Keeper!InPlace(n)
        /\ UNCHANGED hostVars
    BY <1>17, DeployView, MarkView DEF SaveHash, InDeploy, Deploying
  <2>2. CASE hash' = hash
    BY <1>3, <2>1, <2>2 DEF SameWork, hostVars
  <2>3. CASE hash' \in {[hash EXCEPT ![n] = HashOf(D(p))], [hash EXCEPT ![n] = TornHash]}
    <3>1. Keeper!Mark(n)
      BY <1>2, <2>1, <2>3 DEF Keeper!Mark, PlanNow, hostVars
    <3> QED
      BY <1>4, <2>1, <3>1
  <2> QED
    BY <1>17, <2>2, <2>3 DEF SaveHash
<1>18. CASE Restart(p)
  BY <1>3, <1>18 DEF Restart, SameWork, hostVars, RestartService, RestartServiceFails,
     SetActive, Move
<1> QED
  BY <1>5, <1>6, <1>7, <1>8, <1>9, <1>10, <1>11, <1>12, <1>13, <1>14, <1>15, <1>16, <1>17,
     <1>18 DEF DeployStep

LEMMA CleanupView ==
  ASSUME SafeInv, NEW p \in Proc, pc[p] \in InCleanup
  PROVE  /\ name[p] \in Name
         /\ pc[p] # "unhash" => Keeper!Orphan(name[p])
<1>1. /\ TypeOK /\ NameOK(p) /\ Accounts(p)
  BY Facts
<1>2. /\ lock # Free /\ PlanNow = desired[p] /\ desired[p] # Invalid
  BY HolderPlan DEF Decided, CleanupLoop
<1>3. name[p] \in Name /\ desired[p][name[p]] = NoSpec
  BY <1>1 DEF NameOK, TypeOK, Listed
<1>4. pc[p] # "unhash" => user[name[p]] = "managed"
  BY <1>1 DEF Accounts
<1> QED
  BY <1>2, <1>3, <1>4 DEF Keeper!Orphan, Keeper!Decided, PlanNow

LEMMA CleanupKeeps ==
  ASSUME SafeInv, TypeOK', NEW p \in Proc, CleanupStep(p)
  PROVE  Keeper!Next \/ UNCHANGED Keeper!keeperVars
<1> DEFINE n == name[p]
<1>1. TypeOK
  BY Facts
<1>2. /\ UNCHANGED <<lock, desired>> /\ PlanNow' = PlanNow
  BY CleanupGoesOn, HeldPlan
<1>3. ASSUME SameWork PROVE UNCHANGED Keeper!keeperVars
  BY <1>2, <1>3, Stutter
<1>4. ASSUME NEW m \in Name, Keeper!Empty(m) \/ Keeper!Remove(m) \/ Keeper!Unmark(m)
      PROVE  Keeper!Next
  BY <1>4 DEF Keeper!Next
<1>5. CASE StartCleanup(p) \/ CleanupName(p) \/ FinishCleanup(p)
  BY <1>3, <1>5 DEF StartCleanup, CleanupName, FinishCleanup, SameWork, hostVars, Move
<1>6. CASE CleanupTimer(p)
  BY <1>3, <1>6 DEF CleanupTimer, SameWork, hostVars, DisableTimer, Fails, Iterate
<1>7. CASE CleanupStop(p)
  BY <1>3, <1>7 DEF CleanupStop, SameWork, hostVars, StopService, StopServiceFails, SetActive,
     Move
<1>8. CASE RemoveAllQuadlets(p)
  <2>1. n \in Name /\ Keeper!Orphan(n) /\ hash' = hash
    BY <1>8, CleanupView DEF RemoveAllQuadlets, InCleanup, Move
  <2>2. \E gone \in SUBSET File : RemoveFiles(n, gone)
    BY <1>8 DEF RemoveAllQuadlets
  <2>3. Keeper!Empty(n)
    BY <1>2, <2>1, <2>2 DEF Keeper!Empty, RemoveFiles, PlanNow
  <2> QED
    BY <1>4, <2>1, <2>3
<1>9. CASE DeleteUserNoLinger(p)
  BY <1>3, <1>9 DEF DeleteUserNoLinger, SameWork, hostVars, DisableLinger, Fails, Move
<1>10. CASE DeleteUserTerminate(p)
  BY <1>3, <1>10 DEF DeleteUserTerminate, SameWork, hostVars, TerminateUser, Fails, Move
<1>11. CASE DeleteUser(p)
  <2>1. n \in Name /\ Keeper!Orphan(n) /\ hash' = hash
    BY <1>11, CleanupView DEF DeleteUser, InCleanup, Move, Record
  <2>2. CASE Userdel(n)
    <3>1. Keeper!Remove(n)
      BY <1>2, <2>1, <2>2 DEF Keeper!Remove, Userdel, NoFiles, NoStore, PlanNow
    <3> QED
      BY <1>4, <2>1, <3>1
  <2>3. CASE UNCHANGED hostVars
    BY <1>3, <2>1, <2>3 DEF SameWork, hostVars
  <2> QED
    BY <1>11, <2>2, <2>3 DEF DeleteUser, Fails
<1>12. CASE RemoveHash(p)
  <2>1. n \in Name /\ UNCHANGED hostVars
    BY <1>12, CleanupView DEF RemoveHash, InCleanup
  <2>2. CASE hash' = hash
    BY <1>3, <2>1, <2>2 DEF SameWork, hostVars
  <2>3. CASE hash' = [hash EXCEPT ![n] = NoHash]
    <3>1. Keeper!Unmark(n)
      BY <1>2, <2>1, <2>3 DEF Keeper!Unmark, hostVars, PlanNow
    <3> QED
      BY <1>4, <2>1, <3>1
  <2> QED
    BY <1>12, <2>2, <2>3 DEF RemoveHash
<1> QED
  BY <1>5, <1>6, <1>7, <1>8, <1>9, <1>10, <1>11, <1>12 DEF CleanupStep

LEMMA PrepareKeeps ==
  ASSUME SafeInv, TypeOK', NEW p \in Proc, Prepare(p)
  PROVE  Keeper!Next \/ UNCHANGED Keeper!keeperVars
<1>1. /\ TypeOK /\ LockOK(p) /\ RepoOK(p) /\ Local(p) /\ SameWork
  BY Facts, PrepareLocal DEF Prepare, Lock, LockBusy, GitSync, Git, BuildDesired,
     ManagedUsers, Move, hostVars, SameWork
<1>2. ASSUME lock' = lock, PlanNow' = PlanNow PROVE UNCHANGED Keeper!keeperVars
  BY <1>1, <1>2, Stutter
<1>3. ASSUME PlanNow' = Invalid, lock' \in {lock, Free} PROVE Keeper!Next
  BY <1>1, <1>3 DEF Keeper!Next, Keeper!End, Keeper!Stop, SameWork, PlanNow
<1>4. CASE Lock(p)
  <2>1. PlanNow = Invalid /\ lock = Free /\ lock' = p
    BY <1>4, NoPlanYet DEF Lock
  <2>2. PlanNow' = Invalid
    BY <1>1, <1>4 DEF Lock, Goto, TypeOK, PlanNow, Applying, Syncing
  <2> QED
    BY <1>1, <2>1, <2>2 DEF Keeper!Next, Keeper!Begin, SameWork, PlanNow
<1>5. CASE LockBusy(p)
  <2>1. lock' = lock /\ pc[p] = "idle" /\ pc'[p] = "failed"
    BY <1>1, <1>5 DEF LockBusy, Move, Goto, outer, TypeOK
  <2>2. CASE lock = p
    BY <1>2, <2>1, <2>2 DEF PlanNow, Applying, Syncing
  <2>3. CASE lock # p
    BY <1>1, <1>2, <2>1, <2>3, OtherPlan
  <2> QED
    BY <2>2, <2>3
<1>6. CASE GitSync(p)
  <2>1. lock' = lock /\ pc[p] = "git" /\ pc'[p] \in {"build", "failed"} /\ lock = p
    BY <1>1, <1>6 DEF GitSync, Git, Move, Goto, outer, TypeOK, LockOK, Syncing
  <2>2. PlanNow = Invalid /\ PlanNow' = Invalid
    BY <2>1 DEF PlanNow, Applying, Syncing
  <2> QED
    BY <1>2, <2>1, <2>2
<1>7. CASE BuildDesired(p)
  <2>1. /\ lock' = lock /\ pc[p] = "build" /\ lock = p /\ lock # Free
        /\ PlanNow = Invalid /\ repo \in Commit
    BY <1>1, <1>7, ReconcileAssumption
       DEF BuildDesired, Move, outer, TypeOK, LockOK, Syncing, RepoOK, PlanNow, Applying
  <2>2. CASE Move(p, "failed")
    <3>1. PlanNow' = Invalid
      BY <1>1, <2>1, <2>2 DEF Move, Goto, TypeOK, PlanNow, Applying, Syncing
    <3> QED
      BY <1>2, <2>1, <3>1
  <2>3. CASE ~Move(p, "failed")
    <3>1. Build[repo] # Invalid /\ PlanNow' = Build[repo]
      BY <1>1, <1>7, <2>1, <2>3
         DEF BuildDesired, Goto, TypeOK, PlanNow, Applying, Syncing
    <3> QED
      BY <1>1, <2>1, <3>1 DEF Keeper!Next, Keeper!Decide, SameWork, PlanNow
  <2> QED
    BY <2>2, <2>3
<1>8. CASE ManagedUsers(p)
  <2>1. lock' = lock /\ desired' = desired /\ pc[p] = "users" /\ lock = p
    BY <1>1, <1>8 DEF ManagedUsers, Move, outer, LockOK, Syncing
  <2>2. CASE pc'[p] = "next"
    BY <1>2, <2>1, <2>2, HeldPlan DEF Decided, DeployLoop
  <2>3. CASE pc'[p] = "failed"
    BY <1>3, <2>1, <2>3 DEF PlanNow, Applying, Syncing
  <2> QED
    BY <1>1, <1>8, <2>2, <2>3 DEF ManagedUsers, Move, Goto, TypeOK
<1> QED
  BY <1>4, <1>5, <1>6, <1>7, <1>8 DEF Prepare

\* A process that returns or dies takes its plan with it, if it had one.
LEMMA ForgetPlan ==
  ASSUME SafeInv, TypeOK', NEW p \in Proc, Forget(p)
  PROVE  /\ lock # p => lock' = lock /\ PlanNow' = PlanNow
         /\ lock = p => lock' = Free /\ PlanNow' = Invalid
<1>1. TypeOK /\ Local(p)
  BY Facts, ForgetLocal
<1>2. CASE lock # p
  BY <1>1, <1>2, OtherPlan DEF Forget
<1>3. CASE lock = p
  BY <1>3 DEF Forget, PlanNow
<1> QED
  BY <1>2, <1>3

LEMMA EndKeeps ==
  ASSUME SafeInv, TypeOK', NEW p \in Proc, Forget(p), SameWork
  PROVE  Keeper!Next \/ UNCHANGED Keeper!keeperVars
<1>1. CASE lock # p
  BY <1>1, ForgetPlan, Stutter
<1>2. CASE lock = p
  BY <1>2, ForgetPlan DEF Keeper!Next, Keeper!End, Keeper!Stop, SameWork, PlanNow
<1> QED
  BY <1>1, <1>2

LEMMA CrashKeeps ==
  ASSUME SafeInv, TypeOK', NEW p \in Proc, Crash(p)
  PROVE  Keeper!Next \/ UNCHANGED Keeper!keeperVars
<1> DEFINE n == name[p]
<1>1. Forget(p) /\ WorkOK(p)
  BY Facts DEF Crash
<1>2. CASE UNCHANGED <<hostVars, hash>>
  BY <1>1, <1>2, EndKeeps DEF SameWork, hostVars
<1>3. ASSUME pc[p] = "write", NEW f \in work[p], PutFile(n, f, Torn), hash' = hash
      PROVE  Keeper!Next
  <2>1. /\ n \in Name /\ Keeper!Due(n) /\ PlanNow[n] = D(p)
        /\ f \in File /\ D(p).files[f] # NoFile
    BY <1>1, <1>3, DeployView DEF InDeploy, Deploying, WorkOK, FilesOf
  <2>2. lock' = Free /\ PlanNow' = Invalid
    BY <1>1, <1>3, HolderPlan, ForgetPlan DEF Decided, DeployLoop, InDeploy, Deploying
  <2>3. Keeper!Write(n, f)
    BY <1>3, <2>1, <2>2 DEF Keeper!Write, Keeper!Stop, PutFile, PlanNow
  <2> QED
    BY <2>1, <2>3 DEF Keeper!Next
<1>4. ASSUME pc[p] = "enable", hash' = [hash EXCEPT ![n] = TornHash], UNCHANGED hostVars
      PROVE  Keeper!Next
  <2>1. n \in Name /\ Keeper!Due(n) /\ Keeper!InPlace(n)
    BY <1>4, DeployView, MarkView DEF InDeploy, Deploying
  <2>2. lock' = Free /\ PlanNow' = Invalid
    BY <1>1, <1>4, HolderPlan, ForgetPlan DEF Decided, DeployLoop, InDeploy, Deploying
  <2>3. Keeper!Mark(n)
    BY <1>4, <2>1, <2>2 DEF Keeper!Mark, Keeper!Stop, hostVars, PlanNow
  <2> QED
    BY <2>1, <2>3 DEF Keeper!Next
<1> QED
  BY <1>2, <1>3, <1>4 DEF Crash

LEMMA OperatorKeeps ==
  ASSUME SafeInv, Push \/ RemoveClone \/ \E n \in Name : Redeploy(n)
  PROVE  Keeper!Next \/ UNCHANGED Keeper!keeperVars
<1>1. lock' = lock /\ PlanNow' = PlanNow /\ UNCHANGED hostVars
  BY DEF Push, RemoveClone, Redeploy, outer, PlanNow, Applying, Syncing
<1>2. CASE Push \/ RemoveClone
  BY <1>1, <1>2, Stutter DEF Push, RemoveClone, SameWork, hostVars
<1>3. ASSUME NEW n \in Name, Redeploy(n) PROVE Keeper!Next
  BY <1>1, <1>3 DEF Redeploy, Keeper!Next, Keeper!Unmark, hostVars, PlanNow
<1> QED
  BY <1>2, <1>3

LEMMA StepKeeper ==
  ASSUME SafeInv, TypeOK', [Next]_vars
  PROVE  [Keeper!Next]_Keeper!keeperVars
<1>1. ASSUME NEW p \in Proc, Return(p)
      PROVE  Keeper!Next \/ UNCHANGED Keeper!keeperVars
  BY <1>1, EndKeeps DEF Return, SameWork, hostVars
<1>2. ASSUME NEW p \in Proc, SyncStep(p) \/ Crash(p)
      PROVE  Keeper!Next \/ UNCHANGED Keeper!keeperVars
  BY <1>1, <1>2, PrepareKeeps, DeployKeeps, CleanupKeeps, CrashKeeps DEF SyncStep
<1>3. CASE UNCHANGED vars
  BY <1>3, Stutter DEF vars, outer, hostVars, SameWork, PlanNow, Applying, Syncing
<1> QED
  BY <1>2, <1>3, OperatorKeeps DEF Next

\* Sync, its crashes, the operators and the pushes implement Keeper: a plan is that of a
\* valid work tree, only its names are worked on, and a mark stands for a finished deployment.
THEOREM Keeps == Spec => KeepsPromise
<1>1. Spec => []SafeInv
  BY SafeCorrect
<1>2. SafeInv => TypeOK
  BY DEF SafeInv, TypeInv
<1>3. SafeInv /\ TypeOK' /\ [Next]_vars => [Keeper!Next]_Keeper!keeperVars
  BY StepKeeper
<1> QED
  BY <1>1, <1>2, <1>3, InitKeeper, PTL DEF Spec, KeepsPromise, Keeper!Spec
=============================================================================
