--------------------------- MODULE ReconcileSafety ---------------------------
(***************************************************************************)
(* The safety properties of Reconcile, proved from one inductive           *)
(* invariant.  Everything in it but LockOK speaks of a process that is     *)
(* past the build, which holds the lock: no other process touches the host,*)
(* the hashes or the clone meanwhile, only a push (upstream) and a redeploy*)
(* (a hash that goes away) come in between.                                *)
(***************************************************************************)
EXTENDS ReconcileProofs

DeployLoop  == {"next"} \cup InDeploy
CleanupLoop == {"clean"} \cup InCleanup

\* The lock, and what is applied under it.
LockOK(p) ==
  /\ Syncing(p) => lock = p
  /\ Applying(p) => Build[repo] # Invalid /\ desired[p] = Build[repo]

\* Which accounts are there: those that were found, until they are removed, and the
\* one at hand.
Accounts(p) ==
  /\ pc[p] \in DeployLoop => \A n \in current[p] : user[n] = "managed"
  /\ pc[p] \in DeployLoop =>
       \A n \in Name : user[n] = "managed" => n \in current[p] \cup Listed(desired[p])
  /\ pc[p] \in InDeploy \ {"useradd"} => user[name[p]] = "managed"
  /\ pc[p] \in {"useradd", "linger"} => name[p] \notin current[p]
  /\ pc[p] \in CleanupLoop => \A n \in todo[p] : user[n] = "managed"
  /\ pc[p] \in InCleanup \ {"unhash"} => user[name[p]] = "managed"
  /\ pc[p] \in InCleanup => name[p] \notin todo[p]

\* An error is recorded once the name has been dealt with, and what could not be
\* deployed is not what the hash says.
Errors(p) ==
  /\ pc[p] \in {"idle", "git", "build", "users"} => errs[p] = {}
  /\ pc[p] \in DeployLoop => errs[p] \cap todo[p] = {}
  /\ pc[p] \in InDeploy => name[p] \notin todo[p]
  /\ pc[p] \in InDeploy \ {"restart"} => name[p] \notin errs[p]
  /\ Applying(p) => \A n \in errs[p] \cap current[p] :
                      desired[p][n] # NoSpec => hash[n] # HashOf(desired[p][n])

\* What a deploy has put in place so far, before it stores the hash.
Placed(p) ==
  /\ pc[p] \in Deploying => hash[name[p]] # HashOf(D(p))
  /\ pc[p] = "write" =>
       \A f \in FilesOf(D(p)) \ work[p] : disk[name[p]][f] = D(p).files[f]
  /\ pc[p] \in Deploying \ {"write"} =>
       \A f \in FilesOf(D(p)) : disk[name[p]][f] = D(p).files[f]
  /\ pc[p] = "secrets" =>
       \A s \in SecretsOf(D(p)) \ work[p] : secrets[name[p]][s] = D(p).secrets[s]
  /\ pc[p] = "enable" =>
       /\ \A s \in SecretsOf(D(p)) : secrets[name[p]][s] = D(p).secrets[s]
       /\ \A f \in FilesOf(D(p)) : loaded[name[p]][f] = D(p).files[f]

Deployed(p, n) == user[n] = "managed" /\ hash[n] \in {HashOf(desired[p][n]), NoHash}

\* What is true of the names that p is through with.
Reported(p) ==
  /\ pc[p] \in DeployLoop \cup CleanupLoop \cup {"done"} =>
       \A n \in Listed(desired[p]) \ errs[p] :
         \/ pc[p] \in DeployLoop /\ n \in todo[p]
         \/ pc[p] \in InDeploy /\ n = name[p]
         \/ Deployed(p, n)
  /\ pc[p] = "restart" => name[p] \in errs[p] \/ Deployed(p, name[p])
  /\ pc[p] \in CleanupLoop \cup {"done"} =>
       \A n \in Name \ (Listed(desired[p]) \cup errs[p]) :
         \/ user[n] # "managed"
         \/ pc[p] # "done" /\ n \in todo[p]
         \/ pc[p] \in InCleanup \ {"unhash"} /\ n = name[p]

SafeAt(p) == LockOK(p) /\ Accounts(p) /\ Errors(p) /\ Placed(p) /\ Reported(p)

ForeignKept == \A n \in Foreign : user[n] = "foreign"

SafeInv == TypeInv /\ ForeignKept /\ \A p \in Proc : SafeAt(p)

-----------------------------------------------------------------------------
(* A step of one process and the other processes.                          *)

LEMMA PrepareLocal ==
  ASSUME TypeOK, NEW q \in Proc, Prepare(q)
  PROVE  Local(q)
<1>1. CASE Lock(q)
  BY <1>1 DEF Lock, Goto, Move, TypeOK, Local
<1>2. CASE LockBusy(q)
  BY <1>2 DEF LockBusy, Goto, Move, TypeOK, Local
<1>3. CASE GitSync(q)
  BY <1>3 DEF GitSync, Git, Goto, Move, TypeOK, Local
<1>4. CASE BuildDesired(q)
  BY <1>4 DEF BuildDesired, Goto, Move, TypeOK, Local
<1>5. CASE ManagedUsers(q)
  BY <1>5 DEF ManagedUsers, Goto, Move, TypeOK, Local
<1> QED
  BY <1>1, <1>2, <1>3, <1>4, <1>5 DEF Prepare

LEMMA DeployLocal ==
  ASSUME TypeOK, NEW q \in Proc, DeployStep(q)
  PROVE  Local(q)
<1>1. CASE NextName(q)
  BY <1>1 DEF NextName, Goto, Move, MoveWith, Iterate, Record, Abort, TypeOK, Local
<1>2. CASE CreateUser(q)
  BY <1>2 DEF CreateUser, Goto, Move, MoveWith, Iterate, Record, Abort, TypeOK, Local
<1>3. CASE CreateUserLinger(q)
  BY <1>3 DEF CreateUserLinger, Goto, Move, MoveWith, Iterate, Record, Abort, TypeOK, Local
<1>4. CASE SpecChanged(q)
  BY <1>4 DEF SpecChanged, Goto, Move, MoveWith, Iterate, Record, Abort, TypeOK, Local
<1>5. CASE WriteQuadletFile(q)
  BY <1>5 DEF WriteQuadletFile, Goto, Move, MoveWith, Iterate, Record, Abort, TypeOK, Local
<1>6. CASE WaitForUserManager(q)
  BY <1>6 DEF WaitForUserManager, Goto, Move, MoveWith, Iterate, Record, Abort, TypeOK, Local
<1>7. CASE ListUserUnits(q)
  BY <1>7 DEF ListUserUnits, Goto, Move, MoveWith, Iterate, Record, Abort, TypeOK, Local
<1>8. CASE PruneUserUnit(q)
  BY <1>8 DEF PruneUserUnit, Goto, Move, MoveWith, Iterate, Record, Abort, TypeOK, Local
<1>9. CASE PruneDone(q)
  BY <1>9 DEF PruneDone, Goto, Move, MoveWith, Iterate, Record, Abort, TypeOK, Local
<1>10. CASE CreatePodmanSecret(q)
  BY <1>10 DEF CreatePodmanSecret, Goto, Move, MoveWith, Iterate, Record, Abort, TypeOK, Local
<1>11. CASE ReloadUser(q)
  BY <1>11 DEF ReloadUser, Goto, Move, MoveWith, Iterate, Record, Abort, TypeOK, Local
<1>12. CASE EnableOneTimer(q)
  BY <1>12 DEF EnableOneTimer, Goto, Move, MoveWith, Iterate, Record, Abort, TypeOK, Local
<1>13. CASE SaveHash(q)
  BY <1>13 DEF SaveHash, Goto, Move, MoveWith, Iterate, Record, Abort, TypeOK, Local
<1>14. CASE Restart(q)
  BY <1>14 DEF Restart, Goto, Move, MoveWith, Iterate, Record, Abort, TypeOK, Local
<1> QED
  BY <1>1, <1>2, <1>3, <1>4, <1>5, <1>6, <1>7, <1>8, <1>9, <1>10, <1>11, <1>12, <1>13, <1>14
     DEF DeployStep

LEMMA CleanupLocal ==
  ASSUME TypeOK, NEW q \in Proc, CleanupStep(q)
  PROVE  Local(q)
<1>1. CASE StartCleanup(q)
  BY <1>1 DEF StartCleanup, Goto, Move, MoveWith, Iterate, Record, Abort, TypeOK, Local
<1>2. CASE CleanupName(q)
  BY <1>2 DEF CleanupName, Goto, Move, MoveWith, Iterate, Record, Abort, TypeOK, Local
<1>3. CASE CleanupTimer(q)
  BY <1>3 DEF CleanupTimer, Goto, Move, MoveWith, Iterate, Record, Abort, TypeOK, Local
<1>4. CASE CleanupStop(q)
  BY <1>4 DEF CleanupStop, Goto, Move, MoveWith, Iterate, Record, Abort, TypeOK, Local
<1>5. CASE RemoveAllQuadlets(q)
  BY <1>5 DEF RemoveAllQuadlets, Goto, Move, MoveWith, Iterate, Record, Abort, TypeOK, Local
<1>6. CASE DeleteUserNoLinger(q)
  BY <1>6 DEF DeleteUserNoLinger, Goto, Move, MoveWith, Iterate, Record, Abort, TypeOK, Local
<1>7. CASE DeleteUserTerminate(q)
  BY <1>7 DEF DeleteUserTerminate, Goto, Move, MoveWith, Iterate, Record, Abort, TypeOK, Local
<1>8. CASE DeleteUser(q)
  BY <1>8 DEF DeleteUser, Goto, Move, MoveWith, Iterate, Record, Abort, TypeOK, Local
<1>9. CASE RemoveHash(q)
  BY <1>9 DEF RemoveHash, Goto, Move, MoveWith, Iterate, Record, Abort, TypeOK, Local
<1>10. CASE FinishCleanup(q)
  BY <1>10 DEF FinishCleanup, Goto, Move, MoveWith, Iterate, Record, Abort, TypeOK, Local
<1> QED
  BY <1>1, <1>2, <1>3, <1>4, <1>5, <1>6, <1>7, <1>8, <1>9, <1>10 DEF CleanupStep

LEMMA ForgetLocal ==
  ASSUME TypeOK, NEW q \in Proc, Forget(q)
  PROVE  Local(q)
BY DEF Forget, TypeOK, Local

LEMMA EveryLocal ==
  ASSUME TypeOK, NEW q \in Proc, SyncStep(q) \/ Crash(q)
  PROVE  Local(q)
BY PrepareLocal, DeployLocal, CleanupLocal, ForgetLocal DEF SyncStep, Return, Crash

\* While p holds the lock another process can only find that out, or give up.
LEMMA Alone ==
  ASSUME TypeOK, NEW p \in Proc, NEW q \in Proc \ {p}, LockOK(q), lock = p,
         SyncStep(q) \/ Crash(q)
  PROVE  UNCHANGED <<hostVars, hash, repo, lock>>
<1>1. pc[q] \in {"idle", "failed"}
  BY DEF LockOK, Syncing
<1>2. ~DeployStep(q)
  BY <1>1 DEF DeployStep, NextName, CreateUser, CreateUserLinger, SpecChanged,
     WriteQuadletFile, WaitForUserManager, ListUserUnits, PruneUserUnit, PruneDone,
     CreatePodmanSecret, ReloadUser, EnableOneTimer, SaveHash, Restart
<1>3. ~CleanupStep(q)
  BY <1>1 DEF CleanupStep, StartCleanup, CleanupName, CleanupTimer, CleanupStop,
     RemoveAllQuadlets, DeleteUserNoLinger, DeleteUserTerminate, DeleteUser, RemoveHash,
     FinishCleanup
<1>4. CASE Prepare(q)
  BY <1>1, <1>4, ReconcileAssumption
     DEF Prepare, Lock, LockBusy, GitSync, BuildDesired, ManagedUsers, Move, outer
<1>5. CASE Return(q)
  BY <1>5 DEF Return, Forget
<1>6. CASE Crash(q)
  BY <1>1, <1>6 DEF Crash, Forget
<1> QED
  BY <1>2, <1>3, <1>4, <1>5, <1>6 DEF SyncStep

\* So the invariant holds on for the other processes.
LEMMA OthersSafe ==
  ASSUME SafeInv, NEW q \in Proc, SyncStep(q) \/ Crash(q), NEW p \in Proc \ {q}
  PROVE  SafeAt(p)'
<1>1. TypeOK /\ LockOK(p) /\ LockOK(q) /\ SafeAt(p)
  BY DEF SafeInv, SafeAt, TypeInv
<1>2. /\ pc'[p] = pc[p] /\ desired'[p] = desired[p] /\ current'[p] = current[p]
      /\ todo'[p] = todo[p] /\ name'[p] = name[p] /\ work'[p] = work[p] /\ errs'[p] = errs[p]
  BY <1>1, EveryLocal DEF Local
<1>3. CASE pc[p] \in {"idle", "failed"}
  <2>1. LockOK(p)' /\ Accounts(p)' /\ Placed(p)' /\ Reported(p)'
    BY <1>2, <1>3 DEF LockOK, Accounts, Placed, Reported, Syncing, Applying, DeployLoop,
       CleanupLoop, InDeploy, Deploying, InCleanup
  <2>2. Errors(p)
    BY <1>1 DEF SafeAt
  <2>3. Errors(p)'
    BY <1>2, <1>3, <2>2 DEF Errors, Syncing, Applying, DeployLoop, InDeploy, Deploying
  <2> QED
    BY <2>1, <2>3 DEF SafeAt
<1>4. CASE pc[p] \notin {"idle", "failed"}
  <2>1. UNCHANGED <<hostVars, hash, repo, lock>>
    BY <1>1, <1>4, Alone DEF LockOK, Syncing
  <2>2. UNCHANGED <<user, disk, loaded, secrets, hash, repo, lock>>
    BY <2>1 DEF hostVars
  <2>3. LockOK(p)' /\ Accounts(p)' /\ Errors(p)'
    BY <1>1, <1>2, <2>2 DEF SafeAt, LockOK, Accounts, Errors, Syncing, Applying, Listed
  <2>4. Placed(p)'
    BY <1>1, <1>2, <2>2 DEF SafeAt, Placed, D, FilesOf, SecretsOf
  <2>5. Reported(p)'
    BY <1>1, <1>2, <2>2 DEF SafeAt, Reported, Deployed, Listed
  <2> QED
    BY <2>3, <2>4, <2>5 DEF SafeAt
<1> QED
  BY <1>3, <1>4

-----------------------------------------------------------------------------
(* A step of p and p itself.                                               *)

LEMMA Facts ==
  ASSUME SafeInv, NEW p \in Proc
  PROVE  /\ TypeOK /\ NameOK(p) /\ WorkOK(p) /\ RepoOK(p)
         /\ LockOK(p) /\ Accounts(p) /\ Errors(p) /\ Placed(p) /\ Reported(p)
BY DEF SafeInv, SafeAt, TypeInv

\* A step within the deployment of the name at hand that neither changes accounts
\* and hashes nor ends it.
LEMMA WithinDeploy ==
  ASSUME SafeInv, NEW p \in Proc, Kept(p), UNCHANGED <<user, hash, repo, lock>>,
         pc[p] \in InDeploy \ {"useradd", "restart"},
         pc'[p] \in {"check"} \cup Deploying,
         errs'[p] = errs[p], Placed(p)'
  PROVE  SafeAt(p)'
<1>1. LockOK(p)' /\ Accounts(p)' /\ Errors(p)'
  BY Facts DEF Kept, LockOK, Accounts, Errors, Syncing, Applying, Listed, DeployLoop,
     CleanupLoop, InDeploy, Deploying, InCleanup
<1>2. Reported(p)'
  BY Facts DEF Kept, Reported, Deployed, Listed, DeployLoop, CleanupLoop, InDeploy, Deploying,
     InCleanup
<1> QED
  BY <1>1, <1>2 DEF SafeAt

\* A step that records an error for the name at hand and leaves it: the name is a
\* new account, or its hash is not that of what was to be deployed.
LEMMA AbortDeploy ==
  ASSUME SafeInv, NEW p \in Proc, Kept(p), UNCHANGED <<hash, repo, lock>>,
         pc[p] \in {"useradd", "linger"} \cup Deploying,
         pc'[p] = "next", errs'[p] = errs[p] \cup {name[p]},
         \A n \in Name : user'[n] = user[n] \/ (n = name[p] /\ user'[n] = "managed")
  PROVE  SafeAt(p)'
<1>1. name[p] \in Listed(desired[p]) /\ current[p] \subseteq Name
  BY Facts DEF NameOK, TypeOK, InDeploy
<1>2. LockOK(p)' /\ Accounts(p)'
  BY Facts, <1>1 DEF Kept, LockOK, Accounts, Syncing, Applying, Listed, DeployLoop,
     CleanupLoop, InDeploy, Deploying, InCleanup
<1>3. name[p] \in current[p] => hash[name[p]] # HashOf(desired[p][name[p]])
  BY Facts DEF Accounts, Placed, D
<1>4. Errors(p)'
  BY Facts, <1>1, <1>3 DEF Kept, Errors, Syncing, Applying, Listed, DeployLoop, CleanupLoop,
     InDeploy, Deploying, InCleanup
<1>5. Placed(p)'
  BY DEF Placed, Deploying
<1>6. Reported(p)'
  BY Facts, <1>1 DEF Kept, Reported, Deployed, Listed, DeployLoop, CleanupLoop, InDeploy,
     Deploying, InCleanup
<1> QED
  BY <1>2, <1>4, <1>5, <1>6 DEF SafeAt

\* A step that leaves the name at hand for good.
LEMMA EndDeploy ==
  ASSUME SafeInv, NEW p \in Proc, Kept(p), UNCHANGED <<user, hash, repo, lock>>,
         pc[p] \in {"check", "restart"}, pc'[p] = "next", errs'[p] = errs[p],
         name[p] \in errs[p] \/ Deployed(p, name[p])
  PROVE  SafeAt(p)'
<1>1. LockOK(p)' /\ Accounts(p)' /\ Errors(p)'
  BY Facts DEF Kept, LockOK, Accounts, Errors, Syncing, Applying, Listed, DeployLoop,
     CleanupLoop, InDeploy, Deploying, InCleanup
<1>2. Placed(p)'
  BY DEF Placed, Deploying
<1>3. Reported(p)'
  BY Facts DEF Kept, Reported, Deployed, Listed, DeployLoop, CleanupLoop, InDeploy, Deploying,
     InCleanup
<1> QED
  BY <1>1, <1>2, <1>3 DEF SafeAt

\* A step within the removal of the name at hand, up to userdel.
LEMMA WithinCleanup ==
  ASSUME SafeInv, NEW p \in Proc, Kept(p), UNCHANGED <<user, hash, repo, lock>>,
         pc[p] \in InCleanup \ {"userdel", "unhash"}, pc'[p] \in InCleanup \ {"unhash"},
         errs'[p] = errs[p]
  PROVE  SafeAt(p)'
<1>1. LockOK(p)' /\ Accounts(p)' /\ Errors(p)'
  BY Facts DEF Kept, LockOK, Accounts, Errors, Syncing, Applying, Listed, DeployLoop,
     CleanupLoop, InDeploy, Deploying, InCleanup
<1>2. Placed(p)'
  BY DEF Placed, Deploying, InCleanup
<1>3. Reported(p)'
  BY Facts DEF Kept, Reported, Deployed, Listed, DeployLoop, CleanupLoop, InDeploy, Deploying,
     InCleanup
<1> QED
  BY <1>1, <1>2, <1>3 DEF SafeAt

LEMMA PrepareSafe ==
  ASSUME SafeInv, TypeOK', NEW p \in Proc, Prepare(p)
  PROVE  SafeAt(p)'
<1> USE Facts
<1>1. CASE Lock(p)
  <2>1. pc[p] = "idle" /\ pc'[p] = "git" /\ lock' = p /\ errs'[p] = errs[p]
    BY <1>1 DEF Lock, Goto, TypeOK
  <2> QED
    BY <2>1 DEF SafeAt, LockOK, Accounts, Errors, Placed, Reported, Syncing, Applying,
       DeployLoop, CleanupLoop, InDeploy, Deploying, InCleanup
<1>2. CASE pc'[p] = "failed"
  BY <1>2 DEF SafeAt, LockOK, Accounts, Errors, Placed, Reported, Syncing, Applying,
     DeployLoop, CleanupLoop, InDeploy, Deploying, InCleanup
<1>3. CASE GitSync(p) /\ pc'[p] # "failed"
  <2>1. pc'[p] = "build" /\ lock' = lock /\ pc[p] = "git" /\ errs'[p] = errs[p]
    BY <1>3 DEF GitSync, Git, Goto, Move, TypeOK, outer
  <2> QED
    BY <2>1 DEF SafeAt, LockOK, Accounts, Errors, Placed, Reported, Syncing, Applying,
       DeployLoop, CleanupLoop, InDeploy, Deploying, InCleanup
<1>4. CASE BuildDesired(p) /\ pc'[p] # "failed"
  <2>1. /\ pc[p] = "build" /\ pc'[p] = "users" /\ desired'[p] = Build[repo]
        /\ Build[repo] # Invalid /\ repo' = repo /\ lock' = lock /\ errs'[p] = errs[p]
    BY <1>4 DEF BuildDesired, Goto, Move, TypeOK, outer
  <2>2. errs[p] = {}
    BY <2>1 DEF Errors
  <2> QED
    BY <2>1, <2>2 DEF SafeAt, LockOK, Accounts, Errors, Placed, Reported, Syncing, Applying,
       DeployLoop, CleanupLoop, InDeploy, Deploying, InCleanup
<1>5. CASE ManagedUsers(p) /\ pc'[p] # "failed"
  <2>1. /\ pc[p] = "users" /\ pc'[p] = "next" /\ current'[p] = ManagedUsersOf
        /\ todo'[p] = Listed(desired[p]) /\ desired'[p] = desired[p] /\ errs'[p] = errs[p]
        /\ UNCHANGED <<user, hash, repo, lock>>
    BY <1>5 DEF ManagedUsers, Goto, Move, TypeOK, outer, hostVars
  <2>2. errs[p] = {}
    BY <2>1 DEF Errors
  <2> QED
    BY <2>1, <2>2 DEF SafeAt, LockOK, Accounts, Errors, Placed, Reported, ManagedUsersOf,
       Listed,
       Syncing, Applying, DeployLoop, CleanupLoop, InDeploy, Deploying, InCleanup
<1>6. CASE LockBusy(p)
  BY <1>2, <1>6 DEF LockBusy, Move, Goto, TypeOK
<1> QED
  BY <1>1, <1>2, <1>3, <1>4, <1>5, <1>6 DEF Prepare

LEMMA DeploySafe ==
  ASSUME SafeInv, TypeOK', NEW p \in Proc, DeployStep(p)
  PROVE  SafeAt(p)'
<1> USE Facts
<1>a. HostTypeOK'
  BY DEF TypeOK
<1>1. CASE NextName(p)
  <2>1. PICK n \in todo[p] :
          /\ pc[p] = "next" /\ pc'[p] = IF n \in current[p] THEN "check" ELSE "useradd"
          /\ name'[p] = n /\ todo'[p] = todo[p] \ {n}
          /\ desired'[p] = desired[p] /\ current'[p] = current[p] /\ errs'[p] = errs[p]
          /\ UNCHANGED <<user, hash, repo, lock>>
    BY <1>1 DEF NextName, Goto, TypeOK, outer, hostVars
  <2>2. n \in Listed(desired[p]) /\ n \in Name
    BY <2>1 DEF NameOK, Listed
  <2>3. LockOK(p)' /\ Accounts(p)' /\ Errors(p)'
    BY <2>1, <2>2 DEF LockOK, Accounts, Errors, Syncing, Applying, Listed, DeployLoop,
       CleanupLoop, InDeploy, Deploying, InCleanup
  <2>4. Placed(p)'
    BY <2>1 DEF Placed, Deploying
  <2>5. Reported(p)'
    BY <2>1, <2>2 DEF Reported, Deployed, Listed, DeployLoop, CleanupLoop, InDeploy,
       Deploying, InCleanup
  <2> QED
    BY <2>3, <2>4, <2>5 DEF SafeAt
<1>2. CASE CreateUser(p)
  <2>0. name[p] \in Listed(desired[p]) /\ name[p] \in Name /\ pc[p] = "useradd"
    BY <1>2 DEF CreateUser, NameOK, Listed, InDeploy
  <2>1. CASE Useradd(name[p]) /\ Move(p, "linger")
    <3>1. /\ Kept(p) /\ UNCHANGED <<hash, repo, lock>> /\ pc'[p] = "linger"
          /\ errs'[p] = errs[p]
      BY <1>a, <2>1, MoveFacts DEF outer, Label, InDeploy
    <3>2. \A n \in Name : user'[n] = IF n = name[p] THEN "managed" ELSE user[n]
      BY <2>0, <2>1 DEF Useradd, TypeOK, HostTypeOK
    <3>a. todo[p] \subseteq Name /\ current[p] \subseteq Name
      BY DEF TypeOK
    <3>b. LockOK(p)'
      BY <2>0, <3>1 DEF Kept, LockOK, Syncing, Applying
    <3>c. Accounts(p)'
      BY <2>0, <3>1, <3>2, <3>a DEF Kept, Accounts, Listed, DeployLoop, CleanupLoop, InDeploy,
         Deploying, InCleanup
    <3>d. Errors(p)'
      BY <2>0, <3>1 DEF Kept, Errors, Syncing, Applying, DeployLoop, InDeploy, Deploying
    <3>4. Placed(p)'
      BY <3>1 DEF Placed, Deploying
    <3>5. Reported(p)'
      BY <2>0, <3>1, <3>2 DEF Kept, Reported, Deployed, Listed, DeployLoop, CleanupLoop,
         InDeploy, Deploying, InCleanup
    <3> QED
      BY <3>b, <3>c, <3>d, <3>4, <3>5 DEF SafeAt
  <2>2. CASE Record(p, "next") /\ (UNCHANGED hostVars \/ Useradd(name[p]))
    <3>1. Record(p, "next") /\ (UNCHANGED hostVars \/ Useradd(name[p]))
      BY <2>2
    <3>2. /\ Kept(p) /\ UNCHANGED <<hash, repo, lock>> /\ pc'[p] = "next"
          /\ errs'[p] = errs[p] \cup {name[p]}
      BY <1>a, <2>0, <3>1, RecordFacts DEF outer, Label
    <3>3. \A n \in Name : user'[n] = user[n] \/ (n = name[p] /\ user'[n] = "managed")
      BY <2>0, <3>1 DEF Useradd, hostVars, TypeOK, HostTypeOK
    <3> QED
      BY <2>0, <3>2, <3>3, AbortDeploy
  <2> QED
    BY <1>2, <2>1, <2>2 DEF CreateUser, Abort, Fails
<1>3. CASE CreateUserLinger(p)
  <2>0. name[p] \in Name /\ pc[p] = "linger" /\ user' = user
    BY <1>3 DEF CreateUserLinger, NameOK, Listed, InDeploy, EnableLinger, Fails, hostVars
  <2>1. CASE Move(p, "check")
    <3>1. Kept(p) /\ UNCHANGED <<hash, repo, lock>> /\ pc'[p] = "check" /\ errs'[p] = errs[p]
      BY <1>a, <2>1, MoveFacts DEF outer, Label, InDeploy
    <3>2. Placed(p)'
      BY <3>1 DEF Placed, Deploying
    <3> QED
      BY <2>0, <3>1, <3>2, WithinDeploy DEF InDeploy
  <2>2. CASE Record(p, "next")
    <3>1. /\ Kept(p) /\ UNCHANGED <<hash, repo, lock>> /\ pc'[p] = "next"
          /\ errs'[p] = errs[p] \cup {name[p]}
      BY <1>a, <2>0, <2>2, RecordFacts DEF outer, Label
    <3> QED
      BY <2>0, <3>1, AbortDeploy
  <2> QED
    BY <1>3, <2>1, <2>2 DEF CreateUserLinger, Abort
<1>4. CASE SpecChanged(p)
  <2>0. name[p] \in Listed(desired[p]) /\ name[p] \in Name /\ pc[p] = "check" /\ user' = user
    BY <1>4 DEF SpecChanged, NameOK, Listed, InDeploy, hostVars
  <2>1. CASE hash[name[p]] = HashOf(D(p)) /\ Move(p, "next")
    <3>1. Kept(p) /\ UNCHANGED <<hash, repo, lock>> /\ pc'[p] = "next" /\ errs'[p] = errs[p]
      BY <1>a, <2>1, MoveFacts DEF outer, Label
    <3>2. Deployed(p, name[p])
      BY <2>0, <2>1 DEF Deployed, D, Accounts, InDeploy
    <3> QED
      BY <2>0, <3>1, <3>2, EndDeploy
  <2>2. CASE hash[name[p]] # HashOf(D(p))
    <3>1. /\ Kept(p) /\ UNCHANGED <<hash, repo, lock>> /\ pc'[p] = "write" /\ errs'[p] = errs[p]
          /\ work'[p] = FilesOf(D(p))
      BY <1>4, <2>2 DEF SpecChanged, Goto, Kept, TypeOK, outer
    <3>2. D(p)' = D(p)
      BY <3>1 DEF D, Kept
    <3>3. Placed(p)'
      BY <2>2, <3>1, <3>2 DEF Placed, Kept, FilesOf, Deploying
    <3> QED
      BY <2>0, <3>1, <3>3, WithinDeploy DEF InDeploy, Deploying
  <2> QED
    BY <1>4, <2>1, <2>2 DEF SpecChanged
<1>5. CASE WriteQuadletFile(p)
  <2>0. name[p] \in Name /\ pc[p] = "write" /\ user' = user
    BY <1>5 DEF WriteQuadletFile, NameOK, Listed, InDeploy, Deploying, PutFile, Fails, hostVars
  <2>1. CASE \E f \in work[p] : PutFile(name[p], f, D(p).files[f]) /\ Iterate(p, f)
    <3>1. PICK x : x \in work[p] /\ PutFile(name[p], x, D(p).files[x]) /\ Iterate(p, x)
      BY <2>1
    <3>2. /\ Kept(p) /\ UNCHANGED <<hash, repo, lock>> /\ pc'[p] = pc[p]
          /\ errs'[p] = errs[p] /\ work'[p] = work[p] \ {x}
      BY <1>a, <3>1, IterateFacts DEF outer
    <3>3. D(p)' = D(p)
      BY <3>2 DEF D, Kept
    <3>4. Placed(p)'
      BY <2>0, <3>1, <3>2, <3>3, DesiredType, HashOfType DEF Placed, Kept, PutFile, TypeOK,
         HostTypeOK, Files, Store, FilesOf, SecretsOf, InDeploy, Deploying
    <3> QED
      BY <2>0, <3>2, <3>4, WithinDeploy DEF InDeploy, Deploying
  <2>2. CASE Record(p, "next")
    <3>1. /\ Kept(p) /\ UNCHANGED <<hash, repo, lock>> /\ pc'[p] = "next"
          /\ errs'[p] = errs[p] \cup {name[p]}
      BY <1>a, <2>0, <2>2, RecordFacts DEF outer, Label
    <3> QED
      BY <2>0, <3>1, AbortDeploy DEF Deploying
  <2> QED
    BY <1>5, <2>1, <2>2 DEF WriteQuadletFile, Abort
<1>6. CASE WaitForUserManager(p)
  <2>0. name[p] \in Name /\ pc[p] = "write" /\ user' = user
    BY <1>6 DEF WaitForUserManager, NameOK, Listed, InDeploy, Deploying, hostVars
  <2>1. CASE Move(p, "list")
    <3>1. Kept(p) /\ UNCHANGED <<hash, repo, lock>> /\ pc'[p] = "list" /\ errs'[p] = errs[p]
      BY <1>a, <2>1, MoveFacts DEF outer, Label, InDeploy, Deploying
    <3>2. D(p)' = D(p) /\ disk' = disk
      BY <1>6, <3>1 DEF WaitForUserManager, hostVars, D, Kept
    <3>3. Placed(p)'
      BY <1>6, <2>0, <3>1, <3>2 DEF WaitForUserManager, Placed, Kept, FilesOf, Deploying
    <3> QED
      BY <2>0, <3>1, <3>3, WithinDeploy DEF InDeploy, Deploying
  <2>2. CASE Record(p, "next")
    <3>1. /\ Kept(p) /\ UNCHANGED <<hash, repo, lock>> /\ pc'[p] = "next"
          /\ errs'[p] = errs[p] \cup {name[p]}
      BY <1>a, <2>0, <2>2, RecordFacts DEF outer, Label
    <3> QED
      BY <2>0, <3>1, AbortDeploy DEF Deploying
  <2> QED
    BY <1>6, <2>1, <2>2 DEF WaitForUserManager, Abort
<1>7. CASE ListUserUnits(p)
  <2>0. name[p] \in Name /\ pc[p] = "list" /\ user' = user
    BY <1>7 DEF ListUserUnits, NameOK, Listed, InDeploy, Deploying, hostVars
  <2>1. PICK s \in SUBSET (File \cup Secret) : MoveWith(p, "prune", s)
    <3>1. UserUnitFiles(name[p]) \ FilesOf(D(p)) \in SUBSET (File \cup Secret)
      BY HostAssumption DEF UserUnitFiles
    <3>2. {} \in SUBSET (File \cup Secret)
      OBVIOUS
    <3> QED
      BY <1>7, <3>1, <3>2 DEF ListUserUnits
  <2>2. Kept(p) /\ UNCHANGED <<hash, repo, lock>> /\ pc'[p] = "prune" /\ errs'[p] = errs[p]
    BY <1>a, <2>1, MoveWithFacts DEF outer, Label, InDeploy, Deploying
  <2>3. D(p)' = D(p) /\ disk' = disk
    BY <1>7, <2>2 DEF ListUserUnits, hostVars, D, Kept
  <2>4. Placed(p)'
    BY <2>0, <2>2, <2>3 DEF Placed, Kept, FilesOf, Deploying
  <2> QED
    BY <2>0, <2>2, <2>4, WithinDeploy DEF InDeploy, Deploying
<1>8. CASE PruneUserUnit(p)
  <2>0. name[p] \in Name /\ pc[p] = "prune" /\ user' = user
    BY <1>8 DEF PruneUserUnit, NameOK, Listed, InDeploy, Deploying, DisableAndRemove
  <2>1. PICK f \in work[p], off, gone \in BOOLEAN :
          DisableAndRemove(name[p], f, off, gone) /\ Iterate(p, f)
    BY <1>8 DEF PruneUserUnit
  <2>2. Kept(p) /\ UNCHANGED <<hash, repo, lock>> /\ pc'[p] = pc[p] /\ errs'[p] = errs[p]
    BY <1>a, <2>1, IterateFacts DEF outer
  <2>3. D(p)' = D(p) /\ f \notin FilesOf(D(p))
    BY <2>0, <2>2 DEF D, Kept, WorkOK
  <2>4. \A g \in FilesOf(D(p)) : disk'[name[p]][g] = disk[name[p]][g]
    BY <2>0, <2>1, <2>3 DEF DisableAndRemove, TypeOK, HostTypeOK, Files, FilesOf
  <2>5. Placed(p)'
    BY <2>0, <2>2, <2>3, <2>4 DEF Placed, Kept, FilesOf, Deploying
  <2> QED
    BY <2>0, <2>2, <2>5, WithinDeploy DEF InDeploy, Deploying
<1>9. CASE PruneDone(p)
  <2>0. name[p] \in Name /\ pc[p] = "prune" /\ user' = user
    BY <1>9 DEF PruneDone, NameOK, Listed, InDeploy, Deploying, hostVars
  <2>1. /\ Kept(p) /\ UNCHANGED <<hash, repo, lock>> /\ pc'[p] = "secrets"
        /\ errs'[p] = errs[p] /\ work'[p] = SecretsOf(D(p))
    <3>1. SecretsOf(D(p)) \in SUBSET (File \cup Secret)
      BY DEF SecretsOf
    <3> QED
      BY <1>a, <1>9, <3>1, MoveWithFacts DEF PruneDone, outer, Label, InDeploy, Deploying
  <2>2. D(p)' = D(p) /\ disk' = disk
    BY <1>9, <2>1 DEF PruneDone, hostVars, D, Kept
  <2>3. Placed(p)'
    BY <2>0, <2>1, <2>2 DEF Placed, Kept, FilesOf, SecretsOf, Deploying
  <2> QED
    BY <2>0, <2>1, <2>3, WithinDeploy DEF InDeploy, Deploying
<1>10. CASE CreatePodmanSecret(p)
  <2>0. name[p] \in Name /\ pc[p] = "secrets" /\ user' = user
    BY <1>10 DEF CreatePodmanSecret, NameOK, Listed, InDeploy, Deploying, PutSecret, Fails,
       hostVars
  <2>1. CASE \E s \in work[p] : PutSecret(name[p], s, D(p).secrets[s]) /\ Iterate(p, s)
    <3>1. PICK x : x \in work[p] /\ PutSecret(name[p], x, D(p).secrets[x]) /\ Iterate(p, x)
      BY <2>1
    <3>2. /\ Kept(p) /\ UNCHANGED <<hash, repo, lock>> /\ pc'[p] = pc[p]
          /\ errs'[p] = errs[p] /\ work'[p] = work[p] \ {x}
      BY <1>a, <3>1, IterateFacts DEF outer
    <3>3. D(p)' = D(p)
      BY <3>2 DEF D, Kept
    <3>4. D(p) \in DesiredState /\ x \in Secret
      BY <2>0, <3>1, DesiredType DEF WorkOK, SecretsOf, InDeploy, Deploying
    <3>5. /\ secrets'[name[p]][x] = D(p).secrets[x]
          /\ \A t \in Secret \ {x} : secrets'[name[p]][t] = secrets[name[p]][t]
      BY <2>0, <3>1, <3>4 DEF PutSecret, TypeOK, HostTypeOK, Store
    <3>6. disk' = disk /\ hash' = hash
      BY <3>1, <3>2 DEF PutSecret
    <3>7. Placed(p)'
      BY <2>0, <3>2, <3>3, <3>5, <3>6 DEF Placed, Kept, FilesOf, SecretsOf, Deploying
    <3> QED
      BY <2>0, <3>2, <3>7, WithinDeploy DEF InDeploy, Deploying
  <2>2. CASE Record(p, "next")
    <3>1. /\ Kept(p) /\ UNCHANGED <<hash, repo, lock>> /\ pc'[p] = "next"
          /\ errs'[p] = errs[p] \cup {name[p]}
      BY <1>a, <2>0, <2>2, RecordFacts DEF outer, Label
    <3> QED
      BY <2>0, <3>1, AbortDeploy DEF Deploying
  <2> QED
    BY <1>10, <2>1, <2>2 DEF CreatePodmanSecret, Abort
<1>11. CASE ReloadUser(p)
  <2>0. name[p] \in Name /\ pc[p] = "secrets" /\ user' = user
    BY <1>11 DEF ReloadUser, NameOK, Listed, InDeploy, Deploying, DaemonReload, Fails, hostVars
  <2>1. CASE DaemonReload(name[p]) /\ MoveWith(p, "enable", FilesOf(D(p)) \cap Timer)
    <3>1. Kept(p) /\ UNCHANGED <<hash, repo, lock>> /\ pc'[p] = "enable" /\ errs'[p] = errs[p]
      <4>1. FilesOf(D(p)) \cap Timer \in SUBSET (File \cup Secret)
        BY DEF FilesOf
      <4> QED
        BY <1>a, <2>1, <4>1, MoveWithFacts DEF outer, Label, InDeploy, Deploying
    <3>2. D(p)' = D(p) /\ disk' = disk /\ secrets' = secrets /\ loaded'[name[p]] = disk[name[p]]
      BY <2>0, <2>1, <3>1 DEF DaemonReload, D, Kept, TypeOK, HostTypeOK
    <3>3. Placed(p)'
      BY <1>11, <2>0, <3>1, <3>2 DEF ReloadUser, Placed, Kept, FilesOf, SecretsOf, Deploying
    <3> QED
      BY <2>0, <3>1, <3>3, WithinDeploy DEF InDeploy, Deploying
  <2>2. CASE Record(p, "next")
    <3>1. /\ Kept(p) /\ UNCHANGED <<hash, repo, lock>> /\ pc'[p] = "next"
          /\ errs'[p] = errs[p] \cup {name[p]}
      BY <1>a, <2>0, <2>2, RecordFacts DEF outer, Label
    <3> QED
      BY <2>0, <3>1, AbortDeploy DEF Deploying
  <2> QED
    BY <1>11, <2>1, <2>2 DEF ReloadUser, Abort
<1>12. CASE EnableOneTimer(p)
  <2>0. name[p] \in Name /\ pc[p] = "enable" /\ user' = user
    BY <1>12 DEF EnableOneTimer, NameOK, Listed, InDeploy, Deploying, EnableTimer, Fails,
       hostVars
  <2>1. PICK f : Iterate(p, f)
    BY <1>12 DEF EnableOneTimer
  <2>2. Kept(p) /\ UNCHANGED <<hash, repo, lock>> /\ pc'[p] = pc[p] /\ errs'[p] = errs[p]
    BY <1>a, <2>1, IterateFacts DEF outer
  <2>3. D(p)' = D(p) /\ UNCHANGED <<disk, loaded, secrets>>
    BY <1>12, <2>2 DEF EnableOneTimer, EnableTimer, Fails, hostVars, D, Kept
  <2>4. Placed(p)'
    BY <2>0, <2>2, <2>3 DEF Placed, Kept, FilesOf, SecretsOf, Deploying
  <2> QED
    BY <2>0, <2>2, <2>4, WithinDeploy DEF InDeploy, Deploying
<1>13. CASE SaveHash(p)
  <2>0. name[p] \in Name /\ pc[p] = "enable" /\ user' = user
    BY <1>13 DEF SaveHash, NameOK, Listed, InDeploy, Deploying, hostVars
  <2>1. Kept(p) /\ UNCHANGED <<repo, lock>> /\ pc'[p] = "restart"
    BY <1>13 DEF SaveHash, Goto, Kept, TypeOK, outer
  <2>2. /\ \A n \in Name \ {name[p]} : hash'[n] = hash[n]
        /\ \/ hash'[name[p]] = HashOf(D(p)) /\ errs'[p] = errs[p]
           \/ /\ hash'[name[p]] \in {hash[name[p]], TornHash}
              /\ errs'[p] = errs[p] \cup {name[p]}
    <3>1. CASE hash' = [hash EXCEPT ![name[p]] = HashOf(D(p))] /\ errs' = errs
      BY <2>0, <3>1 DEF TypeOK
    <3>2. CASE /\ hash' \in {hash, [hash EXCEPT ![name[p]] = TornHash]}
               /\ errs' = [errs EXCEPT ![p] = @ \cup {name[p]}]
      BY <2>0, <3>2 DEF TypeOK
    <3> QED
      BY <1>13, <3>1, <3>2 DEF SaveHash
  <2>3. name[p] \in Listed(desired[p]) /\ TornHash # HashOf(D(p))
    BY <2>0, DesiredType, HashOfType, ReconcileAssumption DEF NameOK, InDeploy, Deploying
  <2>4. user[name[p]] = "managed" /\ name[p] \notin errs[p] /\ name[p] \notin todo[p]
    BY <2>0 DEF Accounts, Errors, InDeploy, Deploying
  <2>5. LockOK(p)' /\ Accounts(p)'
    BY <2>0, <2>1 DEF Kept, LockOK, Accounts, Syncing, Applying, Listed, DeployLoop,
       CleanupLoop, InDeploy, Deploying, InCleanup
  <2>6. Errors(p)'
    <3>1. hash'[name[p]] # HashOf(D(p)) \/ name[p] \notin errs'[p]
      BY <2>0, <2>2, <2>3, <2>4 DEF Placed, Deploying
    <3>2. errs'[p] \subseteq errs[p] \cup {name[p]} /\ errs[p] \subseteq Name
      BY <2>2 DEF TypeOK
    <3>3. Applying(p) /\ D(p) = desired[p][name[p]]
      BY <2>0 DEF Applying, Syncing, D
    <3> QED
      BY <2>0, <2>1, <2>2, <2>4, <3>1, <3>2, <3>3 DEF Kept, Errors, DeployLoop, CleanupLoop,
         InDeploy, Deploying, InCleanup
  <2>7. Placed(p)'
    BY <2>1 DEF Placed, Deploying
  <2>8. Reported(p)'
    <3>1. name[p] \in errs'[p] \/ Deployed(p, name[p])'
      BY <2>0, <2>1, <2>2, <2>4 DEF Deployed, Kept, D
    <3>2. \A n \in Name \ {name[p]} : Deployed(p, n) => Deployed(p, n)'
      BY <2>0, <2>1, <2>2 DEF Deployed, Kept
    <3>3. errs[p] \subseteq errs'[p]
      BY <2>2
    <3> QED
      BY <2>0, <2>1, <3>1, <3>2, <3>3 DEF Kept, Reported, Listed, DeployLoop, CleanupLoop,
         InDeploy, Deploying, InCleanup
  <2> QED
    BY <2>5, <2>6, <2>7, <2>8 DEF SafeAt
<1>14. CASE Restart(p)
  <2>0. name[p] \in Name /\ pc[p] = "restart" /\ user' = user
    BY <1>14 DEF Restart, NameOK, Listed, InDeploy, Deploying, RestartService,
       RestartServiceFails, SetActive, hostVars
  <2>1. Kept(p) /\ UNCHANGED <<hash, repo, lock>> /\ pc'[p] = "next" /\ errs'[p] = errs[p]
    BY <1>a, <1>14, MoveFacts DEF Restart, outer, Label
  <2>2. name[p] \in errs[p] \/ Deployed(p, name[p])
    BY <2>0 DEF Reported
  <2> QED
    BY <2>0, <2>1, <2>2, EndDeploy
<1> QED
  BY <1>1, <1>2, <1>3, <1>4, <1>5, <1>6, <1>7, <1>8, <1>9, <1>10, <1>11, <1>12, <1>13, <1>14
     DEF DeployStep

LEMMA CleanupSafe ==
  ASSUME SafeInv, TypeOK', NEW p \in Proc, CleanupStep(p)
  PROVE  SafeAt(p)'
<1> USE Facts
<1>a. HostTypeOK'
  BY DEF TypeOK
<1>1. CASE StartCleanup(p)
  <2>1. /\ pc[p] = "next" /\ pc'[p] = "clean" /\ todo[p] = {}
        /\ todo'[p] = current[p] \ Listed(desired[p])
        /\ desired'[p] = desired[p] /\ current'[p] = current[p] /\ name'[p] = name[p]
        /\ errs'[p] = errs[p] /\ UNCHANGED <<user, hash, repo, lock>>
    BY <1>1 DEF StartCleanup, Goto, TypeOK, outer, hostVars
  <2>2. LockOK(p)' /\ Accounts(p)' /\ Errors(p)'
    BY <2>1 DEF LockOK, Accounts, Errors, Syncing, Applying, Listed, DeployLoop, CleanupLoop,
       InDeploy, Deploying, InCleanup
  <2>3. Placed(p)'
    BY <2>1 DEF Placed, Deploying
  <2>4. Reported(p)'
    BY <2>1 DEF Reported, Deployed, Accounts, Listed, DeployLoop, CleanupLoop, InDeploy,
       Deploying, InCleanup
  <2> QED
    BY <2>2, <2>3, <2>4 DEF SafeAt
<1>2. CASE CleanupName(p)
  <2>1. PICK n \in todo[p] :
          /\ pc[p] = "clean" /\ pc'[p] = "timers"
          /\ name'[p] = n /\ todo'[p] = todo[p] \ {n}
          /\ desired'[p] = desired[p] /\ current'[p] = current[p] /\ errs'[p] = errs[p]
          /\ UNCHANGED <<user, hash, repo, lock>>
    BY <1>2 DEF CleanupName, Goto, TypeOK, outer, hostVars
  <2>2. LockOK(p)' /\ Accounts(p)' /\ Errors(p)'
    BY <2>1 DEF LockOK, Accounts, Errors, Syncing, Applying, Listed, DeployLoop, CleanupLoop,
       InDeploy, Deploying, InCleanup
  <2>3. Placed(p)'
    BY <2>1 DEF Placed, Deploying
  <2>4. Reported(p)'
    BY <2>1 DEF NameOK, Reported, Deployed, Listed, DeployLoop, CleanupLoop, InDeploy,
       Deploying, InCleanup
  <2> QED
    BY <2>2, <2>3, <2>4 DEF SafeAt
<1>3. CASE CleanupTimer(p)
  <2>0. name[p] \in Name /\ pc[p] = "timers" /\ user' = user
    BY <1>3 DEF CleanupTimer, NameOK, TypeOK, InCleanup, hostVars, Fails, DisableTimer
  <2>1. PICK f : Iterate(p, f)
    BY <1>3 DEF CleanupTimer
  <2>2. Kept(p) /\ UNCHANGED <<hash, repo, lock>> /\ pc'[p] = pc[p] /\ errs'[p] = errs[p]
    BY <1>a, <2>1, IterateFacts DEF outer
  <2> QED
    BY <2>0, <2>2, WithinCleanup DEF InCleanup
<1>4. CASE CleanupStop(p)
  <2>0. name[p] \in Name /\ pc[p] = "timers" /\ user' = user
    BY <1>4 DEF CleanupStop, NameOK, TypeOK, InCleanup, hostVars, Fails, StopService,
       StopServiceFails, SetActive
  <2>1. Kept(p) /\ UNCHANGED <<hash, repo, lock>> /\ pc'[p] = "remove" /\ errs'[p] = errs[p]
    BY <1>a, <1>4, <2>0, MoveFacts DEF CleanupStop, outer, Label, InCleanup
  <2> QED
    BY <2>0, <2>1, WithinCleanup DEF InCleanup
<1>5. CASE RemoveAllQuadlets(p)
  <2>0. name[p] \in Name /\ pc[p] = "remove" /\ user' = user
    BY <1>5 DEF RemoveAllQuadlets, NameOK, TypeOK, InCleanup, hostVars, Fails, RemoveFiles
  <2>1. Kept(p) /\ UNCHANGED <<hash, repo, lock>> /\ pc'[p] = "nolinger" /\ errs'[p] = errs[p]
    BY <1>a, <1>5, <2>0, MoveFacts DEF RemoveAllQuadlets, outer, Label, InCleanup
  <2> QED
    BY <2>0, <2>1, WithinCleanup DEF InCleanup
<1>6. CASE DeleteUserNoLinger(p)
  <2>0. name[p] \in Name /\ pc[p] = "nolinger" /\ user' = user
    BY <1>6 DEF DeleteUserNoLinger, NameOK, TypeOK, InCleanup, hostVars, Fails, DisableLinger
  <2>1. Kept(p) /\ UNCHANGED <<hash, repo, lock>> /\ pc'[p] = "terminate" /\ errs'[p] = errs[p]
    BY <1>a, <1>6, <2>0, MoveFacts DEF DeleteUserNoLinger, outer, Label, InCleanup
  <2> QED
    BY <2>0, <2>1, WithinCleanup DEF InCleanup
<1>7. CASE DeleteUserTerminate(p)
  <2>0. name[p] \in Name /\ pc[p] = "terminate" /\ user' = user
    BY <1>7 DEF DeleteUserTerminate, NameOK, TypeOK, InCleanup, hostVars, Fails, TerminateUser
  <2>1. Kept(p) /\ UNCHANGED <<hash, repo, lock>> /\ pc'[p] = "userdel" /\ errs'[p] = errs[p]
    BY <1>a, <1>7, <2>0, MoveFacts DEF DeleteUserTerminate, outer, Label, InCleanup
  <2> QED
    BY <2>0, <2>1, WithinCleanup DEF InCleanup
<1>8. CASE DeleteUser(p)
  <2>0. /\ name[p] \in current[p] \ Listed(desired[p]) /\ name[p] \in Name
        /\ pc[p] = "userdel" /\ name[p] \notin todo[p] /\ todo[p] \subseteq Name
        /\ todo[p] \cap Listed(desired[p]) = {}
    BY <1>8 DEF DeleteUser, NameOK, Accounts, TypeOK, InCleanup
  <2>1. /\ Kept(p) /\ UNCHANGED <<hash, repo, lock>> /\ pc'[p] = "unhash"
        /\ \/ errs'[p] = errs[p] /\ Userdel(name[p])
           \/ errs'[p] = errs[p] \cup {name[p]} /\ (UNCHANGED hostVars \/ Userdel(name[p]))
    BY <1>8, <1>a, <2>0, MoveFacts, RecordFacts DEF DeleteUser, Fails, outer, Label, InCleanup
  <2>2. /\ \A n \in Name \ {name[p]} : user'[n] = user[n]
        /\ errs'[p] # errs[p] \cup {name[p]} => user'[name[p]] # "managed"
    BY <2>0, <2>1 DEF Userdel, TypeOK, HostTypeOK, hostVars
  <2>3. errs[p] \subseteq errs'[p] /\ errs'[p] \subseteq errs[p] \cup {name[p]}
    BY <2>1
  <2>4. LockOK(p)' /\ Accounts(p)'
    BY <2>0, <2>1, <2>2 DEF Kept, LockOK, Accounts, Syncing, Applying, Listed, DeployLoop,
       CleanupLoop, InDeploy, Deploying, InCleanup
  <2>5. Errors(p)'
    BY <2>0, <2>1, <2>3 DEF Kept, Errors, Syncing, Applying, Listed, DeployLoop, CleanupLoop,
       InDeploy, Deploying, InCleanup
  <2>6. Placed(p)'
    BY <2>1 DEF Placed, Deploying
  <2>7. Reported(p)'
    BY <2>0, <2>1, <2>2, <2>3 DEF Kept, Reported, Deployed, Listed, DeployLoop, CleanupLoop,
       InDeploy, Deploying, InCleanup
  <2> QED
    BY <2>4, <2>5, <2>6, <2>7 DEF SafeAt
<1>9. CASE RemoveHash(p)
  <2>0. name[p] \notin Listed(desired[p]) /\ name[p] \in Name /\ pc[p] = "unhash"
    BY <1>9 DEF RemoveHash, NameOK, TypeOK, InCleanup
  <2>1. /\ Kept(p) /\ UNCHANGED <<user, repo, lock>> /\ pc'[p] = "clean" /\ errs'[p] = errs[p]
        /\ \A n \in Name \ {name[p]} : hash'[n] = hash[n]
    BY <1>9, <2>0 DEF RemoveHash, Goto, Kept, TypeOK, outer, hostVars
  <2>2. LockOK(p)' /\ Accounts(p)'
    BY <2>0, <2>1 DEF Kept, LockOK, Accounts, Syncing, Applying, Listed, DeployLoop,
       CleanupLoop, InDeploy, Deploying, InCleanup
  <2>3. Errors(p)'
    BY <2>0, <2>1 DEF Kept, Errors, Syncing, Applying, Listed, TypeOK, DeployLoop,
       CleanupLoop, InDeploy, Deploying, InCleanup
  <2>4. Placed(p)'
    BY <2>1 DEF Placed, Deploying
  <2>5. Reported(p)'
    BY <2>0, <2>1 DEF Kept, Reported, Deployed, Listed, DeployLoop, CleanupLoop, InDeploy,
       Deploying, InCleanup
  <2> QED
    BY <2>2, <2>3, <2>4, <2>5 DEF SafeAt
<1>10. CASE FinishCleanup(p)
  <2>1. /\ Kept(p) /\ UNCHANGED <<hash, repo, lock>> /\ pc'[p] = "done" /\ errs'[p] = errs[p]
    BY <1>a, <1>10, MoveFacts DEF FinishCleanup, outer, Label
  <2>2. pc[p] = "clean" /\ todo[p] = {} /\ user' = user
    BY <1>10 DEF FinishCleanup, hostVars
  <2>3. LockOK(p)' /\ Accounts(p)' /\ Errors(p)'
    BY <2>1, <2>2 DEF Kept, LockOK, Accounts, Errors, Syncing, Applying, Listed, DeployLoop,
       CleanupLoop, InDeploy, Deploying, InCleanup
  <2>4. Placed(p)'
    BY <2>1 DEF Placed, Deploying
  <2>5. Reported(p)'
    BY <2>1, <2>2 DEF Kept, Reported, Deployed, Listed, DeployLoop, CleanupLoop, InDeploy,
       Deploying, InCleanup
  <2> QED
    BY <2>3, <2>4, <2>5 DEF SafeAt
<1> QED
  BY <1>1, <1>2, <1>3, <1>4, <1>5, <1>6, <1>7, <1>8, <1>9, <1>10 DEF CleanupStep

\* Return and Crash end where nothing is promised but the lock.
LEMMA ForgetSafe ==
  ASSUME TypeOK, NEW p \in Proc, Forget(p)
  PROVE  SafeAt(p)'
<1>1. pc'[p] = "idle" /\ errs'[p] = {}
  BY DEF Forget, TypeOK
<1> QED
  BY <1>1 DEF SafeAt, LockOK, Accounts, Errors, Placed, Reported, Syncing, Applying,
     DeployLoop, CleanupLoop, InDeploy, Deploying, InCleanup

-----------------------------------------------------------------------------
(* The other steps, and the whole.                                         *)

\* A push, a redeploy and the removal of a spoilt clone: the hash of n may go away, and
\* the work tree while nobody has the lock; nothing else that SafeAt is about changes.
LEMMA OperatorSafe ==
  ASSUME SafeInv, NEW p \in Proc, Push \/ RemoveClone \/ \E n \in Name : Redeploy(n)
  PROVE  SafeAt(p)'
<1>1. /\ UNCHANGED <<hostVars, lock, pc, desired, current, todo, name, work, errs>>
      /\ repo' = repo \/ lock = Free
  BY DEF Push, RemoveClone, Redeploy, outer
<1>2. UNCHANGED <<user, disk, loaded, secrets>>
  BY <1>1 DEF hostVars
<1>3. \A n \in Name : hash'[n] = hash[n] \/ hash'[n] = NoHash
  BY Facts DEF Push, RemoveClone, Redeploy, TypeOK
<1>4. \A n \in Name, d \in DesiredState : NoHash # HashOf(d)
  BY HashOfType, ReconcileAssumption
<1>5. LockOK(p)' /\ Accounts(p)'
  <2>1. lock = Free => ~Syncing(p)
    BY Facts, ReconcileAssumption DEF LockOK
  <2> QED
    BY <1>1, <1>2, <2>1, Facts DEF LockOK, Accounts, Syncing, Applying, Listed
<1>6. Errors(p)'
  <2>1. \A n \in Name : desired[p][n] # NoSpec => desired[p][n] \in DesiredState
    BY Facts DEF TypeOK
  <2>2. errs[p] \subseteq Name
    BY Facts DEF TypeOK
  <2> QED
    BY <1>1, <1>3, <1>4, <2>1, <2>2, Facts DEF Errors, Syncing, Applying
<1>7. Placed(p)'
  <2>1. D(p)' = D(p)
    BY <1>1 DEF D
  <2>2. pc[p] \in Deploying => name[p] \in Name /\ D(p) \in DesiredState
    BY Facts, DesiredType DEF InDeploy
  <2> QED
    BY <1>1, <1>2, <1>3, <1>4, <2>1, <2>2, Facts DEF Placed, FilesOf, SecretsOf
<1>8. Reported(p)'
  <2>1. \A n \in Name : Deployed(p, n) => Deployed(p, n)'
    BY <1>1, <1>2, <1>3 DEF Deployed
  <2>2. pc[p] = "restart" => name[p] \in Name
    BY Facts, DesiredType DEF InDeploy
  <2> QED
    BY <1>1, <1>2, <2>1, <2>2, Facts DEF Reported, Listed
<1> QED
  BY <1>5, <1>6, <1>7, <1>8 DEF SafeAt

\* Only useradd and userdel change accounts, and both refuse a foreign one.
LEMMA AccountSteps ==
  ASSUME TypeOK, NEW p \in Proc, SyncStep(p) \/ Crash(p)
  PROVE  \/ user' = user
         \/ pc[p] = "useradd" /\ Useradd(name[p])
         \/ pc[p] = "userdel" /\ Userdel(name[p])
<1>1. CASE Prepare(p)
  BY <1>1 DEF Prepare, Lock, LockBusy, GitSync, BuildDesired, ManagedUsers, hostVars
<1>2. CASE DeployStep(p)
  <2>1. CASE CreateUser(p)
    BY <2>1 DEF CreateUser, Fails, hostVars
  <2>2. CASE NextName(p) \/ CreateUserLinger(p) \/ SpecChanged(p) \/ WaitForUserManager(p)
    BY <2>2 DEF NextName, CreateUserLinger, SpecChanged, WaitForUserManager, EnableLinger,
       Fails, hostVars
  <2>3. CASE WriteQuadletFile(p) \/ ListUserUnits(p) \/ PruneUserUnit(p) \/ PruneDone(p)
    BY <2>3 DEF WriteQuadletFile, ListUserUnits, PruneUserUnit, PruneDone, PutFile,
       DisableAndRemove, Fails, hostVars
  <2>4. CASE CreatePodmanSecret(p) \/ ReloadUser(p) \/ EnableOneTimer(p)
    BY <2>4 DEF CreatePodmanSecret, ReloadUser, EnableOneTimer, PutSecret, DaemonReload,
       EnableTimer, Fails, hostVars
  <2>5. CASE SaveHash(p) \/ Restart(p)
    BY <2>5 DEF SaveHash, Restart, RestartService, RestartServiceFails, SetActive, hostVars
  <2> QED
    BY <1>2, <2>1, <2>2, <2>3, <2>4, <2>5 DEF DeployStep
<1>3. CASE CleanupStep(p)
  <2>1. CASE DeleteUser(p)
    BY <2>1 DEF DeleteUser, Fails, hostVars
  <2>2. CASE StartCleanup(p) \/ CleanupName(p) \/ CleanupTimer(p) \/ CleanupStop(p)
    BY <2>2 DEF StartCleanup, CleanupName, CleanupTimer, CleanupStop, DisableTimer,
       StopService, StopServiceFails, SetActive, Fails, hostVars
  <2>3. CASE RemoveAllQuadlets(p) \/ DeleteUserNoLinger(p) \/ DeleteUserTerminate(p)
    BY <2>3 DEF RemoveAllQuadlets, DeleteUserNoLinger, DeleteUserTerminate, RemoveFiles,
       DisableLinger, TerminateUser, Fails, hostVars
  <2>4. CASE RemoveHash(p) \/ FinishCleanup(p)
    BY <2>4 DEF RemoveHash, FinishCleanup, hostVars
  <2> QED
    BY <1>3, <2>1, <2>2, <2>3, <2>4 DEF CleanupStep
<1>4. CASE Return(p) \/ Crash(p)
  BY <1>4 DEF Return, Crash, PutFile, hostVars
<1> QED
  BY <1>1, <1>2, <1>3, <1>4 DEF SyncStep

LEMMA StepForeign ==
  ASSUME TypeOK, ForeignKept, Next
  PROVE  ForeignKept'
<1>1. CASE user' = user
  BY <1>1 DEF ForeignKept
<1>2. ASSUME NEW p \in Proc, Useradd(name[p]) \/ Userdel(name[p])
      PROVE  ForeignKept'
  BY <1>2, HostAssumption DEF ForeignKept, Useradd, Userdel, TypeOK, HostTypeOK
<1>3. CASE Push \/ RemoveClone \/ \E n \in Name : Redeploy(n)
  BY <1>1, <1>3 DEF Push, RemoveClone, Redeploy, hostVars
<1> QED
  BY <1>1, <1>2, <1>3, AccountSteps DEF Next

LEMMA InitSafe == Init => SafeInv
<1> SUFFICES ASSUME Init PROVE SafeInv
  OBVIOUS
<1>1. ForeignKept
  BY HostAssumption DEF Init, HostInit, ForeignKept
<1>2. ASSUME NEW p \in Proc
      PROVE  SafeAt(p)
  BY DEF Init, SafeAt, LockOK, Accounts, Errors, Placed, Reported, Syncing, Applying,
     DeployLoop, CleanupLoop, InDeploy, Deploying, InCleanup
<1> QED
  BY <1>1, <1>2, InitTypes DEF SafeInv

LEMMA StepSafe ==
  ASSUME SafeInv, [Next]_vars
  PROVE  SafeInv'
<1>1. TypeInv /\ TypeOK /\ TypeInv' /\ TypeOK'
  BY StepTypes DEF SafeInv, TypeInv
<1>2. CASE UNCHANGED vars
  <2>1. ForeignKept'
    BY <1>2 DEF SafeInv, ForeignKept, vars, hostVars
  <2>2. ASSUME NEW p \in Proc
        PROVE  SafeAt(p)'
    BY <1>2 DEF SafeInv, SafeAt, LockOK, Accounts, Errors, Placed, Reported, Deployed, D,
       Syncing, Applying, Listed, FilesOf, SecretsOf, vars, hostVars, outer
  <2> QED
    BY <1>1, <2>1, <2>2 DEF SafeInv
<1>3. CASE Next
  <2>1. ForeignKept'
    BY <1>1, <1>3, StepForeign DEF SafeInv
  <2>2. ASSUME NEW p \in Proc, NEW q \in Proc, SyncStep(q) \/ Crash(q)
        PROVE  SafeAt(p)'
    <3>1. CASE p # q
      BY <2>2, <3>1, OthersSafe
    <3>2. CASE p = q
      BY <1>1, <2>2, <3>2, PrepareSafe, DeploySafe, CleanupSafe, ForgetSafe
         DEF SyncStep, Return, Crash
    <3> QED
      BY <3>1, <3>2
  <2>3. ASSUME NEW p \in Proc
        PROVE  SafeAt(p)'
    BY <1>3, <2>2, <2>3, OperatorSafe DEF Next
  <2> QED
    BY <1>1, <2>1, <2>3 DEF SafeInv
<1> QED
  BY <1>2, <1>3

-----------------------------------------------------------------------------
(* What a step may do.                                                     *)

SameHost(n) ==
  UNCHANGED <<user[n], linger[n], disk[n], loaded[n], secrets[n], enabled[n], active[n]>>

\* Every command acts on one account, and a step of p on the one p is at.
LEMMA CommandLocal ==
  ASSUME TypeOK, NEW n \in Name, NEW m \in Name \ {n},
         \/ UNCHANGED hostVars
         \/ Useradd(n) \/ EnableLinger(n) \/ DisableLinger(n) \/ TerminateUser(n) \/ Userdel(n)
         \/ \E f, c : PutFile(n, f, c)
         \/ \E gone : RemoveFiles(n, gone)
         \/ \E f, off, gone : DisableAndRemove(n, f, off, gone)
         \/ \E s, v : PutSecret(n, s, v)
         \/ DaemonReload(n)
         \/ \E f : EnableTimer(n, f) \/ DisableTimer(n, f)
         \/ \E a : SetActive(n, a)
  PROVE  SameHost(m)
<1>1. CASE UNCHANGED hostVars
  BY <1>1 DEF hostVars, SameHost
<1>2. CASE Useradd(n) \/ EnableLinger(n) \/ DisableLinger(n)
  BY <1>2 DEF Useradd, EnableLinger, DisableLinger, TypeOK, HostTypeOK, SameHost
<1>3. CASE TerminateUser(n) \/ Userdel(n)
  BY <1>3 DEF TerminateUser, Userdel, TypeOK, HostTypeOK, SameHost
<1>4. CASE \E f, c : PutFile(n, f, c)
  BY <1>4 DEF PutFile, TypeOK, HostTypeOK, SameHost
<1>5. CASE \E gone : RemoveFiles(n, gone)
  BY <1>5 DEF RemoveFiles, TypeOK, HostTypeOK, SameHost
<1>6. CASE \E f, off, gone : DisableAndRemove(n, f, off, gone)
  BY <1>6 DEF DisableAndRemove, TypeOK, HostTypeOK, SameHost
<1>7. CASE \E s, v : PutSecret(n, s, v)
  BY <1>7 DEF PutSecret, TypeOK, HostTypeOK, SameHost
<1>8. CASE DaemonReload(n) \/ \E a : SetActive(n, a)
  BY <1>8 DEF DaemonReload, SetActive, TypeOK, HostTypeOK, SameHost
<1>9. CASE \E f : EnableTimer(n, f) \/ DisableTimer(n, f)
  BY <1>9 DEF EnableTimer, DisableTimer, TypeOK, HostTypeOK, SameHost
<1> QED
  BY <1>1, <1>2, <1>3, <1>4, <1>5, <1>6, <1>7, <1>8, <1>9

LEMMA DeployOwn ==
  ASSUME SafeInv, NEW p \in Proc, DeployStep(p), NEW n \in Foreign
  PROVE  SameHost(n)
<1>1. n \in Name /\ user[n] = "foreign"
  BY HostAssumption DEF SafeInv, ForeignKept
<1>2. CASE UNCHANGED hostVars
  BY <1>2 DEF hostVars, SameHost
<1>3. ASSUME pc[p] \in InDeploy
      PROVE  name[p] \in Name
  BY <1>3, Facts, DesiredType
<1>4. ASSUME pc[p] \in InDeploy \ {"useradd"}
      PROVE  name[p] \in Name /\ n \in Name \ {name[p]}
  BY <1>1, <1>3, <1>4, Facts DEF Accounts
<1>5. CASE CreateUser(p)
  <2>1. CASE Useradd(name[p])
    <3>1. name[p] \in Name /\ n \in Name \ {name[p]}
      BY <1>1, <1>3, <1>5, <2>1 DEF CreateUser, InDeploy, Useradd
    <3> QED
      BY <2>1, <3>1, CommandLocal, Facts
  <2> QED
    BY <1>2, <1>5, <2>1 DEF CreateUser, Fails
<1>6. CASE CreateUserLinger(p)
  <2>1. name[p] \in Name /\ n \in Name \ {name[p]}
    BY <1>4, <1>6 DEF CreateUserLinger, InDeploy, Deploying
  <2> QED
    BY <1>6, <2>1, CommandLocal, Facts DEF CreateUserLinger, Fails
<1>7. CASE WriteQuadletFile(p)
  <2>1. name[p] \in Name /\ n \in Name \ {name[p]}
    BY <1>4, <1>7 DEF WriteQuadletFile, InDeploy, Deploying
  <2> QED
    BY <1>7, <2>1, CommandLocal, Facts DEF WriteQuadletFile, Fails
<1>8. CASE PruneUserUnit(p)
  <2>1. name[p] \in Name /\ n \in Name \ {name[p]}
    BY <1>4, <1>8 DEF PruneUserUnit, InDeploy, Deploying
  <2> QED
    BY <1>8, <2>1, CommandLocal, Facts DEF PruneUserUnit
<1>9. CASE CreatePodmanSecret(p)
  <2>1. name[p] \in Name /\ n \in Name \ {name[p]}
    BY <1>4, <1>9 DEF CreatePodmanSecret, InDeploy, Deploying
  <2> QED
    BY <1>9, <2>1, CommandLocal, Facts DEF CreatePodmanSecret, Fails
<1>10. CASE ReloadUser(p)
  <2>1. name[p] \in Name /\ n \in Name \ {name[p]}
    BY <1>4, <1>10 DEF ReloadUser, InDeploy, Deploying
  <2> QED
    BY <1>10, <2>1, CommandLocal, Facts DEF ReloadUser, Fails
<1>11. CASE EnableOneTimer(p)
  <2>1. name[p] \in Name /\ n \in Name \ {name[p]}
    BY <1>4, <1>11 DEF EnableOneTimer, InDeploy, Deploying
  <2> QED
    BY <1>11, <2>1, CommandLocal, Facts DEF EnableOneTimer, Fails
<1>12. CASE Restart(p)
  <2>1. name[p] \in Name /\ n \in Name \ {name[p]}
    BY <1>4, <1>12 DEF Restart, InDeploy, Deploying
  <2> QED
    BY <1>12, <2>1, CommandLocal, Facts DEF Restart, RestartService, RestartServiceFails
<1>13. CASE NextName(p) \/ SpecChanged(p) \/ WaitForUserManager(p) \/ ListUserUnits(p)
          \/ PruneDone(p) \/ SaveHash(p)
  BY <1>2, <1>13 DEF NextName, SpecChanged, WaitForUserManager, ListUserUnits, PruneDone,
     SaveHash
<1> QED
  BY <1>5, <1>6, <1>7, <1>8, <1>9, <1>10, <1>11, <1>12, <1>13 DEF DeployStep

LEMMA CleanupOwn ==
  ASSUME SafeInv, NEW p \in Proc, CleanupStep(p), NEW n \in Foreign
  PROVE  SameHost(n)
<1>1. n \in Name /\ user[n] = "foreign"
  BY HostAssumption DEF SafeInv, ForeignKept
<1>2. CASE UNCHANGED hostVars
  BY <1>2 DEF hostVars, SameHost
<1>3. ASSUME pc[p] \in InCleanup \ {"unhash"}
      PROVE  name[p] \in Name /\ n \in Name \ {name[p]}
  BY <1>1, <1>3, Facts DEF Accounts, NameOK, TypeOK
<1>4. CASE CleanupTimer(p)
  <2>1. name[p] \in Name /\ n \in Name \ {name[p]}
    BY <1>3, <1>4 DEF CleanupTimer, InCleanup
  <2> QED
    BY <1>4, <2>1, CommandLocal, Facts DEF CleanupTimer, Fails
<1>5. CASE CleanupStop(p)
  <2>1. name[p] \in Name /\ n \in Name \ {name[p]}
    BY <1>3, <1>5 DEF CleanupStop, InCleanup
  <2> QED
    BY <1>5, <2>1, CommandLocal, Facts DEF CleanupStop, StopService, StopServiceFails
<1>6. CASE RemoveAllQuadlets(p)
  <2>1. name[p] \in Name /\ n \in Name \ {name[p]}
    BY <1>3, <1>6 DEF RemoveAllQuadlets, InCleanup
  <2> QED
    BY <1>6, <2>1, CommandLocal, Facts DEF RemoveAllQuadlets
<1>7. CASE DeleteUserNoLinger(p)
  <2>1. name[p] \in Name /\ n \in Name \ {name[p]}
    BY <1>3, <1>7 DEF DeleteUserNoLinger, InCleanup
  <2> QED
    BY <1>7, <2>1, CommandLocal, Facts DEF DeleteUserNoLinger, Fails
<1>8. CASE DeleteUserTerminate(p)
  <2>1. name[p] \in Name /\ n \in Name \ {name[p]}
    BY <1>3, <1>8 DEF DeleteUserTerminate, InCleanup
  <2> QED
    BY <1>8, <2>1, CommandLocal, Facts DEF DeleteUserTerminate, Fails
<1>9. CASE DeleteUser(p)
  <2>1. name[p] \in Name /\ n \in Name \ {name[p]}
    BY <1>3, <1>9 DEF DeleteUser, InCleanup
  <2> QED
    BY <1>9, <2>1, CommandLocal, Facts DEF DeleteUser, Fails
<1>10. CASE StartCleanup(p) \/ CleanupName(p) \/ RemoveHash(p) \/ FinishCleanup(p)
  BY <1>2, <1>10 DEF StartCleanup, CleanupName, RemoveHash, FinishCleanup
<1> QED
  BY <1>4, <1>5, <1>6, <1>7, <1>8, <1>9, <1>10 DEF CleanupStep

\* A hash is written by saveHash only, cut short or whole, and taken away otherwise.
LEMMA HashSteps ==
  ASSUME SafeInv, [Next]_vars, NEW n \in Name, hash'[n] \in Hashes, hash'[n] # hash[n]
  PROVE  \E p \in Proc : /\ pc[p] = "enable" /\ work[p] = {} /\ n = name[p]
                         /\ hash'[n] = HashOf(D(p)) /\ UNCHANGED hostVars
<1>1. hash'[n] # NoHash /\ hash'[n] # TornHash /\ hash' # hash /\ TypeOK
  BY ReconcileAssumption DEF SafeInv, TypeInv
<1>2. Next
  BY <1>1 DEF vars
<1>3. ~Push /\ ~RemoveClone /\ ~\E m \in Name : Redeploy(m)
  BY <1>1 DEF Push, RemoveClone, Redeploy, TypeOK
<1>4. PICK p \in Proc : SyncStep(p) \/ Crash(p)
  BY <1>2, <1>3 DEF Next
<1>5. ~Return(p) /\ ~Crash(p)
  BY <1>1 DEF Return, Crash, TypeOK
<1>6. ~Prepare(p)
  BY <1>1 DEF Prepare, Lock, LockBusy, GitSync, Git, BuildDesired, ManagedUsers, Move
<1>7. CASE CleanupStep(p)
  <2>1. ~RemoveHash(p)
    BY <1>1 DEF RemoveHash, TypeOK
  <2> QED
    BY <1>1, <1>7, <2>1 DEF CleanupStep, StartCleanup, CleanupName, CleanupTimer, CleanupStop,
       RemoveAllQuadlets, DeleteUserNoLinger, DeleteUserTerminate, DeleteUser, FinishCleanup,
       Move, Iterate, Record
<1>8. CASE DeployStep(p)
  <2>1. SaveHash(p)
    BY <1>1, <1>8 DEF DeployStep, NextName, CreateUser, CreateUserLinger, SpecChanged,
       WriteQuadletFile, WaitForUserManager, ListUserUnits, PruneUserUnit, PruneDone,
       CreatePodmanSecret, ReloadUser, EnableOneTimer, Restart,
       Move, MoveWith, Iterate, Record, Abort
  <2> QED
    BY <1>1, <2>1 DEF SaveHash, TypeOK
<1> QED
  BY <1>4, <1>5, <1>6, <1>7, <1>8 DEF SyncStep

LEMMA StepHash ==
  ASSUME SafeInv, [Next]_vars, NEW n \in Name, hash'[n] \in Hashes, hash'[n] # hash[n]
  PROVE  /\ InPlace(n, hash'[n])
         /\ \A f \in FilesOf(hash'[n]) : loaded[n][f] = hash'[n].files[f]
<1>1. PICK p \in Proc : /\ pc[p] = "enable" /\ work[p] = {} /\ n = name[p]
                        /\ hash'[n] = HashOf(D(p)) /\ UNCHANGED hostVars
  BY HashSteps
<1>2. FilesOf(hash'[n]) = FilesOf(D(p)) /\ SecretsOf(hash'[n]) = SecretsOf(D(p))
  BY <1>1 DEF HashOf, FilesOf, SecretsOf
<1>3. hash'[n].files = D(p).files /\ hash'[n].secrets = D(p).secrets
  BY <1>1 DEF HashOf
<1> QED
  BY <1>1, <1>2, <1>3, Facts DEF InPlace, Accounts, Placed, InDeploy, Deploying

LEMMA StepDelete ==
  ASSUME SafeInv, [Next]_vars, NEW n \in Name, user[n] = "managed", user'[n] # "managed"
  PROVE  LET seen == IF cut = "no" THEN head ELSE repo
         IN  Build[seen] # Invalid /\ Build[seen][n] = NoSpec
<1>1. user' # user /\ TypeOK /\ CloneOK
  BY DEF SafeInv, TypeInv
<1>2. Next /\ ~Push /\ ~RemoveClone /\ ~\E m \in Name : Redeploy(m)
  BY <1>1 DEF vars, hostVars, Push, RemoveClone, Redeploy
<1>3. PICK p \in Proc : SyncStep(p) \/ Crash(p)
  BY <1>2 DEF Next
<1>4. pc[p] = "userdel" /\ n = name[p]
  BY <1>1, <1>3, AccountSteps DEF Useradd, Userdel, TypeOK, HostTypeOK
<1>5. n \in current[p] \ Listed(desired[p])
  BY <1>4, Facts DEF NameOK, InCleanup
<1>6. Build[repo] # Invalid /\ Build[repo][n] = NoSpec
  BY <1>4, <1>5, Facts DEF LockOK, Applying, Syncing, Listed
<1> QED
  BY <1>1, <1>6 DEF CloneOK

LEMMA StepForeignHost ==
  ASSUME SafeInv, [Next]_vars, NEW n \in Foreign
  PROVE  SameHost(n)
<1>1. CASE UNCHANGED hostVars
  BY <1>1 DEF hostVars, SameHost
<1>2. CASE UNCHANGED vars \/ Push \/ RemoveClone \/ \E m \in Name : Redeploy(m)
  BY <1>1, <1>2 DEF vars, Push, RemoveClone, Redeploy
<1>3. ASSUME NEW p \in Proc, Crash(p)
      PROVE  SameHost(n)
  <2>1. CASE pc[p] = "write" /\ \E f \in work[p] : PutFile(name[p], f, Torn)
    <3>1. n \in Name /\ user[n] = "foreign"
      BY HostAssumption DEF SafeInv, ForeignKept
    <3>2. name[p] \in Name /\ user[name[p]] = "managed"
      BY <2>1, Facts, DesiredType DEF Accounts, InDeploy, Deploying
    <3> QED
      BY <2>1, <3>1, <3>2, CommandLocal, Facts
  <2> QED
    BY <1>1, <1>3, <2>1 DEF Crash
<1>4. ASSUME NEW p \in Proc, Prepare(p) \/ Return(p)
      PROVE  SameHost(n)
  BY <1>1, <1>4 DEF Prepare, Lock, LockBusy, GitSync, BuildDesired, ManagedUsers, Return
<1> QED
  BY <1>2, <1>3, <1>4, DeployOwn, CleanupOwn DEF Next, SyncStep

-----------------------------------------------------------------------------
(* The theorems.                                                           *)

\* The inductive invariant: every process past the lock holds it and applies the
\* work tree; the accounts, hashes, files and secrets are those that the
\* place it is at in the loops promises, and its errors are about names it is
\* through with.
THEOREM SafeCorrect == Spec => []SafeInv
BY InitSafe, StepSafe, PTL DEF Spec

\* flock makes Syncs exclusive, from the git commands to the last cleanup: no step
\* of one is ever taken with another's checkout.
THEOREM CheckedOut == Spec => []DesiredIsCheckedOut
<1>1. SafeInv => DesiredIsCheckedOut
  BY Facts DEF DesiredIsCheckedOut, LockOK, Applying, Syncing
<1> QED
  BY <1>1, SafeCorrect, PTL

\* The error that Sync returns names every account it left undone, whatever
\* commands failed and whatever was pushed or redeployed meanwhile.
THEOREM Reports == Spec => []SyncReport
<1>1. SafeInv => SyncReport
  BY Facts DEF SyncReport, Reported, Deployed, Listed, DeployLoop, CleanupLoop, InDeploy,
     Deploying, InCleanup
<1> QED
  BY <1>1, SafeCorrect, PTL

\* An account that was there when Sync listed the group, and that it has an error for,
\* is never one that specChanged would skip next time.
THEOREM Retried == Spec => []FailureIsRetried
<1>1. SafeInv => FailureIsRetried
  BY Facts DEF FailureIsRetried, Errors
<1> QED
  BY <1>1, SafeCorrect, PTL

\* saveHash comes last: no crash, failure or other process gets a whole hash stored
\* for content that is not in place and loaded.
THEOREM HashAfterDeploy == Spec => HashOnlyAfterDeploy
<1>1. SafeInv /\ [Next]_vars =>
        [\A n \in Name :
           hash'[n] \in Hashes /\ hash'[n] # hash[n] =>
             /\ InPlace(n, hash'[n])
             /\ \A f \in FilesOf(hash'[n]) : loaded[n][f] = hash'[n].files[f]]_vars
  BY StepHash
<1> QED
  BY <1>1, SafeCorrect, PTL DEF Spec, HashOnlyAfterDeploy

\* deleteUser is reached for no account that the valid work tree lists, which is that
\* of the commit at HEAD until a checkout is cut short.
THEOREM UnlistedDeleted == Spec => OnlyUnlistedDeleted
<1>1. SafeInv /\ [Next]_vars =>
        [\A n \in Name :
           user[n] = "managed" /\ user'[n] # "managed" =>
             LET seen == IF cut = "no" THEN head ELSE repo
             IN  Build[seen] # Invalid /\ Build[seen][n] = NoSpec]_vars
  BY StepDelete
<1> QED
  BY <1>1, SafeCorrect, PTL DEF Spec, OnlyUnlistedDeleted

\* Because createUser must succeed before anything is written, an account outside
\* the managed group keeps its home, store, units and service.
THEOREM ForeignSafe == Spec => ForeignUntouched
<1>1. SafeInv /\ [Next]_vars =>
        [\A n \in Foreign :
           UNCHANGED <<user[n], linger[n], disk[n], loaded[n], secrets[n], enabled[n],
                       active[n]>>]_vars
  BY StepForeignHost DEF SameHost
<1> QED
  BY <1>1, SafeCorrect, PTL DEF Spec, ForeignUntouched
=============================================================================
