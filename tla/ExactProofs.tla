------------------------------ MODULE ExactProofs ------------------------------
(***************************************************************************)
(* Where no command of Sync fails and no process dies, a Sync that ends    *)
(* has made each listed account exactly the desired one, whatever requests *)
(* start and stop services or take hashes away meanwhile.                  *)
(***************************************************************************)
EXTENDS DaemonProofs

\* Only the commands of requests may fail.
SyncNeverFails == Faulty \subseteq {"request", "repull"}

\* The holder of the lock is at the name n, at one of these labels.
At(n, labels) == lock \in Proc /\ pc[lock] \in labels /\ name[lock] = n

Busy == Deploying \cup {"restart"} \cup InCleanup

\* All that a deploy does for d has been done for n, but for the service ...
Owned(n, d) ==
  /\ \A f \in FilesOf(d) : disk[n][f] = d.files[f]
  /\ \A s \in SecretsOf(d) : secrets[n][s] = d.secrets[s]
  /\ linger[n]
  /\ UserUnitFiles(n) = FilesOf(d) \cap Unit
  /\ enabled[n] = FilesOf(d) \cap Timer
  /\ loaded[n] = disk[n]

\* ... which runs what was loaded, unless a request has stopped it.
Running(n) == active[n] \in {loaded[n], Stopped}

\* An account that no Sync is at work on: what a deploy left, or nothing.
Rest(n) ==
  /\ user[n] = "none" => disk[n] = NoFiles /\ enabled[n] = {}
  /\ user[n] # "managed" => hash[n] = NoHash \/ At(n, {"unhash"})
  /\ user[n] = "managed" /\ ~At(n, Busy) =>
       /\ hash[n] \in Hashes => Owned(n, hash[n]) /\ Running(n)
       /\ enabled[n] \subseteq UserUnitFiles(n)
       /\ linger[n] \/ At(n, {"linger"})

\* What p, at n, has done of deploying d or of removing the account.
HalfDone(p, n, d) ==
  /\ pc[p] = "linger" => hash[n] = NoHash
  /\ pc[p] \in Deploying => linger[n] /\ enabled[n] \subseteq UserUnitFiles(n)
  /\ pc[p] = "prune" => UserUnitFiles(n) = (FilesOf(d) \cap Unit) \cup work[p]
  /\ pc[p] \in {"secrets", "enable"} => UserUnitFiles(n) = FilesOf(d) \cap Unit
  /\ pc[p] = "enable" =>
       loaded[n] = disk[n] /\ (FilesOf(d) \cap Timer) \ work[p] \subseteq enabled[n]
  /\ pc[p] = "restart" => Owned(n, d) /\ hash[n] \in {HashOf(d), NoHash}
  /\ pc[p] \in {"terminate", "userdel"} => ~linger[n]
  /\ pc[p] = "userdel" => loaded[n] = NoFiles /\ active[n] = Stopped
  /\ pc[p] = "unhash" => user[n] = "none"

\* The names p is through with.
Through(p) ==
  pc[p] \in DeployLoop \cup CleanupLoop \cup {"done"} =>
    \A n \in Listed(desired[p]) \ errs[p] :
      \/ pc[p] \in DeployLoop /\ n \in todo[p]
      \/ pc[p] \in InDeploy /\ n = name[p]
      \/ Owned(n, desired[p][n]) /\ Running(n)

ExactInv ==
  /\ \A n \in Name : Rest(n)
  /\ \A p \in Proc : HalfDone(p, name[p], D(p)) /\ Through(p)

-----------------------------------------------------------------------------
(* Steps that leave accounts alone.                                        *)

LEMMA OwnedKept ==
  ASSUME NEW n, NEW d, SameHost(n)
  PROVE  /\ Owned(n, d) => Owned(n, d)'
         /\ Running(n) => Running(n)'
         /\ UserUnitFiles(n)' = UserUnitFiles(n)
BY DEF SameHost, Owned, Running, UserUnitFiles, FilesOf, SecretsOf

\* An account that is left alone, by whoever is at it.
LEMMA RestKept ==
  ASSUME NEW n \in Name, Rest(n), SameHost(n), hash'[n] = hash[n],
         At(n, Busy) => At(n, Busy)',
         At(n, {"unhash"}) => At(n, {"unhash"})',
         At(n, {"linger"}) => At(n, {"linger"})'
  PROVE  Rest(n)'
<1>1. hash[n] \in Hashes /\ Owned(n, hash[n]) => Owned(n, hash[n])'
  BY OwnedKept
<1>2. Running(n) => Running(n)'
  BY OwnedKept
<1>3. UserUnitFiles(n)' = UserUnitFiles(n)
  BY OwnedKept
<1> QED
  BY <1>1, <1>2, <1>3 DEF Rest, SameHost

\* A step that changes no account and no hash, by a process that is at no account, or
\* has not got the lock.
LEMMA QuietRests ==
  ASSUME TypeOK, ExactInv, NEW q \in Proc, Local(q), UNCHANGED <<hostVars, hash>>,
         \/ lock # q /\ lock' = lock
         \/ lock \in {q, Free} /\ pc[q] \notin Busy \cup {"linger"}
  PROVE  \A n \in Name : Rest(n)'
<1> SUFFICES ASSUME NEW n \in Name PROVE Rest(n)'
  OBVIOUS
<1>1. Rest(n) /\ SameHost(n) /\ hash'[n] = hash[n]
  BY DEF ExactInv, SameHost, hostVars
<1>2. CASE lock # q /\ lock' = lock
  <2>1. lock \in Proc => lock \in Proc \ {q}
    BY <1>2
  <2>2. lock \in Proc => pc'[lock'] = pc[lock] /\ name'[lock'] = name[lock]
    BY <1>2, <2>1 DEF Local
  <2>3. /\ At(n, Busy) => At(n, Busy)'
        /\ At(n, {"unhash"}) => At(n, {"unhash"})'
        /\ At(n, {"linger"}) => At(n, {"linger"})'
    BY <1>2, <2>2 DEF At, Busy, Deploying, InCleanup
  <2> QED
    BY <1>1, <2>3, RestKept
<1>3. CASE lock \in {q, Free} /\ pc[q] \notin Busy \cup {"linger"}
  <2>1. ~At(n, Busy) /\ ~At(n, {"unhash"}) /\ ~At(n, {"linger"})
    BY <1>3, ReconcileAssumption DEF At, Busy, InCleanup
  <2> QED
    BY <1>1, <2>1, RestKept
<1> QED
  BY <1>2, <1>3

\* Another process than the one that steps is not in its loops, or nothing happens.
LEMMA OthersExact ==
  ASSUME SafeInv, ExactInv, NEW q \in Proc, NEW p \in Proc \ {q}, Local(q),
         lock = q \/ UNCHANGED <<hostVars, hash>>
  PROVE  HalfDone(p, name[p], D(p))' /\ Through(p)'
<1>1. /\ pc'[p] = pc[p] /\ desired'[p] = desired[p] /\ todo'[p] = todo[p]
      /\ name'[p] = name[p] /\ work'[p] = work[p] /\ errs'[p] = errs[p]
  BY DEF Local
<1>2. CASE lock = q
  <2>1. pc[p] \in {"idle", "failed"}
    BY <1>2, Facts DEF LockOK, Syncing
  <2> QED
    BY <1>1, <2>1 DEF HalfDone, Through, DeployLoop, CleanupLoop, InDeploy, Deploying, InCleanup
<1>3. CASE UNCHANGED <<hostVars, hash>>
  <2>1. UNCHANGED <<user, linger, disk, loaded, secrets, enabled, active, hash>>
    BY <1>3 DEF hostVars
  <2>2. HalfDone(p, name[p], D(p)) /\ Through(p)
    BY DEF ExactInv
  <2>3. D(p)' = D(p)
    BY <1>1 DEF D
  <2>4. HalfDone(p, name[p], D(p))'
    BY <1>1, <2>1, <2>2, <2>3 DEF HalfDone, Owned, UserUnitFiles, FilesOf, SecretsOf
  <2>5. Through(p)'
    BY <1>1, <2>1, <2>2 DEF Through, Listed, Owned, Running, UserUnitFiles, FilesOf, SecretsOf
  <2> QED
    BY <2>4, <2>5
<1> QED
  BY <1>2, <1>3

-----------------------------------------------------------------------------
(* Steps at an account.                                                    *)

\* A step within a deployment or a removal: what remains to be shown is about the
\* account at hand.
LEMMA StepAt ==
  ASSUME SafeInv, ExactInv, NEW q \in Proc, lock = q, lock' = q, Local(q), Kept(q),
         NEW n0 \in Name, NEW d, n0 = name[q], d = D(q),
         \/ pc[q] \in InDeploy /\ pc'[q] \in InDeploy \cup {"next"}
         \/ pc[q] \in InCleanup /\ pc'[q] \in CleanupLoop,
         errs[q] \subseteq errs'[q],
         \A n \in Name \ {n0} : SameHost(n) /\ hash'[n] = hash[n],
         Rest(n0)', HalfDone(q, n0, d)',
         pc'[q] = "next" => n0 \in errs'[q] \/ (Owned(n0, d) /\ Running(n0))'
  PROVE  ExactInv'
<1>1. ASSUME NEW n \in Name, n # n0 PROVE Rest(n)'
  <2>1. Rest(n) /\ SameHost(n) /\ hash'[n] = hash[n]
    BY <1>1 DEF ExactInv
  <2>2. ~At(n, Busy) /\ ~At(n, {"unhash"}) /\ ~At(n, {"linger"})
    BY <1>1 DEF At
  <2> QED
    BY <2>1, <2>2, RestKept
<1>2. name'[q] = n0 /\ D(q)' = d /\ desired'[q] = desired[q] /\ todo'[q] = todo[q]
  BY DEF Kept, D
<1>3. HalfDone(q, name[q], D(q))'
  BY <1>2
<1>4. Through(q)'
  <2> SUFFICES ASSUME NEW n \in Listed(desired[q]), n \notin errs'[q],
                      ~(pc'[q] \in DeployLoop /\ n \in todo[q]),
                      ~(pc'[q] \in InDeploy /\ n = n0)
               PROVE  Owned(n, desired[q][n])' /\ Running(n)'
    BY <1>2 DEF Through, Listed
  <2>1. CASE n = n0
    <3>1. n0 \in Listed(desired[q]) => pc[q] \notin InCleanup
      BY Facts DEF NameOK
    <3>2. pc'[q] = "next"
      BY <2>1, <3>1
    <3>3. d = desired[q][n0]
      BY DEF D
    <3> QED
      BY <1>2, <2>1, <3>2, <3>3
  <2>2. CASE n # n0
    <3>1. Owned(n, desired[q][n]) /\ Running(n)
      <4>1. /\ pc[q] \in DeployLoop \cup CleanupLoop
            /\ pc[q] \in DeployLoop => pc'[q] \in DeployLoop
            /\ n \notin errs[q]
        BY DEF DeployLoop, CleanupLoop, InDeploy, Deploying, InCleanup
      <4>2. Through(q)
        BY DEF ExactInv
      <4> QED
        BY <2>2, <4>1, <4>2 DEF Through
    <3>2. SameHost(n)
      BY <2>2 DEF Listed
    <3>3. PICK e : e = desired[q][n]
      OBVIOUS
    <3>4. Owned(n, e)' /\ Running(n)'
      BY <3>1, <3>2, <3>3, OwnedKept
    <3> QED
      BY <1>2, <3>3, <3>4
  <2> QED
    BY <2>1, <2>2
<1>5. \A p \in Proc \ {q} : HalfDone(p, name[p], D(p))' /\ Through(p)'
  BY OthersExact
<1> QED
  BY <1>1, <1>3, <1>4, <1>5 DEF ExactInv

LEMMA NoFailure ==
  ASSUME SyncNeverFails
  PROVE  \A cmd : cmd \notin {"request", "repull"} => ~MayFail(cmd)
BY DEF SyncNeverFails, MayFail

\* The account that a step of a deployment starts from.
LEMMA DeployAt ==
  ASSUME SafeInv, TypeOK', ExactInv, NEW q \in Proc, DeployStep(q), pc[q] \in InDeploy
  PROVE  \E n0 \in Name, d \in DesiredState :
           /\ n0 = name[q] /\ d = D(q) /\ lock = q
           /\ Rest(n0) /\ HalfDone(q, n0, d)
           /\ user[n0] = "managed" \/ pc[q] = "useradd"
           /\ Local(q) /\ TypeOK /\ HostTypeOK /\ HostTypeOK'
<1>1. name[q] \in Name /\ D(q) \in DesiredState
  BY Facts, DesiredType
<1>2. lock = q
  BY Facts DEF LockOK, Syncing, InDeploy, Deploying
<1>3. Local(q) /\ TypeOK /\ HostTypeOK /\ HostTypeOK'
  BY Facts, EveryLocal DEF SyncStep, TypeOK
<1>4. user[name[q]] = "managed" \/ pc[q] = "useradd"
  BY Facts DEF Accounts
<1> QED
  BY <1>1, <1>2, <1>3, <1>4 DEF ExactInv

\* Of an account that is being worked at Rest says nothing but that it is there.
LEMMA RestBusy ==
  ASSUME NEW q \in Proc, lock' = q, NEW n0, name'[q] = n0, pc'[q] \in Busy,
         user'[n0] = "managed"
  PROVE  Rest(n0)'
BY DEF Rest, At

\* createUser leaves an empty home, with nothing to be in place yet.
LEMMA CreateUserExact ==
  ASSUME SafeInv, TypeOK', ExactInv, SyncNeverFails, NEW q \in Proc, CreateUser(q)
  PROVE  ExactInv'
<1>0. pc[q] = "useradd"
  BY DEF CreateUser
<1>1. PICK n0 \in Name, d \in DesiredState :
        /\ n0 = name[q] /\ d = D(q) /\ lock = q
        /\ Rest(n0) /\ HalfDone(q, n0, d)
        /\ Local(q) /\ TypeOK /\ HostTypeOK /\ HostTypeOK'
  BY <1>0, DeployAt DEF DeployStep, InDeploy
<1>2. ~At(n0, {"unhash"}) /\ ~At(n0, Busy) /\ ~At(n0, {"linger"})
  BY <1>0, <1>1 DEF At, Busy, Deploying, InCleanup
<1>3. CASE Useradd(n0) /\ Move(q, "linger")
  <2>1. /\ Kept(q) /\ UNCHANGED <<outer, hash>> /\ pc'[q] = "linger" /\ errs'[q] = errs[q]
    BY <1>1, <1>3, MoveFacts DEF Label, InDeploy
  <2>2. /\ user[n0] = "none" /\ user'[n0] = "managed" /\ UNCHANGED <<disk, enabled>>
        /\ lock' = lock
    BY <1>1, <1>3, <2>1 DEF Useradd, HostTypeOK, outer
  <2>3. disk[n0] = NoFiles /\ enabled[n0] = {} /\ hash[n0] = NoHash
    BY <1>1, <1>2, <2>2 DEF Rest
  <2>4. At(n0, {"linger"})' /\ NoHash \notin Hashes
    BY <1>1, <2>1, <2>2, ReconcileAssumption DEF At, Kept
  <2>5. Rest(n0)'
    BY <2>1, <2>2, <2>3, <2>4 DEF Rest
  <2>6. HalfDone(q, n0, d)'
    BY <2>1, <2>3 DEF HalfDone, Deploying
  <2>7. \A n \in Name \ {n0} : SameHost(n) /\ hash'[n] = hash[n]
    BY <1>1, <1>3, <2>1, CommandLocal
  <2> QED
    BY <1>0, <1>1, <2>1, <2>2, <2>5, <2>6, <2>7, StepAt DEF InDeploy
<1>4. CASE UNCHANGED hostVars /\ Abort(q)
  <2>1. /\ Kept(q) /\ UNCHANGED <<outer, hash>> /\ pc'[q] = "next"
        /\ errs'[q] = errs[q] \cup {n0}
    BY <1>1, <1>4, RecordFacts DEF Abort, Label
  <2>2. lock' = lock /\ \A n \in Name : SameHost(n) /\ hash'[n] = hash[n]
    BY <1>4, <2>1 DEF outer, hostVars, SameHost
  <2>3. Rest(n0)'
    BY <1>1, <1>2, <2>2, RestKept
  <2>4. HalfDone(q, n0, d)'
    BY <2>1 DEF HalfDone, Deploying
  <2> QED
    BY <1>0, <1>1, <2>1, <2>2, <2>3, <2>4, StepAt DEF InDeploy
<1> QED
  BY <1>1, <1>3, <1>4, NoFailure DEF CreateUser, Fails

LEMMA CreateUserLingerExact ==
  ASSUME SafeInv, TypeOK', ExactInv, SyncNeverFails, NEW q \in Proc, CreateUserLinger(q)
  PROVE  ExactInv'
<1>0. pc[q] = "linger"
  BY DEF CreateUserLinger
<1>1. PICK n0 \in Name, d \in DesiredState :
        /\ n0 = name[q] /\ d = D(q) /\ lock = q
        /\ Rest(n0) /\ HalfDone(q, n0, d) /\ user[n0] = "managed"
        /\ Local(q) /\ TypeOK /\ HostTypeOK /\ HostTypeOK'
  BY <1>0, DeployAt DEF DeployStep, InDeploy
<1>2. EnableLinger(n0) /\ Move(q, "check")
  BY <1>1, NoFailure DEF CreateUserLinger, Fails
<1>3. /\ Kept(q) /\ UNCHANGED <<outer, hash>> /\ pc'[q] = "check" /\ errs'[q] = errs[q]
  BY <1>1, <1>2, MoveFacts DEF Label, InDeploy
<1>4. linger'[n0] = TRUE /\ UNCHANGED <<user, disk, enabled>> /\ lock' = lock
  BY <1>1, <1>2, <1>3 DEF EnableLinger, HostTypeOK, outer
<1>5. hash[n0] = NoHash /\ NoHash \notin Hashes
  BY <1>0, <1>1, ReconcileAssumption DEF HalfDone
<1>6. enabled[n0] \subseteq UserUnitFiles(n0)
  BY <1>0, <1>1 DEF Rest, At, Busy, Deploying, InCleanup
<1>7. Rest(n0)'
  BY <1>1, <1>3, <1>4, <1>5, <1>6 DEF Rest, UserUnitFiles
<1>8. HalfDone(q, n0, d)'
  BY <1>3 DEF HalfDone, Deploying
<1>9. \A n \in Name \ {n0} : SameHost(n) /\ hash'[n] = hash[n]
  BY <1>1, <1>2, <1>3, CommandLocal
<1> QED
  BY <1>0, <1>1, <1>3, <1>4, <1>7, <1>8, <1>9, StepAt DEF InDeploy

\* A name that is skipped is as its last deploy left it.
LEMMA SpecChangedExact ==
  ASSUME SafeInv, TypeOK', ExactInv, NEW q \in Proc, SpecChanged(q)
  PROVE  ExactInv'
<1>0. pc[q] = "check"
  BY DEF SpecChanged
<1>1. PICK n0 \in Name, d \in DesiredState :
        /\ n0 = name[q] /\ d = D(q) /\ lock = q
        /\ Rest(n0) /\ HalfDone(q, n0, d) /\ user[n0] = "managed"
        /\ Local(q) /\ TypeOK /\ HostTypeOK /\ HostTypeOK'
  BY <1>0, DeployAt DEF DeployStep, InDeploy
<1>2. ~At(n0, {"unhash"}) /\ ~At(n0, Busy) /\ ~At(n0, {"linger"})
  BY <1>0, <1>1 DEF At, Busy, Deploying, InCleanup
<1>3. UNCHANGED hostVars /\ \A n \in Name : SameHost(n)
  BY DEF SpecChanged, SameHost, hostVars
<1>4. CASE hash[n0] = HashOf(d) /\ Move(q, "next")
  <2>1. /\ Kept(q) /\ UNCHANGED <<outer, hash>> /\ pc'[q] = "next" /\ errs'[q] = errs[q]
    BY <1>1, <1>4, MoveFacts DEF Label
  <2>2. lock' = q
    BY <1>1, <2>1 DEF outer
  <2>3. Owned(n0, hash[n0]) /\ Running(n0)
    BY <1>1, <1>2, <1>4, HashOfType DEF Rest
  <2>4. Owned(n0, d)
    BY <1>4, <2>3 DEF Owned, HashOf, FilesOf, SecretsOf
  <2>5. (Owned(n0, d) /\ Running(n0))'
    BY <1>3, <2>3, <2>4, OwnedKept
  <2>6. Rest(n0)'
    BY <1>1, <1>2, <1>3, <2>1, RestKept
  <2>7. HalfDone(q, n0, d)'
    BY <2>1 DEF HalfDone, Deploying
  <2> QED
    BY <1>0, <1>1, <1>3, <2>1, <2>2, <2>5, <2>6, <2>7, StepAt DEF InDeploy
<1>5. CASE hash[n0] # HashOf(d)
  <2>1. /\ Kept(q) /\ UNCHANGED <<outer, hash>> /\ pc'[q] = "write" /\ errs'[q] = errs[q]
    BY <1>1, <1>5 DEF SpecChanged, Goto, Kept, TypeOK, outer
  <2>2. lock' = q /\ name'[q] = n0 /\ user'[n0] = "managed" /\ UNCHANGED <<linger, enabled, disk>>
    BY <1>1, <1>3, <2>1 DEF outer, Kept, hostVars
  <2>3. Rest(n0)'
    BY <2>1, <2>2, RestBusy DEF Busy, Deploying
  <2>4. linger[n0] /\ enabled[n0] \subseteq UserUnitFiles(n0)
    BY <1>1, <1>2 DEF Rest
  <2>5. HalfDone(q, n0, d)'
    BY <2>1, <2>2, <2>4 DEF HalfDone, UserUnitFiles
  <2> QED
    BY <1>0, <1>1, <1>3, <2>1, <2>2, <2>3, <2>5, StepAt DEF InDeploy, Deploying
<1> QED
  BY <1>1, <1>4, <1>5 DEF SpecChanged

\* A step of a deployment whose end is not reached yet.
LEMMA OnTheWay ==
  ASSUME SafeInv, ExactInv, NEW q \in Proc, lock = q, Local(q), Kept(q),
         UNCHANGED <<outer, hash>>,
         NEW n0 \in Name, NEW d, n0 = name[q], d = D(q),
         pc[q] \in InDeploy, pc'[q] \in Deploying, errs'[q] = errs[q],
         \A n \in Name \ {n0} : SameHost(n),
         user'[n0] = "managed", HalfDone(q, n0, d)'
  PROVE  ExactInv'
<1>1. lock' = q /\ name'[q] = n0
  BY DEF outer, Kept
<1>2. Rest(n0)'
  BY <1>1, RestBusy DEF Busy
<1>3. \A n \in Name \ {n0} : SameHost(n) /\ hash'[n] = hash[n]
  OBVIOUS
<1>4. pc'[q] \in InDeploy /\ pc'[q] # "next"
  BY DEF InDeploy, Deploying
<1> QED
  BY <1>1, <1>2, <1>3, <1>4, StepAt

LEMMA WriteQuadletFileExact ==
  ASSUME SafeInv, TypeOK', ExactInv, SyncNeverFails, NEW q \in Proc, WriteQuadletFile(q)
  PROVE  ExactInv'
<1>0. pc[q] = "write"
  BY DEF WriteQuadletFile
<1>1. PICK n0 \in Name, d \in DesiredState :
        /\ n0 = name[q] /\ d = D(q) /\ lock = q
        /\ Rest(n0) /\ HalfDone(q, n0, d) /\ user[n0] = "managed"
        /\ Local(q) /\ TypeOK /\ HostTypeOK /\ HostTypeOK'
  BY <1>0, DeployAt DEF DeployStep, InDeploy, Deploying
<1>2. PICK x \in work[q] : PutFile(n0, x, d.files[x]) /\ Iterate(q, x)
  BY <1>1, NoFailure DEF WriteQuadletFile, Fails
<1>3. /\ Kept(q) /\ UNCHANGED <<outer, hash>> /\ pc'[q] = "write" /\ errs'[q] = errs[q]
  BY <1>0, <1>1, <1>2, IterateFacts
<1>4. x \in File /\ d.files[x] # NoFile
  BY <1>0, <1>1, Facts DEF WorkOK, FilesOf
<1>5. /\ \A f \in File : disk'[n0][f] = disk[n0][f] \/ disk'[n0][f] # NoFile
      /\ UNCHANGED <<user, linger, enabled>>
  BY <1>1, <1>2, <1>4 DEF PutFile, HostTypeOK, Files
<1>6. linger[n0] /\ enabled[n0] \subseteq UserUnitFiles(n0)
  BY <1>0, <1>1 DEF HalfDone, Deploying
<1>7. UserUnitFiles(n0) \subseteq UserUnitFiles(n0)'
  BY <1>5, HostAssumption DEF UserUnitFiles
<1>8. HalfDone(q, n0, d)'
  BY <1>3, <1>5, <1>6, <1>7 DEF HalfDone
<1>9. \A n \in Name \ {n0} : SameHost(n)
  BY <1>1, <1>2, CommandLocal
<1> QED
  BY <1>0, <1>1, <1>3, <1>5, <1>8, <1>9, OnTheWay DEF InDeploy, Deploying

LEMMA WaitForUserManagerExact ==
  ASSUME SafeInv, TypeOK', ExactInv, SyncNeverFails, NEW q \in Proc, WaitForUserManager(q)
  PROVE  ExactInv'
<1>0. pc[q] = "write"
  BY DEF WaitForUserManager
<1>1. PICK n0 \in Name, d \in DesiredState :
        /\ n0 = name[q] /\ d = D(q) /\ lock = q
        /\ Rest(n0) /\ HalfDone(q, n0, d) /\ user[n0] = "managed"
        /\ Local(q) /\ TypeOK /\ HostTypeOK /\ HostTypeOK'
  BY <1>0, DeployAt DEF DeployStep, InDeploy, Deploying
<1>2. UNCHANGED hostVars /\ Move(q, "list")
  BY NoFailure DEF WaitForUserManager
<1>3. /\ Kept(q) /\ UNCHANGED <<outer, hash>> /\ pc'[q] = "list" /\ errs'[q] = errs[q]
  BY <1>1, <1>2, MoveFacts DEF Label, InDeploy, Deploying
<1>4. UNCHANGED <<user, linger, disk, enabled>> /\ \A n \in Name : SameHost(n)
  BY <1>2 DEF hostVars, SameHost
<1>5. linger[n0] /\ enabled[n0] \subseteq UserUnitFiles(n0)
  BY <1>0, <1>1 DEF HalfDone, Deploying
<1>6. HalfDone(q, n0, d)'
  BY <1>3, <1>4, <1>5 DEF HalfDone, UserUnitFiles
<1> QED
  BY <1>0, <1>1, <1>3, <1>4, <1>6, OnTheWay DEF InDeploy, Deploying

\* What is listed is what is there and not desired, and what is desired has been written.
LEMMA ListUserUnitsExact ==
  ASSUME SafeInv, TypeOK', ExactInv, SyncNeverFails, NEW q \in Proc, ListUserUnits(q)
  PROVE  ExactInv'
<1>0. pc[q] = "list"
  BY DEF ListUserUnits
<1>1. PICK n0 \in Name, d \in DesiredState :
        /\ n0 = name[q] /\ d = D(q) /\ lock = q
        /\ Rest(n0) /\ HalfDone(q, n0, d) /\ user[n0] = "managed"
        /\ Local(q) /\ TypeOK /\ HostTypeOK /\ HostTypeOK'
  BY <1>0, DeployAt DEF DeployStep, InDeploy, Deploying
<1>2. UNCHANGED hostVars /\ MoveWith(q, "prune", UserUnitFiles(n0) \ FilesOf(d))
  BY <1>1, NoFailure DEF ListUserUnits
<1>3. /\ Kept(q) /\ UNCHANGED <<outer, hash>> /\ pc'[q] = "prune" /\ errs'[q] = errs[q]
      /\ work'[q] = UserUnitFiles(n0) \ FilesOf(d)
  <2>1. UserUnitFiles(n0) \ FilesOf(d) \in SUBSET (File \cup Secret)
    BY HostAssumption DEF UserUnitFiles
  <2> QED
    BY <1>1, <1>2, <2>1, MoveWithFacts DEF Label, InDeploy, Deploying
<1>4. UNCHANGED <<user, linger, disk, enabled>> /\ \A n \in Name : SameHost(n)
  BY <1>2 DEF hostVars, SameHost
<1>5. linger[n0] /\ enabled[n0] \subseteq UserUnitFiles(n0)
  BY <1>0, <1>1 DEF HalfDone, Deploying
<1>6. FilesOf(d) \cap Unit \subseteq UserUnitFiles(n0)
  <2>1. \A f \in FilesOf(d) : disk[n0][f] = d.files[f]
    BY <1>0, <1>1, Facts DEF Placed, Deploying
  <2> QED
    BY <2>1 DEF FilesOf, UserUnitFiles
<1>7. UserUnitFiles(n0) \subseteq Unit /\ UserUnitFiles(n0)' = UserUnitFiles(n0)
  BY <1>4 DEF UserUnitFiles
<1>8. HalfDone(q, n0, d)'
  BY <1>3, <1>4, <1>5, <1>6, <1>7 DEF HalfDone
<1> QED
  BY <1>0, <1>1, <1>3, <1>4, <1>8, OnTheWay DEF InDeploy, Deploying

LEMMA PruneUserUnitExact ==
  ASSUME SafeInv, TypeOK', ExactInv, SyncNeverFails, NEW q \in Proc, PruneUserUnit(q)
  PROVE  ExactInv'
<1>0. pc[q] = "prune"
  BY DEF PruneUserUnit
<1>1. PICK n0 \in Name, d \in DesiredState :
        /\ n0 = name[q] /\ d = D(q) /\ lock = q
        /\ Rest(n0) /\ HalfDone(q, n0, d) /\ user[n0] = "managed"
        /\ Local(q) /\ TypeOK /\ HostTypeOK /\ HostTypeOK'
  BY <1>0, DeployAt DEF DeployStep, InDeploy, Deploying
<1>2. PICK x \in work[q] : DisableAndRemove(n0, x, TRUE, TRUE) /\ Iterate(q, x)
  <2>1. ~MayFail("disable") /\ ~MayFail("rm")
    BY NoFailure
  <2>2. PICK x \in work[q], off \in BOOLEAN, gone \in BOOLEAN :
          /\ off = TRUE /\ gone = TRUE
          /\ DisableAndRemove(n0, x, off, gone) /\ Iterate(q, x)
    BY <1>1, <2>1 DEF PruneUserUnit
  <2> QED
    BY <2>2
<1>3. /\ Kept(q) /\ UNCHANGED <<outer, hash>> /\ pc'[q] = "prune" /\ errs'[q] = errs[q]
      /\ work'[q] = work[q] \ {x}
  BY <1>0, <1>1, <1>2, IterateFacts
<1>4. work[q] \subseteq Unit \ FilesOf(d)
  BY <1>0, <1>1, Facts DEF WorkOK
<1>5. /\ enabled'[n0] = enabled[n0] \ {x} /\ disk'[n0] = [disk[n0] EXCEPT ![x] = NoFile]
      /\ UNCHANGED <<user, linger>>
  BY <1>1, <1>2 DEF DisableAndRemove, HostTypeOK
<1>6. UserUnitFiles(n0)' = UserUnitFiles(n0) \ {x}
  BY <1>1, <1>4, <1>5, HostAssumption DEF UserUnitFiles, HostTypeOK, Files
<1>7. /\ linger[n0] /\ enabled[n0] \subseteq UserUnitFiles(n0)
      /\ UserUnitFiles(n0) = (FilesOf(d) \cap Unit) \cup work[q]
  BY <1>0, <1>1 DEF HalfDone, Deploying
<1>8. HalfDone(q, n0, d)'
  BY <1>3, <1>4, <1>5, <1>6, <1>7 DEF HalfDone
<1>9. \A n \in Name \ {n0} : SameHost(n)
  BY <1>1, <1>2, CommandLocal
<1> QED
  BY <1>0, <1>1, <1>3, <1>5, <1>8, <1>9, OnTheWay DEF InDeploy, Deploying

LEMMA PruneDoneExact ==
  ASSUME SafeInv, TypeOK', ExactInv, NEW q \in Proc, PruneDone(q)
  PROVE  ExactInv'
<1>0. pc[q] = "prune"
  BY DEF PruneDone
<1>1. PICK n0 \in Name, d \in DesiredState :
        /\ n0 = name[q] /\ d = D(q) /\ lock = q
        /\ Rest(n0) /\ HalfDone(q, n0, d) /\ user[n0] = "managed"
        /\ Local(q) /\ TypeOK /\ HostTypeOK /\ HostTypeOK'
  BY <1>0, DeployAt DEF DeployStep, InDeploy, Deploying
<1>2. UNCHANGED hostVars /\ MoveWith(q, "secrets", SecretsOf(d)) /\ work[q] = {}
  BY <1>1 DEF PruneDone
<1>3. /\ Kept(q) /\ UNCHANGED <<outer, hash>> /\ pc'[q] = "secrets" /\ errs'[q] = errs[q]
  <2>1. SecretsOf(d) \in SUBSET (File \cup Secret)
    BY DEF SecretsOf
  <2> QED
    BY <1>1, <1>2, <2>1, MoveWithFacts DEF Label, InDeploy, Deploying
<1>4. UNCHANGED <<user, linger, disk, enabled>> /\ \A n \in Name : SameHost(n)
  BY <1>2 DEF hostVars, SameHost
<1>5. /\ linger[n0] /\ enabled[n0] \subseteq UserUnitFiles(n0)
      /\ UserUnitFiles(n0) = FilesOf(d) \cap Unit
  BY <1>0, <1>1, <1>2 DEF HalfDone, Deploying
<1>6. UserUnitFiles(n0)' = UserUnitFiles(n0)
  BY <1>4 DEF UserUnitFiles
<1>7. HalfDone(q, n0, d)'
  BY <1>3, <1>4, <1>5, <1>6 DEF HalfDone
<1> QED
  BY <1>0, <1>1, <1>3, <1>4, <1>7, OnTheWay DEF InDeploy, Deploying

LEMMA CreatePodmanSecretExact ==
  ASSUME SafeInv, TypeOK', ExactInv, SyncNeverFails, NEW q \in Proc, CreatePodmanSecret(q)
  PROVE  ExactInv'
<1>0. pc[q] = "secrets"
  BY DEF CreatePodmanSecret
<1>1. PICK n0 \in Name, d \in DesiredState :
        /\ n0 = name[q] /\ d = D(q) /\ lock = q
        /\ Rest(n0) /\ HalfDone(q, n0, d) /\ user[n0] = "managed"
        /\ Local(q) /\ TypeOK /\ HostTypeOK /\ HostTypeOK'
  BY <1>0, DeployAt DEF DeployStep, InDeploy, Deploying
<1>2. PICK x \in work[q] : PutSecret(n0, x, d.secrets[x]) /\ Iterate(q, x)
  BY <1>1, NoFailure DEF CreatePodmanSecret, Fails
<1>3. /\ Kept(q) /\ UNCHANGED <<outer, hash>> /\ pc'[q] = "secrets" /\ errs'[q] = errs[q]
  BY <1>0, <1>1, <1>2, IterateFacts
<1>4. UNCHANGED <<user, linger, disk, enabled>>
  BY <1>2 DEF PutSecret
<1>5. /\ linger[n0] /\ enabled[n0] \subseteq UserUnitFiles(n0)
      /\ UserUnitFiles(n0) = FilesOf(d) \cap Unit
  BY <1>0, <1>1 DEF HalfDone, Deploying
<1>6. UserUnitFiles(n0)' = UserUnitFiles(n0)
  BY <1>4 DEF UserUnitFiles
<1>7. HalfDone(q, n0, d)'
  BY <1>3, <1>4, <1>5, <1>6 DEF HalfDone
<1>8. \A n \in Name \ {n0} : SameHost(n)
  BY <1>1, <1>2, CommandLocal
<1> QED
  BY <1>0, <1>1, <1>3, <1>4, <1>7, <1>8, OnTheWay DEF InDeploy, Deploying

LEMMA ReloadUserExact ==
  ASSUME SafeInv, TypeOK', ExactInv, SyncNeverFails, NEW q \in Proc, ReloadUser(q)
  PROVE  ExactInv'
<1>0. pc[q] = "secrets"
  BY DEF ReloadUser
<1>1. PICK n0 \in Name, d \in DesiredState :
        /\ n0 = name[q] /\ d = D(q) /\ lock = q
        /\ Rest(n0) /\ HalfDone(q, n0, d) /\ user[n0] = "managed"
        /\ Local(q) /\ TypeOK /\ HostTypeOK /\ HostTypeOK'
  BY <1>0, DeployAt DEF DeployStep, InDeploy, Deploying
<1>2. DaemonReload(n0) /\ MoveWith(q, "enable", FilesOf(d) \cap Timer)
  BY <1>1, NoFailure DEF ReloadUser, Fails
<1>3. /\ Kept(q) /\ UNCHANGED <<outer, hash>> /\ pc'[q] = "enable" /\ errs'[q] = errs[q]
      /\ work'[q] = FilesOf(d) \cap Timer
  <2>1. FilesOf(d) \cap Timer \in SUBSET (File \cup Secret)
    BY DEF FilesOf
  <2> QED
    BY <1>1, <1>2, <2>1, MoveWithFacts DEF Label, InDeploy, Deploying
<1>4. UNCHANGED <<user, linger, disk, enabled>> /\ loaded'[n0] = disk[n0]
  BY <1>1, <1>2 DEF DaemonReload, HostTypeOK
<1>5. /\ linger[n0] /\ enabled[n0] \subseteq UserUnitFiles(n0)
      /\ UserUnitFiles(n0) = FilesOf(d) \cap Unit
  BY <1>0, <1>1 DEF HalfDone, Deploying
<1>6. UserUnitFiles(n0)' = UserUnitFiles(n0)
  BY <1>4 DEF UserUnitFiles
<1>7. HalfDone(q, n0, d)'
  BY <1>3, <1>4, <1>5, <1>6 DEF HalfDone
<1>8. \A n \in Name \ {n0} : SameHost(n)
  BY <1>1, <1>2, CommandLocal
<1> QED
  BY <1>0, <1>1, <1>3, <1>4, <1>7, <1>8, OnTheWay DEF InDeploy, Deploying

LEMMA EnableOneTimerExact ==
  ASSUME SafeInv, TypeOK', ExactInv, SyncNeverFails, NEW q \in Proc, EnableOneTimer(q)
  PROVE  ExactInv'
<1>0. pc[q] = "enable"
  BY DEF EnableOneTimer
<1>1. PICK n0 \in Name, d \in DesiredState :
        /\ n0 = name[q] /\ d = D(q) /\ lock = q
        /\ Rest(n0) /\ HalfDone(q, n0, d) /\ user[n0] = "managed"
        /\ Local(q) /\ TypeOK /\ HostTypeOK /\ HostTypeOK'
  BY <1>0, DeployAt DEF DeployStep, InDeploy, Deploying
<1>2. PICK x \in work[q] : EnableTimer(n0, x) /\ Iterate(q, x)
  BY <1>1, NoFailure DEF EnableOneTimer, Fails
<1>3. /\ Kept(q) /\ UNCHANGED <<outer, hash>> /\ pc'[q] = "enable" /\ errs'[q] = errs[q]
      /\ work'[q] = work[q] \ {x}
  BY <1>0, <1>1, <1>2, IterateFacts
<1>4. x \in FilesOf(d) \cap Timer
  BY <1>0, <1>1, Facts DEF WorkOK
<1>5. UNCHANGED <<user, linger, disk, loaded>> /\ enabled'[n0] = enabled[n0] \cup {x}
  BY <1>1, <1>2 DEF EnableTimer, HostTypeOK
<1>6. /\ linger[n0] /\ enabled[n0] \subseteq UserUnitFiles(n0)
      /\ UserUnitFiles(n0) = FilesOf(d) \cap Unit /\ loaded[n0] = disk[n0]
      /\ (FilesOf(d) \cap Timer) \ work[q] \subseteq enabled[n0]
  BY <1>0, <1>1 DEF HalfDone, Deploying
<1>7. UserUnitFiles(n0)' = UserUnitFiles(n0)
  BY <1>5 DEF UserUnitFiles
<1>8. HalfDone(q, n0, d)'
  BY <1>3, <1>4, <1>5, <1>6, <1>7, HostAssumption DEF HalfDone
<1>9. \A n \in Name \ {n0} : SameHost(n)
  BY <1>1, <1>2, CommandLocal
<1> QED
  BY <1>0, <1>1, <1>3, <1>5, <1>8, <1>9, OnTheWay DEF InDeploy, Deploying

\* The hash is stored when all is in place.
LEMMA SaveHashExact ==
  ASSUME SafeInv, TypeOK', ExactInv, SyncNeverFails, NEW q \in Proc, SaveHash(q)
  PROVE  ExactInv'
<1>0. pc[q] = "enable"
  BY DEF SaveHash
<1>1. PICK n0 \in Name, d \in DesiredState :
        /\ n0 = name[q] /\ d = D(q) /\ lock = q
        /\ Rest(n0) /\ HalfDone(q, n0, d) /\ user[n0] = "managed"
        /\ Local(q) /\ TypeOK /\ HostTypeOK /\ HostTypeOK'
  BY <1>0, DeployAt DEF DeployStep, InDeploy, Deploying
<1>2. /\ work[q] = {} /\ hash' = [hash EXCEPT ![n0] = HashOf(d)] /\ errs' = errs
      /\ UNCHANGED hostVars
  BY <1>1, NoFailure DEF SaveHash
<1>3. Kept(q) /\ UNCHANGED outer /\ pc'[q] = "restart" /\ errs'[q] = errs[q] /\ lock' = q
  BY <1>1, <1>2 DEF SaveHash, Goto, Kept, TypeOK, outer
<1>4. hash'[n0] = HashOf(d) /\ \A n \in Name \ {n0} : hash'[n] = hash[n]
  BY <1>1, <1>2 DEF TypeOK
<1>5. /\ linger[n0] /\ enabled[n0] \subseteq UserUnitFiles(n0)
      /\ UserUnitFiles(n0) = FilesOf(d) \cap Unit /\ loaded[n0] = disk[n0]
      /\ FilesOf(d) \cap Timer \subseteq enabled[n0]
  BY <1>0, <1>1, <1>2 DEF HalfDone, Deploying
<1>6. enabled[n0] \subseteq Timer
  BY <1>1 DEF HostTypeOK
<1>7. enabled[n0] = FilesOf(d) \cap Timer
  BY <1>5, <1>6, HostAssumption
<1>8. /\ \A f \in FilesOf(d) : disk[n0][f] = d.files[f]
      /\ \A s \in SecretsOf(d) : secrets[n0][s] = d.secrets[s]
  BY <1>0, <1>1, <1>2, Facts DEF Placed, Deploying
<1>9. Owned(n0, d)
  BY <1>5, <1>7, <1>8 DEF Owned
<1>10. \A n \in Name : SameHost(n)
  BY <1>2 DEF SameHost, hostVars
<1>11. Owned(n0, d)'
  BY <1>9, <1>10, OwnedKept
<1>12. Rest(n0)'
  <2>1. name'[q] = n0 /\ user'[n0] = "managed"
    BY <1>1, <1>2, <1>3 DEF Kept, hostVars
  <2> QED
    BY <1>3, <2>1, RestBusy DEF Busy
<1>13. HalfDone(q, n0, d)'
  BY <1>3, <1>4, <1>11 DEF HalfDone, Deploying
<1> QED
  BY <1>0, <1>1, <1>3, <1>4, <1>10, <1>12, <1>13, StepAt DEF InDeploy, Deploying

\* The service is there to be restarted, because its file has been loaded.
LEMMA RestartExact ==
  ASSUME SafeInv, TypeOK', ExactInv, SyncNeverFails, NEW q \in Proc, Restart(q)
  PROVE  ExactInv'
<1>0. pc[q] = "restart"
  BY DEF Restart
<1>1. PICK n0 \in Name, d \in DesiredState :
        /\ n0 = name[q] /\ d = D(q) /\ lock = q
        /\ Rest(n0) /\ HalfDone(q, n0, d) /\ user[n0] = "managed"
        /\ Local(q) /\ TypeOK /\ HostTypeOK /\ HostTypeOK'
  BY <1>0, DeployAt DEF DeployStep, InDeploy, Deploying
<1>2. Owned(n0, d) /\ hash[n0] \in {HashOf(d), NoHash}
  BY <1>0, <1>1 DEF HalfDone
<1>3. HasService(n0, d.service)
  <2>1. d.service \in FilesOf(d)
    BY HashOfType DEF DesiredState, FilesOf
  <2> QED
    BY <1>2, <2>1 DEF Owned, HasService, FilesOf
<1>4. SetActive(n0, loaded[n0]) /\ Move(q, "next")
  BY <1>1, <1>3, NoFailure DEF Restart, RestartService, RestartServiceFails
<1>5. /\ Kept(q) /\ UNCHANGED <<outer, hash>> /\ pc'[q] = "next" /\ errs'[q] = errs[q]
      /\ lock' = q
  BY <1>1, <1>4, MoveFacts DEF Label, outer
<1>6. /\ active'[n0] = loaded[n0]
      /\ UNCHANGED <<user, linger, disk, loaded, secrets, enabled>>
  BY <1>1, <1>4 DEF SetActive, HostTypeOK
<1>7. Owned(n0, d)' /\ Running(n0)'
  BY <1>2, <1>6 DEF Owned, Running, UserUnitFiles, FilesOf, SecretsOf
<1>8. hash'[n0] \in Hashes => Owned(n0, hash[n0])'
  <2>1. NoHash \notin Hashes /\ hash'[n0] = hash[n0]
    BY <1>5, ReconcileAssumption
  <2> QED
    BY <1>2, <1>7, <2>1 DEF Owned, HashOf, FilesOf, SecretsOf
<1>9. Rest(n0)'
  <2>1. linger'[n0] /\ enabled'[n0] \subseteq UserUnitFiles(n0)'
    BY <1>7, HostAssumption DEF Owned
  <2> QED
    BY <1>1, <1>5, <1>6, <1>7, <1>8, <2>1 DEF Rest
<1>10. HalfDone(q, n0, d)'
  BY <1>5 DEF HalfDone, Deploying
<1>11. \A n \in Name \ {n0} : SameHost(n) /\ hash'[n] = hash[n]
  BY <1>1, <1>4, <1>5, CommandLocal
<1> QED
  BY <1>0, <1>1, <1>5, <1>7, <1>9, <1>10, <1>11, StepAt DEF InDeploy

LEMMA DeployExact ==
  ASSUME SafeInv, TypeOK', ExactInv, SyncNeverFails, NEW q \in Proc, DeployStep(q)
  PROVE  ExactInv'
<1>1. CASE NextName(q)
  <2>1. /\ TypeOK /\ Local(q) /\ lock = q /\ pc[q] = "next" /\ Through(q)
        /\ pc[q] \notin Busy \cup {"linger"}
    BY <1>1, Facts, DeployLocal DEF NextName, LockOK, Syncing, ExactInv, Busy, Deploying,
       InCleanup
  <2>2. PICK n0 \in todo[q] :
          /\ pc'[q] \in {"check", "useradd"} /\ name'[q] = n0 /\ todo'[q] = todo[q] \ {n0}
          /\ desired'[q] = desired[q] /\ errs'[q] = errs[q] /\ UNCHANGED <<hostVars, hash>>
    BY <1>1, <2>1 DEF NextName, Goto, TypeOK
  <2>3. \A n \in Name : Rest(n)'
    BY <2>1, <2>2, QuietRests
  <2>4. HalfDone(q, name[q], D(q))'
    BY <2>2 DEF HalfDone, Deploying
  <2>5. Through(q)'
    <3>1. UNCHANGED <<disk, linger, secrets, enabled, loaded, active>>
      BY <2>2 DEF hostVars
    <3> QED
      BY <2>1, <2>2, <3>1 DEF Through, Listed, Owned, Running, UserUnitFiles, FilesOf,
         SecretsOf, DeployLoop, InDeploy, Deploying
  <2> QED
    BY <2>1, <2>2, <2>3, <2>4, <2>5, OthersExact DEF ExactInv
<1> QED
  BY <1>1, CreateUserExact, CreateUserLingerExact, SpecChangedExact, WriteQuadletFileExact,
     WaitForUserManagerExact, ListUserUnitsExact, PruneUserUnitExact, PruneDoneExact,
     CreatePodmanSecretExact, ReloadUserExact, EnableOneTimerExact, SaveHashExact, RestartExact
     DEF DeployStep

-----------------------------------------------------------------------------
(* The removal of an account.                                              *)

LEMMA CleanupAt ==
  ASSUME SafeInv, TypeOK', ExactInv, NEW q \in Proc, CleanupStep(q), pc[q] \in InCleanup
  PROVE  \E n0, d :
           /\ n0 \in Name /\ n0 = name[q] /\ d = D(q) /\ lock = q
           /\ Rest(n0) /\ HalfDone(q, n0, d)
           /\ Local(q) /\ TypeOK /\ HostTypeOK /\ HostTypeOK'
           /\ user[n0] = "managed" \/ pc[q] = "unhash"
<1>1. name[q] \in Name
  BY Facts DEF NameOK, TypeOK
<1>2. lock = q
  BY Facts DEF LockOK, Syncing, InCleanup
<1>3. Local(q) /\ TypeOK /\ HostTypeOK /\ HostTypeOK'
  BY Facts, EveryLocal DEF SyncStep, TypeOK
<1>4. user[name[q]] = "managed" \/ pc[q] = "unhash"
  BY Facts DEF Accounts
<1> QED
  BY <1>1, <1>2, <1>3, <1>4 DEF ExactInv

\* A step of a removal that leaves the account there.
LEMMA NotGoneYet ==
  ASSUME SafeInv, ExactInv, NEW q \in Proc, lock = q, Local(q), Kept(q),
         UNCHANGED <<outer, hash>>,
         NEW n0 \in Name, NEW d, n0 = name[q], d = D(q),
         pc[q] \in InCleanup, pc'[q] \in InCleanup, errs'[q] = errs[q],
         \A n \in Name \ {n0} : SameHost(n),
         user'[n0] = "managed", HalfDone(q, n0, d)'
  PROVE  ExactInv'
<1>1. lock' = q /\ name'[q] = n0
  BY DEF outer, Kept
<1>2. Rest(n0)'
  BY <1>1, RestBusy DEF Busy
<1>3. \A n \in Name \ {n0} : SameHost(n) /\ hash'[n] = hash[n]
  OBVIOUS
<1>4. pc'[q] \in CleanupLoop /\ pc'[q] # "next"
  BY DEF CleanupLoop, InCleanup
<1> QED
  BY <1>1, <1>2, <1>3, <1>4, StepAt

LEMMA CleanupTimerExact ==
  ASSUME SafeInv, TypeOK', ExactInv, SyncNeverFails, NEW q \in Proc, CleanupTimer(q)
  PROVE  ExactInv'
<1>0. pc[q] = "timers"
  BY DEF CleanupTimer
<1>1. PICK n0, d :
        /\ n0 \in Name /\ n0 = name[q] /\ d = D(q) /\ lock = q
        /\ Rest(n0) /\ HalfDone(q, n0, d)
        /\ Local(q) /\ TypeOK /\ HostTypeOK /\ HostTypeOK'
        /\ user[n0] = "managed" \/ pc[q] = "unhash"
  BY <1>0, CleanupAt DEF CleanupStep, InCleanup
<1>2. PICK x \in work[q] : DisableTimer(n0, x) /\ Iterate(q, x)
  BY <1>1, NoFailure DEF CleanupTimer, Fails
<1>3. /\ Kept(q) /\ UNCHANGED <<outer, hash>> /\ pc'[q] = "timers" /\ errs'[q] = errs[q]
      /\ user' = user
  BY <1>0, <1>1, <1>2, IterateFacts DEF DisableTimer
<1>4. HalfDone(q, n0, d)'
  BY <1>3 DEF HalfDone, Deploying
<1>5. \A n \in Name \ {n0} : SameHost(n)
  BY <1>1, <1>2, CommandLocal
<1> QED
  BY <1>0, <1>1, <1>3, <1>4, <1>5, NotGoneYet DEF InCleanup

LEMMA CleanupStopExact ==
  ASSUME SafeInv, TypeOK', ExactInv, SyncNeverFails, NEW q \in Proc, CleanupStop(q)
  PROVE  ExactInv'
<1>0. pc[q] = "timers"
  BY DEF CleanupStop
<1>1. PICK n0, d :
        /\ n0 \in Name /\ n0 = name[q] /\ d = D(q) /\ lock = q
        /\ Rest(n0) /\ HalfDone(q, n0, d)
        /\ Local(q) /\ TypeOK /\ HostTypeOK /\ HostTypeOK'
        /\ user[n0] = "managed" \/ pc[q] = "unhash"
  BY <1>0, CleanupAt DEF CleanupStep, InCleanup
<1>2. Move(q, "remove") /\ (UNCHANGED hostVars \/ SetActive(n0, Stopped))
  BY <1>1 DEF CleanupStop, StopService, StopServiceFails
<1>3. /\ Kept(q) /\ UNCHANGED <<outer, hash>> /\ pc'[q] = "remove" /\ errs'[q] = errs[q]
      /\ user' = user
  BY <1>1, <1>2, MoveFacts DEF SetActive, hostVars, Label, InCleanup
<1>4. HalfDone(q, n0, d)'
  BY <1>3 DEF HalfDone, Deploying
<1>5. \A n \in Name \ {n0} : SameHost(n)
  BY <1>1, <1>2, CommandLocal
<1> QED
  BY <1>0, <1>1, <1>3, <1>4, <1>5, NotGoneYet DEF InCleanup

LEMMA RemoveAllQuadletsExact ==
  ASSUME SafeInv, TypeOK', ExactInv, SyncNeverFails, NEW q \in Proc, RemoveAllQuadlets(q)
  PROVE  ExactInv'
<1>0. pc[q] = "remove"
  BY DEF RemoveAllQuadlets
<1>1. PICK n0, d :
        /\ n0 \in Name /\ n0 = name[q] /\ d = D(q) /\ lock = q
        /\ Rest(n0) /\ HalfDone(q, n0, d)
        /\ Local(q) /\ TypeOK /\ HostTypeOK /\ HostTypeOK'
        /\ user[n0] = "managed" \/ pc[q] = "unhash"
  BY <1>0, CleanupAt DEF CleanupStep, InCleanup
<1>2. RemoveFiles(n0, File) /\ Move(q, "nolinger")
  BY <1>1, NoFailure DEF RemoveAllQuadlets
<1>3. /\ Kept(q) /\ UNCHANGED <<outer, hash>> /\ pc'[q] = "nolinger" /\ errs'[q] = errs[q]
      /\ user' = user
  BY <1>1, <1>2, MoveFacts DEF RemoveFiles, Label, InCleanup
<1>4. HalfDone(q, n0, d)'
  BY <1>3 DEF HalfDone, Deploying
<1>5. \A n \in Name \ {n0} : SameHost(n)
  BY <1>1, <1>2, CommandLocal
<1> QED
  BY <1>0, <1>1, <1>3, <1>4, <1>5, NotGoneYet DEF InCleanup

LEMMA DeleteUserNoLingerExact ==
  ASSUME SafeInv, TypeOK', ExactInv, SyncNeverFails, NEW q \in Proc, DeleteUserNoLinger(q)
  PROVE  ExactInv'
<1>0. pc[q] = "nolinger"
  BY DEF DeleteUserNoLinger
<1>1. PICK n0, d :
        /\ n0 \in Name /\ n0 = name[q] /\ d = D(q) /\ lock = q
        /\ Rest(n0) /\ HalfDone(q, n0, d)
        /\ Local(q) /\ TypeOK /\ HostTypeOK /\ HostTypeOK'
        /\ user[n0] = "managed" \/ pc[q] = "unhash"
  BY <1>0, CleanupAt DEF CleanupStep, InCleanup
<1>2. DisableLinger(n0) /\ Move(q, "terminate")
  BY <1>1, NoFailure DEF DeleteUserNoLinger, Fails
<1>3. /\ Kept(q) /\ UNCHANGED <<outer, hash>> /\ pc'[q] = "terminate" /\ errs'[q] = errs[q]
      /\ user' = user
  BY <1>1, <1>2, MoveFacts DEF DisableLinger, Label, InCleanup
<1>4. HalfDone(q, n0, d)'
  <2>1. linger'[n0] = FALSE
    BY <1>1, <1>2 DEF DisableLinger, HostTypeOK
  <2> QED
    BY <1>3, <2>1 DEF HalfDone, Deploying
<1>5. \A n \in Name \ {n0} : SameHost(n)
  BY <1>1, <1>2, CommandLocal
<1> QED
  BY <1>0, <1>1, <1>3, <1>4, <1>5, NotGoneYet DEF InCleanup

\* An account that no longer lingers is not brought back.
LEMMA DeleteUserTerminateExact ==
  ASSUME SafeInv, TypeOK', ExactInv, SyncNeverFails, NEW q \in Proc, DeleteUserTerminate(q)
  PROVE  ExactInv'
<1>0. pc[q] = "terminate"
  BY DEF DeleteUserTerminate
<1>1. PICK n0, d :
        /\ n0 \in Name /\ n0 = name[q] /\ d = D(q) /\ lock = q
        /\ Rest(n0) /\ HalfDone(q, n0, d)
        /\ Local(q) /\ TypeOK /\ HostTypeOK /\ HostTypeOK'
        /\ user[n0] = "managed" \/ pc[q] = "unhash"
  BY <1>0, CleanupAt DEF CleanupStep, InCleanup
<1>2. TerminateUser(n0) /\ Move(q, "userdel")
  BY <1>1, NoFailure DEF DeleteUserTerminate, Fails
<1>3. /\ Kept(q) /\ UNCHANGED <<outer, hash>> /\ pc'[q] = "userdel" /\ errs'[q] = errs[q]
      /\ UNCHANGED <<user, linger>>
  BY <1>1, <1>2, MoveFacts DEF TerminateUser, Label, InCleanup
<1>4. HalfDone(q, n0, d)'
  <2>1. ~linger[n0]
    BY <1>0, <1>1 DEF HalfDone
  <2>2. active'[n0] = Stopped /\ loaded'[n0] = NoFiles
    BY <1>1, <1>2, <2>1 DEF TerminateUser, HostTypeOK
  <2> QED
    BY <1>3, <2>1, <2>2 DEF HalfDone, Deploying
<1>5. \A n \in Name \ {n0} : SameHost(n)
  BY <1>1, <1>2, CommandLocal
<1> QED
  BY <1>0, <1>1, <1>3, <1>4, <1>5, NotGoneYet DEF InCleanup

LEMMA DeleteUserExact ==
  ASSUME SafeInv, TypeOK', ExactInv, SyncNeverFails, NEW q \in Proc, DeleteUser(q)
  PROVE  ExactInv'
<1>0. pc[q] = "userdel"
  BY DEF DeleteUser
<1>1. PICK n0, d :
        /\ n0 \in Name /\ n0 = name[q] /\ d = D(q) /\ lock = q
        /\ Rest(n0) /\ HalfDone(q, n0, d)
        /\ Local(q) /\ TypeOK /\ HostTypeOK /\ HostTypeOK'
        /\ user[n0] = "managed" \/ pc[q] = "unhash"
  BY <1>0, CleanupAt DEF CleanupStep, InCleanup
<1>2. active[n0] = Stopped
  BY <1>0, <1>1 DEF HalfDone
<1>3. Userdel(n0) /\ Move(q, "unhash")
  BY <1>1, <1>2, NoFailure DEF DeleteUser, Fails
<1>4. /\ Kept(q) /\ UNCHANGED <<outer, hash>> /\ pc'[q] = "unhash" /\ errs'[q] = errs[q]
      /\ lock' = q
  BY <1>1, <1>3, MoveFacts DEF Label, InCleanup, outer
<1>5. user'[n0] = "none" /\ disk'[n0] = NoFiles /\ enabled'[n0] = {}
  BY <1>1, <1>3 DEF Userdel, HostTypeOK
<1>6. At(n0, {"unhash"})'
  BY <1>1, <1>4 DEF At, Kept
<1>7. Rest(n0)'
  BY <1>5, <1>6 DEF Rest
<1>8. HalfDone(q, n0, d)'
  BY <1>4, <1>5 DEF HalfDone, Deploying
<1>9. \A n \in Name \ {n0} : SameHost(n) /\ hash'[n] = hash[n]
  BY <1>1, <1>3, <1>4, CommandLocal
<1> QED
  BY <1>0, <1>1, <1>4, <1>7, <1>8, <1>9, StepAt DEF InCleanup, CleanupLoop

LEMMA RemoveHashExact ==
  ASSUME SafeInv, TypeOK', ExactInv, SyncNeverFails, NEW q \in Proc, RemoveHash(q)
  PROVE  ExactInv'
<1>0. pc[q] = "unhash"
  BY DEF RemoveHash
<1>1. PICK n0, d :
        /\ n0 \in Name /\ n0 = name[q] /\ d = D(q) /\ lock = q
        /\ Rest(n0) /\ HalfDone(q, n0, d)
        /\ Local(q) /\ TypeOK /\ HostTypeOK /\ HostTypeOK'
        /\ user[n0] = "managed" \/ pc[q] = "unhash"
  BY <1>0, CleanupAt DEF CleanupStep, InCleanup
<1>2. UNCHANGED hostVars /\ hash' = [hash EXCEPT ![n0] = NoHash]
  BY <1>1, NoFailure DEF RemoveHash
<1>3. Kept(q) /\ pc'[q] = "clean" /\ errs'[q] = errs[q] /\ lock' = q
  BY <1>1 DEF RemoveHash, Goto, Kept, TypeOK, outer
<1>4. hash'[n0] = NoHash /\ \A n \in Name \ {n0} : hash'[n] = hash[n]
  BY <1>1, <1>2 DEF TypeOK
<1>5. user[n0] = "none" /\ disk[n0] = NoFiles /\ enabled[n0] = {}
  BY <1>0, <1>1 DEF HalfDone, Rest
<1>6. UNCHANGED <<user, disk, enabled>> /\ \A n \in Name : SameHost(n)
  BY <1>2 DEF hostVars, SameHost
<1>7. Rest(n0)'
  BY <1>4, <1>5, <1>6 DEF Rest
<1>8. HalfDone(q, n0, d)'
  BY <1>3 DEF HalfDone, Deploying
<1> QED
  BY <1>0, <1>1, <1>3, <1>4, <1>6, <1>7, <1>8, StepAt DEF InCleanup, CleanupLoop

\* A step of q that changes neither accounts nor hashes, and is not at an account.
LEMMA QuietExact ==
  ASSUME SafeInv, ExactInv, NEW q \in Proc, Local(q), UNCHANGED <<hostVars, hash>>,
         \/ lock # q /\ lock' = lock
         \/ lock \in {q, Free} /\ pc[q] \notin Busy \cup {"linger"},
         pc'[q] \notin Busy \cup {"linger"} \/ pc'[q] = "timers",
         Through(q)'
  PROVE  ExactInv'
<1>1. \A n \in Name : Rest(n)'
  BY QuietRests DEF SafeInv, TypeInv
<1>2. HalfDone(q, name[q], D(q))'
  BY DEF HalfDone, Busy, Deploying, InCleanup
<1>3. \A p \in Proc \ {q} : HalfDone(p, name[p], D(p))' /\ Through(p)'
  BY OthersExact
<1> QED
  BY <1>1, <1>2, <1>3 DEF ExactInv

LEMMA CleanupExact ==
  ASSUME SafeInv, TypeOK', ExactInv, SyncNeverFails, NEW q \in Proc, CleanupStep(q)
  PROVE  ExactInv'
<1>1. CASE StartCleanup(q) \/ CleanupName(q) \/ FinishCleanup(q)
  <2>1. /\ TypeOK /\ Local(q) /\ lock = q /\ Through(q)
        /\ pc[q] \in {"next", "clean"} /\ (pc[q] = "next" => todo[q] = {})
        /\ pc[q] \notin Busy \cup {"linger"}
    BY <1>1, Facts, CleanupLocal DEF StartCleanup, CleanupName, FinishCleanup, LockOK, Syncing,
       ExactInv, Busy, Deploying, InCleanup
  <2>2. /\ pc'[q] \in {"clean", "timers", "done"}
        /\ desired'[q] = desired[q] /\ errs'[q] = errs[q] /\ UNCHANGED <<hostVars, hash>>
    BY <1>1, <2>1 DEF StartCleanup, CleanupName, FinishCleanup, Move, Goto, TypeOK
  <2>3. Through(q)'
    <3>1. UNCHANGED <<disk, linger, secrets, enabled, loaded, active>>
      BY <2>2 DEF hostVars
    <3> QED
      BY <2>1, <2>2, <3>1 DEF Through, Listed, Owned, Running, UserUnitFiles, FilesOf,
         SecretsOf, DeployLoop, CleanupLoop, InDeploy, Deploying, InCleanup
  <2>4. pc'[q] \notin Busy \cup {"linger"} \/ pc'[q] = "timers"
    BY <2>2 DEF Busy, Deploying, InCleanup
  <2> QED
    BY <2>1, <2>2, <2>3, <2>4, QuietExact
<1> QED
  BY <1>1, CleanupTimerExact, CleanupStopExact, RemoveAllQuadletsExact,
     DeleteUserNoLingerExact, DeleteUserTerminateExact, DeleteUserExact, RemoveHashExact
     DEF CleanupStep

-----------------------------------------------------------------------------
(* The other steps of Sync.                                                *)

LEMMA PrepareExact ==
  ASSUME SafeInv, ExactInv, NEW q \in Proc, Prepare(q) \/ Return(q)
  PROVE  ExactInv'
<1>1. /\ TypeOK /\ Local(q) /\ UNCHANGED <<hostVars, hash>>
      /\ pc[q] \in {"idle", "git", "build", "users", "done", "failed"}
  BY Facts, EveryLocal DEF SyncStep, Prepare, Lock, LockBusy, GitSync, Git, BuildDesired,
     ManagedUsers, Return, Move
<1>2. pc[q] \notin Busy \cup {"linger"}
  BY <1>1 DEF Busy, Deploying, InCleanup
<1>3. \/ lock # q /\ lock' = lock
      \/ lock \in {q, Free} /\ pc[q] \notin Busy \cup {"linger"}
  <2>1. CASE pc[q] \notin {"idle", "failed"}
    BY <1>2, <2>1, Facts DEF LockOK, Syncing
  <2>2. CASE Lock(q)
    BY <1>2, <2>2 DEF Lock
  <2>3. CASE LockBusy(q) \/ (Return(q) /\ pc[q] = "failed")
    BY <1>2, <2>3 DEF LockBusy, Move, outer, Return, Forget
  <2> QED
    BY <2>1, <2>2, <2>3 DEF Prepare, GitSync, BuildDesired, ManagedUsers, Return
<1>4. CASE pc'[q] \in {"idle", "git", "build", "users", "failed"}
  <2>1. Through(q)'
    BY <1>4 DEF Through, DeployLoop, CleanupLoop, InDeploy, Deploying, InCleanup
  <2>2. pc'[q] \notin Busy \cup {"linger"}
    BY <1>4 DEF Busy, Deploying, InCleanup
  <2> QED
    BY <1>1, <1>3, <2>1, <2>2, QuietExact
<1>5. CASE ManagedUsers(q) /\ pc'[q] = "next"
  <2>1. todo'[q] = Listed(desired[q]) /\ desired'[q] = desired[q]
    BY <1>1, <1>5 DEF ManagedUsers, Goto, Move, TypeOK
  <2>2. Through(q)'
    BY <1>5, <2>1 DEF Through, Listed, DeployLoop
  <2>3. pc'[q] \notin Busy \cup {"linger"}
    BY <1>5 DEF Busy, Deploying, InCleanup
  <2> QED
    BY <1>1, <1>3, <2>2, <2>3, QuietExact
<1>6. pc'[q] \in {"idle", "git", "build", "users", "failed"}
        \/ (ManagedUsers(q) /\ pc'[q] = "next")
  BY <1>1 DEF Prepare, Lock, LockBusy, GitSync, Git, BuildDesired, ManagedUsers, Return,
     Forget, Goto, Move, TypeOK
<1> QED
  BY <1>4, <1>5, <1>6

\* Services that stop, or start as they were loaded, and hashes that go away: what a
\* push, a redeploy and the requests do.
LEMMA OutsideExact ==
  ASSUME SafeInv, ExactInv,
         UNCHANGED <<user, linger, disk, loaded, secrets, enabled, lock, pc, desired, todo,
                     name, work, errs>>,
         \A n \in Name : \/ active'[n] \in {active[n], Stopped}
                         \/ active'[n] = loaded[n] /\ loaded[n] # NoFiles,
         \A n \in Name : hash'[n] = hash[n] \/ hash'[n] = NoHash
  PROVE  ExactInv'
<1>1. UNCHANGED <<user, linger, disk, loaded, secrets, enabled, lock, pc, desired, todo, name,
                  work, errs>>
  OBVIOUS
<1>2. ASSUME NEW n \in Name PROVE Running(n) => Running(n)'
  BY <1>1 DEF Running
<1>3. ASSUME NEW n, NEW d PROVE Owned(n, d)' <=> Owned(n, d)
  BY <1>1 DEF Owned, UserUnitFiles, FilesOf, SecretsOf
<1>4. ASSUME NEW n \in Name PROVE Rest(n)'
  <2>1. Rest(n) /\ NoHash \notin Hashes
    BY ReconcileAssumption DEF ExactInv
  <2>2. /\ At(n, {"unhash"})' <=> At(n, {"unhash"})
        /\ At(n, {"linger"})' <=> At(n, {"linger"})
        /\ At(n, Busy)' <=> At(n, Busy)
    BY <1>1 DEF At, Busy, Deploying, InCleanup
  <2>3. CASE hash'[n] = hash[n]
    <3>1. PICK h : h = hash[n]
      OBVIOUS
    <3>2. Owned(n, h)' <=> Owned(n, h)
      BY <1>3
    <3>3. Owned(n, hash[n])' <=> Owned(n, hash[n])
      BY <2>3, <3>1, <3>2
    <3> QED
      BY <1>1, <1>2, <2>1, <2>2, <2>3, <3>3 DEF Rest, UserUnitFiles
  <2>4. CASE hash'[n] = NoHash
    BY <1>1, <2>1, <2>2, <2>4 DEF Rest, UserUnitFiles
  <2> QED
    BY <2>3, <2>4
<1>5. ASSUME NEW p \in Proc PROVE HalfDone(p, name[p], D(p))'
  <2>1. PICK n, d : n = name[p] /\ d = D(p)
    OBVIOUS
  <2>2. HalfDone(p, n, d)
    BY <2>1 DEF ExactInv
  <2>3. pc[p] \in {"linger", "restart", "userdel"} => n \in Name
    BY <1>5, <2>1, Facts DEF NameOK, TypeOK, Listed, InDeploy, InCleanup
  <2>4. pc[p] = "userdel" /\ loaded[n] = NoFiles /\ active[n] = Stopped => active'[n] = Stopped
    BY <2>3
  <2>5. /\ name'[p] = n /\ D(p)' = d /\ UserUnitFiles(n)' = UserUnitFiles(n)
        /\ FilesOf(d)' = FilesOf(d)
    BY <1>1, <2>1 DEF D, UserUnitFiles, FilesOf
  <2>6. Owned(n, d)' <=> Owned(n, d)
    BY <1>3
  <2> QED
    BY <1>1, <2>2, <2>3, <2>4, <2>5, <2>6 DEF HalfDone
<1>6. ASSUME NEW p \in Proc PROVE Through(p)'
  <2>1. Through(p)
    BY DEF ExactInv
  <2>2. \A n \in Listed(desired[p]) :
          Owned(n, desired[p][n]) /\ Running(n) => Owned(n, desired[p][n])' /\ Running(n)'
    BY <1>1, <1>2 DEF Listed, Owned, UserUnitFiles, FilesOf, SecretsOf
  <2> QED
    BY <1>1, <2>1, <2>2 DEF Through, Listed
<1> QED
  BY <1>4, <1>5, <1>6 DEF ExactInv

LEMMA StepExact ==
  ASSUME SafeInv, SafeInv', ExactInv, SyncNeverFails, [Next]_vars
  PROVE  ExactInv'
<1>1. TypeOK /\ TypeOK'
  BY DEF SafeInv, TypeInv
<1>2. ASSUME NEW q \in Proc, SyncStep(q) \/ Crash(q) PROVE ExactInv'
  <2>1. ~Crash(q)
    BY NoFailure DEF Crash
  <2> QED
    BY <1>1, <1>2, <2>1, PrepareExact, DeployExact, CleanupExact DEF SyncStep
<1>3. CASE UNCHANGED vars \/ Push \/ RemoveClone \/ \E n \in Name : Redeploy(n)
  <2>1. UNCHANGED <<hostVars, lock, pc, desired, current, todo, name, work, errs>>
    BY <1>3 DEF vars, Push, RemoveClone, Redeploy, outer
  <2>2. \A n \in Name : hash'[n] = hash[n] \/ hash'[n] = NoHash
    BY <1>1, <1>3 DEF vars, Push, RemoveClone, Redeploy, TypeOK
  <2> QED
    BY <2>1, <2>2, OutsideExact DEF hostVars
<1> QED
  BY <1>2, <1>3 DEF Next

-----------------------------------------------------------------------------
(* The requests.                                                           *)

\* A command on the service of a checked account starts it as it was loaded, and only
\* if its file was.
LEMMA ServiceExact ==
  ASSUME DaemonInv, ExactInv, NEW c \in Conn, at[c] \in Acting, NotSync,
         \/ UNCHANGED hostVars
         \/ \E a \in {active[Account(c)], Stopped} : SetActive(Account(c), a)
         \/ HasService(Account(c), Service(c)) /\ SetActive(Account(c), loaded[Account(c)])
  PROVE  ExactInv'
<1>1. PICK n0 \in Name : n0 = Account(c) /\ Service(c) = ContainerFile[n0]
  BY DEF DaemonInv, Conns, ConnOK, Account, Service
<1>2. SafeInv /\ HostTypeOK
  BY DEF DaemonInv, SafeInv, TypeInv, TypeOK
<1>3. SyncKept /\ hash' = hash
  BY DEF NotSync, SyncKept, SetActive, hostVars
<1>4. ASSUME NEW n \in Name
      PROVE  \/ active'[n] \in {active[n], Stopped}
             \/ active'[n] = loaded[n] /\ loaded[n] # NoFiles
  <2>1. HasService(n0, ContainerFile[n0]) => loaded[n0] # NoFiles
    BY HostAssumption DEF HasService, NoFiles
  <2> QED
    BY <1>1, <1>2, <2>1 DEF SetActive, HostTypeOK, hostVars
<1> QED
  BY <1>2, <1>3, <1>4, OutsideExact DEF SyncKept, outer

LEMMA ServiceCommandExact ==
  ASSUME NEW n, NEW f,
         \/ StartService(n, f) \/ StopService(n, f) \/ RestartService(n, f)
  PROVE  \/ UNCHANGED hostVars
         \/ \E a \in {active[n], Stopped} : SetActive(n, a)
         \/ HasService(n, f) /\ SetActive(n, loaded[n])
BY DEF StartService, StopService, RestartService

LEMMA ServeExact ==
  ASSUME DaemonInv, SafeInv', ExactInv, SyncNeverFails, NEW c \in Conn,
         ReadRequest(c) \/ Serve(c)
  PROVE  ExactInv'
<1>1. SafeInv /\ TypeOK /\ c \in Proc
  BY DaemonAssumption DEF DaemonInv, SafeInv, TypeInv
<1>2. ASSUME [Next]_vars PROVE ExactInv'
  BY <1>1, <1>2, StepExact
<1>3. CASE ReadRequest(c) \/ RequireManaged(c) \/ WriteResponse(c)
  BY <1>2, <1>3 DEF ReadRequest, RequireManaged, WriteResponse, NotSync, vars
<1>4. CASE CallSync(c) \/ WithinSync(c) \/ SyncReturns(c)
  BY <1>1, <1>2, <1>4 DEF CallSync, WithinSync, SyncReturns, Next, SyncStep, Prepare
<1>5. CASE RedeployUnhash(c)
  <2>1. SyncKept /\ UNCHANGED active
    BY <1>5 DEF RedeployUnhash, SyncKept, hostVars
  <2>2. \A n \in Name : hash'[n] = hash[n] \/ hash'[n] = NoHash
    BY <1>1, <1>5 DEF RedeployUnhash, TypeOK
  <2> QED
    BY <1>1, <2>1, <2>2, OutsideExact DEF SyncKept, outer
<1>6. CASE ControlService(c)
  BY <1>6, ServiceCommandExact, ServiceExact
     DEF ControlService, ServiceAction, Fails, Acting
<1>7. CASE RepullStop(c)
  BY <1>7, ServiceCommandExact, ServiceExact DEF RepullStop, Acting
<1>8. CASE RepullRemove(c)
  BY <1>8, ServiceExact DEF RepullRemove, Acting
<1>9. CASE RepullStart(c)
  BY <1>9, ServiceCommandExact, ServiceExact DEF RepullStart, Fails, Acting
<1> QED
  BY <1>3, <1>4, <1>5, <1>6, <1>7, <1>8, <1>9 DEF Serve

LEMMA InitExact == Init => ExactInv
<1> SUFFICES ASSUME Init PROVE ExactInv
  OBVIOUS
<1>1. ASSUME NEW n \in Name PROVE Rest(n)
  BY HostAssumption DEF Init, HostInit, Rest
<1>2. ASSUME NEW p \in Proc PROVE HalfDone(p, name[p], D(p)) /\ Through(p)
  <2>1. pc[p] = "idle"
    BY DEF Init
  <2> QED
    BY <2>1 DEF HalfDone, Through, DeployLoop, CleanupLoop, InDeploy, Deploying, InCleanup
<1> QED
  BY <1>1, <1>2 DEF ExactInv

LEMMA StepDaemonExact ==
  ASSUME DaemonInv, ExactInv, SyncNeverFails, [DaemonNext]_daemonVars
  PROVE  ExactInv'
<1>1. SafeInv /\ SafeInv'
  BY StepDaemon DEF DaemonInv
<1>2. ASSUME [Next]_vars PROVE ExactInv'
  BY <1>1, <1>2, StepExact
<1>3. CASE UNCHANGED daemonVars
  BY <1>2, <1>3 DEF daemonVars
<1>4. ASSUME NEW c \in Conn, ReadRequest(c) \/ Serve(c) PROVE ExactInv'
  BY <1>1, <1>4, ServeExact
<1>5. ASSUME NEW p \in Proc \ Conn, TimerStep(p) PROVE ExactInv'
  BY <1>2, <1>5 DEF TimerStep, Next
<1>6. CASE OperatorStep
  BY <1>2, <1>6 DEF OperatorStep, Next
<1> QED
  BY <1>3, <1>4, <1>5, <1>6 DEF DaemonNext

-----------------------------------------------------------------------------
(* The theorems.                                                           *)

LEMMA ExactFollows == SafeInv /\ ExactInv => SuccessIsExact
<1> SUFFICES ASSUME SafeInv, ExactInv, NEW p \in Proc, pc[p] = "done",
                    NEW n \in Listed(desired[p]) \ errs[p]
             PROVE  LET d == desired[p][n] IN
                      /\ InPlace(n, d)
                      /\ linger[n]
                      /\ UserUnitFiles(n) = FilesOf(d) \cap Unit
                      /\ enabled[n] = FilesOf(d) \cap Timer
                      /\ loaded[n] = disk[n]
                      /\ active[n] \in {loaded[n], Stopped}
  BY DEF SuccessIsExact
<1>1. pc[p] \notin DeployLoop \cup InDeploy
  BY DEF DeployLoop, InDeploy, Deploying
<1>2. Owned(n, desired[p][n]) /\ Running(n)
  BY <1>1 DEF ExactInv, Through
<1>3. user[n] = "managed"
  BY <1>1, Facts DEF Reported, Deployed
<1> QED
  BY <1>2, <1>3 DEF Owned, Running, InPlace

\* Accounts at rest are as their hash says, and a process knows at each label how far it
\* has come with the account at hand.
THEOREM ExactCorrect == ASSUME SyncNeverFails PROVE DaemonSpec => []ExactInv
<1>1. DaemonInit => ExactInv
  BY InitExact DEF DaemonInit
<1>2. DaemonInv /\ ExactInv /\ [DaemonNext]_daemonVars => ExactInv'
  BY StepDaemonExact
<1> QED
  BY <1>1, <1>2, DaemonCorrect, PTL DEF DaemonSpec

\* Where only the commands of requests fail, a Sync that ends has made each listed
\* account exactly the desired one: files, secrets, units, timers, linger, and the
\* service as it was loaded, unless a request has stopped it.
THEOREM Exact == ASSUME SyncNeverFails PROVE DaemonSpec => []SuccessIsExact
<1>1. DaemonInv /\ ExactInv => SuccessIsExact
  BY ExactFollows DEF DaemonInv
<1> QED
  BY <1>1, ExactCorrect, DaemonCorrect, PTL
=============================================================================
