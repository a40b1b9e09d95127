--------------------------- MODULE ReconcileProofs ---------------------------
(***************************************************************************)
(* Proofs about Reconcile, for any number of processes and names, any      *)
(* history of commits and any set of failing commands.                     *)
(***************************************************************************)
EXTENDS Reconcile, TLAPS

-----------------------------------------------------------------------------
(* Types.  The actions index the host by name[p], and desired[p] by what   *)
(* is left of an inner loop; that these are there is part of the induction.*)

\* Where p is in its loops, name[p] and todo[p] are of the right kind.
NameOK(p) ==
  /\ pc[p] \in InDeploy => name[p] \in Listed(desired[p])
  /\ pc[p] \in InCleanup => name[p] \in current[p] \ Listed(desired[p])
  /\ pc[p] \in {"next"} \cup InDeploy => todo[p] \subseteq Listed(desired[p])
  /\ pc[p] \in {"clean"} \cup InCleanup => todo[p] \subseteq current[p] \ Listed(desired[p])

\* What is left of the inner loop p is in, and nothing outside the inner loops.
WorkOK(p) ==
  /\ pc[p] = "write"   => work[p] \subseteq FilesOf(D(p))
  /\ pc[p] = "prune"   => work[p] \subseteq Unit \ FilesOf(D(p))
  /\ pc[p] = "secrets" => work[p] \subseteq SecretsOf(D(p))
  /\ pc[p] = "enable"  => work[p] \subseteq FilesOf(D(p)) \cap Timer
  /\ pc[p] = "timers"  => work[p] \subseteq Timer
  /\ pc[p] \notin {"write", "prune", "secrets", "enable", "timers"} => work[p] = {}

\* From the lock to the return p has the clone for itself, and past GitSync there
\* are files in it.
RepoOK(p) ==
  pc[p] \notin {"idle", "failed"} => lock = p /\ (pc[p] # "git" => repo \in Commit)

\* A clone with a commit at HEAD has files, and it has those of the commit unless a
\* checkout was cut short.
CloneOK == (head \in Commit => repo \in Commit) /\ (cut = "no" => repo = head)

TypeInv == TypeOK /\ CloneOK /\ \A p \in Proc : NameOK(p) /\ WorkOK(p) /\ RepoOK(p)

LEMMA HashOfType ==
  ASSUME NEW d \in DesiredState
  PROVE  /\ HashOf(d) \in Hashes
         /\ d.files \in [File -> Content \cup {NoFile}]
         /\ d.secrets \in Store
         /\ d.service \in File
BY DEF DesiredState, HashOf, Hashes

LEMMA NoCommandTypes ==
  ASSUME HostTypeOK, UNCHANGED hostVars, calm' = calm
  PROVE  HostTypeOK'
BY DEF HostTypeOK, hostVars

\* In the deploy loop the desired state of the name at hand is one.
LEMMA DesiredType ==
  ASSUME TypeOK, NEW p \in Proc, NameOK(p), pc[p] \in InDeploy
  PROVE  name[p] \in Name /\ D(p) \in DesiredState
BY DEF TypeOK, NameOK, Listed, D

\* Every command keeps the types of the host.
LEMMA CommandTypes ==
  ASSUME HostTypeOK, HostAssumption, calm' = calm, NEW n \in Name,
         \/ UNCHANGED hostVars
         \/ Useradd(n) \/ EnableLinger(n) \/ DisableLinger(n) \/ TerminateUser(n) \/ Userdel(n)
         \/ \E f \in File, c \in Content \cup {NoFile, Torn} : PutFile(n, f, c)
         \/ \E gone \in SUBSET File : RemoveFiles(n, gone)
         \/ \E f \in File, off, gone \in BOOLEAN : DisableAndRemove(n, f, off, gone)
         \/ \E s \in Secret, v \in Value \cup {NoValue} : PutSecret(n, s, v)
         \/ DaemonReload(n)
         \/ \E f \in Timer : EnableTimer(n, f) \/ DisableTimer(n, f)
         \/ SetActive(n, loaded[n]) \/ SetActive(n, Stopped)
  PROVE  HostTypeOK'
<1>1. CASE UNCHANGED hostVars
  BY <1>1 DEF hostVars, HostTypeOK
<1>2. CASE Useradd(n)
  BY <1>2 DEF Useradd, HostTypeOK
<1>3. CASE EnableLinger(n)
  BY <1>3 DEF EnableLinger, HostTypeOK
<1>4. CASE DisableLinger(n)
  BY <1>4 DEF DisableLinger, HostTypeOK
<1>5. CASE TerminateUser(n)
  <2>1. NoFiles \in Files
    BY DEF NoFiles, Files
  <2>2. active' \in [Name -> Files \cup {Stopped}]
    BY <1>5 DEF TerminateUser, HostTypeOK
  <2>3. loaded' \in [Name -> Files]
    BY <1>5, <2>1 DEF TerminateUser, HostTypeOK
  <2> QED
    BY <1>5, <2>2, <2>3 DEF TerminateUser, HostTypeOK
<1>6. CASE Userdel(n)
  BY <1>6 DEF Userdel, HostTypeOK, Files, NoFiles, Store, NoStore
<1>7. CASE \E f \in File, c \in Content \cup {NoFile, Torn} : PutFile(n, f, c)
  BY <1>7 DEF PutFile, HostTypeOK, Files
<1>8. CASE \E gone \in SUBSET File : RemoveFiles(n, gone)
  BY <1>8 DEF RemoveFiles, HostTypeOK, Files
<1>9. CASE \E f \in File, off, gone \in BOOLEAN : DisableAndRemove(n, f, off, gone)
  BY <1>9 DEF DisableAndRemove, HostTypeOK, Files
<1>10. CASE \E s \in Secret, v \in Value \cup {NoValue} : PutSecret(n, s, v)
  BY <1>10 DEF PutSecret, HostTypeOK, Store
<1>11. CASE DaemonReload(n)
  BY <1>11 DEF DaemonReload, HostTypeOK
<1>12. CASE \E f \in Timer : EnableTimer(n, f) \/ DisableTimer(n, f)
  BY <1>12 DEF EnableTimer, DisableTimer, HostTypeOK
<1>13. CASE SetActive(n, loaded[n]) \/ SetActive(n, Stopped)
  BY <1>13 DEF SetActive, HostTypeOK
<1> QED
  BY <1>1, <1>2, <1>3, <1>4, <1>5, <1>6, <1>7, <1>8, <1>9, <1>10, <1>11, <1>12, <1>13

\* A step of p leaves the variables of the other processes alone ...
Local(p) ==
  \A q \in Proc \ {p} :
    /\ pc'[q] = pc[q] /\ desired'[q] = desired[q] /\ current'[q] = current[q]
    /\ todo'[q] = todo[q] /\ name'[q] = name[q] /\ work'[q] = work[q] /\ errs'[q] = errs[q]

\* ... and, within an iteration, these of p.
Kept(p) ==
  /\ desired'[p] = desired[p]
  /\ current'[p] = current[p]
  /\ todo'[p] = todo[p]
  /\ name'[p] = name[p]

LEMMA MoveFacts ==
  ASSUME TypeOK, HostTypeOK', NEW p \in Proc, NEW to \in Label, Move(p, to)
  PROVE  /\ TypeOK' /\ Local(p) /\ Kept(p) /\ UNCHANGED <<outer, hash>>
         /\ pc'[p] = to /\ work'[p] = work[p] /\ errs'[p] = errs[p]
BY DEF TypeOK, Local, Kept, Move, Goto, outer

LEMMA MoveWithFacts ==
  ASSUME TypeOK, HostTypeOK', NEW p \in Proc, NEW to \in Label,
         NEW s \in SUBSET (File \cup Secret), MoveWith(p, to, s)
  PROVE  /\ TypeOK' /\ Local(p) /\ Kept(p) /\ UNCHANGED <<outer, hash>>
         /\ pc'[p] = to /\ work'[p] = s /\ errs'[p] = errs[p]
BY DEF TypeOK, Local, Kept, MoveWith, Goto, outer

LEMMA IterateFacts ==
  ASSUME TypeOK, HostTypeOK', NEW p \in Proc, NEW x, Iterate(p, x)
  PROVE  /\ TypeOK' /\ Local(p) /\ Kept(p) /\ UNCHANGED <<outer, hash>>
         /\ pc'[p] = pc[p] /\ work'[p] = work[p] \ {x} /\ errs'[p] = errs[p]
BY DEF TypeOK, Local, Kept, Iterate, outer

LEMMA RecordFacts ==
  ASSUME TypeOK, HostTypeOK', NEW p \in Proc, NEW to \in Label, name[p] \in Name,
         Record(p, to)
  PROVE  /\ TypeOK' /\ Local(p) /\ Kept(p) /\ UNCHANGED <<outer, hash>>
         /\ pc'[p] = to /\ work'[p] = {} /\ errs'[p] = errs[p] \cup {name[p]}
BY DEF TypeOK, Local, Kept, Record, Goto, outer

\* What p does to the clone and the lock it does when no other process has the lock.
OuterOK(p) == UNCHANGED outer \/ (CloneOK' /\ lock \in {p, Free})

LEMMA OthersKeep ==
  ASSUME TypeInv, TypeOK', NEW p \in Proc, Local(p), NameOK(p)', WorkOK(p)', RepoOK(p)',
         OuterOK(p)
  PROVE  TypeInv'
<1>1. ASSUME NEW q \in Proc, q # p
      PROVE  NameOK(q)' /\ WorkOK(q)'
  BY <1>1 DEF TypeInv, Local, NameOK, WorkOK, D, Listed, FilesOf, SecretsOf
<1>2. ASSUME NEW q \in Proc, q # p
      PROVE  RepoOK(q)'
  <2>1. RepoOK(q) /\ pc'[q] = pc[q]
    BY <1>2 DEF TypeInv, Local
  <2>2. CASE UNCHANGED outer
    BY <2>1, <2>2 DEF RepoOK, outer
  <2>3. CASE lock \in {p, Free}
    BY <1>2, <2>1, <2>3, ReconcileAssumption DEF RepoOK
  <2> QED
    BY <2>2, <2>3 DEF OuterOK
<1>3. CloneOK'
  BY DEF OuterOK, TypeInv, CloneOK, outer
<1> QED
  BY <1>1, <1>2, <1>3 DEF TypeInv

\* The edges of Sync's control flow that stay within an iteration, or end it.
Edge(from, to) ==
  \/ from \in InDeploy /\ to \in InDeploy \cup {"next"}
  \/ from \in InCleanup /\ to \in InCleanup
  \/ from = "clean" /\ to = "done"
  \/ from \in Label /\ to = "failed"

LEMMA EdgeName ==
  ASSUME TypeInv, NEW p \in Proc, Kept(p), Edge(pc[p], pc'[p]), UNCHANGED outer
  PROVE  /\ NameOK(p)' /\ RepoOK(p)' /\ OuterOK(p)
         /\ pc[p] \in InDeploy => D(p)' = D(p)
BY DEF TypeInv, Kept, Edge, NameOK, RepoOK, OuterOK, D, Listed, Label, Deploying, InDeploy,
       InCleanup, outer

InnerLoops == {"write", "prune", "secrets", "enable", "timers"}

LEMMA MoveTypes ==
  ASSUME TypeInv, HostTypeOK', NEW p \in Proc, NEW to \in Label \ InnerLoops,
         Edge(pc[p], to), work[p] = {}, Move(p, to)
  PROVE  TypeInv'
BY MoveFacts, EdgeName, OthersKeep DEF TypeInv, WorkOK, InnerLoops

LEMMA MoveWithTypes ==
  ASSUME TypeInv, HostTypeOK', NEW p \in Proc, NEW to \in InDeploy, NEW s,
         pc[p] \in InDeploy,
         \/ to = "prune"   /\ s \subseteq Unit \ FilesOf(D(p))
         \/ to = "secrets" /\ s \subseteq SecretsOf(D(p))
         \/ to = "enable"  /\ s \subseteq FilesOf(D(p)) \cap Timer,
         MoveWith(p, to, s)
  PROVE  TypeInv'
<1>1. s \in SUBSET (File \cup Secret) /\ to \in Label /\ Edge(pc[p], to)
  BY HostAssumption DEF FilesOf, SecretsOf, Label, InDeploy, Edge
<1>2. /\ TypeOK' /\ Local(p) /\ Kept(p) /\ UNCHANGED outer
      /\ pc'[p] = to /\ work'[p] = s
  BY <1>1, MoveWithFacts DEF TypeInv
<1>3. NameOK(p)' /\ RepoOK(p)' /\ OuterOK(p) /\ D(p)' = D(p)
  BY <1>1, <1>2, EdgeName
<1>4. WorkOK(p)'
  BY <1>2, <1>3 DEF WorkOK, FilesOf, SecretsOf
<1> QED
  BY <1>2, <1>3, <1>4, OthersKeep DEF TypeInv

LEMMA IterateTypes ==
  ASSUME TypeInv, HostTypeOK', NEW p \in Proc, pc[p] \in InDeploy \cup InCleanup, NEW x,
         Iterate(p, x)
  PROVE  TypeInv'
<1>1. /\ TypeOK' /\ Local(p) /\ Kept(p) /\ UNCHANGED outer
      /\ pc'[p] = pc[p] /\ work'[p] = work[p] \ {x}
  BY IterateFacts DEF TypeInv
<1>2. /\ NameOK(p)' /\ RepoOK(p)' /\ OuterOK(p) /\ D(p)' = D(p)
  BY <1>1, EdgeName DEF Edge, D, Kept
<1>3. WorkOK(p)'
  BY <1>1, <1>2 DEF TypeInv, WorkOK, FilesOf, SecretsOf
<1> QED
  BY <1>1, <1>2, <1>3, OthersKeep DEF TypeInv

LEMMA RecordTypes ==
  ASSUME TypeInv, HostTypeOK', NEW p \in Proc, NEW to \in Label \ InnerLoops,
         pc[p] \in InDeploy \cup InCleanup, Edge(pc[p], to), Record(p, to)
  PROVE  TypeInv'
<1>1. name[p] \in Name
  BY DEF TypeInv, TypeOK, NameOK, Listed
<1>2. /\ TypeOK' /\ Local(p) /\ Kept(p) /\ UNCHANGED outer
      /\ pc'[p] = to /\ work'[p] = {}
  BY <1>1, RecordFacts DEF TypeInv
<1>3. /\ NameOK(p)' /\ RepoOK(p)' /\ OuterOK(p)
  BY <1>2, EdgeName
<1>4. WorkOK(p)'
  BY <1>2 DEF WorkOK, InnerLoops
<1> QED
  BY <1>2, <1>3, <1>4, OthersKeep DEF TypeInv

\* A checkout, whole or cut short, leaves files where it leaves a commit at HEAD.
LEMMA CloneTypes ==
  ASSUME TypeOK, CheckOut \/ CutShort
  PROVE  /\ repo' \in Commit \cup {NoCommit} /\ head' \in Commit \cup {NoCommit, Unborn}
         /\ cut' \in {"no", "free", "locked"} /\ CloneOK'
         /\ CheckOut => repo' \in Commit
<1>1. Between[repo][upstream] \subseteq Commit
  BY ReconcileAssumption DEF TypeOK
<1>2. CASE CheckOut
  <2>1. PICK t \in {upstream} \cup (IF cut = "no" THEN {} ELSE Between[repo][upstream]) :
          repo' = t /\ head' = upstream /\ cut' = cut
    BY <1>2 DEF CheckOut, Clone
  <2>2. t \in Commit /\ (cut = "no" => t = upstream)
    BY <1>1, <2>1 DEF TypeOK
  <2> QED
    BY <2>1, <2>2 DEF CloneOK, TypeOK
<1>3. CASE CutShort /\ ~CheckOut
  <2>1. CASE Clone(NoCommit, Unborn, "free")
    BY <1>3, <2>1, ReconcileAssumption DEF Clone, CloneOK
  <2>2. CASE \E t \in Between[repo][upstream], c \in {"free", "locked"} :
               Clone(t, IF head = NoCommit THEN upstream ELSE head, c)
    BY <1>1, <1>3, <2>2 DEF Clone, CloneOK, TypeOK
  <2> QED
    BY <1>3, <2>1, <2>2 DEF CutShort
<1> QED
  BY <1>2, <1>3

LEMMA PrepareTypes ==
  ASSUME TypeInv, NEW p \in Proc, Prepare(p)
  PROVE  TypeInv'
<1> USE HostAssumption, ReconcileAssumption
<1> USE DEF TypeInv, Label, Deploying, InDeploy, InCleanup, Goto, Move
<1>1. CASE Lock(p)
  <2>1. TypeOK'
    BY <1>1 DEF Lock, TypeOK, hostVars, HostTypeOK
  <2>2. Local(p) /\ NameOK(p)' /\ WorkOK(p)' /\ RepoOK(p)' /\ OuterOK(p)
    <3>1. /\ Local(p) /\ pc'[p] = "git" /\ work'[p] = {}
          /\ UNCHANGED <<repo, head, cut>> /\ lock = Free /\ lock' = p
      BY <1>1 DEF Lock, TypeOK, Local, WorkOK
    <3> QED
      BY <3>1 DEF NameOK, WorkOK, RepoOK, OuterOK, CloneOK
  <2> QED
    BY <2>1, <2>2, OthersKeep
<1>2. CASE LockBusy(p)
  <2>1. TypeOK'
    BY <1>2 DEF LockBusy, outer, TypeOK, hostVars, HostTypeOK
  <2>2. Local(p) /\ NameOK(p)' /\ WorkOK(p)' /\ RepoOK(p)' /\ OuterOK(p)
    <3>1. Local(p) /\ pc'[p] = "failed" /\ work'[p] = {} /\ UNCHANGED outer
      BY <1>2 DEF LockBusy, outer, TypeOK, Local, WorkOK
    <3> QED
      BY <3>1 DEF NameOK, WorkOK, RepoOK, OuterOK
  <2> QED
    BY <2>1, <2>2, OthersKeep
<1>3. CASE GitSync(p)
  <2>1. \/ Move(p, "build") /\ head = upstream
        \/ Move(p, "failed")
        \/ Git(p, "build") /\ CheckOut
        \/ Git(p, "failed") /\ CutShort
    BY <1>3 DEF GitSync
  <2>2. HostTypeOK'
    BY <1>3, <2>1 DEF GitSync, Git, outer, TypeOK, hostVars, HostTypeOK
  <2>3. pc[p] = "git" /\ lock = p /\ work[p] = {}
    BY <1>3 DEF GitSync, RepoOK, WorkOK
  <2>4. CASE (Move(p, "build") /\ head = upstream) \/ Move(p, "failed")
    <3>1. /\ TypeOK' /\ Local(p) /\ UNCHANGED outer /\ work'[p] = {}
          /\ pc'[p] \in {"build", "failed"} /\ (pc'[p] = "build" => head = upstream)
      BY <2>2, <2>3, <2>4, MoveFacts DEF TypeOK
    <3>2. NameOK(p)' /\ WorkOK(p)' /\ OuterOK(p)
      BY <3>1 DEF NameOK, WorkOK, OuterOK
    <3>3. RepoOK(p)'
      BY <2>3, <3>1 DEF RepoOK, CloneOK, TypeOK, outer
    <3> QED
      BY <3>1, <3>2, <3>3, OthersKeep
  <2>5. CASE (Git(p, "build") /\ CheckOut) \/ (Git(p, "failed") /\ CutShort)
    <3>1. /\ Local(p) /\ pc'[p] \in {"build", "failed"} /\ work'[p] = {}
          /\ UNCHANGED <<upstream, lock, calm, hash, desired, current, todo, name, work, errs>>
          /\ pc' \in [Proc -> Label]
          /\ pc'[p] = "build" => CheckOut
          /\ pc'[p] = "failed" => CutShort
      BY <2>3, <2>5 DEF Git, Local, TypeOK
    <3>2. /\ repo' \in Commit \cup {NoCommit} /\ head' \in Commit \cup {NoCommit, Unborn}
          /\ cut' \in {"no", "free", "locked"} /\ CloneOK'
          /\ pc'[p] = "build" => repo' \in Commit
      BY <3>1, CloneTypes
    <3>3. TypeOK'
      BY <2>2, <3>1, <3>2 DEF TypeOK
    <3>4. NameOK(p)' /\ WorkOK(p)' /\ RepoOK(p)' /\ OuterOK(p)
      BY <2>3, <3>1, <3>2 DEF NameOK, WorkOK, RepoOK, OuterOK
    <3> QED
      BY <3>1, <3>3, <3>4, OthersKeep
  <2> QED
    BY <2>1, <2>4, <2>5
<1>4. CASE BuildDesired(p)
  <2>1. TypeOK'
    <3>1. HostTypeOK'
      BY <1>4, NoCommandTypes DEF BuildDesired, outer, TypeOK
    <3>2. CASE Move(p, "failed")
      BY <3>1, <3>2, MoveFacts
    <3>3. CASE /\ Build[repo] # Invalid
               /\ Goto(p, "users")
               /\ desired' = [desired EXCEPT ![p] = Build[repo]]
               /\ UNCHANGED <<outer, hash, current, todo, name, work, errs>>
      <4>1. Build[repo] \in [Name -> DesiredState \cup {NoSpec}]
        BY <1>4, <3>3 DEF BuildDesired, RepoOK
      <4> QED
        BY <3>1, <3>3, <4>1 DEF TypeOK, outer
    <3> QED
      BY <1>4, <3>2, <3>3 DEF BuildDesired
  <2>2. Local(p) /\ NameOK(p)' /\ WorkOK(p)' /\ RepoOK(p)' /\ OuterOK(p)
    <3>1. Local(p) /\ pc'[p] \in {"failed", "users"} /\ work'[p] = {} /\ UNCHANGED outer
      BY <1>4 DEF BuildDesired, outer, TypeOK, Local, WorkOK
    <3> QED
      BY <1>4, <3>1 DEF BuildDesired, NameOK, WorkOK, RepoOK, OuterOK, outer
  <2> QED
    BY <2>1, <2>2, OthersKeep
<1>5. CASE ManagedUsers(p)
  <2>1. TypeOK'
    <3>1. ManagedUsersOf \in SUBSET Name /\ Listed(desired[p]) \in SUBSET Name
      BY DEF ManagedUsersOf, Listed
    <3>2. HostTypeOK'
      BY <1>5 DEF ManagedUsers, outer, TypeOK, hostVars, HostTypeOK
    <3>3. CASE Goto(p, "next") /\ current' = [current EXCEPT ![p] = ManagedUsersOf]
                               /\ todo' = [todo EXCEPT ![p] = Listed(desired[p])]
      BY <1>5, <3>1, <3>2, <3>3 DEF ManagedUsers, outer, TypeOK
    <3>4. CASE Move(p, "failed")
      BY <1>5, <3>2, <3>4 DEF ManagedUsers, outer, TypeOK
    <3> QED
      BY <1>5, <3>3, <3>4 DEF ManagedUsers
  <2>2. Local(p) /\ NameOK(p)' /\ WorkOK(p)' /\ RepoOK(p)' /\ OuterOK(p)
    <3>1. Local(p) /\ pc'[p] \in {"failed", "next"} /\ work'[p] = {} /\ UNCHANGED outer
      BY <1>5 DEF ManagedUsers, outer, TypeOK, Local, WorkOK
    <3>2. pc'[p] = "next" => desired'[p] = desired[p] /\ todo'[p] = Listed(desired[p])
      BY <1>5, <3>1 DEF ManagedUsers, outer, TypeOK
    <3> QED
      BY <1>5, <3>1, <3>2 DEF ManagedUsers, NameOK, WorkOK, RepoOK, OuterOK, outer
  <2> QED
    BY <2>1, <2>2, OthersKeep
<1> QED
  BY <1>1, <1>2, <1>3, <1>4, <1>5 DEF Prepare

LEMMA DeployTypes ==
  ASSUME TypeInv, NEW p \in Proc, DeployStep(p)
  PROVE  TypeInv'
<1> USE HostAssumption, ReconcileAssumption
<1>a. TypeOK /\ HostTypeOK /\ NameOK(p) /\ WorkOK(p) /\ RepoOK(p)
  BY DEF TypeInv, TypeOK
<1>1. CASE NextName(p)
  <2>1. HostTypeOK'
    BY <1>a, <1>1, NoCommandTypes DEF NextName, outer
  <2>2. PICK n \in todo[p] :
          /\ pc' = [pc EXCEPT ![p] = IF n \in current[p] THEN "check" ELSE "useradd"]
          /\ name' = [name EXCEPT ![p] = n]
          /\ todo' = [todo EXCEPT ![p] = @ \ {n}]
    BY <1>1 DEF NextName, Goto
  <2>3. n \in Listed(desired[p]) /\ n \in Name /\ todo[p] \subseteq Listed(desired[p])
    BY <1>a, <1>1 DEF NextName, NameOK, Listed
  <2>4. TypeOK' /\ Local(p)
    BY <1>a, <1>1, <2>1, <2>2, <2>3 DEF NextName, TypeOK, Local, outer, Label, InDeploy
  <2>5. /\ pc'[p] \in {"check", "useradd"} /\ name'[p] = n /\ todo'[p] = todo[p] \ {n}
        /\ desired'[p] = desired[p] /\ work'[p] = {}
        /\ UNCHANGED outer /\ lock = p /\ repo \in Commit
    BY <1>a, <1>1, <2>2 DEF NextName, TypeOK, WorkOK, RepoOK
  <2>6. NameOK(p)' /\ WorkOK(p)' /\ RepoOK(p)' /\ OuterOK(p)
    BY <2>3, <2>5 DEF NameOK, WorkOK, RepoOK, OuterOK, Listed, InDeploy, InCleanup, outer
  <2> QED
    BY <2>4, <2>5, <2>6, OthersKeep DEF TypeInv
<1>2. CASE CreateUser(p)
  <2>1. name[p] \in Name /\ D(p) \in DesiredState
    BY <1>a, <1>2, DesiredType DEF CreateUser, Label, Deploying, InDeploy, InCleanup, InnerLoops
  <2>2. calm' = calm
    BY <1>2 DEF CreateUser, Move, Abort, Record, outer
  <2>3. HostTypeOK'
    BY <1>a, <1>2, <2>1, <2>2, CommandTypes DEF CreateUser, Fails
  <2> QED
    BY <1>a, <1>2, <2>3, MoveTypes, RecordTypes DEF CreateUser, WorkOK, Abort, Edge, Label,
       Deploying, InDeploy, InCleanup, InnerLoops
<1>3. CASE CreateUserLinger(p)
  <2>1. name[p] \in Name /\ D(p) \in DesiredState
    BY <1>a, <1>3, DesiredType DEF CreateUserLinger, Label, Deploying, InDeploy, InCleanup,
       InnerLoops
  <2>2. calm' = calm
    BY <1>3 DEF CreateUserLinger, Move, Abort, Record, outer
  <2>3. HostTypeOK'
    BY <1>a, <1>3, <2>1, <2>2, CommandTypes DEF CreateUserLinger, Fails
  <2> QED
    BY <1>a, <1>3, <2>3, MoveTypes, RecordTypes DEF CreateUserLinger, WorkOK, Abort, Edge,
       Label, Deploying, InDeploy, InCleanup, InnerLoops
<1>4. CASE SpecChanged(p)
  <2>1. HostTypeOK'
    BY <1>a, <1>4, NoCommandTypes DEF SpecChanged, Move, outer
  <2>2. CASE Move(p, "next")
    BY <1>a, <1>4, <2>1, <2>2, MoveTypes DEF SpecChanged, WorkOK, Edge, Label, Deploying,
       InDeploy, InCleanup, InnerLoops
  <2>3. CASE ~Move(p, "next")
    <3>1. /\ pc' = [pc EXCEPT ![p] = "write"]
          /\ work' = [work EXCEPT ![p] = FilesOf(D(p))]
          /\ UNCHANGED <<outer, hash, desired, current, todo, name, errs>>
      BY <1>4, <2>3 DEF SpecChanged, Goto
    <3>2. FilesOf(D(p)) \in SUBSET (File \cup Secret)
      BY DEF FilesOf
    <3>3. TypeOK' /\ Local(p) /\ Kept(p) /\ pc'[p] = "write" /\ work'[p] = FilesOf(D(p))
      BY <1>a, <2>1, <3>1, <3>2 DEF TypeOK, Local, Kept, outer, Label, InDeploy, Deploying
    <3>4. NameOK(p)' /\ RepoOK(p)' /\ OuterOK(p) /\ D(p)' = D(p)
      BY <1>4, <3>1, <3>3, EdgeName DEF SpecChanged, Edge, InDeploy, Deploying
    <3>5. WorkOK(p)'
      BY <3>3, <3>4 DEF WorkOK, FilesOf
    <3> QED
      BY <3>3, <3>4, <3>5, OthersKeep DEF TypeInv
  <2> QED
    BY <2>2, <2>3
<1>5. CASE WriteQuadletFile(p)
  <2>1. name[p] \in Name /\ D(p) \in DesiredState
    BY <1>a, <1>5, DesiredType DEF WriteQuadletFile, Label, Deploying, InDeploy, InCleanup,
       InnerLoops
  <2>2. calm' = calm
    BY <1>5 DEF WriteQuadletFile, Iterate, Abort, Record, outer
  <2>3. HostTypeOK'
    BY <1>a, <1>5, <2>1, <2>2, CommandTypes, HashOfType DEF WriteQuadletFile, Fails, WorkOK,
       FilesOf
  <2> QED
    BY <1>a, <1>5, <2>3, IterateTypes, RecordTypes DEF WriteQuadletFile, Abort, Edge, Label,
       Deploying, InDeploy, InCleanup, InnerLoops
<1>6. CASE WaitForUserManager(p)
  <2>1. HostTypeOK'
    BY <1>a, <1>6, NoCommandTypes DEF WaitForUserManager, Move, Abort, Record, outer
  <2> QED
    BY <1>a, <1>6, <2>1, MoveTypes, RecordTypes DEF WaitForUserManager, Abort, Edge, Label,
       Deploying, InDeploy, InCleanup, InnerLoops
<1>7. CASE ListUserUnits(p)
  <2>1. HostTypeOK'
    BY <1>a, <1>7, NoCommandTypes DEF ListUserUnits, MoveWith, outer
  <2> QED
    BY <1>a, <1>7, <2>1, MoveWithTypes DEF ListUserUnits, UserUnitFiles, Edge, Label,
       Deploying, InDeploy, InCleanup, InnerLoops
<1>8. CASE PruneUserUnit(p)
  <2>1. name[p] \in Name /\ D(p) \in DesiredState
    BY <1>a, <1>8, DesiredType DEF PruneUserUnit, Label, Deploying, InDeploy, InCleanup,
       InnerLoops
  <2>2. calm' = calm
    BY <1>8 DEF PruneUserUnit, Iterate, outer
  <2>3. HostTypeOK'
    BY <1>a, <1>8, <2>1, <2>2, CommandTypes DEF PruneUserUnit, WorkOK
  <2> QED
    BY <1>a, <1>8, <2>3, IterateTypes DEF PruneUserUnit, Edge, Label, Deploying, InDeploy,
       InCleanup, InnerLoops
<1>9. CASE PruneDone(p)
  <2>1. HostTypeOK'
    BY <1>a, <1>9, NoCommandTypes DEF PruneDone, MoveWith, outer
  <2> QED
    BY <1>a, <1>9, <2>1, MoveWithTypes DEF PruneDone, Edge, Label, Deploying, InDeploy,
       InCleanup, InnerLoops
<1>10. CASE CreatePodmanSecret(p)
  <2>1. name[p] \in Name /\ D(p) \in DesiredState
    BY <1>a, <1>10, DesiredType DEF CreatePodmanSecret, Label, Deploying, InDeploy, InCleanup,
       InnerLoops
  <2>2. calm' = calm
    BY <1>10 DEF CreatePodmanSecret, Iterate, Abort, Record, outer
  <2>3. HostTypeOK'
    BY <1>a, <1>10, <2>1, <2>2, CommandTypes, HashOfType DEF CreatePodmanSecret, Fails,
       WorkOK, SecretsOf, Store
  <2> QED
    BY <1>a, <1>10, <2>3, IterateTypes, RecordTypes DEF CreatePodmanSecret, Abort, Edge,
       Label, Deploying, InDeploy, InCleanup, InnerLoops
<1>11. CASE ReloadUser(p)
  <2>1. name[p] \in Name /\ D(p) \in DesiredState
    BY <1>a, <1>11, DesiredType DEF ReloadUser, Label, Deploying, InDeploy, InCleanup,
       InnerLoops
  <2>2. calm' = calm
    BY <1>11 DEF ReloadUser, MoveWith, Abort, Record, outer
  <2>3. HostTypeOK'
    BY <1>a, <1>11, <2>1, <2>2, CommandTypes DEF ReloadUser, Fails
  <2> QED
    BY <1>a, <1>11, <2>3, MoveWithTypes, RecordTypes DEF ReloadUser, Abort, Edge, Label,
       Deploying, InDeploy, InCleanup, InnerLoops
<1>12. CASE EnableOneTimer(p)
  <2>1. name[p] \in Name /\ D(p) \in DesiredState
    BY <1>a, <1>12, DesiredType DEF EnableOneTimer, Label, Deploying, InDeploy, InCleanup,
       InnerLoops
  <2>2. calm' = calm
    BY <1>12 DEF EnableOneTimer, Iterate, outer
  <2>3. HostTypeOK'
    BY <1>a, <1>12, <2>1, <2>2, CommandTypes DEF EnableOneTimer, Fails, WorkOK
  <2> QED
    BY <1>a, <1>12, <2>3, IterateTypes DEF EnableOneTimer, Edge, Label, Deploying, InDeploy,
       InCleanup, InnerLoops
<1>13. CASE SaveHash(p)
  <2>1. HostTypeOK'
    BY <1>a, <1>13, NoCommandTypes DEF SaveHash, outer
  <2>2. name[p] \in Name /\ HashOf(D(p)) \in Hashes
    BY <1>a, <1>13, DesiredType, HashOfType DEF SaveHash, InDeploy, Deploying
  <2>3. hash' \in [Name -> Hashes \cup {NoHash, TornHash}]
    BY <1>a, <1>13, <2>2 DEF SaveHash, TypeOK
  <2>4. errs' \in [Proc -> SUBSET Name] /\ \A q \in Proc \ {p} : errs'[q] = errs[q]
    <3>1. errs' = errs \/ errs' = [errs EXCEPT ![p] = @ \cup {name[p]}]
      BY <1>13 DEF SaveHash
    <3>2. errs \in [Proc -> SUBSET Name]
      BY <1>a DEF TypeOK
    <3> QED
      BY <2>2, <3>1, <3>2
  <2>5. pc' \in [Proc -> Label] /\ pc'[p] = "restart" /\ \A q \in Proc \ {p} : pc'[q] = pc[q]
    BY <1>a, <1>13 DEF SaveHash, Goto, TypeOK, Label, InDeploy
  <2>6. TypeOK' /\ Local(p) /\ Kept(p) /\ work'[p] = {}
    BY <1>a, <1>13, <2>1, <2>3, <2>4, <2>5 DEF SaveHash, TypeOK, Local, Kept, outer
  <2>7. NameOK(p)' /\ RepoOK(p)' /\ OuterOK(p)
    BY <1>13, <2>5, <2>6, EdgeName DEF SaveHash, Edge, InDeploy, Deploying
  <2>8. WorkOK(p)'
    BY <2>5, <2>6 DEF WorkOK
  <2> QED
    BY <2>6, <2>7, <2>8, OthersKeep DEF TypeInv
<1>14. CASE Restart(p)
  <2>1. name[p] \in Name
    BY <1>a, <1>14, DesiredType DEF Restart, InDeploy
  <2>2. calm' = calm
    BY <1>14 DEF Restart, Move, outer
  <2>3. HostTypeOK'
    BY <1>a, <1>14, <2>1, <2>2, CommandTypes DEF Restart, RestartService, RestartServiceFails
  <2> QED
    BY <1>a, <1>14, <2>3, MoveTypes DEF Restart, WorkOK, Edge, Label, Deploying, InDeploy,
       InCleanup, InnerLoops
<1> QED
  BY <1>1, <1>2, <1>3, <1>4, <1>5, <1>6, <1>7, <1>8, <1>9, <1>10, <1>11, <1>12, <1>13,
     <1>14 DEF DeployStep

LEMMA CleanupTypes ==
  ASSUME TypeInv, NEW p \in Proc, CleanupStep(p)
  PROVE  TypeInv'
<1> USE HostAssumption, ReconcileAssumption
<1>a. TypeOK /\ HostTypeOK /\ NameOK(p) /\ WorkOK(p) /\ RepoOK(p)
  BY DEF TypeInv, TypeOK
<1>1. CASE StartCleanup(p)
  <2>1. HostTypeOK'
    BY <1>a, <1>1, NoCommandTypes DEF StartCleanup, outer
  <2>2. current[p] \ Listed(desired[p]) \in SUBSET Name
    BY <1>a DEF TypeOK
  <2>3. TypeOK' /\ Local(p)
    BY <1>a, <1>1, <2>1, <2>2 DEF StartCleanup, Goto, TypeOK, Local, outer, Label
  <2>4. /\ pc'[p] = "clean" /\ todo'[p] = current[p] \ Listed(desired[p])
        /\ desired'[p] = desired[p] /\ current'[p] = current[p] /\ work'[p] = {}
        /\ UNCHANGED outer /\ lock = p /\ repo \in Commit
    BY <1>a, <1>1 DEF StartCleanup, Goto, TypeOK, WorkOK, RepoOK
  <2>5. NameOK(p)' /\ WorkOK(p)' /\ RepoOK(p)' /\ OuterOK(p)
    BY <2>4 DEF NameOK, WorkOK, RepoOK, OuterOK, Listed, InDeploy, Deploying, InCleanup, outer
  <2> QED
    BY <2>3, <2>4, <2>5, OthersKeep DEF TypeInv
<1>2. CASE CleanupName(p)
  <2>1. HostTypeOK'
    BY <1>a, <1>2, NoCommandTypes DEF CleanupName, outer
  <2>2. PICK n \in todo[p] :
          /\ name' = [name EXCEPT ![p] = n]
          /\ todo' = [todo EXCEPT ![p] = @ \ {n}]
          /\ \/ work' = [work EXCEPT ![p] = UserUnitFiles(n) \cap Timer]
             \/ work' = work
    BY <1>2 DEF CleanupName
  <2>3. todo[p] \subseteq current[p] \ Listed(desired[p]) /\ n \in Name /\ work[p] = {}
    BY <1>a, <1>2 DEF CleanupName, NameOK, WorkOK, TypeOK
  <2>4. /\ work' \in [Proc -> SUBSET (File \cup Secret)] /\ work'[p] \subseteq Timer
        /\ \A q \in Proc \ {p} : work'[q] = work[q]
    <3>1. CASE work' = work
      BY <1>a, <2>3, <3>1 DEF TypeOK
    <3>2. CASE work' = [work EXCEPT ![p] = UserUnitFiles(n) \cap Timer]
      BY <1>a, <3>2 DEF TypeOK
    <3> QED
      BY <2>2, <3>1, <3>2
  <2>5. TypeOK' /\ Local(p)
    BY <1>a, <1>2, <2>1, <2>2, <2>3, <2>4 DEF CleanupName, Goto, TypeOK, Local, outer, Label,
       InCleanup
  <2>6. /\ pc'[p] = "timers" /\ name'[p] = n /\ todo'[p] = todo[p] \ {n}
        /\ desired'[p] = desired[p] /\ current'[p] = current[p]
        /\ UNCHANGED outer /\ lock = p /\ repo \in Commit
    BY <1>a, <1>2, <2>2 DEF CleanupName, Goto, TypeOK, RepoOK
  <2>7. NameOK(p)' /\ WorkOK(p)' /\ RepoOK(p)' /\ OuterOK(p)
    BY <2>3, <2>4, <2>6 DEF NameOK, WorkOK, RepoOK, OuterOK, Listed, InDeploy, Deploying,
       InCleanup, outer
  <2> QED
    BY <2>5, <2>6, <2>7, OthersKeep DEF TypeInv
<1>3. CASE CleanupTimer(p)
  <2>1. name[p] \in Name
    BY <1>a, <1>3 DEF CleanupTimer, NameOK, TypeOK, InCleanup
  <2>2. calm' = calm
    BY <1>3 DEF CleanupTimer, Iterate, outer
  <2>3. HostTypeOK'
    BY <1>a, <1>3, <2>1, <2>2, CommandTypes DEF CleanupTimer, Fails, WorkOK
  <2> QED
    BY <1>a, <1>3, <2>3, IterateTypes DEF CleanupTimer, Edge, Label, Deploying, InDeploy,
       InCleanup, InnerLoops
<1>4. CASE CleanupStop(p)
  <2>1. name[p] \in Name
    BY <1>a, <1>4 DEF CleanupStop, NameOK, TypeOK, InCleanup
  <2>2. calm' = calm
    BY <1>4 DEF CleanupStop, Move, outer
  <2>3. HostTypeOK'
    BY <1>a, <1>4, <2>1, <2>2, CommandTypes DEF CleanupStop, StopService, StopServiceFails
  <2> QED
    BY <1>a, <1>4, <2>3, MoveTypes DEF CleanupStop, Edge, Label, Deploying, InDeploy,
       InCleanup, InnerLoops
<1>5. CASE RemoveAllQuadlets(p)
  <2>1. name[p] \in Name
    BY <1>a, <1>5 DEF RemoveAllQuadlets, NameOK, TypeOK, InCleanup
  <2>2. calm' = calm
    BY <1>5 DEF RemoveAllQuadlets, Move, outer
  <2>3. HostTypeOK'
    BY <1>a, <1>5, <2>1, <2>2, CommandTypes DEF RemoveAllQuadlets, MayFail
  <2> QED
    BY <1>a, <1>5, <2>3, MoveTypes DEF RemoveAllQuadlets, WorkOK, Edge, Label, Deploying,
       InDeploy, InCleanup, InnerLoops
<1>6. CASE DeleteUserNoLinger(p)
  <2>1. name[p] \in Name
    BY <1>a, <1>6 DEF DeleteUserNoLinger, NameOK, TypeOK, InCleanup
  <2>2. calm' = calm
    BY <1>6 DEF DeleteUserNoLinger, Move, outer
  <2>3. HostTypeOK'
    BY <1>a, <1>6, <2>1, <2>2, CommandTypes DEF DeleteUserNoLinger, Fails
  <2> QED
    BY <1>a, <1>6, <2>3, MoveTypes DEF DeleteUserNoLinger, WorkOK, Edge, Label, Deploying,
       InDeploy, InCleanup, InnerLoops
<1>7. CASE DeleteUserTerminate(p)
  <2>1. name[p] \in Name
    BY <1>a, <1>7 DEF DeleteUserTerminate, NameOK, TypeOK, InCleanup
  <2>2. calm' = calm
    BY <1>7 DEF DeleteUserTerminate, Move, outer
  <2>3. HostTypeOK'
    BY <1>a, <1>7, <2>1, <2>2, CommandTypes DEF DeleteUserTerminate, Fails
  <2> QED
    BY <1>a, <1>7, <2>3, MoveTypes DEF DeleteUserTerminate, WorkOK, Edge, Label, Deploying,
       InDeploy, InCleanup, InnerLoops
<1>8. CASE DeleteUser(p)
  <2>1. name[p] \in Name
    BY <1>a, <1>8 DEF DeleteUser, NameOK, TypeOK, InCleanup
  <2>2. calm' = calm
    BY <1>8 DEF DeleteUser, Move, Record, outer
  <2>3. HostTypeOK'
    BY <1>a, <1>8, <2>1, <2>2, CommandTypes DEF DeleteUser, Fails
  <2> QED
    BY <1>a, <1>8, <2>3, MoveTypes, RecordTypes DEF DeleteUser, WorkOK, Edge, Label,
       Deploying, InDeploy, InCleanup, InnerLoops
<1>9. CASE RemoveHash(p)
  <2>1. HostTypeOK'
    BY <1>a, <1>9, NoCommandTypes DEF RemoveHash, outer
  <2>2. hash' \in [Name -> Hashes \cup {NoHash, TornHash}]
    BY <1>a, <1>9 DEF RemoveHash, TypeOK
  <2>3. TypeOK' /\ Local(p) /\ Kept(p) /\ work'[p] = {} /\ pc'[p] = "clean"
    BY <1>a, <1>9, <2>1, <2>2 DEF RemoveHash, Goto, TypeOK, Local, Kept, WorkOK, outer, Label
  <2>4. UNCHANGED outer /\ lock = p /\ repo \in Commit
    BY <1>a, <1>9 DEF RemoveHash, RepoOK
  <2>5. NameOK(p)' /\ WorkOK(p)' /\ RepoOK(p)' /\ OuterOK(p)
    BY <1>a, <1>9, <2>3, <2>4 DEF RemoveHash, Kept, NameOK, WorkOK, RepoOK, OuterOK, InDeploy,
       Deploying, InCleanup, outer
  <2> QED
    BY <2>3, <2>4, <2>5, OthersKeep DEF TypeInv
<1>10. CASE FinishCleanup(p)
  <2>1. HostTypeOK'
    BY <1>a, <1>10, NoCommandTypes DEF FinishCleanup, Move, outer
  <2> QED
    BY <1>a, <1>10, <2>1, MoveTypes DEF FinishCleanup, WorkOK, Edge, Label, Deploying,
       InDeploy, InCleanup, InnerLoops
<1> QED
  BY <1>1, <1>2, <1>3, <1>4, <1>5, <1>6, <1>7, <1>8, <1>9, <1>10 DEF CleanupStep

\* Return and Crash: p is as it was before its first step.
LEMMA ForgetTypes ==
  ASSUME TypeInv, NEW p \in Proc, Forget(p), HostTypeOK', upstream' = upstream,
         UNCHANGED <<repo, head, cut>> \/ (lock = p /\ CutShort),
         hash' \in [Name -> Hashes \cup {NoHash, TornHash}]
  PROVE  TypeInv'
<1>1. Nothing \in [Name -> DesiredState \cup {NoSpec}]
  BY DEF Nothing
<1>2. /\ repo' \in Commit \cup {NoCommit} /\ head' \in Commit \cup {NoCommit, Unborn}
      /\ cut' \in {"no", "free", "locked"} /\ CloneOK'
  BY CloneTypes DEF TypeInv, TypeOK, CloneOK
<1>3. TypeOK' /\ Local(p) /\ pc'[p] = "idle" /\ work'[p] = {}
  BY <1>1, <1>2 DEF TypeInv, TypeOK, Forget, Local, Label
<1>4. NameOK(p)' /\ WorkOK(p)' /\ RepoOK(p)'
  BY <1>3 DEF NameOK, WorkOK, RepoOK, InDeploy, Deploying, InCleanup
<1>5. ASSUME NEW q \in Proc, q # p
      PROVE  NameOK(q)' /\ WorkOK(q)' /\ RepoOK(q)'
  <2>1. NameOK(q)' /\ WorkOK(q)'
    BY <1>3, <1>5 DEF TypeInv, Local, NameOK, WorkOK, D, Listed, FilesOf, SecretsOf
  <2>2. RepoOK(q) /\ pc'[q] = pc[q]
    BY <1>3, <1>5 DEF TypeInv, Local
  <2>3. CASE lock = p
    BY <1>5, <2>1, <2>2, <2>3 DEF RepoOK
  <2>4. CASE lock # p
    BY <2>1, <2>2, <2>4 DEF RepoOK, Forget
  <2> QED
    BY <2>1, <2>3, <2>4
<1> QED
  BY <1>2, <1>3, <1>4, <1>5 DEF TypeInv

LEMMA CrashTypes ==
  ASSUME TypeInv, NEW p \in Proc, Crash(p)
  PROVE  TypeInv'
<1> USE HostAssumption, ReconcileAssumption
<1>a. TypeOK /\ HostTypeOK /\ NameOK(p) /\ WorkOK(p) /\ RepoOK(p)
  BY DEF TypeInv, TypeOK
<1>1. CASE UNCHANGED <<hostVars, hash, repo, head, cut>>
  BY <1>a, <1>1, NoCommandTypes, ForgetTypes DEF Crash, TypeOK
<1>2. CASE pc[p] = "git" /\ CutShort /\ UNCHANGED <<hostVars, hash>>
  <2>1. lock = p
    BY <1>a, <1>2 DEF RepoOK
  <2> QED
    BY <1>a, <1>2, <2>1, NoCommandTypes, ForgetTypes DEF Crash, TypeOK
<1>3. CASE /\ pc[p] = "write" /\ \E f \in work[p] : PutFile(name[p], f, Torn)
           /\ UNCHANGED <<hash, repo, head, cut>>
  <2>1. name[p] \in Name /\ work[p] \subseteq File
    BY <1>a, <1>3, DesiredType DEF WorkOK, FilesOf, InDeploy, Deploying
  <2>2. HostTypeOK'
    BY <1>a, <1>3, <2>1, CommandTypes DEF Crash
  <2> QED
    BY <1>a, <1>3, <2>2, ForgetTypes DEF Crash, TypeOK
<1>4. CASE /\ hash' = [hash EXCEPT ![name[p]] = TornHash]
           /\ UNCHANGED <<hostVars, repo, head, cut>>
  BY <1>a, <1>4, NoCommandTypes, ForgetTypes DEF Crash, TypeOK
<1> QED
  BY <1>1, <1>2, <1>3, <1>4 DEF Crash

\* A push, a redeploy and the removal of a clone leave every process alone.
LEMMA OperatorTypes ==
  ASSUME TypeInv, Push \/ RemoveClone \/ \E n \in Name : Redeploy(n)
  PROVE  TypeInv'
<1> USE ReconcileAssumption
<1>1. CASE Push
  <2>1. HostTypeOK'
    BY <1>1, NoCommandTypes DEF Push, TypeInv, TypeOK
  <2>2. upstream' \in Commit
    BY <1>1 DEF Push, TypeInv, TypeOK
  <2>3. TypeOK' /\ UNCHANGED <<repo, head, cut, lock, pc, desired, current, todo, name, work>>
    BY <1>1, <2>1, <2>2 DEF Push, TypeInv, TypeOK
  <2> QED
    BY <2>3 DEF TypeInv, CloneOK, NameOK, WorkOK, RepoOK, D, Listed, FilesOf, SecretsOf
<1>2. ASSUME NEW n \in Name, Redeploy(n)
      PROVE  TypeInv'
  <2>1. HostTypeOK'
    BY <1>2, NoCommandTypes DEF Redeploy, TypeInv, TypeOK, outer
  <2>2. hash' \in [Name -> Hashes \cup {NoHash, TornHash}]
    BY <1>2 DEF Redeploy, TypeInv, TypeOK
  <2>3. TypeOK' /\ UNCHANGED <<repo, head, cut, lock, pc, desired, current, todo, name, work>>
    BY <1>2, <2>1, <2>2 DEF Redeploy, TypeInv, TypeOK, outer
  <2> QED
    BY <2>3 DEF TypeInv, CloneOK, NameOK, WorkOK, RepoOK, D, Listed, FilesOf, SecretsOf
<1>3. CASE RemoveClone
  <2>1. HostTypeOK'
    BY <1>3, NoCommandTypes DEF RemoveClone, TypeInv, TypeOK
  <2>2. /\ TypeOK' /\ lock = Free /\ head' = NoCommit
        /\ UNCHANGED <<lock, pc, desired, current, todo, name, work>>
    BY <1>3, <2>1 DEF RemoveClone, Clone, TypeInv, TypeOK
  <2>3. \A q \in Proc : RepoOK(q)'
    BY <2>2 DEF TypeInv, RepoOK
  <2>4. CloneOK'
    BY <1>3, ReconcileAssumption DEF RemoveClone, Clone, CloneOK
  <2> QED
    BY <2>2, <2>3, <2>4 DEF TypeInv, NameOK, WorkOK, D, Listed, FilesOf, SecretsOf
<1> QED
  BY <1>1, <1>2, <1>3

LEMMA InitTypes ==
  ASSUME Init
  PROVE  TypeInv
<1>1. HostTypeOK
  <2>1. NoFiles \in Files /\ OwnFiles \in Files /\ NoStore \in Store
    BY HostAssumption DEF NoFiles, Files, NoStore, Store
  <2>2. disk \in [Name -> Files] /\ secrets \in [Name -> Store]
    BY <2>1 DEF Init, HostInit
  <2>3. active \in [Name -> Files \cup {Stopped}]
    BY <2>1 DEF Init, HostInit
  <2> QED
    BY <2>2, <2>3 DEF Init, HostInit, HostTypeOK
<1>2. Nothing \in [Name -> DesiredState \cup {NoSpec}]
  BY DEF Nothing
<1>3. TypeOK
  BY <1>1, <1>2, ReconcileAssumption DEF Init, TypeOK, Label
<1>4. CloneOK /\ \A p \in Proc : NameOK(p) /\ WorkOK(p) /\ RepoOK(p)
  BY ReconcileAssumption
     DEF Init, CloneOK, NameOK, WorkOK, RepoOK, InDeploy, Deploying, InCleanup
<1> QED
  BY <1>3, <1>4 DEF TypeInv

LEMMA StepTypes ==
  ASSUME TypeInv, [Next]_vars
  PROVE  TypeInv'
<1>1. ASSUME NEW p \in Proc, Return(p)
      PROVE  TypeInv'
  BY <1>1, NoCommandTypes, ForgetTypes DEF Return, TypeInv, TypeOK
<1>2. CASE UNCHANGED vars
  <2>1. TypeOK'
    BY <1>2 DEF TypeInv, TypeOK, HostTypeOK, vars, hostVars, outer
  <2> QED
    BY <1>2, <2>1 DEF TypeInv, CloneOK, NameOK, WorkOK, RepoOK, D, Listed, FilesOf, SecretsOf,
       vars, outer
<1> QED
  BY <1>1, <1>2, PrepareTypes, DeployTypes, CleanupTypes, CrashTypes, OperatorTypes
     DEF Next, SyncStep

\* Every variable keeps its type, and the process that is in a loop of Sync has a
\* name of the right kind at hand and no more work than that name's files, units
\* and secrets.
THEOREM TypeCorrect == Spec => []TypeInv
BY InitTypes, StepTypes, PTL DEF Spec

\* The part that the runs check.
THEOREM Typed == Spec => []TypeOK
<1>1. TypeInv => TypeOK
  BY DEF TypeInv
<1> QED
  BY <1>1, TypeCorrect, PTL
=============================================================================
