----------------------------- MODULE DaemonProofs -----------------------------
(***************************************************************************)
(* The daemon's requests act on accounts and services without sync.lock.   *)
(* They keep everything that a running Sync relies on, and none of them    *)
(* reaches an account outside the managed group.                           *)
(***************************************************************************)
EXTENDS Daemon, ReconcileSafety

\* Past the check, until the answer.
Acting == {"act", "unhash", "repull", "podman", "start"}

\* A request that names an account, and once checked, one that is not foreign.
ConnOK(c) ==
  /\ at[c] \in {"check"} \cup Acting => req[c] \in [op : NamedOp, name : Name]
  /\ at[c] \in Acting => req[c].name \notin Foreign

Conns ==
  /\ req \in [Conn -> Request \cup {NoRequest}]
  /\ at \in [Conn -> ConnLabel]
  /\ \A c \in Conn : ConnOK(c)

DaemonInv == SafeInv /\ Conns

\* What is left alone by a step that only starts or stops services, or takes hashes
\* away.
SyncKept ==
  UNCHANGED <<user, linger, disk, loaded, secrets, enabled, outer, pc, desired, current, todo,
              name, work, errs>>

LEMMA OutsideTypes ==
  ASSUME TypeInv, SyncKept, active' \in [Name -> Files \cup {Stopped}],
         hash' \in [Name -> Hashes \cup {NoHash, TornHash}]
  PROVE  TypeInv'
<1>1. HostTypeOK'
  BY DEF TypeInv, TypeOK, HostTypeOK, SyncKept, outer
<1>2. TypeOK' /\ UNCHANGED <<repo, head, cut, lock, pc, desired, current, todo, name, work>>
  BY <1>1 DEF SyncKept, TypeInv, TypeOK, outer
<1> QED
  BY <1>2 DEF TypeInv, CloneOK, NameOK, WorkOK, RepoOK, D, Listed, FilesOf, SecretsOf

\* Whatever Sync is in the middle of, a service that comes or goes and a hash that
\* is taken away leave it right.
LEMMA OutsideSafe ==
  ASSUME SafeInv, SyncKept, active' \in [Name -> Files \cup {Stopped}],
         hash' \in [Name -> Hashes \cup {NoHash, TornHash}],
         \A n \in Name : hash'[n] = hash[n] \/ hash'[n] = NoHash
  PROVE  SafeInv'
<1>1. TypeInv'
  BY OutsideTypes DEF SafeInv
<1>2. ForeignKept'
  BY DEF SafeInv, ForeignKept, SyncKept
<1>3. UNCHANGED <<user, disk, loaded, secrets, repo, lock, pc, desired, current, todo, name,
                  work, errs>>
  BY DEF SyncKept, outer
<1>4. \A n \in Name, d \in DesiredState : NoHash # HashOf(d)
  BY HashOfType, ReconcileAssumption
<1>5. ASSUME NEW p \in Proc
      PROVE  SafeAt(p)'
  <2>1. LockOK(p)' /\ Accounts(p)'
    BY <1>3, <1>5, Facts DEF LockOK, Accounts, Syncing, Applying, Listed
  <2>2. Errors(p)'
    <3>1. \A n \in Name : desired[p][n] # NoSpec => desired[p][n] \in DesiredState
      BY <1>5, Facts DEF TypeOK
    <3>2. errs[p] \subseteq Name
      BY <1>5, Facts DEF TypeOK
    <3> QED
      BY <1>3, <1>4, <1>5, <3>1, <3>2, Facts DEF Errors, Syncing, Applying
  <2>3. Placed(p)'
    <3>1. D(p)' = D(p)
      BY <1>3 DEF D
    <3>2. pc[p] \in Deploying => name[p] \in Name /\ D(p) \in DesiredState
      BY <1>5, Facts, DesiredType DEF InDeploy
    <3> QED
      BY <1>3, <1>4, <1>5, <3>1, <3>2, Facts DEF Placed, FilesOf, SecretsOf
  <2>4. Reported(p)'
    <3>1. \A n \in Name : Deployed(p, n) => Deployed(p, n)'
      BY <1>3 DEF Deployed
    <3>2. pc[p] = "restart" => name[p] \in Name
      BY <1>5, Facts, DesiredType DEF InDeploy
    <3> QED
      BY <1>3, <1>5, <3>1, <3>2, Facts DEF Reported, Listed
  <2> QED
    BY <2>1, <2>2, <2>3, <2>4 DEF SafeAt
<1> QED
  BY <1>1, <1>2, <1>5 DEF SafeInv

-----------------------------------------------------------------------------
(* What a step of the daemon is to Reconcile.                              *)

\* A command on the service of a checked account.
LEMMA ServiceStep ==
  ASSUME DaemonInv, NEW c \in Conn, at[c] \in Acting, NotSync,
         \/ UNCHANGED hostVars
         \/ \E a \in Files \cup {Stopped} : SetActive(Account(c), a)
  PROVE  SafeInv' /\ \A n \in Foreign : SameHost(n)
<1>1. /\ Account(c) \in Name \ Foreign /\ SafeInv /\ TypeOK
      /\ active \in [Name -> Files \cup {Stopped}]
      /\ hash \in [Name -> Hashes \cup {NoHash, TornHash}]
  BY DEF DaemonInv, Conns, ConnOK, Account, SafeInv, TypeInv, TypeOK, HostTypeOK
<1>2. SyncKept /\ active' \in [Name -> Files \cup {Stopped}] /\ hash' = hash
  BY <1>1 DEF NotSync, SyncKept, SetActive, hostVars
<1>3. SafeInv'
  BY <1>1, <1>2, OutsideSafe
<1>4. ASSUME NEW n \in Foreign PROVE SameHost(n)
  BY <1>1, <1>4, CommandLocal, HostAssumption
<1> QED
  BY <1>3, <1>4

LEMMA UnhashStep ==
  ASSUME DaemonInv, NEW c \in Conn, RedeployUnhash(c)
  PROVE  SafeInv' /\ \A n \in Foreign : SameHost(n)
<1>1. /\ Account(c) \in Name /\ SafeInv
      /\ active \in [Name -> Files \cup {Stopped}]
      /\ hash \in [Name -> Hashes \cup {NoHash, TornHash}]
  BY DEF RedeployUnhash, DaemonInv, Conns, ConnOK, Account, Acting, SafeInv, TypeInv, TypeOK,
     HostTypeOK
<1>2. /\ SyncKept /\ UNCHANGED hostVars
      /\ hash' \in [Name -> Hashes \cup {NoHash, TornHash}]
      /\ \A n \in Name : hash'[n] = hash[n] \/ hash'[n] = NoHash
  BY <1>1 DEF RedeployUnhash, SyncKept, hostVars
<1>3. SafeInv'
  BY <1>1, <1>2, OutsideSafe DEF hostVars
<1>4. \A n \in Foreign : SameHost(n)
  BY <1>2 DEF SameHost, hostVars
<1> QED
  BY <1>3, <1>4

\* The commands of the requests, as a new state of one service.
LEMMA ServiceCommand ==
  ASSUME TypeOK, NEW n \in Name, NEW f,
         \/ StartService(n, f) \/ StopService(n, f) \/ RestartService(n, f)
  PROVE  \/ UNCHANGED hostVars
         \/ \E a \in Files \cup {Stopped} : SetActive(n, a)
<1>1. loaded[n] \in Files /\ active[n] \in Files \cup {Stopped}
  BY DEF TypeOK, HostTypeOK
<1> QED
  BY <1>1 DEF StartService, StopService, RestartService

LEMMA ServeStep ==
  ASSUME DaemonInv, NEW c \in Conn, ReadRequest(c) \/ Serve(c)
  PROVE  SafeInv' /\ \A n \in Foreign : SameHost(n)
<1>1. SafeInv /\ TypeOK /\ c \in Proc
  BY DaemonAssumption DEF DaemonInv, SafeInv, TypeInv
<1>2. ASSUME at[c] \in Acting PROVE Account(c) \in Name
  BY <1>2 DEF DaemonInv, Conns, ConnOK, Account
<1>3. ASSUME [Next]_vars PROVE SafeInv' /\ \A n \in Foreign : SameHost(n)
  BY <1>1, <1>3, StepSafe, StepForeignHost
<1>4. CASE ReadRequest(c) \/ RequireManaged(c) \/ WriteResponse(c)
  BY <1>3, <1>4 DEF ReadRequest, RequireManaged, WriteResponse, NotSync, vars
<1>5. CASE CallSync(c) \/ WithinSync(c) \/ SyncReturns(c)
  BY <1>1, <1>3, <1>5 DEF CallSync, WithinSync, SyncReturns, Next, SyncStep, Prepare
<1>6. CASE RedeployUnhash(c)
  BY <1>6, UnhashStep
<1>7. CASE ControlService(c)
  <2>1. at[c] \in Acting /\ NotSync
    BY <1>7 DEF ControlService, Acting
  <2>2. UNCHANGED hostVars \/ \E a \in Files \cup {Stopped} : SetActive(Account(c), a)
    BY <1>1, <1>2, <1>7, <2>1, ServiceCommand DEF ControlService, ServiceAction, Fails
  <2> QED
    BY <2>1, <2>2, ServiceStep
<1>8. CASE RepullStop(c)
  <2>1. at[c] \in Acting /\ NotSync
    BY <1>8 DEF RepullStop, Acting
  <2> QED
    BY <1>1, <1>2, <1>8, <2>1, ServiceCommand, ServiceStep DEF RepullStop
<1>9. CASE RepullRemove(c)
  <2>1. at[c] \in Acting /\ NotSync
    BY <1>9 DEF RepullRemove, Acting
  <2> QED
    BY <1>9, <2>1, ServiceStep DEF RepullRemove
<1>10. CASE RepullStart(c)
  <2>1. at[c] \in Acting /\ NotSync
    BY <1>10 DEF RepullStart, Acting
  <2>2. UNCHANGED hostVars \/ \E a \in Files \cup {Stopped} : SetActive(Account(c), a)
    BY <1>1, <1>2, <1>10, <2>1, ServiceCommand DEF RepullStart, Fails
  <2> QED
    BY <2>1, <2>2, ServiceStep
<1> QED
  BY <1>4, <1>5, <1>6, <1>7, <1>8, <1>9, <1>10 DEF Serve

\* A connection keeps to its request, and only one that has been checked acts.
LEMMA ConnsStep ==
  ASSUME DaemonInv, NEW c \in Conn, ReadRequest(c) \/ Serve(c)
  PROVE  Conns'
<1>1. /\ Conns /\ ConnOK(c)
      /\ ForeignKept /\ NoRequest \notin Request
  BY DaemonAssumption DEF DaemonInv, Conns, SafeInv
<1>2. ASSUME NEW to \in ConnLabel, at' = [at EXCEPT ![c] = to], req' = req,
             to \in Acting => /\ req[c] \in [op : NamedOp, name : Name]
                             /\ req[c].name \notin Foreign,
             to # "check"
      PROVE  Conns'
  BY <1>1, <1>2 DEF Conns, ConnOK, Acting
<1>3. CASE ReadRequest(c)
  <2>1. PICK r \in Request :
          /\ req' = [req EXCEPT ![c] = r]
          /\ at' = [at EXCEPT ![c] = IF r.op = "sync" THEN "sync" ELSE "check"]
    BY <1>3 DEF ReadRequest
  <2>2. r.op # "sync" => r \in [op : NamedOp, name : Name]
    BY DEF Request
  <2>3. req' \in [Conn -> Request \cup {NoRequest}] /\ at' \in [Conn -> ConnLabel]
    BY <1>1, <2>1 DEF Conns, ConnLabel
  <2> QED
    BY <1>1, <2>1, <2>2, <2>3 DEF Conns, ConnOK, Acting
<1>4. CASE RequireManaged(c)
  <2>1. CASE Account(c) \in ManagedUsersOf /\ Turn(c, Dispatched(c))
    <3>1. req[c] \in [op : NamedOp, name : Name]
      BY <1>1, <1>4 DEF RequireManaged, ConnOK
    <3>2. req[c].name \notin Foreign
      BY <1>1, <2>1 DEF Account, ManagedUsersOf, ForeignKept
    <3>3. Dispatched(c) \in {"act", "unhash", "repull"}
      BY <3>1 DEF Dispatched, NamedOp, ServiceOp
    <3> QED
      BY <1>2, <2>1, <3>1, <3>2, <3>3 DEF Turn, ConnLabel
  <2>2. CASE Respond(c, FALSE)
    BY <1>2, <2>2 DEF Respond, Acting, ConnLabel
  <2> QED
    BY <1>4, <2>1, <2>2 DEF RequireManaged
<1>5. CASE WithinSync(c)
  BY <1>1, <1>5 DEF WithinSync, connVars, Conns, ConnOK
<1>6. CASE RepullStop(c) \/ RepullRemove(c)
  BY <1>1, <1>2, <1>6 DEF RepullStop, RepullRemove, Turn, ConnOK, Acting, ConnLabel
<1>7. ASSUME NEW good, Respond(c, good) PROVE Conns'
  BY <1>2, <1>7 DEF Respond, Acting, ConnLabel
<1>8. CASE RedeployUnhash(c) \/ CallSync(c)
  BY <1>2, <1>7, <1>8 DEF RedeployUnhash, CallSync, Turn, Acting, ConnLabel
<1>9. CASE SyncReturns(c) \/ ControlService(c) \/ RepullStart(c)
  BY <1>7, <1>9 DEF SyncReturns, ControlService, RepullStart
<1>10. CASE WriteResponse(c)
  BY <1>1, <1>10 DEF WriteResponse, Conns, ConnOK, Acting, ConnLabel
<1> QED
  BY <1>3, <1>4, <1>5, <1>6, <1>8, <1>9, <1>10 DEF Serve

LEMMA InitDaemon == DaemonInit => DaemonInv
BY InitSafe DEF DaemonInit, DaemonInv, Conns, ConnOK, Acting, ConnLabel

LEMMA StepDaemon ==
  ASSUME DaemonInv, [DaemonNext]_daemonVars
  PROVE  DaemonInv' /\ \A n \in Foreign : SameHost(n)
<1>1. SafeInv /\ Conns
  BY DEF DaemonInv
<1>2. ASSUME [Next]_vars, UNCHANGED connVars
      PROVE  DaemonInv' /\ \A n \in Foreign : SameHost(n)
  BY <1>1, <1>2, StepSafe, StepForeignHost DEF DaemonInv, connVars, Conns, ConnOK
<1>3. CASE UNCHANGED daemonVars
  BY <1>2, <1>3 DEF daemonVars, connVars
<1>4. ASSUME NEW c \in Conn, ReadRequest(c) \/ Serve(c)
      PROVE  DaemonInv' /\ \A n \in Foreign : SameHost(n)
  BY <1>4, ServeStep, ConnsStep DEF DaemonInv
<1>5. ASSUME NEW p \in Proc \ Conn, TimerStep(p)
      PROVE  DaemonInv' /\ \A n \in Foreign : SameHost(n)
  BY <1>2, <1>5 DEF TimerStep, Next
<1>6. CASE OperatorStep
  BY <1>2, <1>6 DEF OperatorStep, Next
<1> QED
  BY <1>3, <1>4, <1>5, <1>6 DEF DaemonNext

-----------------------------------------------------------------------------
(* Types of what the invariant does not speak of.                          *)

LEMMA AnswerTypes ==
  ASSUME DaemonTypeOK, NEW c \in Conn, ReadRequest(c) \/ Serve(c)
  PROVE  ok' \in [Conn -> BOOLEAN]
<1>1. ASSUME ok' = ok PROVE ok' \in [Conn -> BOOLEAN]
  BY <1>1 DEF DaemonTypeOK
<1>2. ASSUME NEW good \in BOOLEAN, ok' = [ok EXCEPT ![c] = good]
      PROVE  ok' \in [Conn -> BOOLEAN]
  BY <1>2 DEF DaemonTypeOK
<1>3. CASE ReadRequest(c)
  BY <1>1, <1>3 DEF ReadRequest
<1>4. CASE RequireManaged(c) \/ ControlService(c) \/ RedeployUnhash(c) \/ RepullStart(c)
             \/ WriteResponse(c)
  BY <1>1, <1>2, <1>4 DEF RequireManaged, ControlService, RedeployUnhash, RepullStart,
     WriteResponse, Turn, Respond
<1>5. CASE CallSync(c) \/ WithinSync(c) \/ RepullStop(c) \/ RepullRemove(c)
  BY <1>1, <1>5 DEF CallSync, WithinSync, RepullStop, RepullRemove, Turn, connVars
<1>6. CASE SyncReturns(c)
  <2>1. (pc[c] = "done" /\ errs[c] = {}) \in BOOLEAN
    OBVIOUS
  <2> QED
    BY <1>2, <1>6, <2>1 DEF SyncReturns, Respond
<1> QED
  BY <1>3, <1>4, <1>5, <1>6 DEF Serve

LEMMA StepDaemonTypes ==
  ASSUME DaemonInv, DaemonTypeOK, [DaemonNext]_daemonVars
  PROVE  DaemonTypeOK'
<1>1. TypeOK' /\ Conns'
  BY StepDaemon DEF DaemonInv, SafeInv, TypeInv
<1>2. CASE UNCHANGED daemonVars
  BY <1>1, <1>2 DEF DaemonTypeOK, Conns, daemonVars
<1>3. CASE DaemonNext
  <2>1. ok' \in [Conn -> BOOLEAN]
    <3>1. ASSUME UNCHANGED connVars PROVE ok' \in [Conn -> BOOLEAN]
      BY <3>1 DEF connVars, DaemonTypeOK
    <3> QED
      BY <1>3, <3>1, AnswerTypes DEF DaemonNext, TimerStep, OperatorStep
  <2>2. fresh' \subseteq Conn /\ unstopped' \subseteq Conn
    BY <1>3 DEF DaemonNext, Watch
  <2> QED
    BY <1>1, <2>1, <2>2 DEF DaemonTypeOK, Conns
<1> QED
  BY <1>2, <1>3

-----------------------------------------------------------------------------
(* Redeploys.                                                              *)

\* The deploy that has just stored the hash of n is about to restart its service.
AtRestart(n) == lock \in Proc /\ pc[lock] = "restart" /\ name[lock] = n

\* The Sync of c has not come to the end of n, or has nothing to do there.
Ahead(c, n) ==
  \/ pc[c] \in {"idle", "git", "build", "users", "failed"}
  \/ pc[c] \in DeployLoop /\ n \in todo[c]
  \/ pc[c] \in InDeploy /\ n = name[c]
  \/ n \notin Listed(desired[c])
  \/ n \in errs[c]

\* A service that has not been started since it was to be redeployed has no hash a
\* sync would skip it for, and the request's own sync has not passed it.
Redeploying(c) ==
  at[c] \in {"sync", "syncing"} /\ req[c].op = "redeploy" =>
    /\ req[c].name \in Name
    /\ \/ c \in fresh
       \/ /\ hash[req[c].name] \notin Hashes \/ AtRestart(req[c].name)
          /\ Ahead(c, req[c].name)

\* Which requests are at which label, and that Sync runs while they wait for it.
ConnOps(c) ==
  /\ at[c] = "check" => req[c].op # "sync"
  /\ at[c] = "act" => req[c].op \in ServiceOp
  /\ at[c] \in {"repull", "podman", "start"} => req[c].op = "repull"
  /\ at[c] = "unhash" => req[c].op = "redeploy"
  /\ at[c] \in {"sync", "syncing"} => req[c].op \in {"sync", "redeploy"}
  /\ at[c] # "syncing" => pc[c] = "idle"

\* The service to be restarted is there.
Restartable(p) == pc[p] = "restart" => HasService(name[p], D(p).service)

RedeployInv ==
  /\ \A c \in Conn : Redeploying(c) /\ ConnOps(c)
  /\ \A p \in Proc : Restartable(p)

\* The steps that change hashes, and the one after saveHash.
LEMMA MarkSteps ==
  ASSUME NEW q \in Proc, SyncStep(q)
  PROVE  hash' = hash \/ SaveHash(q) \/ RemoveHash(q)
<1>1. Prepare(q) \/ Return(q) => hash' = hash
  BY DEF Prepare, Lock, LockBusy, GitSync, Git, BuildDesired, ManagedUsers, Return, Move,
     outer
<1>2. DeployStep(q) => hash' = hash \/ SaveHash(q)
  BY DEF DeployStep, NextName, CreateUser, CreateUserLinger, SpecChanged,
     WriteQuadletFile, WaitForUserManager, ListUserUnits, PruneUserUnit, PruneDone,
     CreatePodmanSecret, ReloadUser, EnableOneTimer, Restart, Move, MoveWith,
     Iterate, Abort, Record
<1>3. CleanupStep(q) => hash' = hash \/ RemoveHash(q)
  BY DEF CleanupStep, StartCleanup, CleanupName, CleanupTimer, CleanupStop,
     RemoveAllQuadlets, DeleteUserNoLinger, DeleteUserTerminate, DeleteUser,
     FinishCleanup, Move, MoveWith, Iterate, Record
<1> QED
  BY <1>1, <1>2, <1>3 DEF SyncStep

LEMMA RestartStep ==
  ASSUME NEW q \in Proc, SyncStep(q), pc[q] = "restart"
  PROVE  Restart(q)
<1>1. ~Prepare(q) /\ ~Return(q)
  BY DEF Prepare, Lock, LockBusy, GitSync, BuildDesired, ManagedUsers, Return
<1>2. DeployStep(q) => Restart(q)
  BY DEF DeployStep, NextName, CreateUser, CreateUserLinger, SpecChanged,
     WriteQuadletFile, WaitForUserManager, ListUserUnits, PruneUserUnit, PruneDone,
     CreatePodmanSecret, ReloadUser, EnableOneTimer, SaveHash
<1>3. ~CleanupStep(q)
  BY DEF CleanupStep, StartCleanup, CleanupName, CleanupTimer, CleanupStop,
     RemoveAllQuadlets, DeleteUserNoLinger, DeleteUserTerminate, DeleteUser, RemoveHash,
     FinishCleanup
<1> QED
  BY <1>1, <1>2, <1>3 DEF SyncStep

\* A hash comes only with a restart right behind it.
LEMMA SyncMarks ==
  ASSUME SafeInv, NEW q \in Proc, SyncStep(q), Restartable(q), NEW n \in Name,
         hash[n] \notin Hashes \/ AtRestart(n)
  PROVE  \/ hash'[n] \notin Hashes
         \/ AtRestart(n)'
         \/ /\ pc[q] = "restart" /\ pc'[q] # "restart" /\ name[q] = n
            /\ HasService(n, D(q).service)
<1>1. TypeOK /\ LockOK(q) /\ NoHash \notin Hashes /\ Local(q)
  BY Facts, EveryLocal, ReconcileAssumption
<1>2. CASE AtRestart(n) /\ lock # q
  <2>1. UNCHANGED lock /\ lock \in Proc \ {q}
    BY <1>1, <1>2, Alone DEF AtRestart
  <2> QED
    BY <1>1, <1>2, <2>1 DEF AtRestart, Local
<1>3. CASE AtRestart(n) /\ lock = q
  <2>1. Restart(q)
    BY <1>3, RestartStep DEF AtRestart
  <2> QED
    BY <1>1, <1>3, <2>1 DEF AtRestart, Restart, Move, Goto, TypeOK, Restartable
<1>4. CASE hash[n] \notin Hashes
  <2>1. CASE SaveHash(q)
    <3>1. lock = q /\ lock' = q /\ pc'[q] = "restart" /\ name'[q] = name[q]
      BY <1>1, <2>1 DEF SaveHash, Goto, LockOK, Syncing, TypeOK, outer
    <3>2. hash'[n] = hash[n] \/ name[q] = n
      BY <1>1, <2>1 DEF SaveHash, TypeOK
    <3> QED
      BY <1>4, <3>1, <3>2 DEF AtRestart
  <2>2. CASE RemoveHash(q)
    BY <1>1, <1>4, <2>2 DEF RemoveHash, TypeOK
  <2> QED
    BY <1>4, <2>1, <2>2, MarkSteps
<1> QED
  BY <1>2, <1>3, <1>4

\* Sync does not pass a name without a hash, other than by restarting its service.
LEMMA AheadKept ==
  ASSUME SafeInv, NEW q \in Proc, SyncStep(q), NEW n \in Name, Ahead(q, n),
         hash[n] \notin Hashes \/ AtRestart(n)
  PROVE  Ahead(q, n)' \/ (pc[q] = "restart" /\ name[q] = n)
<1>1. TypeOK /\ LockOK(q)
  BY Facts
<1>2. CASE Prepare(q)
  BY <1>1, <1>2 DEF Prepare, Lock, LockBusy, GitSync, Git, BuildDesired, ManagedUsers, Goto,
     Move, TypeOK, Ahead, DeployLoop
<1>3. CASE Return(q)
  BY <1>1, <1>3 DEF Return, Forget, TypeOK, Ahead
<1>4. CASE DeployStep(q)
  <2>1. CASE NextName(q)
    BY <1>1, <2>1 DEF NextName, Goto, TypeOK, Ahead, DeployLoop, InDeploy, Deploying
  <2>2. CASE SpecChanged(q)
    <3>1. name[q] \in Name /\ HashOf(D(q)) \in Hashes
      BY <2>2, Facts, DesiredType, HashOfType DEF SpecChanged, InDeploy
    <3>2. lock = q /\ ~AtRestart(n)
      BY <1>1, <2>2 DEF SpecChanged, LockOK, Syncing, AtRestart
    <3> QED
      BY <1>1, <2>2, <3>1, <3>2 DEF SpecChanged, Move, Goto, TypeOK, Ahead, DeployLoop, InDeploy,
         Deploying
  <2>3. CASE CreateUser(q) \/ CreateUserLinger(q) \/ WriteQuadletFile(q)
               \/ WaitForUserManager(q) \/ ListUserUnits(q)
    BY <1>1, <2>3 DEF CreateUser, CreateUserLinger, WriteQuadletFile, WaitForUserManager,
       ListUserUnits, Goto, Move, MoveWith, Iterate, Abort, Record, TypeOK, Ahead, DeployLoop,
       InDeploy, Deploying
  <2>4. CASE PruneUserUnit(q) \/ PruneDone(q) \/ CreatePodmanSecret(q) \/ ReloadUser(q)
               \/ EnableOneTimer(q)
    BY <1>1, <2>4 DEF PruneUserUnit, PruneDone, CreatePodmanSecret, ReloadUser, EnableOneTimer,
       Goto, Move, MoveWith, Iterate, Abort, Record, TypeOK, Ahead, DeployLoop, InDeploy,
       Deploying
  <2>5. CASE SaveHash(q) \/ Restart(q)
    BY <1>1, <2>5 DEF SaveHash, Restart, Goto, Move, TypeOK, Ahead, DeployLoop, InDeploy,
       Deploying
  <2> QED
    BY <1>4, <2>1, <2>2, <2>3, <2>4, <2>5 DEF DeployStep
<1>5. CASE CleanupStep(q)
  BY <1>1, <1>5 DEF CleanupStep, StartCleanup, CleanupName, CleanupTimer, CleanupStop,
     RemoveAllQuadlets, DeleteUserNoLinger, DeleteUserTerminate, DeleteUser, RemoveHash,
     FinishCleanup, Goto, Move, MoveWith, Iterate, Record, TypeOK, Ahead, DeployLoop, InDeploy,
     Deploying, InCleanup
<1> QED
  BY <1>2, <1>3, <1>4, <1>5 DEF SyncStep

\* What saveHash leaves to be restarted was loaded before.
LEMMA RestartableKept ==
  ASSUME SafeInv, SafeInv', NEW q \in Proc, SyncStep(q), NEW p \in Proc, Restartable(p)
  PROVE  Restartable(p)'
<1>1. TypeOK /\ LockOK(p) /\ LockOK(q) /\ Local(q)
  BY Facts, EveryLocal
<1>2. CASE p # q
  <2>1. /\ pc'[p] = pc[p] /\ name'[p] = name[p] /\ desired'[p] = desired[p]
    BY <1>1, <1>2 DEF Local
  <2>2. pc[p] = "restart" => loaded' = loaded
    BY <1>1, <1>2, Alone DEF LockOK, Syncing, hostVars
  <2> QED
    BY <2>1, <2>2 DEF Restartable, HasService, D
<1>3. CASE p = q
  <2> SUFFICES ASSUME pc'[q] = "restart" PROVE HasService(name[q], D(q).service)'
    BY <1>3 DEF Restartable
  <2>1. SaveHash(q)
    <3>1. ~Prepare(q) /\ ~Return(q)
      BY <1>1 DEF Prepare, Lock, LockBusy, GitSync, Git, BuildDesired, ManagedUsers, Return,
         Forget, Goto, Move, TypeOK
    <3>2. ~CleanupStep(q)
      BY <1>1 DEF CleanupStep, StartCleanup, CleanupName, CleanupTimer, CleanupStop,
         RemoveAllQuadlets, DeleteUserNoLinger, DeleteUserTerminate, DeleteUser, RemoveHash,
         FinishCleanup, Goto, Move, MoveWith, Iterate, Record, TypeOK
    <3>3. DeployStep(q) => SaveHash(q)
      BY <1>1 DEF DeployStep, NextName, CreateUser, CreateUserLinger, SpecChanged,
         WriteQuadletFile, WaitForUserManager, ListUserUnits, PruneUserUnit, PruneDone,
         CreatePodmanSecret, ReloadUser, EnableOneTimer, Restart, Goto, Move, MoveWith,
         Iterate, Abort, Record, TypeOK
    <3> QED
      BY <3>1, <3>2, <3>3 DEF SyncStep
  <2>2. D(q) \in DesiredState /\ name[q] \in Name /\ Placed(q) /\ pc[q] = "enable" /\ work[q] = {}
    BY <2>1, Facts, DesiredType DEF SaveHash, InDeploy, Deploying
  <2>3. D(q).service \in FilesOf(D(q))
    BY <2>2 DEF DesiredState, FilesOf
  <2>4. HasService(name[q], D(q).service)
    BY <2>2, <2>3 DEF Placed, HasService, FilesOf
  <2>5. loaded' = loaded /\ name' = name /\ desired' = desired
    BY <2>1 DEF SaveHash, hostVars
  <2> QED
    BY <2>4, <2>5 DEF HasService, D
<1> QED
  BY <1>2, <1>3

\* What is known of a request that waits, after a step of Sync.
LEMMA SyncRedeploys ==
  ASSUME SafeInv, NEW q \in Proc, SyncStep(q), \A p \in Proc : Restartable(p), Watch,
         NEW c \in Conn, Redeploying(c), at'[c] = at[c], req'[c] = req[c],
         at[c] = "syncing" \/ c # q
  PROVE  Redeploying(c)'
<1> SUFFICES ASSUME at[c] \in {"sync", "syncing"}, req[c].op = "redeploy"
             PROVE  /\ req[c].name \in Name
                    /\ \/ c \in fresh'
                       \/ /\ hash'[req[c].name] \notin Hashes \/ AtRestart(req[c].name)'
                          /\ Ahead(c, req[c].name)'
  BY DEF Redeploying
<1>1. req[c].name \in Name /\ c \in Proc
  BY DaemonAssumption DEF Redeploying
<1>2. c \in fresh \/ Starts(req[c].name) => c \in fresh'
  BY DEF Watch
<1>3. CASE c \notin fresh
  <2>1. PICK n \in Name : n = req[c].name
    BY <1>1
  <2>2. (hash[n] \notin Hashes \/ AtRestart(n)) /\ Ahead(c, n)
    BY <1>3, <2>1 DEF Redeploying
  <2>3. \/ hash'[n] \notin Hashes \/ AtRestart(n)'
        \/ Starts(n)
    BY <2>2, SyncMarks DEF Starts
  <2>4. Ahead(c, n)' \/ Starts(n)
    <3>1. CASE c = q
      <4>1. CASE pc[q] = "restart" /\ name[q] = n
        <5>1. Restart(q) /\ TypeOK
          BY <4>1, RestartStep, Facts
        <5> QED
          BY <4>1, <5>1 DEF Restart, Move, Goto, TypeOK, Restartable, Starts
      <4> QED
        BY <2>2, <3>1, <4>1, AheadKept
    <3>2. CASE c # q
      <4>1. Local(q)
        BY EveryLocal, Facts
      <4> QED
        BY <1>1, <2>2, <3>2, <4>1 DEF Local, Ahead
    <3> QED
      BY <3>1, <3>2
  <2> QED
    BY <1>1, <1>2, <2>1, <2>3, <2>4
<1> QED
  BY <1>1, <1>2, <1>3

\* ... and after a step outside it, which at most takes hashes away.
LEMMA OutsideRedeploys ==
  ASSUME NEW c \in Conn, Redeploying(c), at'[c] = at[c], req'[c] = req[c], Watch,
         UNCHANGED <<lock, pc, desired, todo, name, errs>>,
         \A n \in Name : hash'[n] = hash[n] \/ hash'[n] = NoHash
  PROVE  Redeploying(c)'
<1>1. NoHash \notin Hashes
  BY ReconcileAssumption
<1>2. at[c] # "read" /\ c \in fresh => c \in fresh'
  BY DEF Watch
<1>3. \A n \in Name : /\ AtRestart(n) => AtRestart(n)'
                      /\ Ahead(c, n) => Ahead(c, n)'
  BY DEF AtRestart, Ahead
<1> QED
  BY <1>1, <1>2, <1>3 DEF Redeploying

LEMMA StepDaemonRedeploy ==
  ASSUME DaemonInv, RedeployInv, [DaemonNext]_daemonVars
  PROVE  RedeployInv'
<1>1. SafeInv /\ SafeInv' /\ Conns /\ Conn \subseteq Proc /\ TypeOK
  BY StepDaemon, DaemonAssumption DEF DaemonInv, SafeInv, TypeInv
<1>2. \A c \in Conn : Redeploying(c) /\ ConnOps(c)
  BY DEF RedeployInv
<1>3. \A p \in Proc : Restartable(p)
  BY DEF RedeployInv
<1>4. ASSUME UNCHANGED <<loaded, pc, name, desired>> PROVE \A p \in Proc : Restartable(p)'
  BY <1>3, <1>4 DEF Restartable, HasService, D
<1>5. CASE UNCHANGED daemonVars
  <2>1. UNCHANGED <<hash, lock, loaded, pc, desired, todo, name, errs, at, req, fresh>>
    BY <1>5 DEF daemonVars, vars, hostVars, outer
  <2> QED
    BY <1>2, <1>4, <2>1 DEF RedeployInv, Redeploying, ConnOps, AtRestart, Ahead
<1>6. ASSUME NEW q \in Proc, SyncStep(q) PROVE \A p \in Proc : Restartable(p)'
  BY <1>1, <1>3, <1>6, RestartableKept
<1>7. ASSUME NEW q \in Proc, SyncStep(q), NEW c \in Conn \ {q} PROVE pc'[c] = pc[c]
  BY <1>1, <1>7, EveryLocal DEF Local
<1>8. ASSUME NEW p \in Proc \ Conn, TimerStep(p), Watch PROVE RedeployInv'
  <2>1. \A c \in Conn : Redeploying(c)'
    BY <1>1, <1>2, <1>3, <1>8, SyncRedeploys DEF TimerStep, connVars
  <2>2. \A c \in Conn : ConnOps(c)'
    BY <1>2, <1>7, <1>8 DEF TimerStep, connVars, ConnOps
  <2> QED
    BY <1>6, <1>8, <2>1, <2>2 DEF TimerStep, RedeployInv
<1>9. ASSUME OperatorStep, Watch PROVE RedeployInv'
  <2>1. UNCHANGED <<loaded, lock, pc, desired, todo, name, errs, at, req>>
    BY <1>9 DEF OperatorStep, Push, RemoveClone, Redeploy, connVars, hostVars, outer
  <2>2. \A n \in Name : hash'[n] = hash[n] \/ hash'[n] = NoHash
    BY <1>1, <1>9 DEF OperatorStep, Push, RemoveClone, Redeploy, TypeOK
  <2> QED
    BY <1>2, <1>4, <1>9, <2>1, <2>2, OutsideRedeploys DEF RedeployInv, ConnOps
<1>10. ASSUME NEW q \in Conn, ReadRequest(q) \/ Serve(q), Watch PROVE RedeployInv'
  <2>1. ASSUME NEW c \in Conn \ {q} PROVE at'[c] = at[c] /\ req'[c] = req[c]
    BY <1>1, <1>10, <2>1 DEF Conns, ReadRequest, Serve, RequireManaged, ControlService,
       RedeployUnhash, CallSync, WithinSync, SyncReturns, RepullStop, RepullRemove, RepullStart,
       WriteResponse, Turn, Respond, connVars
  <2>2. ASSUME SyncStep(q), WithinSync(q) \/ CallSync(q) \/ SyncReturns(q) PROVE RedeployInv'
    <3>1. \A c \in Conn \ {q} : Redeploying(c)' /\ ConnOps(c)'
      BY <1>1, <1>2, <1>3, <1>7, <1>10, <2>1, <2>2, SyncRedeploys DEF ConnOps
    <3>2. Redeploying(q)' /\ ConnOps(q)'
      <4>1. CASE WithinSync(q)
        BY <1>1, <1>2, <1>3, <1>10, <2>2, <4>1, SyncRedeploys
           DEF WithinSync, connVars, ConnOps
      <4>2. CASE CallSync(q)
        <5>1. at'[q] = "syncing" /\ req' = req /\ pc'[q] \in {"git", "failed"}
          BY <1>1, <4>2 DEF CallSync, Turn, Lock, LockBusy, Goto, Move, Conns, TypeOK
        <5>2. pc[q] = "idle" /\ at[q] = "sync"
          BY <1>2, <4>2 DEF CallSync, ConnOps
        <5>3. ASSUME req[q].op = "redeploy" PROVE Redeploying(q)'
          <6>1. PICK n \in Name : n = req[q].name
            BY <1>2, <5>2, <5>3 DEF Redeploying
          <6>2. q \in fresh => q \in fresh'
            BY <1>10, <5>1 DEF Watch
          <6>3. q \in fresh' \/ hash'[n] \notin Hashes \/ AtRestart(n)'
            BY <1>1, <1>2, <1>3, <2>2, <5>2, <5>3, <6>1, <6>2, SyncMarks DEF Redeploying
          <6> QED
            BY <5>1, <6>1, <6>3 DEF Redeploying, Ahead
        <5> QED
          BY <1>2, <5>1, <5>2, <5>3 DEF Redeploying, ConnOps
      <4>3. CASE SyncReturns(q)
        BY <1>1, <4>3 DEF SyncReturns, Return, Forget, Respond, Conns, TypeOK, Redeploying,
           ConnOps
      <4> QED
        BY <2>2, <4>1, <4>2, <4>3
    <3> QED
      BY <1>1, <1>6, <2>2, <3>1, <3>2 DEF RedeployInv
  <2>3. CASE WithinSync(q) \/ CallSync(q) \/ SyncReturns(q)
    BY <2>2, <2>3 DEF WithinSync, CallSync, SyncReturns, SyncStep, Prepare
  <2>4. ASSUME UNCHANGED <<loaded, lock, pc, desired, todo, name, errs>>,
               \A n \in Name : hash'[n] = hash[n] \/ hash'[n] = NoHash,
               Redeploying(q)', ConnOps(q)'
        PROVE  RedeployInv'
    <3>1. \A c \in Conn \ {q} : Redeploying(c)' /\ ConnOps(c)'
      BY <1>2, <1>10, <2>1, <2>4, OutsideRedeploys DEF ConnOps
    <3> QED
      BY <1>4, <2>4, <3>1 DEF RedeployInv
  <2>5. CASE RedeployUnhash(q)
    <3>1. /\ UNCHANGED <<loaded, lock, pc, desired, todo, name, errs>>
          /\ \A n \in Name : hash'[n] = hash[n] \/ hash'[n] = NoHash
      BY <1>1, <2>5 DEF RedeployUnhash, hostVars, outer, TypeOK
    <3>2. Account(q) \in Name /\ pc[q] = "idle" /\ NoHash \notin Hashes
      BY <1>1, <1>2, <2>5, ReconcileAssumption DEF RedeployUnhash, Conns, ConnOK, Acting,
         Account, ConnOps
    <3>3. Redeploying(q)' /\ ConnOps(q)'
      BY <1>1, <1>2, <2>5, <3>1, <3>2 DEF RedeployUnhash, Turn, Respond, Conns, TypeOK,
         Account, Redeploying, ConnOps, Ahead
    <3> QED
      BY <2>4, <3>1, <3>3
  <2>6. ASSUME NotSync, loaded' = loaded, at'[q] \notin {"sync", "syncing"}, ConnOps(q)'
        PROVE  RedeployInv'
    BY <2>4, <2>6 DEF NotSync, outer, Redeploying
  <2>7. CASE ReadRequest(q)
    <3>1. PICK r \in Request :
            /\ req'[q] = r
            /\ at'[q] = IF r.op = "sync" THEN "sync" ELSE "check"
      BY <1>1, <2>7 DEF ReadRequest, Conns
    <3>2. ConnOps(q)' /\ Redeploying(q)'
      BY <1>2, <2>7, <3>1 DEF ReadRequest, NotSync, ConnOps, Redeploying
    <3> QED
      BY <2>4, <2>7, <3>2 DEF ReadRequest, NotSync, hostVars, outer
  <2>8. CASE RequireManaged(q)
    <3>1. req[q].op \in NamedOp
      BY <1>1, <2>8 DEF RequireManaged, Conns, ConnOK
    <3>2. CASE Turn(q, Dispatched(q))
      BY <1>1, <1>2, <2>6, <2>8, <3>1, <3>2 DEF RequireManaged, Turn, Dispatched, NamedOp,
         ServiceOp, Conns, ConnOps, NotSync, hostVars
    <3>3. CASE Respond(q, FALSE)
      BY <1>1, <1>2, <2>6, <2>8, <3>3 DEF RequireManaged, Respond, Conns, ConnOps, NotSync,
         hostVars
    <3> QED
      BY <2>8, <3>2, <3>3 DEF RequireManaged
  <2>9. CASE ControlService(q) \/ RepullStart(q)
    <3>1. PICK good \in BOOLEAN : Respond(q, good)
      BY <2>9 DEF ControlService, RepullStart
    <3>2. loaded' = loaded /\ NotSync /\ at[q] # "syncing"
      BY <2>9 DEF ControlService, RepullStart, ServiceAction, StartService, StopService,
         RestartService, SetActive, Fails, hostVars
    <3> QED
      BY <1>1, <1>2, <2>6, <3>1, <3>2 DEF Respond, Conns, ConnOps, NotSync
  <2>10. CASE RepullStop(q) \/ RepullRemove(q) \/ WriteResponse(q)
    <3>1. loaded' = loaded /\ NotSync
      BY <2>10 DEF RepullStop, RepullRemove, WriteResponse, StopService, StopServiceFails,
         SetActive, hostVars
    <3>2. at'[q] \notin {"sync", "syncing"} /\ ConnOps(q)'
      BY <1>1, <1>2, <2>10, <3>1 DEF RepullStop, RepullRemove, WriteResponse, Turn, Conns,
         ConnOps, NotSync
    <3> QED
      BY <2>6, <3>1, <3>2
  <2> QED
    BY <1>10, <2>3, <2>5, <2>7, <2>8, <2>9, <2>10 DEF Serve
<1> QED
  BY <1>5, <1>8, <1>9, <1>10 DEF DaemonNext

\* Only the step of a connection changes where it is, and its request.
LEMMA OtherConns ==
  ASSUME Conns, [DaemonNext]_daemonVars, NEW c \in Conn
  PROVE  ReadRequest(c) \/ Serve(c) \/ (at'[c] = at[c] /\ req'[c] = req[c])
<1>1. ASSUME NEW q \in Conn, ReadRequest(q) \/ Serve(q), q # c
      PROVE  at'[c] = at[c] /\ req'[c] = req[c]
  BY <1>1 DEF Conns, ReadRequest, Serve, RequireManaged, ControlService, RedeployUnhash,
     CallSync, WithinSync, SyncReturns, RepullStop, RepullRemove, RepullStart, WriteResponse,
     Turn, Respond, connVars
<1> QED
  BY <1>1 DEF DaemonNext, TimerStep, OperatorStep, connVars, daemonVars

\* The answer: what Sync reports of a name it has not come to the end of is that the
\* repository has no such name.
LEMMA AnswerRedeploy ==
  ASSUME DaemonInv, RedeployInv, DaemonTypeOK, [DaemonNext]_daemonVars, NEW c \in Conn,
         at[c] # "write", at'[c] = "write", ok'[c], req[c].op = "redeploy"
  PROVE  c \in fresh \/ user[Account(c)] # "managed"
<1>1. Serve(c)
  <2>1. UNCHANGED at => FALSE
    OBVIOUS
  <2>2. ~ReadRequest(c)
    BY DEF ReadRequest, DaemonTypeOK
  <2> QED
    BY <2>1, <2>2, OtherConns DEF DaemonInv
<1>2. Redeploying(c) /\ ConnOps(c)
  BY DEF RedeployInv
<1>3. ~Respond(c, FALSE)
  BY DEF Respond, DaemonTypeOK
<1>4. SyncReturns(c)
  <2>1. ASSUME NEW to, Turn(c, to) PROVE to = "write"
    BY <2>1 DEF Turn, DaemonTypeOK
  <2>2. Dispatched(c) = "unhash"
    BY DEF Dispatched, ServiceOp
  <2> QED
    BY <1>1, <1>2, <1>3, <2>1, <2>2 DEF Serve, RequireManaged, ControlService, ServiceOp,
       RedeployUnhash, CallSync, WithinSync, RepullStop, RepullRemove, RepullStart,
       WriteResponse, ConnOps, connVars, DaemonTypeOK
<1>5. pc[c] = "done" /\ errs[c] = {}
  BY <1>4 DEF SyncReturns, Respond, DaemonTypeOK
<1>6. c \in fresh \/ Account(c) \in Name \ Listed(desired[c])
  BY <1>2, <1>4, <1>5 DEF SyncReturns, Redeploying, Ahead, Account, DeployLoop, InDeploy,
     Deploying
<1>7. Reported(c)
  BY Facts, DaemonAssumption DEF DaemonInv
<1>8. \A n \in Name \ Listed(desired[c]) : user[n] # "managed"
  BY <1>5, <1>7 DEF Reported, InCleanup
<1>9. PICK n : n = Account(c)
  OBVIOUS
<1> QED
  BY <1>6, <1>8, <1>9

-----------------------------------------------------------------------------
(* Repulls.                                                                *)

\* Once a repull has stopped its service, it is down until somebody starts it.
Repulling(c) ==
  at[c] \in {"podman", "start"} =>
    c \in fresh \cup unstopped \/ active[req[c].name] = Stopped

\* Between two requests of a connection nothing of its history is forgotten, and a
\* service that comes up is remembered.
LEMMA RepullKept ==
  ASSUME DaemonInv, Watch, NEW c \in Conn, at[c] \in {"podman", "start"}, Repulling(c),
         at'[c] # "read", req'[c] = req[c]
  PROVE  c \in fresh' \cup unstopped' \/ active'[req[c].name] = Stopped
<1>1. req[c].name \in Name
  BY DEF DaemonInv, Conns, ConnOK, Acting
<1>2. CASE c \in fresh \cup unstopped
  BY <1>2 DEF Watch
<1>3. CASE active[req[c].name] = Stopped
  BY <1>1, <1>3 DEF Watch, Starts
<1> QED
  BY <1>2, <1>3 DEF Repulling

\* How a connection gets to the commands of podman, and on to its start.
LEMMA RepullSteps ==
  ASSUME DaemonInv, NEW c \in Conn, ReadRequest(c) \/ Serve(c), at'[c] \in {"podman", "start"}
  PROVE  /\ req'[c] = req[c]
         /\ (RepullStop(c) /\ at[c] = "repull" /\ at'[c] = "podman") \/ at[c] = "podman"
<1>1. Conns
  BY DEF DaemonInv
<1>2. ~\E good : Respond(c, good)
  BY <1>1 DEF Respond, Conns
<1>3. ~RequireManaged(c)
  BY <1>1, <1>2 DEF RequireManaged, Turn, Dispatched, Conns, ConnOK, NamedOp, ServiceOp
<1>4. ~ReadRequest(c) /\ ~WriteResponse(c) /\ ~CallSync(c) /\ ~WithinSync(c) /\ ~RedeployUnhash(c)
  BY <1>1, <1>2 DEF ReadRequest, WriteResponse, CallSync, WithinSync, RedeployUnhash, Turn,
     connVars, Conns
<1>5. RepullStop(c) \/ RepullRemove(c)
  BY <1>2, <1>3, <1>4 DEF Serve, ControlService, SyncReturns, RepullStart
<1> QED
  BY <1>1, <1>5 DEF RepullStop, RepullRemove, Turn, Conns

LEMMA StepRepull ==
  ASSUME DaemonInv, NEW c \in Conn, Repulling(c), [DaemonNext]_daemonVars
  PROVE  Repulling(c)'
<1>1. CASE UNCHANGED daemonVars
  BY <1>1 DEF Repulling, daemonVars, vars, hostVars
<1>2. CASE DaemonNext
  <2> SUFFICES ASSUME at'[c] \in {"podman", "start"}
               PROVE  c \in fresh' \cup unstopped' \/ active'[req'[c].name] = Stopped
    BY DEF Repulling
  <2>1. Watch /\ Conns
    BY <1>2 DEF DaemonNext, DaemonInv
  <2>2. CASE at'[c] = at[c] /\ req'[c] = req[c]
    BY <2>1, <2>2, RepullKept
  <2>3. CASE ReadRequest(c) \/ Serve(c)
    <3>1. CASE at[c] = "podman"
      BY <2>1, <2>3, <3>1, RepullKept, RepullSteps
    <3>2. CASE at[c] = "repull" /\ at'[c] = "podman"
      BY <2>1, <2>3, <3>2, RepullSteps DEF Watch, RunsOn, Account
    <3> QED
      BY <2>3, <3>1, <3>2, RepullSteps
  <2> QED
    BY <2>1, <2>2, <2>3, OtherConns
<1> QED
  BY <1>1, <1>2

\* The answer "repulled" is that of a start, which brings a service up that is down.
LEMMA AnswerRepull ==
  ASSUME DaemonInv, RedeployInv, DaemonTypeOK, [DaemonNext]_daemonVars,
         NEW c \in Conn, Repulling(c),
         at[c] # "write", at'[c] = "write", ok'[c], req[c].op = "repull"
  PROVE  c \in fresh' \/ c \in unstopped
<1>1. Conns /\ ConnOps(c)
  BY DEF DaemonInv, RedeployInv
<1>2. Serve(c) /\ Watch
  <2>1. ~UNCHANGED daemonVars /\ at'[c] # at[c]
    BY DEF daemonVars
  <2>2. ~ReadRequest(c)
    BY <1>1 DEF ReadRequest, Conns
  <2> QED
    BY <1>1, <2>1, <2>2, OtherConns DEF DaemonNext
<1>3. ~Respond(c, FALSE)
  BY DEF Respond, DaemonTypeOK
<1>4. RepullStart(c)
  <2>1. ASSUME NEW to, Turn(c, to) PROVE to = "write"
    BY <1>1, <2>1 DEF Turn, Conns
  <2>2. Dispatched(c) = "repull"
    BY DEF Dispatched, ServiceOp
  <2> QED
    BY <1>1, <1>2, <1>3, <2>1, <2>2 DEF Serve, RequireManaged, ControlService, ServiceOp,
       RedeployUnhash, CallSync, WithinSync, SyncReturns, RepullStop, RepullRemove,
       WriteResponse, ConnOps, connVars
<1>5. /\ StartService(Account(c), Service(c)) /\ at[c] = "start" /\ req' = req
      /\ Account(c) \in Name
  BY <1>1, <1>3, <1>4 DEF RepullStart, Respond, Conns, ConnOK, Acting, Account
<1>6. CASE c \in fresh \cup unstopped
  BY <1>2, <1>6 DEF Watch
<1>7. CASE active[Account(c)] = Stopped
  <2>1. loaded[Account(c)] \in Files /\ active \in [Name -> Files \cup {Stopped}]
    BY <1>5 DEF DaemonTypeOK, TypeOK, HostTypeOK
  <2>2. active'[Account(c)] # Stopped
    BY <1>5, <1>7, <2>1, StoppedAssumption DEF StartService, SetActive
  <2> QED
    BY <1>2, <1>5, <1>7, <2>2 DEF Watch, Starts, Account
<1> QED
  BY <1>5, <1>6, <1>7 DEF Repulling, Account

-----------------------------------------------------------------------------
(* The theorems.                                                           *)

\* The daemon's requests, which take no lock, keep the inductive invariant of Sync.
THEOREM DaemonCorrect == DaemonSpec => []DaemonInv
<1>1. DaemonInv /\ [DaemonNext]_daemonVars => DaemonInv'
  BY StepDaemon
<1> QED
  BY <1>1, InitDaemon, PTL DEF DaemonSpec

\* Every variable of the daemon keeps its type, and those of Sync do in its connections.
THEOREM DaemonTyped == DaemonSpec => []DaemonTypeOK
<1>1. DaemonInit => DaemonTypeOK
  BY InitDaemon DEF DaemonInit, DaemonTypeOK, DaemonInv, Conns, SafeInv, TypeInv
<1>2. DaemonInv /\ DaemonTypeOK /\ [DaemonNext]_daemonVars => DaemonTypeOK'
  BY StepDaemonTypes
<1> QED
  BY <1>1, <1>2, DaemonCorrect, PTL DEF DaemonSpec

\* With any number of connections sending any requests, what the repository says is
\* still what each Sync applies, and what a Sync reports is still what it did.
THEOREM DaemonSyncs == DaemonSpec => [](DesiredIsCheckedOut /\ SyncReport)
<1>1. DaemonInv => DesiredIsCheckedOut
  BY Facts DEF DaemonInv, DesiredIsCheckedOut, LockOK, Applying, Syncing
<1>2. DaemonInv => SyncReport
  BY Facts DEF DaemonInv, SyncReport, Reported, Deployed, Listed, DeployLoop, CleanupLoop,
     InDeploy, Deploying, InCleanup
<1> QED
  BY <1>1, <1>2, DaemonCorrect, PTL

\* No request and no sync changes anything of an account outside the managed group:
\* the check is made once per request, and what it found stays true of the name.
THEOREM DaemonForeign == DaemonSpec => ForeignOutOfReach
<1>1. DaemonInv /\ [DaemonNext]_daemonVars =>
        [\A n \in Foreign :
           UNCHANGED <<user[n], linger[n], disk[n], loaded[n], secrets[n], enabled[n],
                       active[n]>>]_daemonVars
  BY StepDaemon DEF SameHost
<1> QED
  BY <1>1, DaemonCorrect, PTL DEF DaemonSpec, ForeignOutOfReach

\* What is known of the redeploys that wait stays true.
THEOREM RedeployCorrect == DaemonSpec => []RedeployInv
<1>1. DaemonInit => RedeployInv
  <2> SUFFICES ASSUME DaemonInit PROVE RedeployInv
    OBVIOUS
  <2>1. \A p \in Proc : pc[p] = "idle"
    BY DEF DaemonInit, Init
  <2> QED
    BY <2>1, DaemonAssumption DEF DaemonInit, RedeployInv, Redeploying, ConnOps, Restartable
<1>2. DaemonInv /\ RedeployInv /\ [DaemonNext]_daemonVars => RedeployInv'
  BY StepDaemonRedeploy
<1> QED
  BY <1>1, <1>2, DaemonCorrect, PTL DEF DaemonSpec

\* A redeploy that is answered "redeployed" has had its service restarted, or the name
\* is no longer listed: with any number of connections and timers, whatever failed, as
\* long as no process dies between storing a hash and restarting the service.
THEOREM DaemonRedeploy == DaemonSpec => RedeployIsTrue
<1>1. DaemonInv /\ RedeployInv /\ DaemonTypeOK /\ [DaemonNext]_daemonVars =>
        [\A c \in Conn :
           at[c] # "write" /\ at'[c] = "write" /\ ok'[c] /\ req[c].op = "redeploy" =>
             c \in fresh \/ user[Account(c)] # "managed"]_daemonVars
  BY AnswerRedeploy
<1> QED
  BY <1>1, RedeployCorrect, DaemonCorrect, DaemonTyped, PTL DEF DaemonSpec, RedeployIsTrue

\* A repull that is answered "repulled" has had its service started, unless its own stop
\* had left the service running.
THEOREM DaemonRepull == DaemonSpec => RepullIsTrue
<1> DEFINE Inv == \A c \in Conn : Repulling(c)
<1>1. DaemonInit => Inv
  BY DEF DaemonInit, Repulling
<1>2. DaemonInv /\ Inv /\ [DaemonNext]_daemonVars => Inv'
  BY StepRepull
<1>3. DaemonInv /\ RedeployInv /\ DaemonTypeOK /\ Inv /\ [DaemonNext]_daemonVars =>
        [\A c \in Conn :
           at[c] # "write" /\ at'[c] = "write" /\ ok'[c] /\ req[c].op = "repull" =>
             c \in fresh' \/ c \in unstopped]_daemonVars
  BY AnswerRepull
<1> QED
  BY <1>1, <1>2, <1>3, RedeployCorrect, DaemonCorrect, DaemonTyped, PTL
     DEF DaemonSpec, RepullIsTrue
=============================================================================
