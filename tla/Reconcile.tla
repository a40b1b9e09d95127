------------------------------ MODULE Reconcile ------------------------------
(***************************************************************************)
(* Sync() of reconcile.go: the loop that makes the host agree with the     *)
(* repository.  Any number of processes run it (the timer's "quadsync      *)
(* sync", and every "sync" or "redeploy" request of the control daemon);   *)
(* each command it runs on the host is one step, so that another process,  *)
(* an operator's redeploy, a push or a crash may come between any two.     *)
(*                                                                         *)
(* A commit stands for everything Sync reads: the files of the work tree   *)
(* and the transform directory.  Build[c] is what CheckDir, the transforms *)
(* and CheckDesired make of it: Invalid, or one desired state per name.    *)
(* A checkout that is cut short leaves a mixture, which is a content like  *)
(* any other, though nobody may have pushed it.                            *)
(***************************************************************************)
EXTENDS Host

CONSTANTS
  Proc,          \* the processes that may run Sync
  Free,          \* nobody holds sync.lock
  Commit,        \* contents of the work tree: of commits, and mixtures of them
  NoCommit,      \* there is no clone yet
  Unborn,        \* there is one, and its HEAD names a branch without a commit
  FirstCommit,   \* what upstream holds at the start
  PushTo,        \* PushTo[c]: the commits that may be pushed on top of c
  Between,       \* Between[b][c]: what a checkout of c over b may leave when it,
                 \* or an earlier one, is cut short
  Build,         \* Build[c]: the desired states of c, or Invalid
  Invalid,
  NoSpec,        \* Build[c][n] when c has no container or pod n
  Order,         \* the order of names as strings
  NoName,
  NoHash,        \* there is no hash file
  TornHash,      \* a hash file whose writing was cut short
  Redeployable   \* the names an operator may redeploy (bound)

\* DesiredState: the files and secrets of one account and its main service,
\* named by the file it is generated from, which is one of the files.
DesiredState ==
  {d \in [files: [File -> Content \cup {NoFile}], secrets: Store, service: File \ Unit] :
     d.files[d.service] # NoFile}

\* compositeHash covers the files and the secrets, not the service name.
HashOf(d) == [files |-> d.files, secrets |-> d.secrets]
Hashes    == [files: [File -> Content \cup {NoFile}], secrets: Store]

ASSUME ReconcileAssumption ==
  /\ Free \notin Proc
  /\ NoCommit \notin Commit
  /\ FirstCommit \in Commit
  /\ Unborn \notin Commit \cup {NoCommit}
  /\ PushTo \in [Commit -> SUBSET Commit]
  /\ Between \in [Commit \cup {NoCommit} -> [Commit -> SUBSET Commit]]
  /\ NoSpec \notin DesiredState
  /\ Invalid \notin [Name -> DesiredState \cup {NoSpec}]
  /\ \A c \in Commit : Build[c] \in [Name -> DesiredState \cup {NoSpec}] \cup {Invalid}
  /\ Order \in [Name -> Nat]
  /\ \A m, n \in Name : Order[m] = Order[n] => m = n
  /\ NoName \notin Name
  /\ NoHash \notin Hashes \cup {TornHash}
  /\ TornHash \notin Hashes
  /\ Redeployable \subseteq Name

VARIABLES
  upstream,   \* the head of the configured branch
  repo,       \* the work tree of StateDir/repo
  head,       \* HEAD of the clone, or what stands in its place
  cut,        \* whether a checkout of this clone was ever cut short: "no", "free",
              \* or "locked" when .git/index.lock is still there
  hash,       \* hash[n]: content of StateDir/hashes/n
  lock,       \* the process that holds the flock on sync.lock
  pc,         \* pc[p]: where p is in Sync
  desired,    \* desired[p]: the map "desired" of p
  current,    \* current[p]: the managed users p listed
  todo,       \* todo[p]: the names p has not come to in the loop it is in
  name,       \* name[p]: the name p is at
  work,       \* work[p]: what is left of the inner loop p is in
  errs        \* errs[p]: the names p has recorded an error for

outer == <<upstream, repo, head, cut, lock, calm>>
vars  == <<hostVars, outer, hash, pc, desired, current, todo, name, work, errs>>

FilesOf(d)   == {f \in File : d.files[f] # NoFile}
SecretsOf(d) == {s \in Secret : d.secrets[s] # NoValue}
Listed(b)    == {n \in Name : b[n] # NoSpec}
Nothing      == [n \in Name |-> NoSpec]
D(p)         == desired[p][name[p]]

\* The labels of one name's deployment, in the order of the code.
Deploying == {"write", "list", "prune", "secrets", "reload", "enable"}
InDeploy  == {"useradd", "linger", "check"} \cup Deploying \cup {"restart"}
InCleanup == {"timers", "stop", "remove", "nolinger", "terminate", "userdel", "unhash"}
Label     == {"idle", "git", "build", "users", "next", "clean", "done", "failed"}
               \cup InDeploy \cup InCleanup

TypeOK ==
  /\ HostTypeOK
  /\ upstream \in Commit
  /\ repo \in Commit \cup {NoCommit}
  /\ head \in Commit \cup {NoCommit, Unborn}
  /\ cut \in {"no", "free", "locked"}
  /\ hash \in [Name -> Hashes \cup {NoHash, TornHash}]
  /\ lock \in Proc \cup {Free}
  /\ pc \in [Proc -> Label]
  /\ desired \in [Proc -> [Name -> DesiredState \cup {NoSpec}]]
  /\ current \in [Proc -> SUBSET Name]
  /\ todo \in [Proc -> SUBSET Name]
  /\ name \in [Proc -> Name \cup {NoName}]
  /\ work \in [Proc -> SUBSET (File \cup Secret)]
  /\ errs \in [Proc -> SUBSET Name]

Init ==
  /\ HostInit
  /\ upstream = FirstCommit
  /\ repo = NoCommit
  /\ head = NoCommit
  /\ cut = "no"
  /\ hash = [n \in Name |-> NoHash]
  /\ lock = Free
  /\ pc = [p \in Proc |-> "idle"]
  /\ desired = [p \in Proc |-> Nothing]
  /\ current = [p \in Proc |-> {}]
  /\ todo = [p \in Proc |-> {}]
  /\ name = [p \in Proc |-> NoName]
  /\ work = [p \in Proc |-> {}]
  /\ errs = [p \in Proc |-> {}]

Goto(p, to) == pc' = [pc EXCEPT ![p] = to]

\* A step of the loops that moves on and leaves the inner loop's work alone.
Move(p, to) ==
  /\ Goto(p, to)
  /\ UNCHANGED <<outer, hash, desired, current, todo, name, work, errs>>

\* A step that moves on and starts an inner loop over the set s.
MoveWith(p, to, s) ==
  /\ Goto(p, to)
  /\ work' = [work EXCEPT ![p] = s]
  /\ UNCHANGED <<outer, hash, desired, current, todo, name, errs>>

\* One iteration of an inner loop.
Iterate(p, x) ==
  /\ work' = [work EXCEPT ![p] = @ \ {x}]
  /\ UNCHANGED <<outer, hash, pc, desired, current, todo, name, errs>>

\* "errs = append(errs, ...)", and on to the next label.
Record(p, to) ==
  /\ Goto(p, to)
  /\ errs' = [errs EXCEPT ![p] = @ \cup {name[p]}]
  /\ work' = [work EXCEPT ![p] = {}]
  /\ UNCHANGED <<outer, hash, desired, current, todo, name>>

AbortAll(p) == Record(p, "done")

\* "errs = append(errs, ...); continue" of the deploy loop.
Abort(p) == Record(p, "next")

Forget(p) ==
  /\ desired' = [desired EXCEPT ![p] = Nothing]
  /\ current' = [current EXCEPT ![p] = {}]
  /\ todo' = [todo EXCEPT ![p] = {}]
  /\ name' = [name EXCEPT ![p] = NoName]
  /\ work' = [work EXCEPT ![p] = {}]
  /\ errs' = [errs EXCEPT ![p] = {}]
  /\ pc' = [pc EXCEPT ![p] = "idle"]
  /\ lock' = IF lock = p THEN Free ELSE lock

-----------------------------------------------------------------------------
(* Before the loops.                                                       *)

LockIgnored(p) ==
  /\ pc[p] = "idle"
  /\ lock' = p
  /\ Goto(p, "git")
  /\ UNCHANGED <<hostVars, upstream, repo, head, cut, calm, hash, desired, current, todo, name,
                 work, errs>>

\* flock(LOCK_EX|LOCK_NB) on sync.lock.
Lock(p) ==
  /\ pc[p] = "idle"
  /\ lock = Free
  /\ lock' = p
  /\ Goto(p, "git")
  /\ UNCHANGED <<hostVars, upstream, repo, head, cut, calm, hash, desired, current, todo, name,
                 work, errs>>

\* "another sync is already running".
LockBusy(p) ==
  /\ pc[p] = "idle"
  /\ lock # Free
  /\ Move(p, "failed")
  /\ UNCHANGED hostVars

\* A step of git that leaves the clone with work tree t and HEAD at h.
Clone(t, h, c) == repo' = t /\ head' = h /\ cut' = c

Git(p, to) ==
  /\ Goto(p, to)
  /\ UNCHANGED <<upstream, lock, calm, hash, desired, current, todo, name, work, errs>>

\* There is something to check out, and no index.lock in the way.
CanCheckOut == head \notin {Unborn, upstream} /\ cut # "locked"

\* git clone, or git reset --hard.  The files of a checkout that was cut short are
\* unknown to git, which leaves those alone that the next commit does not have.
CheckOut ==
  \E t \in {upstream} \cup (IF cut = "no" THEN {} ELSE Between[repo][upstream]) :
    Clone(t, upstream, cut)

\* git is killed by its timeout, or fails by itself, among the files: a clone that is
\* killed earlier has no commit at HEAD yet, one that gets to the files has; a reset
\* moves HEAD last.  Only one that fails by itself takes its index.lock away.
CutShort ==
  /\ CanCheckOut
  /\ \/ head = NoCommit /\ Clone(NoCommit, Unborn, "free")
     \/ \E t \in Between[repo][upstream], c \in {"free", "locked"} :
          Clone(t, IF head = NoCommit THEN upstream ELSE head, c)

\* Clone; or fetch, and reset unless HEAD is what has been fetched, whatever the work
\* tree holds.  GitRepo has this command by command and file by file.
GitSync(p) ==
  /\ pc[p] = "git"
  /\ UNCHANGED hostVars
  /\ \/ head = upstream /\ Move(p, "build")
     \/ CanCheckOut /\ CheckOut /\ Git(p, "build")
     \/ head # upstream /\ ~CanCheckOut /\ Move(p, "failed")
     \/ MayFail("git") /\ Move(p, "failed")
     \/ MayFail("checkout") /\ CutShort /\ Git(p, "failed")

BuildUnchecked(p) ==
  /\ pc[p] = "build"
  /\ UNCHANGED hostVars
  /\ Goto(p, "users")
  /\ desired' = [desired EXCEPT ![p] = IF Build[repo] = Invalid THEN Nothing ELSE Build[repo]]
  /\ UNCHANGED <<outer, hash, current, todo, name, work, errs>>

BuildErrorIgnored(p) ==
  /\ pc[p] = "build"
  /\ UNCHANGED hostVars
  /\ Goto(p, "users")
  /\ desired' = [desired EXCEPT ![p] = Build[repo]]
  /\ UNCHANGED <<outer, hash, current, todo, name, work, errs>>

\* CheckDir, loadAllTransforms, buildDesiredFull and CheckDesired.
BuildDesired(p) ==
  /\ pc[p] = "build"
  /\ UNCHANGED hostVars
  /\ \/ Build[repo] = Invalid /\ Move(p, "failed")
     \/ /\ Build[repo] # Invalid
        /\ Goto(p, "users")
        /\ desired' = [desired EXCEPT ![p] = Build[repo]]
        /\ UNCHANGED <<outer, hash, current, todo, name, work, errs>>

\* managedUsers, the hash directory, and the list of names.
ManagedUsers(p) ==
  /\ pc[p] = "users"
  /\ UNCHANGED hostVars
  /\ \/ /\ Goto(p, "next")
        /\ current' = [current EXCEPT ![p] = ManagedUsersOf]
        /\ todo' = [todo EXCEPT ![p] = Listed(desired[p])]
        /\ UNCHANGED <<outer, hash, desired, name, work, errs>>
     \/ MayFail("getent") /\ Move(p, "failed")

-----------------------------------------------------------------------------
(* The deploy loop, one iteration per name in string order.                *)

NextName(p) ==
  /\ pc[p] = "next"
  /\ \E n \in todo[p] :
       /\ \A m \in todo[p] : Order[n] <= Order[m]
       /\ Goto(p, IF n \in current[p] THEN "check" ELSE "useradd")
       /\ name' = [name EXCEPT ![p] = n]
       /\ todo' = [todo EXCEPT ![p] = @ \ {n}]
  /\ UNCHANGED <<hostVars, outer, hash, desired, current, work, errs>>

UseraddErrorIgnored(p) ==
  /\ pc[p] = "useradd"
  /\ \/ Useradd(name[p])
     \/ Fails("useradd", Useradd(name[p]))
     \/ user[name[p]] # "none" /\ UNCHANGED hostVars
  /\ Move(p, "linger")

\* createUser, first command.
CreateUser(p) ==
  /\ pc[p] = "useradd"
  /\ \/ Useradd(name[p]) /\ Move(p, "linger")
     \/ Fails("useradd", Useradd(name[p])) /\ Abort(p)
     \/ user[name[p]] # "none" /\ UNCHANGED hostVars /\ Abort(p)

\* createUser, second command.
CreateUserLinger(p) ==
  /\ pc[p] = "linger"
  /\ \/ EnableLinger(name[p]) /\ Move(p, "check")
     \/ Fails("linger", EnableLinger(name[p])) /\ Abort(p)

HashSavedFirst(p) ==
  /\ pc[p] = "check"
  /\ UNCHANGED hostVars
  /\ \/ hash[name[p]] = HashOf(D(p)) /\ Move(p, "next")
     \/ /\ hash[name[p]] # HashOf(D(p))
        /\ Goto(p, "write")
        /\ work' = [work EXCEPT ![p] = FilesOf(D(p))]
        /\ hash' = [hash EXCEPT ![name[p]] = HashOf(D(p))]
        /\ UNCHANGED <<outer, desired, current, todo, name, errs>>

HashIgnored(p) ==
  /\ pc[p] = "check"
  /\ UNCHANGED hostVars
  /\ MoveWith(p, "write", FilesOf(D(p)))

\* specChanged: a name whose stored hash equals that of its desired state is
\* left alone; the others are deployed, beginning with their files.
SpecChanged(p) ==
  /\ pc[p] = "check"
  /\ UNCHANGED hostVars
  /\ \/ hash[name[p]] = HashOf(D(p)) /\ Move(p, "next")
     \/ /\ hash[name[p]] # HashOf(D(p))
        /\ Goto(p, "write")
        /\ work' = [work EXCEPT ![p] = FilesOf(D(p))]
        /\ UNCHANGED <<outer, hash, desired, current, todo, name, errs>>

\* The loop over state.Files: a map, so in any order.
WriteQuadletFile(p) ==
  /\ pc[p] = "write"
  /\ \E f \in work[p] :
       \/ PutFile(name[p], f, D(p).files[f]) /\ Iterate(p, f)
       \/ Fails("write", PutFile(name[p], f, Torn)) /\ Abort(p)

\* The user manager starts, or was running already; its state before the
\* daemon-reload that follows is not modelled.
WaitForUserManager(p) ==
  /\ pc[p] = "write"
  /\ work[p] = {}
  /\ UNCHANGED hostVars
  /\ Move(p, "list") \/ (MayFail("manager") /\ Abort(p))

PruneNothing(p) ==
  /\ pc[p] = "list"
  /\ UNCHANGED hostVars
  /\ MoveWith(p, "prune", {})

\* pruneUserUnits, the list of what is there but not desired.  A listing that
\* fails is logged and nothing is pruned.
ListUserUnits(p) ==
  /\ pc[p] = "list"
  /\ UNCHANGED hostVars
  /\ \/ MoveWith(p, "prune", UserUnitFiles(name[p]) \ FilesOf(D(p)))
     \/ MayFail("list") /\ MoveWith(p, "prune", {})

\* pruneUserUnits, one stale unit: both commands are best effort.
PruneUserUnit(p) ==
  /\ pc[p] = "prune"
  /\ \E f \in work[p], off, gone \in BOOLEAN :
       /\ ~off => MayFail("disable")
       /\ ~gone => MayFail("rm")
       /\ DisableAndRemove(name[p], f, off, gone)
       /\ Iterate(p, f)

PruneDone(p) ==
  /\ pc[p] = "prune"
  /\ work[p] = {}
  /\ UNCHANGED hostVars
  /\ MoveWith(p, "secrets", SecretsOf(D(p)))

CreatePodmanSecret(p) ==
  /\ pc[p] = "secrets"
  /\ \E s \in work[p] :
       \/ PutSecret(name[p], s, D(p).secrets[s]) /\ Iterate(p, s)
       \/ Fails("secret", PutSecret(name[p], s, D(p).secrets[s])) /\ Abort(p)

ReloadErrorIgnored(p) ==
  /\ pc[p] = "secrets"
  /\ work[p] = {}
  /\ DaemonReload(name[p]) \/ Fails("reload", DaemonReload(name[p]))
  /\ MoveWith(p, "enable", FilesOf(D(p)) \cap Timer)

\* daemonReload, then the loop over the timers of state.Files.
ReloadUser(p) ==
  /\ pc[p] = "secrets"
  /\ work[p] = {}
  /\ \/ /\ DaemonReload(name[p])
        /\ MoveWith(p, "enable", FilesOf(D(p)) \cap Timer)
     \/ Fails("reload", DaemonReload(name[p])) /\ Abort(p)

EnableOneTimer(p) ==
  /\ pc[p] = "enable"
  /\ \E f \in work[p] :
       /\ EnableTimer(name[p], f) \/ Fails("enable", EnableTimer(name[p], f))
       /\ Iterate(p, f)

\* saveHash: a failure is recorded, and the restart still happens.
SaveHash(p) ==
  /\ pc[p] = "enable"
  /\ work[p] = {}
  /\ UNCHANGED hostVars
  /\ Goto(p, "restart")
  /\ \/ /\ hash' = [hash EXCEPT ![name[p]] = HashOf(D(p))]
        /\ UNCHANGED errs
     \/ /\ MayFail("savehash")
        /\ hash' \in {hash, [hash EXCEPT ![name[p]] = TornHash]}
        /\ errs' = [errs EXCEPT ![p] = @ \cup {name[p]}]
  /\ UNCHANGED <<outer, desired, current, todo, name, work>>

\* restartService: best effort.
Restart(p) ==
  /\ pc[p] = "restart"
  /\ \/ RestartService(name[p], D(p).service)
     \/ RestartServiceFails(name[p], D(p).service)
  /\ Move(p, "next")

-----------------------------------------------------------------------------
(* The cleanup loop over the users listed before the deploy loop, in the   *)
(* order getent gave them.                                                 *)

StartCleanup(p) ==
  /\ pc[p] = "next"
  /\ todo[p] = {}
  /\ UNCHANGED hostVars
  /\ Goto(p, "clean")
  /\ todo' = [todo EXCEPT ![p] = current[p] \ Listed(desired[p])]
  /\ UNCHANGED <<outer, hash, desired, current, name, work, errs>>

\* listUserUnitFiles of the next name; a listing that fails skips the timers.
CleanupName(p) ==
  /\ pc[p] = "clean"
  /\ \E n \in todo[p] :
       /\ name' = [name EXCEPT ![p] = n]
       /\ todo' = [todo EXCEPT ![p] = @ \ {n}]
       /\ \/ work' = [work EXCEPT ![p] = UserUnitFiles(n) \cap Timer]
          \/ MayFail("list") /\ UNCHANGED work
  /\ Goto(p, "timers")
  /\ UNCHANGED <<hostVars, outer, hash, desired, current, errs>>

CleanupTimer(p) ==
  /\ pc[p] = "timers"
  /\ \E f \in work[p] :
       /\ DisableTimer(name[p], f) \/ Fails("disable", DisableTimer(name[p], f))
       /\ Iterate(p, f)

\* stopService(name, string(name)): always the service "<name>.service".
CleanupStop(p) ==
  /\ pc[p] = "timers"
  /\ work[p] = {}
  /\ \/ StopService(name[p], ContainerFile[name[p]])
     \/ StopServiceFails(name[p], ContainerFile[name[p]])
  /\ Move(p, "remove")

\* "find -delete": when the command fails some of the files may be gone.
RemoveAllQuadlets(p) ==
  /\ pc[p] = "remove"
  /\ \/ RemoveFiles(name[p], File)
     \/ MayFail("removeall") /\ \E gone \in SUBSET File : RemoveFiles(name[p], gone)
  /\ Move(p, "nolinger")

\* deleteUser, three commands: the first two are best effort.
DeleteUserNoLinger(p) ==
  /\ pc[p] = "nolinger"
  /\ DisableLinger(name[p]) \/ Fails("nolinger", DisableLinger(name[p]))
  /\ Move(p, "terminate")

DeleteUserTerminate(p) ==
  /\ pc[p] = "terminate"
  /\ TerminateUser(name[p]) \/ Fails("terminate", TerminateUser(name[p]))
  /\ Move(p, "userdel")

DeleteErrorIgnored(p) ==
  /\ pc[p] = "userdel"
  /\ \/ Userdel(name[p])
     \/ Fails("userdel", Userdel(name[p]))
     \/ active[name[p]] # Stopped /\ UNCHANGED hostVars
  /\ Move(p, "unhash")

\* userdelRetry: the at most four attempts are one step, which fails when the
\* last of them does.
DeleteUser(p) ==
  /\ pc[p] = "userdel"
  /\ \/ Userdel(name[p]) /\ Move(p, "unhash")
     \/ Fails("userdel", Userdel(name[p])) /\ Record(p, "unhash")
     \/ active[name[p]] # Stopped /\ UNCHANGED hostVars /\ Record(p, "unhash")

\* os.Remove of the hash file; its error is not looked at.
RemoveHash(p) ==
  /\ pc[p] = "unhash"
  /\ UNCHANGED hostVars
  /\ Goto(p, "clean")
  /\ \/ hash' = [hash EXCEPT ![name[p]] = NoHash]
     \/ MayFail("rmhash") /\ UNCHANGED hash
  /\ UNCHANGED <<outer, desired, current, todo, name, work, errs>>

FinishCleanup(p) ==
  /\ pc[p] = "clean"
  /\ todo[p] = {}
  /\ UNCHANGED hostVars
  /\ Move(p, "done")

\* Sync returns errors.Join(errs...) or an earlier error; the deferred Close
\* of the lock file releases the lock if p has it.
Return(p) ==
  /\ pc[p] \in {"done", "failed"}
  /\ Forget(p)
  /\ UNCHANGED <<hostVars, upstream, repo, head, cut, calm, hash>>

-----------------------------------------------------------------------------
(* Around Sync.                                                            *)

\* The process dies: the kernel drops its flock.  The file it was writing, through
\* the pipe to "cat" or with os.WriteFile, may be left cut short, and so may the
\* checkout of the git command it was waiting for, which is killed with it.
Crash(p) ==
  /\ MayFail("crash")
  /\ pc[p] # "idle"
  /\ Forget(p)
  /\ \/ UNCHANGED <<hostVars, hash, repo, head, cut>>
     \/ /\ pc[p] = "git"
        /\ MayFail("checkout") /\ CutShort
        /\ UNCHANGED <<hostVars, hash>>
     \/ /\ pc[p] = "write"
        /\ \E f \in work[p] : PutFile(name[p], f, Torn)
        /\ UNCHANGED <<hash, repo, head, cut>>
     \/ /\ pc[p] = "enable" /\ work[p] = {}
        /\ hash' = [hash EXCEPT ![name[p]] = TornHash]
        /\ UNCHANGED <<hostVars, repo, head, cut>>
  /\ UNCHANGED <<upstream, calm>>

\* The repository or the transforms get a new content.
Push ==
  /\ \E c \in PushTo[upstream] : upstream' = c
  /\ UNCHANGED <<hostVars, repo, head, cut, lock, calm, hash, pc, desired, current, todo, name,
                 work, errs>>

\* What an operator can do about a spoilt clone: remove it, between two syncs.
RemoveClone ==
  /\ lock = Free
  /\ cut # "no"
  /\ Clone(NoCommit, NoCommit, "no")
  /\ UNCHANGED <<hostVars, upstream, lock, calm, hash, pc, desired, current, todo, name, work,
                 errs>>

\* "quadsync redeploy n", and the first half of the daemon's redeploy.
Redeploy(n) ==
  /\ n \in Redeployable
  /\ hash[n] # NoHash
  /\ hash' = [hash EXCEPT ![n] = NoHash]
  /\ UNCHANGED <<hostVars, outer, pc, desired, current, todo, name, work, errs>>

Prepare(p) == Lock(p) \/ LockBusy(p) \/ GitSync(p) \/ BuildDesired(p) \/ ManagedUsers(p)

DeployStep(p) ==
  \/ NextName(p) \/ CreateUser(p) \/ CreateUserLinger(p) \/ SpecChanged(p)
  \/ WriteQuadletFile(p) \/ WaitForUserManager(p)
  \/ ListUserUnits(p) \/ PruneUserUnit(p) \/ PruneDone(p)
  \/ CreatePodmanSecret(p) \/ ReloadUser(p) \/ EnableOneTimer(p)
  \/ SaveHash(p) \/ Restart(p)

CleanupStep(p) ==
  \/ StartCleanup(p) \/ CleanupName(p) \/ CleanupTimer(p) \/ CleanupStop(p)
  \/ RemoveAllQuadlets(p) \/ DeleteUserNoLinger(p) \/ DeleteUserTerminate(p)
  \/ DeleteUser(p) \/ RemoveHash(p) \/ FinishCleanup(p)

SyncStep(p) == Prepare(p) \/ DeployStep(p) \/ CleanupStep(p) \/ Return(p)

Next ==
  \/ \E p \in Proc : SyncStep(p) \/ Crash(p)
  \/ Push
  \/ RemoveClone
  \/ \E n \in Name : Redeploy(n)

Spec == Init /\ [][Next]_vars

-----------------------------------------------------------------------------
(* Safety.                                                                 *)

\* The account n holds what the desired state d asks for.
InPlace(n, d) ==
  /\ user[n] = "managed"
  /\ \A f \in FilesOf(d) : disk[n][f] = d.files[f]
  /\ \A s \in SecretsOf(d) : secrets[n][s] = d.secrets[s]

\* Past the lock, and past the build.
Syncing(p)  == pc[p] \notin {"idle", "failed"}
Applying(p) == Syncing(p) /\ pc[p] \notin {"git", "build"}

\* Two Syncs never interleave on the host: what a process is applying is, at
\* every step, what the work tree says (the flock of Sync, and
\* GitSync being reached under it only).
DesiredIsCheckedOut ==
  \A p \in Proc : Applying(p) => /\ lock = p
                                 /\ Build[repo] # Invalid
                                 /\ desired[p] = Build[repo]

\* What Sync reports is what it did: when it ends, every name it recorded no
\* error for has its account and a current hash (or one that a redeploy took
\* away meanwhile), and every name no longer listed has lost its account.
SyncReport ==
  \A p \in Proc : pc[p] = "done" =>
    \A n \in Name \ errs[p] :
      IF desired[p][n] # NoSpec
      THEN user[n] = "managed" /\ hash[n] \in {HashOf(desired[p][n]), NoHash}
      ELSE user[n] # "managed"

\* A failed deploy is tried again: as long as Sync has an error recorded for an
\* account that was there when it listed the group, the stored hash is not that of
\* what it failed to deploy, so that specChanged of the next sync cannot skip the
\* name.  Of an account that Sync has to make this is not true: when its creation
\* fails, a hash that an earlier account of that name left behind may be the very one
\* (SuccessMeansInPlace, SuccessMeansLinger).
FailureIsRetried ==
  \A p \in Proc : Applying(p) =>
    \A n \in errs[p] \cap current[p] :
      desired[p][n] # NoSpec => hash[n] # HashOf(desired[p][n])

\* A hash is stored only for what is in place: at the step of saveHash the files
\* and secrets it was computed from are in n's home and store, and the user
\* manager has read those files.
HashOnlyAfterDeploy ==
  [][\A n \in Name :
       hash'[n] \in Hashes /\ hash'[n] # hash[n] =>
         /\ InPlace(n, hash'[n])
         /\ \A f \in FilesOf(hash'[n]) : loaded[n][f] = hash'[n].files[f]]_vars

\* An account is deleted only if the commit at HEAD is valid and lists neither a
\* container nor a pod of that name, whatever fails, crashes or is pushed in between;
\* with one exception: once a checkout has been cut short, and until the clone is
\* removed, the files that are there decide in place of the commit.
OnlyUnlistedDeleted ==
  [][\A n \in Name :
       user[n] = "managed" /\ user'[n] # "managed" =>
         LET seen == IF cut = "no" THEN head ELSE repo
         IN  Build[seen] # Invalid /\ Build[seen][n] = NoSpec]_vars

\* A container whose name is that of an account outside the managed group never
\* gets Sync to write to that account's home, store or services.
ForeignUntouched ==
  [][\A n \in Foreign :
       UNCHANGED <<user[n], linger[n], disk[n], loaded[n], secrets[n], enabled[n],
                   active[n]>>]_vars

\* Where no command fails and nothing crashes, a Sync that ends has made each
\* listed account exactly the desired one (leftovers of the quadlet directory
\* aside): files, units, timers, linger, and the service runs what was loaded, unless
\* a request has stopped it.
SuccessIsExact ==
  \A p \in Proc : pc[p] = "done" =>
    \A n \in Listed(desired[p]) \ errs[p] :
      LET d == desired[p][n] IN
        /\ InPlace(n, d)
        /\ linger[n]
        /\ UserUnitFiles(n) = FilesOf(d) \cap Unit
        /\ enabled[n] = FilesOf(d) \cap Timer
        /\ loaded[n] = disk[n]
        /\ active[n] \in {loaded[n], Stopped}

-----------------------------------------------------------------------------
(* What a document, a comment or a test says, and the code does not do.    *)

\* README.md:18, reconcile.go:276: a name is skipped only when its deployed
\* content is unchanged.  A sync that ends without an error for n has n in place.
SuccessMeansInPlace ==
  \A p \in Proc : pc[p] = "done" =>
    \A n \in Listed(desired[p]) \ errs[p] : InPlace(n, desired[p][n])

\* reconcile.go:205: Sync reports failure for its own mechanisms, user creation
\* among them.  A sync that ends without an error for n leaves n lingering.
SuccessMeansLinger ==
  \A p \in Proc : pc[p] = "done" =>
    \A n \in Listed(desired[p]) \ errs[p] : linger[n]

=============================================================================
