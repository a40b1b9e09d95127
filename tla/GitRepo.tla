-------------------------------- MODULE GitRepo --------------------------------
(***************************************************************************)
(* Step 1 of Sync: StateDir/repo is cloned once and then fetched and reset *)
(* (gitClone, gitFetch, gitResetHard).  The caller holds sync.lock, so one *)
(* process is enough.  What a git command does to the directory is modelled*)
(* as far as the code depends on it: the order in which git writes HEAD,   *)
(* the work tree (file by file, under index.lock) and FETCH_HEAD, because  *)
(* the timeout of each command kills it with SIGKILL wherever it is.       *)
(***************************************************************************)
CONSTANTS
  Commit, FirstCommit,
  PushTo,       \* PushTo[c]: the commits that may follow c at the remote
  File, Content, NoFile,
  Tree,         \* Tree[c]: the files of commit c
  NoTree,
  NoClone,      \* StateDir/repo does not exist
  Unborn,       \* it does, and its HEAD names a branch without a commit
  Faulty        \* the git commands that may fail, and "killed" for a killed clone

Trees    == [File -> Content \cup {NoFile}]
EmptyDir == [f \in File |-> NoFile]

ASSUME GitAssumption ==
  /\ FirstCommit \in Commit
  /\ PushTo \in [Commit -> SUBSET Commit]
  /\ Tree \in [Commit -> Trees]
  /\ NoTree \notin Trees
  /\ NoClone \notin Commit
  /\ Unborn \notin Commit \cup {NoClone}

VARIABLES
  upstream,  \* the head of the branch at the remote
  head,      \* HEAD of the clone, or what stands in its place
  tree,      \* the work tree
  fetched,   \* FETCH_HEAD and origin/<branch>
  locked,    \* .git/index.lock exists
  pc,
  spoilt,    \* history: a clone or a reset of this directory was cut short
  calm       \* TRUE once nothing goes wrong any more

vars == <<upstream, head, tree, fetched, locked, pc, spoilt, calm>>

Label == {"idle", "clone", "fetch", "parse", "reset", "files", "head", "ready", "failed"}

TypeOK ==
  /\ upstream \in Commit
  /\ head \in Commit \cup {NoClone, Unborn}
  /\ tree \in Trees
  /\ fetched \in Commit \cup {NoClone}
  /\ locked \in BOOLEAN
  /\ pc \in Label
  /\ spoilt \in BOOLEAN
  /\ calm \in BOOLEAN

Init ==
  /\ upstream = FirstCommit
  /\ head = NoClone
  /\ tree = EmptyDir
  /\ fetched = NoClone
  /\ locked = FALSE
  /\ pc = "idle"
  /\ spoilt = FALSE
  /\ calm = FALSE

MayFail(cmd) == cmd \in Faulty /\ ~calm

\* os.Stat(RepoPath) decides, once, between a clone and a fetch.
Stat ==
  /\ pc = "idle"
  /\ pc' = IF head = NoClone THEN "clone" ELSE "fetch"
  /\ UNCHANGED <<upstream, head, tree, fetched, locked, spoilt, calm>>

\* git clone: the objects of the branch, then HEAD, then the files.
CloneObjects ==
  /\ pc = "clone"
  /\ fetched' = upstream
  /\ head' = upstream
  /\ locked' = TRUE
  /\ pc' = "files"
  /\ UNCHANGED <<upstream, tree, spoilt, calm>>

\* A clone that fails removes the directory it made; a killed one leaves it.
CloneFails ==
  /\ pc = "clone"
  /\ \/ MayFail("clone") /\ UNCHANGED <<head, spoilt>>
     \/ MayFail("killed") /\ head' = Unborn /\ spoilt' = TRUE
  /\ pc' = "failed"
  /\ UNCHANGED <<upstream, tree, fetched, locked, calm>>

\* git fetch origin <branch>.
Fetch ==
  /\ pc = "fetch"
  /\ \/ fetched' = upstream /\ pc' = "parse"
     \/ MayFail("fetch") /\ fetched' \in {upstream, fetched} /\ pc' = "failed"
  /\ UNCHANGED <<upstream, head, tree, locked, spoilt, calm>>

NeverReset ==
  /\ pc = "parse"
  /\ pc' = IF head = Unborn THEN "failed" ELSE "ready"
  /\ UNCHANGED <<upstream, head, tree, fetched, locked, spoilt, calm>>

\* git rev-parse HEAD and FETCH_HEAD: is there anything new?
Compare ==
  /\ pc = "parse"
  /\ \/ head = Unborn /\ pc' = "failed"
     \/ head = fetched /\ pc' = "ready"
     \/ head \notin {Unborn, fetched} /\ pc' = "reset"
     \/ MayFail("parse") /\ pc' = "failed"
  /\ UNCHANGED <<upstream, head, tree, fetched, locked, spoilt, calm>>

\* git reset --hard origin/<branch> begins by taking index.lock.
ResetBegins ==
  /\ pc = "reset"
  /\ \/ ~locked /\ locked' = TRUE /\ pc' = "files"
     \/ locked /\ UNCHANGED locked /\ pc' = "failed"
     \/ MayFail("reset") /\ UNCHANGED locked /\ pc' = "failed"
  /\ UNCHANGED <<upstream, head, tree, fetched, spoilt, calm>>

\* A clone or a reset writes, or removes, one file.
CheckoutFile ==
  /\ pc = "files"
  /\ \E f \in File :
       /\ tree[f] # Tree[fetched][f]
       /\ tree' = [tree EXCEPT ![f] = Tree[fetched][f]]
  /\ UNCHANGED <<upstream, head, fetched, locked, pc, spoilt, calm>>

\* All files are there: index.lock becomes the index.  The new files of a checkout
\* that was cut short are in no index, and may stay.
CheckoutDone ==
  /\ pc = "files"
  /\ \A f \in File : tree[f] # Tree[fetched][f] => spoilt /\ Tree[fetched][f] = NoFile
  /\ locked' = FALSE
  /\ pc' = "head"
  /\ UNCHANGED <<upstream, head, tree, fetched, spoilt, calm>>

HeadNotMoved ==
  /\ pc = "head"
  /\ pc' = "ready"
  /\ UNCHANGED <<upstream, head, tree, fetched, locked, spoilt, calm>>

\* The last thing a reset does is to move HEAD (a clone has it there already).
MoveHead ==
  /\ pc = "head"
  /\ head' = fetched
  /\ pc' = "ready"
  /\ UNCHANGED <<upstream, tree, fetched, locked, spoilt, calm>>

\* A clone or a reset stops among the files or before HEAD: one that fails by
\* itself takes its lock away, a killed one leaves it.
CheckoutFails ==
  /\ pc \in {"files", "head"}
  /\ MayFail("checkout")
  /\ locked' \in {locked, FALSE}
  /\ spoilt' = TRUE
  /\ pc' = "failed"
  /\ UNCHANGED <<upstream, head, tree, fetched, calm>>

\* Sync goes on to the build, or returns; there is a next one.
Finish ==
  /\ pc \in {"ready", "failed"}
  /\ pc' = "idle"
  /\ UNCHANGED <<upstream, head, tree, fetched, locked, spoilt, calm>>

Push ==
  /\ upstream' \in PushTo[upstream]
  /\ UNCHANGED <<head, tree, fetched, locked, pc, spoilt, calm>>

\* What an operator can do about a spoilt directory: remove it.
RemoveClone ==
  /\ pc = "idle"
  /\ spoilt
  /\ head' = NoClone
  /\ tree' = EmptyDir
  /\ fetched' = NoClone
  /\ locked' = FALSE
  /\ spoilt' = FALSE
  /\ UNCHANGED <<upstream, pc, calm>>

CalmDown ==
  /\ ~calm
  /\ calm' = TRUE
  /\ UNCHANGED <<upstream, head, tree, fetched, locked, pc, spoilt>>

SyncStep ==
  \/ Stat \/ CloneObjects \/ CloneFails \/ Fetch \/ Compare \/ ResetBegins
  \/ CheckoutFile \/ CheckoutDone \/ MoveHead \/ CheckoutFails \/ Finish

Next == SyncStep \/ Push \/ RemoveClone \/ CalmDown

\* Each git command has a timeout, and there is always a next sync.
Spec == Init /\ [][Next]_vars /\ WF_vars(SyncStep) /\ WF_vars(CalmDown)

-----------------------------------------------------------------------------
\* The step as Sync sees it: what it is given is decided when the objects come,
\* and is what is in the work tree when it goes on.
Phase == CASE pc \in {"idle", "ready", "failed"} -> pc
           [] OTHER -> "working"

Got == CASE pc = "ready" -> tree
         [] pc \in {"parse", "reset", "files", "head"} -> Tree[fetched]
         [] OTHER -> NoTree

Abstract == INSTANCE Checkout WITH phase <- Phase, got <- Got

\* Until a clone or a reset is cut short, and again once the directory has been
\* removed, Sync is given the files of a commit that was the head of the branch
\* during its Git step, whatever failed before and whatever was pushed meanwhile:
\* never those of an older commit, and never a mixture.
GivesOneCommit == Abstract!Spec

\* Once nothing fails, the branch rests and the directory is not spoilt, syncs do go
\* on, and all that do have the head of the branch.
CatchesUp ==
  \A c \in Commit :
    <>[](upstream = c /\ ~spoilt) =>
      []<>(pc = "ready") /\ <>[](pc = "ready" => tree = Tree[c])

\* README.md:13, reconcile.go:141: a sync that goes on works on the repository as it
\* was fetched.
WholeTree == pc = "ready" => tree = Tree[fetched]
=============================================================================
