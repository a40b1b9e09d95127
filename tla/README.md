# quadsync in TLA+

quadsync deploys Podman Quadlet containers from a Git repository onto a Linux
host: one Unix account per container or pod, one systemd user manager per
account.  These modules specify the loop that makes the host agree with the
repository, the Git working copy under it, the pipeline that turns the repository
into desired states, the life of one `.container` file with its transforms and
secrets, and the control daemon whose requests run beside the loop.  They are
model-checked with TLC on small instances, and the safety properties of the loop,
the daemon, the working copy, the build, the edit command and the merge of transforms
and secrets, and two refinements, are proved with TLAPS for every instance.

## 1. Inventory

| Component | Source | State it keeps | Operations |
|---|---|---|---|
| Sync loop | `reconcile.go` 120-321, 779-822 | `sync.lock`, `hashes/<name>`; while it runs: desired, current, errors | `Sync`, `specChanged`, `saveHash`, `compositeHash` |
| Host commands | `system.go` | the host: accounts, linger, homes, user managers, podman's secrets | `createUser`, `deleteUser`, `writeQuadletFile`, `removeAllQuadlets`, `pruneUserUnits`, `createPodmanSecrets`, `daemonReload`, `enableTimer`, `restartService`, ... |
| Build of the desired states | `check.go`, `reconcile.go` 323-777 | none (functions of the clone and the transform directory) | `CheckDir`, `loadAllTransforms`, `buildDesiredFull`, `buildPodDesired`, `CheckDesired` |
| INI and merging | `ini.go`, `merge.go` | none | `ParseINI`, `String`, `MergeTransform`, `injectPod` |
| Secrets | `secrets.go` | none | parse, validate, encrypt, decrypt, strip, inject |
| Git working copy | `system.go` 37-90 | `StateDir/repo` | `gitClone`, `gitFetch`, `gitResetHard` |
| Control daemon | `serve.go`, `protocol.go` | the socket | list, get, logs, start, stop, restart, redeploy, repull, sync |
| Web frontend | `webui.go`, `dashboard.html` | none | HTTP to socket requests |
| Command line | `main.go` | none | sync, check, augment, edit, redeploy, serve, webui |
| Edit | `edit.go` | a scratch file | decrypt, `$EDITOR`, encrypt, rename |

**How they interact.**  A timer of the host starts `quadsync sync`; every `sync`
or `redeploy` request of the daemon calls the same `Sync` in a goroutine of its
own.  The processes share the lock file, the clone, the hash files and the host.
`Sync` runs under `flock(LOCK_EX|LOCK_NB)`; `redeploy` (command line and daemon),
start, stop, restart and repull do not.  `Sync` calls Git, then the build, then
about a dozen host commands per name, each under a timeout that kills it.

**What is hard.**  Any command can fail or be killed after it has had its effect.
The process can die between any two commands; what it leaves is the host, the
clone and the hashes.  Two syncs may start at once.  A redeploy or a push comes
at any moment.  "Unchanged" is decided from a hash that is written at another
time than the files it stands for.  The build walks Go maps, whose order changes
from run to run.

**What makes each component correct.**

- *Sync loop*: one sync at a time, on the work tree that is there; nobody is
  deleted whom that tree lists; a failed name is tried again and reported; a hash
  means "in place"; accounts that are not quadsync's are left alone; repeated
  syncs converge.
- *Build*: the outcome is a function of the repository and the transforms; each
  file reaches one account, none is lost or replaced.
- *Merging*: the spec wins over defaults, prepends come first, nothing of the
  spec is lost.
- *Secrets*: each directive leads to the value its author gave that entry.
- *Edit*: the file says what was saved last, whatever goes wrong on the way.
- *Working copy*: a sync that goes on has the fetched commit in the work tree.
- *Daemon*: it acts on managed accounts only; an answer says what was done; every
  request gets one.

The hazards, each at its line with the properties that cover it, are listed in
`PROJECT.json`.

## 2. Modules

| Module | What it is |
|---|---|
| `Host` | the host as the commands of `system.go` see it; one operator per command |
| `Reconcile` | `Sync` as a process per caller, one action per command, with crashes, pushes and redeploys; its properties |
| `Keeper` | what `Sync` promises, without how: which changes of accounts, files, secrets and hashes may happen, and when |
| `KeeperView` | the refinement mapping from `Reconcile` to `Keeper` |
| `Convergence` | fairness and liveness of repeated syncs |
| `Daemon` | the connections of `quadsync serve`, with `Sync` as part of a request |
| `GitRepo` | step 1 of `Sync`: clone, fetch, compare and reset over the directory |
| `Checkout` | that step as `Sync` takes it to be; `GitRepo` implements it |
| `Build` | the build as a state machine over Go's loops, and what the repository means without an order |
| `Quadlet` | one document: sections, merging, secrets, checks; pure operators |
| `SpecFile` | the life of one file: edits, keys, deploys under changing transforms |
| `ReconcileProofs`, `ReconcileSafety`, `KeeperProofs`, `DaemonProofs`, `ExactProofs`, `GitRepoProofs`, `BuildProofs`, `SpecFileProofs` | the proofs |
| `MCReconcile`, `MCConvergence`, `MCDaemon`, `MCGitRepo`, `MCBuild`, `MCSpecFile` | instances for TLC |

`Reconcile` extends `Host`; `Convergence`, `KeeperView` and `Daemon` extend
`Reconcile`.  `SpecFile` extends `Quadlet`.  Three parts are seen from two sides:
`GitSync` of `Reconcile` is the Git step in one action, and `GitRepo` the same step
command by command and file by file, which implements `Checkout` as long as no clone
or reset has been cut short; the constant `Build` of `Reconcile` (Invalid, or one
desired state per name) is what the module `Build` computes; the contents that `Build`
names by what they were made from are what `Quadlet` computes.

**The Git step in `Reconcile`.**  A work tree is a content: that of a commit or, when a
clone or a reset was cut short (killed by its timeout, by itself, or with the process),
a mixture, which the constant `Between` gives for what was there and what was to come.
`GitSync` goes on at once when `HEAD` is the head of the branch, whatever the tree
holds, as `gitFetch` does; a clone that was killed before it had a commit, or an
`index.lock` that stayed behind, makes it fail until an operator removes the clone
(`RemoveClone`).  `cut` remembers that a checkout of this clone was cut short.

### State and code

| `Host`, `Reconcile` | Code |
|---|---|
| `user[n]` | `/etc/passwd` and the group `QUADSYNC_USER_GROUP`: none, managed, or foreign |
| `linger`, `enabled`, `active`, `loaded` | logind; enabled timers; the main service; what the user manager read at its last reload |
| `disk[n][f]` | `~/.config/containers/systemd` and `~/.config/systemd/user` of `n` |
| `secrets[n][s]` | podman's secret store of `n` |
| `upstream` | the head of the branch; a change of the transform directory is a push, too |
| `repo`, `head` | the files in `StateDir/repo`; its `HEAD` |
| `cut` | `.git/index.lock` is there ("locked"); and history: a checkout of this clone was cut short |
| `hash[n]`, `lock` | `StateDir/hashes/n`; the flock on `sync.lock` |
| `pc`, `name`, `todo`, `work` | where a process is in `Sync`, its outer and inner loops |
| `desired`, `current`, `errs` | the variables of `Sync` of those names |

| Labels of `pc` | `Sync` |
|---|---|
| idle, git, build, users | lock, clone or fetch and reset, steps 2-5, managed users |
| next, useradd, linger, check | the head of the deploy loop, `createUser`, `specChanged` |
| write, list, prune, secrets, reload, enable, restart | `writeQuadletFile`, `waitForUserManager`, `pruneUserUnits`, `createPodmanSecrets`, `daemonReload`, timers and `saveHash`, `restartService` |
| clean, timers, stop, remove, nolinger, terminate, userdel, unhash | the cleanup loop, `deleteUser` in its three commands, `os.Remove` of the hash |
| done, failed | the returns |

A command that fails is a disjunct of the same action: nothing done, or (the
timeout killed it late) all done; a write or a hash may be left `Torn`, a checkout
half done.  A process that dies takes the git command it waits for with it, at any
point of the checkout, in the instances whose `Faulty` has "checkout".  The
constant `Faulty` names the commands that may fail in an instance, and the
disjunct goes where the code goes: record and next name, record and go on, or log
only.

Two abstractions of the host to know of.  A service is named by the quadlet file
it is generated from; a pod's service has no `<name>.container`, which is how
`stop <name>.service` fails for a pod.  `compositeHash` is taken to be injective
on files and secrets (it leaves the service name out, as the code does).

| `Daemon` | Code |
|---|---|
| `req[c]`, `at[c]`, `ok[c]` | the request `handleConn` of connection `c` is serving, where it is in `dispatch`, the field `OK` of the answer |
| check; act | `requireManaged`; `runUserM(name, op, name.service)` |
| unhash, sync, syncing | `opRedeploy`: `os.Remove` of the hash, the call of `Sync`, `Sync` itself (the process `c` of `Reconcile`) |
| repull, podman, start | `doRepull`: stop, `podman rm` and `rmi`, start |
| `fresh` | history: whose service has been started since the request came in |
| `unstopped` | history: whose repull went on after a stop that had left the service running |

| `GitRepo` | Code |
|---|---|
| `head`, `tree`, `fetched`, `locked` | `HEAD`, the files, `FETCH_HEAD` and `origin/<branch>`, `.git/index.lock` |
| clone, fetch, parse, reset | `gitClone`; `gitFetch`: `git fetch`, the two `rev-parse`; `gitResetHard` |
| files, head | inside `git clone` and `git reset --hard`: files one by one under the lock, then the index, then `HEAD` (a clone has `HEAD` first) |
| `spoilt` | history: a clone or a reset of this directory was cut short |

| `Quadlet`, `SpecFile` | Code |
|---|---|
| a document | what `ParseINI` returns: the sequence of sections, `[Secrets]` kept apart, "+" as a flag of an entry |
| `by` of a secret | the key its value is sealed for (`age:<recipient>:...`), or `Plain` |
| `file`, `new`, `scratch`, `output` | the file, `<file>.new`, the editor's file, the variable `output` of `editContainerFile` |
| `key` | the age key file; it may be exchanged or lost at any moment |
| `unit`, `store` | the quadlet deployed last; podman's secrets |
| `meant`, `source` | history: what the author saved last; what had been saved when `unit` was deployed |

What git does inside one command, and podman and systemd, are not code of the
repository: those definitions are marked external in the map, and the others that
border on them say in a comment what is assumed.  The early return of `edit` for a
file that was not changed is not there in `SpecFile`: the code compares the edited
text, from which the empty `[Secrets]` scaffold has been stripped, with the text
that has it, so the two are never equal for a file without secrets.

In `Build` a stem is the sequence of its parts between hyphens, and a content is
what it was made from (a file or companion, the transforms applied, the pod
injected).  One action enters a directory and divides its containers, one builds
a standalone container, one starts a pod, one adds a member; the order is any
where Go ranges over a map and that of the file names where it ranges over a
glob.  `Over` and `One` are a store into a map, spelled out because the prover has
no definition of TLC's `@@` and `:>`.

## 3. What the runs check

| Run | Instance | Shows |
|---|---|---|
| `faults` | 2 processes; `app` with a timer or a secret; commits v1, v2, gone, bad in any order; 21 kinds of failure, every one but a cut checkout | `TypeOK`, `DesiredIsCheckedOut`, `FailureIsRetried`, `SyncReport`, `HashOnlyAfterDeploy`, and the refinement `KeepsPromise` |
| `names` | 2 processes; a container, a pod and a foreign account; clones and resets cut short, an operator who removes the clone, crashes, and failures of git, useradd, writes, reloads, terminate-user and userdel | `SyncReport`, of several names and a pod; `OnlyUnlistedDeleted` |
| `daemon` | the timer and one connection with any requests; a container with a timer or a secret, a pod and a foreign account; the commands of requests may fail, also the stop of a repull | `SuccessIsExact`, `ForeignOutOfReach`, `RedeployIsTrue`, `RepullIsTrue`, `RequestAnswered` |
| `converge` | 2 processes, failures and cut checkouts until `CalmDown` | `Converges` |
| `git` | 3 commits over 2 files, every git command failing or killed | the refinement `GivesOneCommit`, `CatchesUp` |
| `build` | 4096 repositories, 6 transform directories | `OrderDecidesNothing`, `EachFileOnce` |
| `spec_file` | 3 documents, 9 drafts, 2 keys, no, one or two transforms | `TypeOK`, `FileIsMeant`, `MergedAsDocumented`, `SecretsReachTargets` |

| Run that finds a violation | What happens |
|---|---|
| `stale_hash` | a deploy fails after its files are written, the commit is reverted: the next sync skips the name as unchanged, with the wrong files in place |
| `hash_survives_user` | a crash in the cleanup before the hash is removed, and the container comes back: it is never deployed |
| `lost_linger` | `enable-linger` fails once: later syncs report success without linger |
| `member_replaced` | a companion of one member has the file name of another member and replaces it |
| `git_partial` | git is killed by its timeout among the files: `HEAD` equals `FETCH_HEAD` at the next sync, which goes on with a mixture of files, as if the missing ones had been removed |

**Bounds.**  The names of `Sync` do not interact, except through the order of the
loop and the error list: one name goes through every phase in `faults`, and three
names, among them a pod and a foreign account, are in `names` (where their commands
fail) and in `daemon`.  Two processes are enough for two syncs to meet, and for a
request to meet a sync at every label.  `faults` and `names` count states that differ
only in which of the two processes is which as one (`Callers`): nothing in `Sync` tells
them apart, and all their properties are safety properties (invariants and action
properties), for which symmetry is sound.
Two contents, one timer and one secret give a deploy that adds, changes, keeps and
removes each kind of thing.  `Redeployable` bounds who may be redeployed, not how
often; pushes are unbounded except in `converge`.  In `daemon` the commands of
`Sync` do not fail (`SuccessIsExact` is about that case; `faults`, `names` and the
proofs have the others).  A cut checkout leaves the old files, the new ones, none, or
some that do not validate (`MCBetween`).
In `git` two files give a work tree that is a mixture, and three
commits one that no commit has.  In `build` the twelve files hold the cases where
something could go wrong: pods with no, one and two members, sidecars that two
stems claim, the same account in two places, a pod name with a hyphen, a member
whose name is another member's plus a companion's suffix.  There is no crash during
the build: it has no effect outside the process.  In `spec_file` the drafts are one
of each kind the code refuses or reads only in part, and the transforms have a
default the spec has too, one that a "+" entry of the same transform provides, two
for one key, one that `_base` has before the directory, and one for a key that an
earlier line of the same transform prepends; one document has a section twice.  The
two keys may be exchanged in every state (`Symmetry`): no document, draft or constant
names one, and the properties are invariants.

**Fairness.**  `ConvergingSpec`: weak fairness of each process's `SyncStep`; the
timer starts a sync again and again, and a sync goes on once started because each
of its commands has a timeout.  Weak fairness of `CalmDown` says that commands stop
failing at some time, which is the premise of `Converges` (nothing can converge
while commands may fail for ever).  `DaemonSpec`: weak fairness of `Serve` of
each connection (a goroutine is scheduled, and each command it runs has a timeout)
and of the timer's steps; none of reading a request, so nobody need ask anything.
That a command returns is an assumption that the timeouts do not quite give: `run` and
the others (`system.go` 26, 176) kill the command itself, set no `WaitDelay`, and
`CombinedOutput` waits as long as a grandchild holds the pipe open.  So no run says
that every sync gives the lock back: with such a grandchild it does not, and without
one it only says that finite loops end.
`GitRepo`: weak fairness of the step of `Sync` and of `CalmDown`.  Pushes, crashes,
redeploys and the removal of a spoilt clone have no fairness.

`Converges` has two exceptions.  It is checked along a history in which no content
comes back (`ForwardPush`), not even because a cut checkout mixes it from old and new
files (`ForwardBetween`): with a revert it fails, as `stale_hash` shows.  And it
promises nothing while git cannot give the next sync the head of the branch
(`Reachable`): after a clone that was killed before it had a commit, after a checkout
that was cut short with `HEAD` already where the branch is, and with an `index.lock`
in the way.  A push ends the second, and an operator who removes the clone any of the
three.  `OnlyUnlistedDeleted` is about the commit at `HEAD` until
a checkout is cut short, and about the files that are there from then on: an account
whose file is missing from a mixture is deleted, though no commit removed it, and a
clone that stays as it is after `git_partial` leads there.
`FailureIsRetried` is about accounts that Sync found in the group; of one it has to
make it is not true (`hash_survives_user`, `lost_linger`).  `RepullIsTrue` excepts a
service that the repull's own stop has left running: `doRepull` drops that error, and
where `podman rm` does not find the container either, `systemctl start` does nothing
and the answer is "repulled" with the old instance.
`SuccessIsExact` sets aside the `.container` and `.pod` files of an account that are no
longer desired, for a deploy never removes those.
`GivesOneCommit`
and `CatchesUp` except a directory in which a clone or a reset was cut short:
without the exception they fail, as `git_partial` shows, and a killed clone may
leave a directory in which every later fetch fails until it is removed.
`SecretsReachTargets` excepts documents with two secrets of one podman name, which
the code accepts (`DistinctNames`).  `MergedAsDocumented` says line by line what a
section becomes: the prepended lines, the last transform's first, then every line of
the author's and the directives, then defaults; a default is there only if its key is
not set by what its transform found (or prepended itself), nor by a default before it,
and no default whose key nobody sets is missing (`SectionAsDocumented`).  It speaks of
the author's sections; one that only a transform has is in the model (`MergeTransform`
appends it), and no property is about its lines.

Deadlock is checked in all runs except those of `Build`: a build ends.

## 4. What is proved

All for any number of processes, connections, names, files, secrets, documents and
commits, any history of pushes and any set of failing commands, from the named
assumptions of the modules: sentinels are distinct from values, units and timers
are files, the order of names is strict, and a desired state contains the file its
service is generated from.  For the build: a stem is a sequence, a companion is not
a file of the repository, and only containers have secrets.  For one file: documents,
drafts and transforms are what the parser returns, every secret of one has a name in
podman's store, and no age key is one of the two sentinels.

- `TypeCorrect`, `Typed`: types.  The invariant `TypeInv` adds to `TypeOK` that a
  process in a loop is at a listed (or unlisted) name and that `work` holds
  things of the kind of its label; without it `disk[name[p]]` has no type.  `Build[repo]`
  has one because past the Git step there are files in the clone (`RepoOK`), which takes
  that a clone with a commit at `HEAD` has files, and that the operator who removes it
  does so while nobody holds the lock (`CloneOK`).
- `SafeCorrect`: `SafeInv`, which the others about `Reconcile` follow from.  Its
  parts, for each process: `LockOK` (past the lock it holds the lock; past the
  build it has the desired states of the work tree), `Accounts` (which
  accounts are there at each label), `Errors` (errors are about names the process
  is through with, whose hash is not current), `Placed` (at each label of a deploy,
  which files and secrets are in place and loaded), `Reported` (what is true of a
  name the process is through with).
- From it: `CheckedOut`, `Reports`, `Retried` (invariants) and `HashAfterDeploy`,
  `UnlistedDeleted`, `ForeignSafe` (action properties; the last is not a run's,
  `daemon` checks the stronger `ForeignOutOfReach`).  `Retried` covers the errors about
  accounts that Sync found in the group, not about one it has to make.
  `UnlistedDeleted` speaks of the commit at `HEAD` as long as no checkout was cut short
  (`CloneOK`), and of the files that are there afterwards.
- `Keeps`: `Spec => KeepsPromise`, the refinement of `Keeper`.
- `DaemonTyped`: the types of the daemon's variables and of `Sync` in its connections.
- `DaemonCorrect`: `DaemonSpec => []DaemonInv`, that is, `SafeInv` holds with
  requests going on beside the syncs; from it `DaemonSyncs` (mutual exclusion and
  reports) and `DaemonForeign`.
- `DaemonRedeploy` and `DaemonRepull`: `RedeployIsTrue` and `RepullIsTrue`, for every
  way in which the commands of `Sync` and of requests fail.
- `ExactCorrect` and `Exact`: `SuccessIsExact` for the daemon's syncs, where only the
  commands of requests fail (`SyncNeverFails`).
- `DirectoryCorrect` and `Implements`: the invariant of the working copy, and that
  `GitRepo` implements `Checkout`.
- `BuildCorrect`: `BuildInv`; from it `OrderIrrelevant` (`OrderDecidesNothing`) and
  `EachFileReachesOne` (`EachFileOnce`), for every set of repositories.
- `FileKept`: `FileIsMeant`, for all documents, keys and transforms.
- `SpecFileTyped`: `TypeOK` of `SpecFile`: what is in the file is always a whole document,
  never one whose writing was cut short.
- `MergeDocumented` (`MergedAsDocumented`) and `SecretsArrive` (`SecretsReachTargets`),
  for documents, sections, `[Secrets]` and lists of transforms of any length.

**The loop.**  Only the holder of the lock changes the host, the clone or a hash,
other than by `Redeploy`, which takes a hash away, and `RemoveClone`, which needs the
lock to be free (`Alone`, `OthersSafe`, `EveryLocal`, `OperatorSafe`); so each conjunct about a process is preserved by its own step
(`PrepareSafe`, `DeploySafe`, `CleanupSafe`), by the steps of processes without
the lock, by a push, which changes `upstream` alone, and by a redeploy, because
every conjunct accepts `NoHash`.  None of the properties is inductive by itself:
`HashOnlyAfterDeploy` needs to know at `saveHash` what earlier steps wrote, that
is, `Placed` at every label in between.

**The refinement of `Keeper`.**  The holder is who has the lock, its plan is its
`desired` from the build until it gives up, the marks are the hashes (`KeeperView`).
A step before the build leaves all that alone (`PrepareKeeps`); a deploy step is
`Adopt`, `Write`, `Prune`, `Provide` or `Mark` of its name, or a stutter
(`DeployKeeps`), where `SafeInv` gives `Due`: at every label of a deploy the stored
hash is not that of the plan, and at `saveHash` everything is in place; a cleanup
step is `Empty`, `Remove` or `Unmark` (`CleanupKeeps`); a crash, also in the middle
of a write, is `Stop` with a torn file or mark (`CrashKeeps`).

**The daemon.**  What a request does without the lock is to start and stop services
and to take hashes away, and `SafeInv` speaks of neither (`OutsideSafe`).  That an
account was managed when `requireManaged` looked does not mean it is when the
handler acts; but no account ever becomes foreign, and so what was checked not to be
foreign stays so (`ConnOK`).

**Redeploys.**  `RedeployInv` says of a request that waits for its sync, and whose service
has not been restarted yet, that its name has no hash a sync would skip it for, or has
got one from a deploy that is about to restart (`AtRestart`: `saveHash` comes right
before the restart), and that the request's own sync has not passed the name (`Ahead`).
So a sync that ends well without a restart has found the name no longer listed.  The
daemon's model has no crashes, and this depends on it: if the timer's process dies
between storing the hash and the restart, a waiting redeploy skips the name and is
answered "redeployed".

**Repulls.**  Once a repull has stopped its service, the service is down until somebody
starts it, and who does is remembered in `fresh` (`Repulling`); a stop that did not stop
it is remembered in `unstopped`.  So the start at the end either finds the service down,
and brings it up, or finds it up for one of these two reasons (`AnswerRepull`).

**Exactness.**  `SuccessIsExact` also speaks of units, timers, linger and the
service, which best-effort commands set: hence the assumption that those of `Sync`
do not fail, nor a process die.  `ExactInv` has three parts.  `Rest`: an account that
no sync is at work on holds exactly what its hash says, or, without a hash, at least
no enabled timer without its unit; so skipping a name whose hash is current is right.
`HalfDone`: how far each label has come, for example that at `userdel` nothing of the
account is loaded or runs.  `Through`: what is true of the names a process is through
with.  Requests only stop a service, or start it as it was loaded if its file was
(`ServiceExact`), which leaves all three true (`OutsideExact`); in particular a
service that a removal has terminated cannot be started again, so that `userdel`
succeeds.

**The working copy.**  As long as nothing was cut short the tree is that of `HEAD`
outside a checkout (`Directory`), so skipping the reset when `HEAD` equals
`FETCH_HEAD` is right.

**The build.**  A valid pod name has no hyphen, so that a container has at most one
pod (`OnePod`) and the divisions of a directory that `EnterScope` may choose are one;
the owner of a sidecar is the longest stem, and of two stems of one length that
begin a third only one exists (`OneOwner`).  As long as no two contributions to an
account are for one file, storing them one after the other gathers them all in any
order (`AddingGathers`, `GatheredIsMeant`).  `BuildInv` says at each label which heads
are `Finished`, that `desired` is what exactly those mean, and that a pod at hand holds
what the members already added contribute; the properties are about the end only,
and give a step nothing to rest on.

**The edit.**  Encrypting and then decrypting gives back
the document whatever the keys (`RoundTrip`), and what the rename moves is all that
was to be written (`Saved`).

**The merge.**  `MergeTransform` and the loops it calls are folds over sequences, and
a fold is a `CHOOSE` of a recursive function.  First, such a function exists
(`FoldExists`: one for the first k elements extends to one for the next), so the
`CHOOSE` is one; then the fold is the end of a chain of intermediate results, each
obtained from its predecessor (`FoldChain`); and what each link preserves holds at the
end (`UpTo`: a set that contains 0 and, with each number, the next one misses no number
up to the bound, since it would miss a least one).  That is induction without the
library's induction theorems, from the well-foundedness of the numbers alone.  With it,
along the defaults of one section: what has been added was missing in the section, one
line for each key (`Missing`, `MissingOne`); along the transforms: the section is what
they prepend, the author's lines, and what they have added so far (`Documented`,
`OneMore`, `GrowOnce`), where a line that a later transform prepends for the same key
does not take a default back; along the secrets: a name that is given once keeps its
value (`Stored`).

**From the author to the host.**  `Delivered` is inductive: `TypeOK`, `Saved` and the two
properties.  Only `Deploy` changes what they speak of.  It reads the file, not what the
author meant: `FileIsMeant` says that the two agree apart from the keys, and a secret's
directive, name and value do not depend on its key (`SameDirectives`).  The pod and the
directives go to the same section, because merging keeps the spec's sections where they
are (`SameIndex`).

**Only model-checked**: liveness (`Converges`, `RequestAnswered`, `CatchesUp`), which is
out of the prover's reach.

## 5. Not modelled

- A command that goes on after the process that started it has died, or after
  its timeout killed the local half of it; the same for git's child processes.  A
  command that never returns, because a grandchild holds its output open.
- A reboot: linger and enabled timers are in the state for the properties about
  them, and nothing restarts.
- Podman itself: images (the reason for a repull), pulls, containers, volumes, and
  secrets that are no longer desired (the code never removes them).
- Other writers: an operator who edits a home, the hash directory or the group.
- A host without the managed group (`managedUsers` then finds nobody) and members
  of the group whose names are not valid, which it skips.
- Files of the repository or of the transforms that cannot be read, and the lock
  file or the hash directory that cannot be made.
- The text of INI files: comments, blank and bare lines, what precedes the first
  header, continuation, and how `ParseINI` and `String` treat them.
- The secrets of several containers of one pod together; the age format and the
  ways a value can be malformed, other than what is refused as a whole.
- Two edits of one file at once; the mode of the edited file; its scratch file.
- The frontend's side of the socket (its timeout changes nothing in the daemon),
  its HTML; `list`, `get` and `logs`, which read; malformed requests; `check` and
  `augment` as commands; a configuration that changes.

What is left of the code is of these kinds: text, reading and printing, and
operating-system plumbing, in which nothing is decided that a property here speaks
of.

## 6. Possible further steps

1. Services by kind (a name has one running service here): then start, stop and
   restart of a pod, which address `<name>.service`, would have properties of their own.
2. The lines of sections that only transforms have, as a part of `MergedAsDocumented`.
3. Secrets of all members of a pod in `SpecFile`, to say when podman names clash
   across containers.

## 7. Running

    tlc -config Faults.cfg MCReconcile
    tlc -config Names.cfg MCReconcile
    tlc -config Daemon.cfg MCDaemon
    tlc -config Converge.cfg MCConvergence
    tlc -config Git.cfg MCGitRepo
    tlc -config Build.cfg MCBuild
    tlc -config SpecFile.cfg MCSpecFile
    tlapm ReconcileProofs.tla

and `tlapm` likewise for the other seven proof modules.  The five runs of section 3
that find a violation use `StaleHash.cfg`, `HashSurvivesUser.cfg`, `LostLinger.cfg`
(with `MCReconcile`), `MemberReplaced.cfg` (with `MCBuild`) and `GitPartial.cfg` (with
`MCGitRepo`).
