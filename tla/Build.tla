-------------------------------- MODULE Build --------------------------------
(***************************************************************************)
(* From the checked-out repository and the transform directory to the      *)
(* desired states: CheckDir, loadAllTransforms, buildDesiredFull and       *)
(* CheckDesired, as Sync runs them one after the other.  Module Reconcile  *)
(* knows of all this only the outcome, its constant Build.                 *)
(*                                                                         *)
(* The loops over Go maps (directories, the pods of one directory, and the *)
(* search for a container's pod) take any order; those over the results of *)
(* filepath.Glob take the order of file names.                             *)
(*                                                                         *)
(* A stem is the sequence of its parts between hyphens, so that "starts    *)
(* with stem-" is "is a longer sequence that starts with".  A content is   *)
(* what it was made from: a file or a companion, the transforms applied to *)
(* it in order, and the pod injected into it.                              *)
(***************************************************************************)
EXTENDS Naturals, SequencesExt

CONSTANTS
  Dir,            \* the subdirectories of the repository
  Root,           \* its root
  Stem,           \* file names without their extension
  BadName,        \* the stems NewUsername refuses
  Order,          \* the order of "<stem>.container" as strings
  BadContent,     \* the files that checkContent or its like refuses
  Sealed,         \* the containers with encrypted secrets
  Repos,          \* the repositories of this instance: sets of files
  TransformDirs,  \* its transform directories
  NoPod           \* a container that is in no pod

QuadletFile == [dir: Dir \cup {Root}, stem: Stem, ext: {"container", "pod", "service", "timer"}]

ASSUME BuildAssumption ==
  /\ Root \notin Dir
  /\ Stem \subseteq Seq(STRING)
  /\ BadName \subseteq Stem
  /\ NoPod \notin QuadletFile
  /\ Sealed \subseteq {f \in QuadletFile : f.ext = "container"}
  /\ Order \in [Stem -> Nat]
  /\ \A s, t \in Stem : Order[s] = Order[t] => s = t
  \* "web-api.container" < "web.container": the hyphen comes before the dot.
  /\ \A s, t \in Stem : IsStrictPrefix(s, t) => Order[t] < Order[s]
  /\ Repos \subseteq SUBSET QuadletFile
  /\ \A t \in TransformDirs :
       /\ DOMAIN t = {"base", "basePod", "dirs", "podDirs", "companions", "breaking", "other",
                       "key"}
       /\ {t.base, t.basePod, t.other, t.key} \subseteq BOOLEAN
       /\ t.dirs \cup t.podDirs \subseteq Dir
       /\ t.breaking \subseteq {"base", "dir"}
       /\ \A c \in t.companions : DOMAIN c = {"suffix", "ext", "noPod", "bad"}

VARIABLES
  repo,        \* the files checked out
  transforms,  \* what loadAllTransforms finds, and if the age key opens the secrets
  pc,          \* the step Sync is at
  scopes,      \* the directories not yet come to, the root among them
  scope,       \* the directory at hand
  memberOf,    \* memberOf[c]: the pod found for the container c of this scope
  todo,        \* the containers left in the loop at hand
  pods,        \* the pods of this scope not yet come to
  pod,         \* the pod being built
  state,       \* its desired state so far
  desired      \* the map "desired"; its keys are those of the map "sources"

input == <<repo, transforms>>
vars  == <<input, pc, scopes, scope, memberOf, todo, pods, pod, state, desired>>

-----------------------------------------------------------------------------
(* Files, names and owners.                                                *)

\* globScope.
In(d, ext)    == {f \in repo : f.dir = d /\ f.ext = ext}
Containers(d) == In(d, "container")
Pods(d)       == In(d, "pod")
Sidecars(d)   == In(d, "service") \cup In(d, "timer")

ValidName(s) == s \notin BadName
HyphenatedPod(s) == ValidName(s)
ValidPod(s)  == ValidName(s) /\ Len(s) = 1

\* The pods that a container's name claims membership of.
PodsOf(c) == {p \in Pods(c.dir) : IsStrictPrefix(p.stem, c.stem)}

\* findSidecarOwner: the longest of the containers whose stem s begins with.
Owners(s)        == {c \in Containers(s.dir) : IsStrictPrefix(c.stem, s.stem)}
AnyOwner(c)      == {s \in Sidecars(c.dir) : c \in Owners(s)}
SidecarsOf(c) ==
  {s \in Sidecars(c.dir) : c \in Owners(s) /\ \A o \in Owners(s) : Len(o.stem) <= Len(c.stem)}

Orphans(d) == {s \in Sidecars(d) : Owners(s) = {}}
Strays(d)  == {c \in Containers(d) : Pods(d) # {} /\ PodsOf(c) = {}}

\* CheckDir.  In the root a pod does not exempt its members from having a user
\* name of their own.
CheckErrors ==
  \/ repo \cap BadContent # {}
  \/ \E d \in Dir \cup {Root} :
       \/ Orphans(d) # {}
       \/ d # Root /\ Strays(d) # {}
       \/ \E p \in Pods(d) : ~ValidPod(p.stem)
       \/ \E c \in Containers(d) : (d = Root \/ Pods(d) = {}) /\ ~ValidName(c.stem)

-----------------------------------------------------------------------------
(* Contents and desired states.                                            *)

Key(stem, ext) == [stem |-> stem, ext |-> ext]

\* A map of one entry, and the map g after the entries of f are stored in it (":>"
\* and "@@" of TLC, whose definitions the prover does not have).
One(k, v)  == [x \in {k} |-> v]
Over(f, g) == [k \in DOMAIN f \cup DOMAIN g |-> IF k \in DOMAIN f THEN f[k] ELSE g[k]]

Content(from, by, inPod) == [from |-> from, by |-> by, pod |-> inPod]

\* transformContainerFile: the base transform, then the directory's.
ApplyTransforms(c) ==
  (IF transforms.base THEN <<"base">> ELSE <<>>)
    \o (IF c.dir \in transforms.dirs THEN <<"dir">> ELSE <<>>)

ApplyPodTransforms(p) ==
  (IF transforms.basePod THEN <<"basePod">> ELSE <<>>)
    \o (IF p.dir \in transforms.podDirs THEN <<"podDir">> ELSE <<>>)

\* The companions of c; a .container among them joins the pod unless its template
\* says no.
CompanionFiles(c, inPod) ==
  [k \in {Key(c.stem \o t.suffix, t.ext) : t \in transforms.companions} |->
     LET t == CHOOSE t \in transforms.companions : k = Key(c.stem \o t.suffix, t.ext)
     IN Content(t, <<>>, IF t.ext = "container" /\ ~t.noPod THEN inPod ELSE NoPod)]

SidecarFiles(c) ==
  [k \in {Key(s.stem, s.ext) : s \in SidecarsOf(c)} |->
     Content([dir |-> c.dir, stem |-> k.stem, ext |-> k.ext], <<>>, NoPod)]

OwnFile(c, inPod) == One(Key(c.stem, "container"), Content(c, ApplyTransforms(c), inPod))

\* What a container adds to the files written before it, later writes winning:
\* its quadlet, its companions, its sidecars.
Adding(c, inPod, files) ==
  Over(SidecarFiles(c), Over(CompanionFiles(c, inPod), Over(OwnFile(c, inPod), files)))

NoFiles == [k \in {} |-> NoPod]

\* buildDesiredState, and buildPodDesired before its members.  members stands for
\* the list of secrets: those of these containers.
StandaloneState(c) ==
  [files |-> Adding(c, NoPod, NoFiles), service |-> c.stem, members |-> {c}]
PodState(p) ==
  [files   |-> One(Key(p.stem, "pod"), Content(p, ApplyPodTransforms(p), NoPod)),
   service |-> p.stem \o <<"pod">>,
   members |-> {}]

\* CheckDesired: a merged .container is refused if one of the transforms applied
\* to it, or the template it comes from, breaks it.
Broken(k, c) ==
  /\ k.ext = "container"
  /\ \/ c.from \in transforms.companions /\ c.from.bad
     \/ \E i \in DOMAIN c.by : c.by[i] \in transforms.breaking

\* parseSecrets fails on what the age key does not open.
Unreadable(c) == c \in Sealed /\ ~transforms.key

First(s) == CHOOSE c \in s : \A d \in s : Order[c.stem] <= Order[d.stem]

-----------------------------------------------------------------------------
(* The steps.                                                              *)

Init ==
  /\ repo \in Repos
  /\ transforms \in TransformDirs
  /\ pc = "check"
  /\ scopes = {} /\ scope = Root /\ memberOf = NoFiles
  /\ todo = {} /\ pods = {} /\ pod = NoPod /\ state = NoFiles
  /\ desired = NoFiles

Goto(to) == pc' = to

Fail ==
  /\ Goto("failed")
  /\ UNCHANGED <<input, scopes, scope, memberOf, todo, pods, pod, state, desired>>

CheckDir ==
  /\ pc = "check"
  /\ \/ CheckErrors /\ Fail
     \/ /\ ~CheckErrors
        /\ Goto("load")
        /\ UNCHANGED <<input, scopes, scope, memberOf, todo, pods, pod, state, desired>>

\* loadAllTransforms refuses a file it has no use for.
LoadTransforms ==
  /\ pc = "load"
  /\ \/ transforms.other /\ Fail
     \/ /\ ~transforms.other
        /\ Goto("scope")
        /\ scopes' = {Root} \cup {f.dir : f \in repo}
        /\ UNCHANGED <<input, scope, memberOf, todo, pods, pod, state, desired>>

\* The root comes first, then the directories; the containers of each are
\* divided among its pods and the standalone ones.
EnterScope ==
  /\ pc = "scope"
  /\ \E d \in scopes :
       /\ Root \in scopes => d = Root
       /\ LET refused == \/ Orphans(d) # {}
                         \/ d # Root /\ Strays(d) # {}
                         \/ d # Root /\ Pods(d) = {} /\ d \notin transforms.dirs
          IN \/ refused /\ Fail
             \/ /\ ~refused
                /\ \E m \in [Containers(d) -> Pods(d) \cup {NoPod}] :
                     /\ \A c \in Containers(d) :
                          IF PodsOf(c) = {} THEN m[c] = NoPod ELSE m[c] \in PodsOf(c)
                     /\ memberOf' = m
                     /\ todo' = {c \in Containers(d) : m[c] = NoPod}
                /\ scope' = d
                /\ scopes' = scopes \ {d}
                /\ pods' = Pods(d)
                /\ Goto("standalone")
                /\ UNCHANGED <<input, pod, state, desired>>

BuildStandalone ==
  /\ pc = "standalone"
  /\ todo # {}
  /\ LET c == First(todo)
         refused == ~ValidName(c.stem) \/ Unreadable(c) \/ c.stem \in DOMAIN desired
     IN \/ refused /\ Fail
        \/ /\ ~refused
           /\ desired' = Over(One(c.stem, StandaloneState(c)), desired)
           /\ todo' = todo \ {c}
           /\ UNCHANGED <<input, pc, scopes, scope, memberOf, pods, pod, state>>

StandaloneDone ==
  /\ pc = "standalone"
  /\ todo = {}
  /\ Goto("pods")
  /\ UNCHANGED <<input, scopes, scope, memberOf, todo, pods, pod, state, desired>>

StartPod ==
  /\ pc = "pods"
  /\ \E p \in pods :
       LET refused == ~ValidPod(p.stem) \/ p.stem \in DOMAIN desired
       IN \/ refused /\ Fail
          \/ /\ ~refused
             /\ pod' = p
             /\ pods' = pods \ {p}
             /\ state' = PodState(p)
             /\ todo' = {c \in DOMAIN memberOf : memberOf[c] = p}
             /\ Goto("members")
             /\ UNCHANGED <<input, scopes, scope, memberOf, desired>>

AddMember ==
  /\ pc = "members"
  /\ todo # {}
  /\ LET c == First(todo)
     IN \/ Unreadable(c) /\ Fail
        \/ /\ ~Unreadable(c)
           /\ state' = [state EXCEPT !.files = Adding(c, pod.stem, @), !.members = @ \cup {c}]
           /\ todo' = todo \ {c}
           /\ UNCHANGED <<input, pc, scopes, scope, memberOf, pods, pod, desired>>

FinishPod ==
  /\ pc = "members"
  /\ todo = {}
  /\ desired' = Over(One(pod.stem, state), desired)
  /\ Goto("pods")
  /\ UNCHANGED <<input, scopes, scope, memberOf, todo, pods, pod, state>>

LeaveScope ==
  /\ pc = "pods"
  /\ pods = {}
  /\ Goto("scope")
  /\ UNCHANGED <<input, scopes, scope, memberOf, todo, pods, pod, state, desired>>

CheckDesired ==
  /\ pc = "scope"
  /\ scopes = {}
  /\ Goto(IF \E n \in DOMAIN desired : \E k \in DOMAIN desired[n].files :
               Broken(k, desired[n].files[k])
          THEN "failed" ELSE "built")
  /\ UNCHANGED <<input, scopes, scope, memberOf, todo, pods, pod, state, desired>>

Next ==
  \/ CheckDir \/ LoadTransforms \/ EnterScope
  \/ BuildStandalone \/ StandaloneDone
  \/ StartPod \/ AddMember \/ FinishPod \/ LeaveScope
  \/ CheckDesired

Spec == Init /\ [][Next]_vars

-----------------------------------------------------------------------------
(* What the repository means, without an order.                            *)

\* The heads of accounts, and what an account consists of.
AllContainers == {f \in repo : f.ext = "container"}
Heads         == {f \in repo : f.ext = "pod"} \cup {c \in AllContainers : PodsOf(c) = {}}
MembersOf(h)  == IF h.ext = "container" THEN {h} ELSE {c \in AllContainers : h \in PodsOf(c)}
InPod(h)      == IF h.ext = "container" THEN NoPod ELSE h.stem

\* The contributions to the account of h, of which no two are for one file.
Parts(h) ==
  {OwnFile(c, InPod(h)) : c \in MembersOf(h)}
    \cup {CompanionFiles(c, InPod(h)) : c \in MembersOf(h)}
    \cup {SidecarFiles(c) : c \in MembersOf(h)}
    \cup (IF h.ext = "pod" THEN {PodState(h).files} ELSE {})

Keys(h) == UNION {DOMAIN p : p \in Parts(h)}
Clash   == \E h \in Heads : \E p, q \in Parts(h) : p # q /\ DOMAIN p \cap DOMAIN q # {}

FilesMeant(h) == [k \in Keys(h) |-> (CHOOSE p \in Parts(h) : k \in DOMAIN p)[k]]

Refused ==
  \/ CheckErrors
  \/ transforms.other
  \/ \E c \in repo : Unreadable(c)
  \/ \E f \in repo : f.dir # Root /\ Pods(f.dir) = {} /\ f.dir \notin transforms.dirs
  \/ \E g, h \in Heads : g # h /\ g.stem = h.stem
  \/ \E h \in Heads : \E k \in Keys(h) : Broken(k, FilesMeant(h)[k])

\* The order in which Go walks its maps decides nothing: whether the repository is
\* refused, the accounts, the files of each and the pod of each container are
\* functions of the repository and the transforms (unless a companion takes the
\* name of a file of its pod, see EachIsDeployed).
OrderDecidesNothing ==
  ~Clash =>
    /\ pc = "failed" => Refused
    /\ pc = "built" =>
         /\ ~Refused
         /\ DOMAIN desired = {h.stem : h \in Heads}
         /\ \A h \in Heads : /\ desired[h.stem].files = FilesMeant(h)
                             /\ desired[h.stem].members = MembersOf(h)

SourcesOf(n) == {desired[n].files[k].from : k \in DOMAIN desired[n].files}

\* Each file of a repository that is accepted reaches exactly one account: none
\* is dropped, and none (a sidecar of "web-api-db", say) is deployed under two.
EachFileOnce ==
  pc = "built" /\ ~Clash =>
    \A f \in repo : \E n \in DOMAIN desired :
      \A m \in DOMAIN desired : f \in SourcesOf(m) <=> m = n

\* README.md:9: each .container file of the repository is deployed.
EachIsDeployed ==
  pc = "built" => \A c \in AllContainers : \E n \in DOMAIN desired : c \in SourcesOf(n)

=============================================================================
