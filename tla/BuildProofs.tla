------------------------------ MODULE BuildProofs ------------------------------
(***************************************************************************)
(* The desired states are a function of the repository and the transforms: *)
(* the order in which Go walks its maps decides nothing, and each file     *)
(* reaches exactly one account, for every repository.                      *)
(***************************************************************************)
EXTENDS Build, WellFoundedInduction, TLAPS

\* What is read, and never changes during a build.
Inputs == repo \in SUBSET QuadletFile /\ transforms \in TransformDirs

-----------------------------------------------------------------------------
(* Numbers and stems.                                                      *)

LEMMA Least ==
  ASSUME NEW S, S \subseteq Nat, S # {}
  PROVE  \E m \in S : \A n \in S : m <= n
<1>1. PICK m \in S : \A n \in S : <<n, m>> \notin OpToRel(<, Nat)
  BY NatLessThanWellFounded, WFMin
<1>2. ASSUME NEW n \in S PROVE m <= n
  <2>1. <<n, m>> \notin OpToRel(<, Nat)
    BY <1>1
  <2> QED
    BY <2>1 DEF OpToRel
<1> QED
  BY <1>1, <1>2

LEMMA FirstIsOne ==
  ASSUME Inputs, NEW S, S \subseteq repo, S # {}
  PROVE  First(S) \in S
<1> DEFINE Orders == {Order[c.stem] : c \in S}
<1>1. \A c \in S : c.stem \in Stem
  BY DEF Inputs, QuadletFile
<1>2. Orders \subseteq Nat /\ Orders # {}
  BY <1>1, BuildAssumption
<1>3. PICK m \in Orders : \A n \in Orders : m <= n
  BY <1>2, Least
<1>4. PICK c \in S : m = Order[c.stem]
  BY <1>3
<1>5. \A d \in S : Order[c.stem] <= Order[d.stem]
  BY <1>3, <1>4
<1> QED
  BY <1>5 DEF First

LEMMA SamePrefix ==
  ASSUME NEW s \in Stem, NEW t \in Stem, NEW u \in Stem,
         IsStrictPrefix(s, u), IsStrictPrefix(t, u), Len(s) = Len(t)
  PROVE  s = t
<1>1. s \in Seq(STRING) /\ t \in Seq(STRING) /\ u \in Seq(STRING)
  BY BuildAssumption
<1>2. SubSeq(s, 1, Len(s)) = SubSeq(t, 1, Len(t))
  BY DEF IsStrictPrefix, IsPrefix
<1>3. s = SubSeq(s, 1, Len(s)) /\ t = SubSeq(t, 1, Len(t))
  BY <1>1
<1> QED
  BY <1>2, <1>3

-----------------------------------------------------------------------------
(* Owners: a container is in one pod, a sidecar belongs to one container.  *)

LEMMA OnePod ==
  ASSUME Inputs, ~CheckErrors, NEW c \in AllContainers, NEW p \in PodsOf(c), NEW q \in PodsOf(c)
  PROVE  p = q
<1>1. /\ p \in Pods(c.dir) /\ q \in Pods(c.dir) /\ c.dir \in Dir \cup {Root}
      /\ p \in QuadletFile /\ q \in QuadletFile /\ c \in QuadletFile
  BY DEF PodsOf, Pods, In, Inputs, AllContainers, QuadletFile
<1>2. Len(p.stem) = 1 /\ Len(q.stem) = 1
  BY <1>1 DEF CheckErrors, ValidPod
<1>3. p.stem \in Stem /\ q.stem \in Stem /\ c.stem \in Stem
  BY <1>1 DEF QuadletFile
<1>4. p.stem = q.stem
  BY <1>2, <1>3, SamePrefix DEF PodsOf
<1>5. p.dir = q.dir /\ p.ext = q.ext
  BY <1>1 DEF Pods, In
<1> QED
  BY <1>1, <1>4, <1>5 DEF QuadletFile

LEMMA OneOwner ==
  ASSUME Inputs, NEW s \in repo, NEW c, NEW d, s \in SidecarsOf(c), s \in SidecarsOf(d)
  PROVE  c = d
<1>1. /\ c \in Owners(s) /\ d \in Owners(s) /\ Len(c.stem) <= Len(d.stem)
      /\ Len(d.stem) <= Len(c.stem)
  BY DEF SidecarsOf
<1>2. /\ c \in QuadletFile /\ d \in QuadletFile /\ s \in QuadletFile
      /\ c.dir = d.dir /\ c.ext = d.ext
  BY <1>1 DEF Owners, Containers, In, Inputs
<1>3. c.stem \in Stem /\ d.stem \in Stem /\ s.stem \in Stem
  BY <1>2 DEF QuadletFile
<1>4. Len(c.stem) = Len(d.stem)
  <2>1. Len(c.stem) \in Nat /\ Len(d.stem) \in Nat
    BY <1>3, BuildAssumption
  <2> QED
    BY <1>1, <2>1
<1>5. c.stem = d.stem
  BY <1>1, <1>3, <1>4, SamePrefix DEF Owners
<1> QED
  BY <1>2, <1>5 DEF QuadletFile

\* A sidecar that is no orphan has an owner, the one with the longest stem.
LEMMA SomeOwner ==
  ASSUME Inputs, NEW s \in repo, Owners(s) # {}
  PROVE  \E c \in Containers(s.dir) :
           c \in Owners(s) /\ \A o \in Owners(s) : Len(o.stem) <= Len(c.stem)
<1> DEFINE Rest(c) == Len(s.stem) - Len(c.stem)
           Rests == {Rest(c) : c \in Owners(s)}
<1>1. s.stem \in Seq(STRING) /\ \A c \in Owners(s) : c.stem \in Seq(STRING)
  BY BuildAssumption DEF Owners, Containers, In, Inputs, QuadletFile
<1>2. \A c \in Owners(s) : Len(c.stem) <= Len(s.stem) /\ Rest(c) \in Nat
  BY <1>1 DEF Owners, IsStrictPrefix, IsPrefix
<1>3. Rests \subseteq Nat /\ Rests # {}
  BY <1>2
<1>4. PICK m \in Rests : \A n \in Rests : m <= n
  BY <1>3, Least
<1>5. PICK c \in Owners(s) : m = Rest(c)
  BY <1>4
<1>6. \A o \in Owners(s) : Rest(c) <= Rest(o)
  BY <1>4, <1>5
<1>7. \A o \in Owners(s) : Len(o.stem) <= Len(c.stem)
  BY <1>1, <1>6
<1> QED
  BY <1>7 DEF Owners

-----------------------------------------------------------------------------
(* The files of an account.                                                *)

\* The contributions of the containers M to the account of h: Parts(h) is those of
\* all its members.
PartsOf(h, M) ==
  {OwnFile(c, InPod(h)) : c \in M}
    \cup {CompanionFiles(c, InPod(h)) : c \in M}
    \cup {SidecarFiles(c) : c \in M}
    \cup (IF h.ext = "pod" THEN {PodState(h).files} ELSE {})

\* No two of the contributions ps are for one file.
Apart(ps) == \A p, q \in ps : p # q => DOMAIN p \cap DOMAIN q = {}

\* The map files holds the contributions ps and nothing else.
Gathers(files, ps) ==
  /\ files = [k \in UNION {DOMAIN p : p \in ps} |-> files[k]]
  /\ \A p \in ps : \A k \in DOMAIN p : files[k] = p[k]

LEMMA OverGathers ==
  ASSUME NEW files, NEW ps, NEW q, Gathers(files, ps), Apart(ps \cup {q})
  PROVE  Gathers(Over(q, files), ps \cup {q})
<1> DEFINE all == Over(q, files)
<1>1. DOMAIN files = UNION {DOMAIN p : p \in ps}
  BY DEF Gathers
<1>2. UNION {DOMAIN p : p \in ps \cup {q}} = DOMAIN q \cup DOMAIN files
  BY <1>1
<1>3. all = [k \in DOMAIN q \cup DOMAIN files |-> all[k]]
  BY DEF Over
<1>4. ASSUME NEW p \in ps \cup {q}, NEW k \in DOMAIN p
      PROVE  all[k] = p[k]
  <2>1. CASE k \in DOMAIN q
    <3>1. p = q
      BY <2>1, <1>4 DEF Apart
    <3> QED
      BY <2>1, <3>1 DEF Over
  <2>2. CASE k \notin DOMAIN q
    <3>1. p \in ps /\ k \in DOMAIN files
      BY <2>2, <1>4, <1>1
    <3>2. all[k] = files[k]
      BY <2>2, <3>1 DEF Over
    <3> QED
      BY <3>1, <3>2, <1>4 DEF Gathers
  <2> QED
    BY <2>1, <2>2
<1> QED
  BY <1>2, <1>3, <1>4 DEF Gathers

LEMMA AddingGathers ==
  ASSUME NEW h, NEW M, NEW c, NEW files, Gathers(files, PartsOf(h, M)),
         Apart(PartsOf(h, M \cup {c}))
  PROVE  Gathers(Adding(c, InPod(h), files), PartsOf(h, M \cup {c}))
<1> DEFINE own  == OwnFile(c, InPod(h))
           comp == CompanionFiles(c, InPod(h))
           side == SidecarFiles(c)
           ps   == PartsOf(h, M)
<1>1. PartsOf(h, M \cup {c}) = ((ps \cup {own}) \cup {comp}) \cup {side}
  BY DEF PartsOf
<1>2. /\ Apart(ps \cup {own})
      /\ Apart((ps \cup {own}) \cup {comp})
      /\ Apart(((ps \cup {own}) \cup {comp}) \cup {side})
  BY <1>1 DEF Apart
<1> HIDE DEF ps, own, comp, side
<1>3. Gathers(Over(own, files), ps \cup {own})
  BY <1>2, OverGathers DEF ps
<1>4. Gathers(Over(comp, Over(own, files)), (ps \cup {own}) \cup {comp})
  BY <1>2, <1>3, OverGathers
<1>5. Gathers(Over(side, Over(comp, Over(own, files))), ((ps \cup {own}) \cup {comp}) \cup {side})
  BY <1>2, <1>4, OverGathers
<1> QED
  BY <1>1, <1>5 DEF Adding, own, comp, side

\* What gathers all contributions is what is meant.
LEMMA GatheredIsMeant ==
  ASSUME NEW h, NEW files, Gathers(files, Parts(h))
  PROVE  files = FilesMeant(h)
<1>1. ASSUME NEW k \in Keys(h)
      PROVE  files[k] = (CHOOSE p \in Parts(h) : k \in DOMAIN p)[k]
  <2>1. \E p \in Parts(h) : k \in DOMAIN p
    BY <1>1 DEF Keys
  <2>2. PICK p : p = (CHOOSE q \in Parts(h) : k \in DOMAIN q)
    OBVIOUS
  <2>3. p \in Parts(h) /\ k \in DOMAIN p
    BY <2>1, <2>2
  <2> QED
    BY <2>2, <2>3 DEF Gathers
<1>2. files = [k \in Keys(h) |-> files[k]]
  BY DEF Gathers, Keys
<1> QED
  BY <1>1, <1>2 DEF FilesMeant

LEMMA AllParts ==
  ASSUME NEW h
  PROVE  PartsOf(h, MembersOf(h)) = Parts(h)
BY DEF PartsOf, Parts

LEMMA SomeApart ==
  ASSUME ~Clash, NEW h \in Heads, NEW M, M \subseteq MembersOf(h)
  PROVE  Apart(PartsOf(h, M))
<1>1. Apart(Parts(h))
  BY DEF Clash, Apart
<1>2. PartsOf(h, M) \subseteq Parts(h)
  BY DEF PartsOf, Parts
<1> QED
  BY <1>1, <1>2 DEF Apart

LEMMA StandaloneIsMeant ==
  ASSUME ~Clash, NEW c \in AllContainers, PodsOf(c) = {}
  PROVE  /\ c \in Heads /\ MembersOf(c) = {c}
         /\ StandaloneState(c).files = FilesMeant(c)
         /\ StandaloneState(c).members = MembersOf(c)
<1>1. c \in Heads /\ MembersOf(c) = {c} /\ InPod(c) = NoPod /\ c.ext = "container"
  BY DEF Heads, MembersOf, InPod, AllContainers
<1>2. PartsOf(c, {}) = {}
  BY <1>1 DEF PartsOf
<1>3. Gathers(NoFiles, PartsOf(c, {}))
  BY <1>2 DEF Gathers, NoFiles
<1>4. Apart(PartsOf(c, {} \cup {c}))
  BY <1>1, SomeApart
<1>5. Gathers(Adding(c, NoPod, NoFiles), PartsOf(c, {} \cup {c}))
  BY <1>1, <1>3, <1>4, AddingGathers
<1>6. Gathers(StandaloneState(c).files, Parts(c))
  BY <1>1, <1>5, AllParts DEF StandaloneState
<1> QED
  BY <1>1, <1>6, GatheredIsMeant DEF StandaloneState

-----------------------------------------------------------------------------
(* The invariant.                                                          *)

InScope  == pc \in {"standalone", "pods", "members"}
Building == InScope \/ pc = "scope"

\* The heads whose accounts are in desired: those of the scopes left behind, and in
\* this one those that no loop has yet to come to.
Pending  == todo \cup pods \cup (IF pc = "members" THEN {pod} ELSE {})
Finished == {h \in Heads : h.dir \notin scopes /\ h \notin Pending}

\* desired has exactly the accounts of the heads hs, as they are meant.
Described(hs) ==
  /\ DOMAIN desired = {h.stem : h \in hs}
  /\ \A h \in hs : /\ desired[h.stem].files = FilesMeant(h)
                   /\ desired[h.stem].members = MembersOf(h)
                   /\ \A c \in MembersOf(h) : ~Unreadable(c)
  /\ \A g, h \in hs : g.stem = h.stem => g = h

\* The directories that are left have files; those come to have pods or a
\* transform.
Entered ==
  /\ scopes \subseteq {Root} \cup {f.dir : f \in repo}
  /\ \A f \in repo : f.dir \notin scopes /\ f.dir # Root =>
       Pods(f.dir) # {} \/ f.dir \in transforms.dirs
  /\ pc = "scope" => todo = {} /\ pods = {}

Divided ==
  InScope =>
    /\ scope \in Dir \cup {Root} /\ scope \notin scopes
    /\ DOMAIN memberOf = Containers(scope)
    /\ \A c \in Containers(scope) :
         IF PodsOf(c) = {} THEN memberOf[c] = NoPod ELSE memberOf[c] \in PodsOf(c)
    /\ pods \subseteq Pods(scope)
    /\ pc = "standalone" => todo \subseteq {c \in Containers(scope) : PodsOf(c) = {}}
    /\ pc = "pods" => todo = {}

\* The members of the pod at hand that have been added.
Added == MembersOf(pod) \ todo

HalfPod ==
  pc = "members" =>
    /\ pod \in Pods(scope) \ pods
    /\ todo \subseteq MembersOf(pod)
    /\ \A h \in Finished : h.stem # pod.stem
    /\ state.members = Added
    /\ DOMAIN state = {"files", "service", "members"}
    /\ Gathers(state.files, PartsOf(pod, Added))
    /\ \A c \in Added : ~Unreadable(c)

Good ==
  /\ pc \in {"check", "load"} => desired = NoFiles /\ todo = {} /\ pods = {}
  /\ pc \notin {"check", "failed"} => ~CheckErrors
  /\ pc \notin {"check", "load", "failed"} => ~transforms.other
  /\ Building => Entered /\ Divided /\ HalfPod /\ Described(Finished)
  /\ pc = "failed" => Refused
  /\ pc = "built" => ~Refused /\ Described(Heads)

BuildInv == Inputs /\ (~Clash => Good)

-----------------------------------------------------------------------------
(* What is defined from the inputs stays.                                  *)

LEMMA FilesKept ==
  ASSUME UNCHANGED input
  PROVE  /\ \A d : Containers(d)' = Containers(d) /\ Pods(d)' = Pods(d)
                   /\ Orphans(d)' = Orphans(d)
         /\ \A c : PodsOf(c)' = PodsOf(c) /\ SidecarsOf(c)' = SidecarsOf(c)
         /\ CheckErrors' = CheckErrors
         /\ AllContainers' = AllContainers /\ Heads' = Heads
         /\ \A h : MembersOf(h)' = MembersOf(h)
         /\ \A c : Unreadable(c)' = Unreadable(c)
<1>0. repo' = repo /\ transforms' = transforms
  BY DEF input
<1>1. \A d, e : In(d, e)' = In(d, e)
  BY <1>0 DEF In
<1>2. \A d : /\ Containers(d)' = Containers(d) /\ Pods(d)' = Pods(d)
             /\ Sidecars(d)' = Sidecars(d)
  BY <1>1 DEF Containers, Pods, Sidecars
<1>3. \A c : PodsOf(c)' = PodsOf(c) /\ Owners(c)' = Owners(c)
  BY <1>2 DEF PodsOf, Owners
<1>4. \A c : SidecarsOf(c)' = SidecarsOf(c)
  BY <1>2, <1>3 DEF SidecarsOf
<1>5. \A d : Orphans(d)' = Orphans(d) /\ Strays(d)' = Strays(d)
  BY <1>2, <1>3 DEF Orphans, Strays
<1>6. CheckErrors' = CheckErrors
  BY <1>0, <1>2, <1>5 DEF CheckErrors
<1>7. AllContainers' = AllContainers
  BY <1>0 DEF AllContainers
<1>8. Heads' = Heads
  BY <1>0, <1>3, <1>7 DEF Heads
<1>9. \A h : MembersOf(h)' = MembersOf(h)
  BY <1>3, <1>7 DEF MembersOf
<1>10. \A c : Unreadable(c)' = Unreadable(c)
  BY <1>0 DEF Unreadable
<1> QED
  BY <1>2, <1>3, <1>4, <1>5, <1>6, <1>7, <1>8, <1>9, <1>10

LEMMA PartsKept ==
  ASSUME UNCHANGED input
  PROVE  /\ \A h, M : PartsOf(h, M)' = PartsOf(h, M)
         /\ \A h : FilesMeant(h)' = FilesMeant(h)
         /\ Clash' = Clash
         /\ Refused' = Refused
<1>0. repo' = repo /\ transforms' = transforms
  BY DEF input
<1>1. \A c : ApplyTransforms(c)' = ApplyTransforms(c)
  BY <1>0 DEF ApplyTransforms
<1>2. \A p : ApplyPodTransforms(p)' = ApplyPodTransforms(p)
  BY <1>0 DEF ApplyPodTransforms
<1>3. \A c, i : OwnFile(c, i)' = OwnFile(c, i)
  BY <1>1 DEF OwnFile
<1>4. \A c, i : CompanionFiles(c, i)' = CompanionFiles(c, i)
  BY <1>0 DEF CompanionFiles
<1>5. \A c : SidecarFiles(c)' = SidecarFiles(c)
  BY FilesKept DEF SidecarFiles
<1>6. \A p : PodState(p)' = PodState(p)
  BY <1>2 DEF PodState
<1>7. \A h, M : PartsOf(h, M)' = PartsOf(h, M)
  BY <1>3, <1>4, <1>5, <1>6 DEF PartsOf
<1>8. \A h : Parts(h)' = Parts(h)
  <2> TAKE h
  <2>1. MembersOf(h)' = MembersOf(h)
    BY FilesKept
  <2> QED
    BY <1>3, <1>4, <1>5, <1>6, <2>1 DEF Parts
<1>9. \A h : Keys(h)' = Keys(h)
  BY <1>8 DEF Keys
<1>10. \A h : FilesMeant(h)' = FilesMeant(h)
  <2> TAKE h
  <2> DEFINE of(ps, k) == (CHOOSE p \in ps : k \in DOMAIN p)[k]
  <2>1. FilesMeant(h) = [k \in Keys(h) |-> of(Parts(h), k)]
    BY DEF FilesMeant
  <2>2. FilesMeant(h)' = [k \in Keys(h)' |-> of(Parts(h)', k)]
    BY DEF FilesMeant
  <2> HIDE DEF of
  <2> QED
    BY <1>8, <1>9, <2>1, <2>2
<1>11. Clash' = Clash
  BY <1>8, FilesKept DEF Clash
<1>12. \A k, c : Broken(k, c)' = Broken(k, c)
  BY <1>0 DEF Broken
<1>13. Refused' = Refused
  BY <1>0, <1>9, <1>10, <1>12, FilesKept DEF Refused
<1> QED
  BY <1>7, <1>10, <1>11, <1>13

-----------------------------------------------------------------------------
(* One lemma per action.                                                   *)

LEMMA InitGood == Init => BuildInv
BY BuildAssumption DEF Init, BuildInv, Inputs, Good, Building, InScope

LEMMA FailGood ==
  ASSUME UNCHANGED input, Refused, pc' = "failed"
  PROVE  Good'
BY PartsKept DEF Good, Building, InScope

LEMMA CheckGood ==
  ASSUME Good, CheckDir
  PROVE  Good'
<1>1. CASE CheckErrors /\ Fail
  BY <1>1, FailGood DEF Fail, Goto, Refused
<1>2. CASE ~CheckErrors /\ pc' = "load" /\ UNCHANGED <<input, todo, pods, desired>>
  BY <1>2, FilesKept DEF Good, CheckDir, Building, InScope
<1> QED
  BY <1>1, <1>2 DEF CheckDir, Goto

\* Every head lies in a directory that is still to come.
LEMMA LoadGood ==
  ASSUME Good, LoadTransforms
  PROVE  Good'
<1>1. CASE transforms.other /\ Fail
  BY <1>1, FailGood DEF Fail, Goto, Refused
<1>2. CASE ~transforms.other /\ ~Fail
  <2>1. /\ pc = "load" /\ pc' = "scope" /\ scopes' = {Root} \cup {f.dir : f \in repo}
        /\ UNCHANGED <<input, todo, pods, desired>>
    BY <1>2 DEF LoadTransforms, Goto
  <2>2. repo' = repo /\ transforms' = transforms
    BY <2>1 DEF input
  <2>3. desired = NoFiles /\ todo = {} /\ pods = {} /\ ~CheckErrors
    BY <2>1 DEF Good
  <2>4. Entered' /\ Divided' /\ HalfPod'
    BY <2>1, <2>2, <2>3 DEF Entered, Divided, HalfPod, InScope
  <2>5. Heads \subseteq repo
    BY DEF Heads, AllContainers
  <2>6. Finished' = {}
    BY <2>1, <2>2, <2>5, FilesKept DEF Finished
  <2>7. Described(Finished)'
    BY <2>1, <2>3, <2>6 DEF Described, NoFiles
  <2> QED
    BY <1>2, <2>1, <2>2, <2>3, <2>4, <2>7, FilesKept DEF Good
<1> QED
  BY <1>1, <1>2 DEF LoadTransforms, Fail, Goto

\* What is described stays so as long as neither the map nor the heads change.
LEMMA DescribedKept ==
  ASSUME NEW hs, Described(hs), UNCHANGED <<input, desired>>
  PROVE  Described(hs)'
BY FilesKept, PartsKept DEF Described

\* Each head of the scope entered is in one of the two loops to come.
LEMMA EnterGood ==
  ASSUME Inputs, Good, EnterScope
  PROVE  Good'
<1>0. /\ pc = "scope" /\ Entered /\ todo = {} /\ pods = {} /\ Described(Finished)
      /\ ~CheckErrors /\ ~transforms.other
  BY DEF Good, EnterScope, Building, Entered
<1> DEFINE refused(d) == \/ Orphans(d) # {}
                         \/ d # Root /\ Strays(d) # {}
                         \/ d # Root /\ Pods(d) = {} /\ d \notin transforms.dirs
           divides(m, d) ==
             \A c \in Containers(d) :
               IF PodsOf(c) = {} THEN m[c] = NoPod ELSE m[c] \in PodsOf(c)
<1>1. PICK d \in scopes :
        \/ refused(d) /\ Fail
        \/ /\ ~refused(d)
           /\ \E m \in [Containers(d) -> Pods(d) \cup {NoPod}] :
                /\ divides(m, d)
                /\ memberOf' = m
                /\ todo' = {c \in Containers(d) : m[c] = NoPod}
           /\ scope' = d /\ scopes' = scopes \ {d} /\ pods' = Pods(d)
           /\ pc' = "standalone" /\ UNCHANGED <<input, pod, state, desired>>
  BY DEF EnterScope, Goto
<1>2. d \in Dir \cup {Root}
  BY <1>0, <1>1 DEF Entered, Inputs, QuadletFile
<1>3. CASE refused(d) /\ Fail
  <2>1. Orphans(d) = {} /\ (d # Root => Strays(d) = {})
    BY <1>0, <1>2 DEF CheckErrors
  <2>2. d # Root /\ Pods(d) = {} /\ d \notin transforms.dirs
    BY <1>3, <2>1
  <2>3. PICK f \in repo : f.dir = d
    BY <1>0, <1>1, <2>2 DEF Entered
  <2>4. Refused
    BY <2>2, <2>3 DEF Refused
  <2> QED
    BY <1>3, <2>4, FailGood DEF Fail, Goto
<1>4. ASSUME ~refused(d), NEW m, divides(m, d), memberOf' = m, DOMAIN m = Containers(d),
             todo' = {c \in Containers(d) : m[c] = NoPod},
             scope' = d, scopes' = scopes \ {d}, pods' = Pods(d),
             pc' = "standalone", UNCHANGED <<input, pod, state, desired>>
      PROVE  Good'
  <2>0. repo' = repo /\ transforms' = transforms
    BY <1>4 DEF input
  <2>1. ASSUME NEW c \in Containers(d)
        PROVE  m[c] = NoPod <=> PodsOf(c) = {}
    <3>1. NoPod \notin PodsOf(c)
      BY BuildAssumption DEF PodsOf, Pods, In, Inputs
    <3> QED
      BY <1>4, <3>1
  <2>2. todo' = {c \in Containers(d) : PodsOf(c) = {}}
    BY <1>4, <2>1
  <2>3. Divided'
    BY <1>2, <1>4, <2>2, FilesKept DEF Divided, InScope
  <2>4. Entered'
    BY <1>0, <1>4, <2>0, FilesKept DEF Entered
  <2>5. ASSUME NEW h \in Heads, h.dir = d
        PROVE  h \in todo' \cup pods'
    BY <1>4, <2>2, <2>5 DEF Heads, AllContainers, Containers, Pods, In
  <2>6. ASSUME NEW h \in todo' \cup pods'
        PROVE  h.dir = d
    BY <1>4, <2>2, <2>6 DEF Containers, Pods, In
  <2>7. Finished' = {h \in Heads : h.dir \notin scopes \ {d} /\ h \notin todo' \cup pods'}
    BY <1>4, FilesKept DEF Finished, Pending
  <2>8. Finished = {h \in Heads : h.dir \notin scopes}
    BY <1>0 DEF Finished, Pending
  <2>9. Finished' = Finished
    BY <1>1, <2>5, <2>6, <2>7, <2>8
  <2>10. Described(Finished)'
    BY <1>0, <1>4, <2>9, DescribedKept
  <2>11. HalfPod'
    BY <1>4 DEF HalfPod
  <2> QED
    BY <1>0, <1>4, <2>0, <2>3, <2>4, <2>10, <2>11, FilesKept DEF Good
<1> QED
  <2>1. CASE refused(d) /\ Fail
    BY <1>3, <2>1
  <2>2. CASE ~(refused(d) /\ Fail)
    <3> HIDE DEF refused, divides
    <3>1. PICK m \in [Containers(d) -> Pods(d) \cup {NoPod}] :
            /\ divides(m, d) /\ memberOf' = m
            /\ todo' = {c \in Containers(d) : m[c] = NoPod}
      BY <1>1, <2>2
    <3> QED
      BY <1>1, <1>4, <2>2, <3>1
  <2> QED
    BY <2>1, <2>2

LEMMA AccountAdded ==
  ASSUME NEW hs, NEW h, NEW st, Described(hs),
         st.files = FilesMeant(h), st.members = MembersOf(h),
         \A c \in MembersOf(h) : ~Unreadable(c), \A g \in hs : g.stem # h.stem,
         desired' = Over(One(h.stem, st), desired), UNCHANGED input
  PROVE  Described(hs \cup {h})'
<1>1. /\ DOMAIN desired' = {g.stem : g \in hs \cup {h}}
      /\ desired'[h.stem] = st
      /\ \A g \in hs : desired'[g.stem] = desired[g.stem]
  BY DEF Over, One, Described
<1> QED
  BY <1>1, FilesKept, PartsKept DEF Described

LEMMA StandaloneGood ==
  ASSUME Inputs, ~Clash, Good, BuildStandalone
  PROVE  Good'
<1>0. /\ pc = "standalone" /\ todo # {} /\ Entered /\ Divided /\ Described(Finished)
      /\ ~CheckErrors /\ ~transforms.other
  BY DEF Good, BuildStandalone, Building, InScope
<1> PICK c : c = First(todo)
  OBVIOUS
<1>1. todo \subseteq repo /\ todo \subseteq {k \in Containers(scope) : PodsOf(k) = {}}
  BY <1>0 DEF Divided, InScope, Containers, In
<1>2. c \in todo
  BY <1>0, <1>1, FirstIsOne
<1>3. /\ c \in repo /\ c \in Containers(scope) /\ PodsOf(c) = {} /\ c \in AllContainers
      /\ c.dir = scope /\ c.ext = "container"
  BY <1>1, <1>2 DEF Containers, In, AllContainers
<1>4. /\ c \in Heads /\ MembersOf(c) = {c}
      /\ StandaloneState(c).files = FilesMeant(c)
      /\ StandaloneState(c).members = MembersOf(c)
  BY <1>3, StandaloneIsMeant
<1>5. scope \in Dir \cup {Root} /\ scope \notin scopes /\ pods \subseteq Pods(scope)
  BY <1>0 DEF Divided, InScope
<1>6. CASE (~ValidName(c.stem) \/ Unreadable(c) \/ c.stem \in DOMAIN desired) /\ Fail
  <2>1. CASE ~ValidName(c.stem)
    <3>1. Pods(scope) # {} => c \in Strays(scope)
      BY <1>3 DEF Strays
    <3>2. CheckErrors
      BY <1>3, <1>5, <2>1, <3>1 DEF CheckErrors
    <3> QED
      BY <1>0, <3>2
  <2>2. CASE Unreadable(c)
    BY <1>3, <1>6, <2>2, FailGood DEF Refused, Fail, Goto
  <2>3. CASE c.stem \in DOMAIN desired
    <3>1. PICK h \in Finished : h.stem = c.stem
      BY <1>0, <2>3 DEF Described
    <3>2. h \in Heads /\ h # c
      BY <1>2 DEF Finished, Pending
    <3> QED
      BY <1>4, <1>6, <3>1, <3>2, FailGood DEF Refused, Fail, Goto
  <2> QED
    BY <1>6, <2>1, <2>2, <2>3
<1>7. CASE /\ ValidName(c.stem) /\ ~Unreadable(c) /\ c.stem \notin DOMAIN desired
           /\ desired' = Over(One(c.stem, StandaloneState(c)), desired)
           /\ todo' = todo \ {c}
           /\ UNCHANGED <<input, pc, scopes, scope, memberOf, pods, pod, state>>
  <2>1. \A h \in Finished : h.stem # c.stem
    BY <1>0, <1>7 DEF Described
  <2> PICK hs : hs = Finished
    OBVIOUS
  <2>2. Described(hs \cup {c})'
    BY <1>0, <1>4, <1>7, <2>1, AccountAdded, FilesKept
  <2>3. Finished' = hs \cup {c}
    <3>1. c \notin pods
      BY <1>3, <1>5 DEF Pods, In
    <3>2. Finished = {h \in Heads : h.dir \notin scopes /\ h \notin todo \cup pods}
      BY <1>0 DEF Finished, Pending
    <3>3. Finished' = {h \in Heads : h.dir \notin scopes /\ h \notin (todo \ {c}) \cup pods}
      BY <1>0, <1>7, FilesKept DEF Finished, Pending
    <3> QED
      BY <1>3, <1>4, <1>5, <3>1, <3>2, <3>3
  <2>4. Described(Finished)'
    BY <2>2, <2>3
  <2>5. repo' = repo /\ transforms' = transforms
    BY <1>7 DEF input
  <2>6. Entered' /\ Divided' /\ HalfPod'
    BY <1>0, <1>7, <2>5, FilesKept DEF Entered, Divided, HalfPod, InScope
  <2> QED
    BY <1>0, <1>7, <2>4, <2>5, <2>6, FilesKept DEF Good
<1> QED
  BY <1>6, <1>7 DEF BuildStandalone

LEMMA StandaloneDoneGood ==
  ASSUME Good, StandaloneDone
  PROVE  Good'
<1>0. /\ pc = "standalone" /\ todo = {} /\ pc' = "pods"
      /\ UNCHANGED <<input, scopes, scope, memberOf, todo, pods, pod, state, desired>>
      /\ Entered /\ Divided /\ Described(Finished) /\ ~CheckErrors /\ ~transforms.other
  BY DEF Good, StandaloneDone, Goto, Building, InScope
<1>1. repo' = repo /\ transforms' = transforms
  BY <1>0 DEF input
<1>2. Entered' /\ Divided' /\ HalfPod'
  BY <1>0, <1>1, FilesKept DEF Entered, Divided, HalfPod, InScope
<1>3. Finished' = Finished
  BY <1>0, FilesKept DEF Finished, Pending
<1>4. Described(Finished)'
  BY <1>0, <1>3, DescribedKept
<1> QED
  BY <1>0, <1>1, <1>2, <1>4, FilesKept DEF Good

\* The containers divided to a pod are its members: no container fits two pods.
LEMMA DividedAreMembers ==
  ASSUME Inputs, ~CheckErrors, Divided, InScope, NEW p \in Pods(scope)
  PROVE  /\ {c \in DOMAIN memberOf : memberOf[c] = p} = MembersOf(p)
         /\ p \in Heads /\ p.ext = "pod" /\ p.dir = scope
<1>0. /\ DOMAIN memberOf = Containers(scope)
      /\ \A c \in Containers(scope) :
           IF PodsOf(c) = {} THEN memberOf[c] = NoPod ELSE memberOf[c] \in PodsOf(c)
  BY DEF Divided
<1>1. p \in repo /\ p.ext = "pod" /\ p.dir = scope /\ p # NoPod
  BY BuildAssumption DEF Pods, In, Inputs
<1>2. p \in Heads /\ MembersOf(p) = {c \in AllContainers : p \in PodsOf(c)}
  BY <1>1 DEF Heads, MembersOf
<1>3. ASSUME NEW c \in Containers(scope), memberOf[c] = p
      PROVE  c \in AllContainers /\ p \in PodsOf(c)
    BY <1>0, <1>1, <1>3 DEF Containers, In, AllContainers
<1>4. ASSUME NEW c \in AllContainers, p \in PodsOf(c)
      PROVE  c \in Containers(scope) /\ memberOf[c] = p
  <2>1. c \in Containers(scope)
    BY <1>1, <1>4 DEF PodsOf, Pods, Containers, In, AllContainers
  <2>2. memberOf[c] \in PodsOf(c)
    BY <1>0, <1>4, <2>1
  <2> QED
    BY <1>4, <2>1, <2>2, OnePod
<1> QED
  BY <1>0, <1>1, <1>2, <1>3, <1>4

LEMMA MemberIsNoHead ==
  ASSUME NEW p, p.ext = "pod", NEW c \in MembersOf(p)
  PROVE  c \notin Heads /\ c \in repo
BY DEF MembersOf, Heads, AllContainers

LEMMA StartPodGood ==
  ASSUME Inputs, ~Clash, Good, StartPod
  PROVE  Good'
<1>0. /\ pc = "pods" /\ Entered /\ Divided /\ Described(Finished) /\ InScope
      /\ ~CheckErrors /\ ~transforms.other
  BY DEF Good, StartPod, Building, InScope
<1>1. PICK p \in pods :
        \/ (~ValidPod(p.stem) \/ p.stem \in DOMAIN desired) /\ Fail
        \/ /\ ValidPod(p.stem) /\ p.stem \notin DOMAIN desired
           /\ pod' = p /\ pods' = pods \ {p} /\ state' = PodState(p)
           /\ todo' = {c \in DOMAIN memberOf : memberOf[c] = p}
           /\ pc' = "members" /\ UNCHANGED <<input, scopes, scope, memberOf, desired>>
  BY DEF StartPod, Goto
<1>2. /\ scope \in Dir \cup {Root} /\ scope \notin scopes /\ p \in Pods(scope) /\ todo = {}
      /\ pods \subseteq Pods(scope)
  BY <1>0, <1>1 DEF Divided
<1>3. /\ {c \in DOMAIN memberOf : memberOf[c] = p} = MembersOf(p)
      /\ p \in Heads /\ p.ext = "pod" /\ p.dir = scope
  BY <1>0, <1>2, DividedAreMembers
<1>4. CASE (~ValidPod(p.stem) \/ p.stem \in DOMAIN desired) /\ Fail
  <2>1. ValidPod(p.stem)
    BY <1>0, <1>2 DEF CheckErrors
  <2>2. PICK h \in Finished : h.stem = p.stem
    BY <1>0, <1>4, <2>1 DEF Described
  <2>3. h \in Heads /\ h # p
    BY <1>1 DEF Finished, Pending
  <2> QED
    BY <1>3, <1>4, <2>2, <2>3, FailGood DEF Refused, Fail, Goto
<1>5. CASE /\ ValidPod(p.stem) /\ p.stem \notin DOMAIN desired
           /\ pod' = p /\ pods' = pods \ {p} /\ state' = PodState(p)
           /\ todo' = {c \in DOMAIN memberOf : memberOf[c] = p}
           /\ pc' = "members" /\ UNCHANGED <<input, scopes, scope, memberOf, desired>>
  <2>0. repo' = repo /\ transforms' = transforms
    BY <1>5 DEF input
  <2>1. todo' = MembersOf(p) /\ MembersOf(p)' = MembersOf(p)
    BY <1>3, <1>5, FilesKept
  <2>2. Finished' = Finished
    <3>1. \A h \in Heads : h \notin todo'
      BY <1>3, <2>1, MemberIsNoHead
    <3>2. Finished = {h \in Heads : h.dir \notin scopes /\ h \notin pods}
      BY <1>0, <1>2 DEF Finished, Pending
    <3>3. Finished' = {h \in Heads : h.dir \notin scopes
                                     /\ h \notin todo' \cup (pods \ {p}) \cup {p}}
      BY <1>5, FilesKept DEF Finished, Pending
    <3> QED
      BY <1>1, <3>1, <3>2, <3>3
  <2>3. Described(Finished)'
    BY <1>0, <1>5, <2>2, DescribedKept
  <2>4. Entered' /\ Divided'
    BY <1>0, <1>2, <1>5, <2>0, FilesKept DEF Entered, Divided, InScope
  <2>5. Added' = {}
    BY <1>5, <2>1, FilesKept DEF Added
  <2>6. Gathers(PodState(p).files, PartsOf(p, {}))
    <3>1. PartsOf(p, {}) = {PodState(p).files}
      BY <1>3 DEF PartsOf
    <3>2. PodState(p).files = [k \in DOMAIN PodState(p).files |-> PodState(p).files[k]]
      BY DEF PodState, One
    <3> HIDE DEF PodState
    <3> QED
      BY <3>1, <3>2 DEF Gathers
  <2>7. Gathers(state.files, PartsOf(pod, Added))'
    BY <1>5, <2>5, <2>6, PartsKept DEF Gathers
  <2>8. \A h \in Finished : h.stem # p.stem
    BY <1>0, <1>5 DEF Described
  <2>9. HalfPod'
    <3>1. PodState(p).members = {} /\ DOMAIN PodState(p) = {"files", "service", "members"}
      BY DEF PodState
    <3> QED
      BY <1>1, <1>2, <1>5, <2>1, <2>2, <2>5, <2>7, <2>8, <3>1, FilesKept DEF HalfPod
  <2> QED
    BY <1>0, <1>5, <2>0, <2>3, <2>4, <2>9, FilesKept DEF Good
<1> QED
  BY <1>1, <1>4, <1>5

LEMMA AddMemberGood ==
  ASSUME Inputs, ~Clash, Good, AddMember
  PROVE  Good'
<1>0. /\ pc = "members" /\ todo # {} /\ Entered /\ Divided /\ HalfPod /\ Described(Finished)
      /\ InScope /\ ~CheckErrors /\ ~transforms.other
  BY DEF Good, AddMember, Building, InScope
<1> PICK c, p : c = First(todo) /\ p = pod
  OBVIOUS
<1>1. p \in Pods(scope) /\ p \in Heads /\ p.ext = "pod" /\ todo \subseteq MembersOf(p)
  BY <1>0, DividedAreMembers DEF HalfPod
<1>2. todo \subseteq repo
  BY <1>1, MemberIsNoHead
<1>3. c \in todo /\ c \in MembersOf(p) /\ c \in repo
  BY <1>0, <1>1, <1>2, FirstIsOne
<1>4. CASE Unreadable(c) /\ Fail
  BY <1>3, <1>4, FailGood DEF Refused, Fail, Goto
<1>5. CASE /\ ~Unreadable(c)
           /\ state' = [state EXCEPT !.files = Adding(c, p.stem, @), !.members = @ \cup {c}]
           /\ todo' = todo \ {c}
           /\ UNCHANGED <<input, pc, scopes, scope, memberOf, pods, pod, desired>>
  <2>0. repo' = repo /\ transforms' = transforms
    BY <1>5 DEF input
  <2> PICK M : M = Added
    OBVIOUS
  <2>1. M \cup {c} \subseteq MembersOf(p) /\ Added' = M \cup {c}
    <3>1. M = MembersOf(p) \ todo
      BY DEF Added
    <3>2. Added' = MembersOf(p) \ (todo \ {c})
      BY <1>5, FilesKept DEF Added
    <3> QED
      BY <1>3, <3>1, <3>2
  <2>2. Gathers(state.files, PartsOf(p, M)) /\ state.members = M
    BY <1>0 DEF HalfPod
  <2>3. Gathers(Adding(c, InPod(p), state.files), PartsOf(p, M \cup {c}))
    BY <1>1, <2>1, <2>2, SomeApart, AddingGathers
  <2>4. InPod(p) = p.stem
    BY <1>1 DEF InPod
  <2>5. /\ state'.files = Adding(c, p.stem, state.files)
        /\ state'.members = state.members \cup {c}
        /\ DOMAIN state' = {"files", "service", "members"}
    <3>1. DOMAIN state = {"files", "service", "members"}
      BY <1>0 DEF HalfPod
    <3> HIDE DEF Adding
    <3> QED
      BY <1>5, <3>1
  <2>6. Gathers(state.files, PartsOf(pod, Added))'
    <3>1. Gathers(state'.files, PartsOf(p, M \cup {c}))
      BY <2>3, <2>4, <2>5
    <3>2. PartsOf(p, M \cup {c})' = PartsOf(p, M \cup {c})
      BY <1>5, PartsKept
    <3> QED
      BY <1>5, <2>1, <3>1, <3>2 DEF Gathers
  <2>7. Finished' = Finished
    <3>1. c \notin Heads
      BY <1>1, <1>3, MemberIsNoHead
    <3>2. Finished = {h \in Heads : h.dir \notin scopes /\ h \notin todo \cup pods \cup {p}}
      BY <1>0 DEF Finished, Pending
    <3>3. Finished' = {h \in Heads : h.dir \notin scopes
                                     /\ h \notin (todo \ {c}) \cup pods \cup {p}}
      BY <1>0, <1>5, FilesKept DEF Finished, Pending
    <3> QED
      BY <3>1, <3>2, <3>3
  <2>8. Described(Finished)'
    BY <1>0, <1>5, <2>7, DescribedKept
  <2>9. Entered' /\ Divided'
    BY <1>0, <1>5, <2>0, FilesKept DEF Entered, Divided, InScope
  <2>10. HalfPod'
    <3>1. \A d \in M \cup {c} : ~Unreadable(d)
      BY <1>0, <1>5 DEF HalfPod
    <3>2. todo' \subseteq MembersOf(pod)'
      BY <1>1, <1>5, FilesKept
    <3> QED
      BY <1>0, <1>5, <2>1, <2>2, <2>5, <2>6, <2>7, <3>1, <3>2, FilesKept DEF HalfPod
  <2> QED
    BY <1>0, <1>5, <2>0, <2>8, <2>9, <2>10, FilesKept DEF Good, Building, InScope
<1> QED
  BY <1>4, <1>5 DEF AddMember

LEMMA FinishPodGood ==
  ASSUME Inputs, ~Clash, Good, FinishPod
  PROVE  Good'
<1>0. /\ pc = "members" /\ todo = {} /\ Entered /\ Divided /\ HalfPod /\ Described(Finished)
      /\ InScope /\ ~CheckErrors /\ ~transforms.other
      /\ desired' = Over(One(pod.stem, state), desired) /\ pc' = "pods"
      /\ UNCHANGED <<input, scopes, scope, memberOf, todo, pods, pod, state>>
  BY DEF Good, FinishPod, Building, InScope, Goto
<1> PICK p, hs : p = pod /\ hs = Finished
  OBVIOUS
<1>1. /\ p \in Pods(scope) /\ p \in Heads /\ p.dir = scope /\ p \notin pods
      /\ scope \notin scopes /\ pods \subseteq Pods(scope)
  BY <1>0, DividedAreMembers DEF HalfPod, Divided
<1>2. Added = MembersOf(p)
  BY <1>0 DEF Added
<1>3. /\ state.files = FilesMeant(p) /\ state.members = MembersOf(p)
      /\ \A c \in MembersOf(p) : ~Unreadable(c)
      /\ \A h \in hs : h.stem # p.stem
  BY <1>0, <1>2, AllParts, GatheredIsMeant DEF HalfPod
<1> PICK st : st = state
  OBVIOUS
<1>4. Described(hs \cup {p})'
  BY <1>0, <1>3, AccountAdded
<1>5. Finished' = hs \cup {p}
  <2>1. hs = {h \in Heads : h.dir \notin scopes /\ h \notin pods \cup {p}}
    BY <1>0 DEF Finished, Pending
  <2>2. Finished' = {h \in Heads : h.dir \notin scopes /\ h \notin pods}
    BY <1>0, FilesKept DEF Finished, Pending
  <2> QED
    BY <1>1, <2>1, <2>2
<1>6. Described(Finished)'
  BY <1>4, <1>5
<1>7. repo' = repo /\ transforms' = transforms
  BY <1>0 DEF input
<1>8. Entered' /\ Divided' /\ HalfPod'
  BY <1>0, <1>7, FilesKept DEF Entered, Divided, HalfPod, InScope
<1> QED
  BY <1>0, <1>6, <1>7, <1>8, FilesKept DEF Good

LEMMA LeaveScopeGood ==
  ASSUME Good, LeaveScope
  PROVE  Good'
<1>0. /\ pc = "pods" /\ pods = {} /\ pc' = "scope"
      /\ UNCHANGED <<input, scopes, scope, memberOf, todo, pods, pod, state, desired>>
      /\ Entered /\ Divided /\ Described(Finished) /\ ~CheckErrors /\ ~transforms.other
  BY DEF Good, LeaveScope, Goto, Building, InScope
<1>1. repo' = repo /\ transforms' = transforms /\ todo = {}
  BY <1>0 DEF input, Divided, InScope
<1>2. Entered' /\ Divided' /\ HalfPod'
  BY <1>0, <1>1, FilesKept DEF Entered, Divided, HalfPod, InScope
<1>3. Finished' = Finished
  BY <1>0, FilesKept DEF Finished, Pending
<1>4. Described(Finished)'
  BY <1>0, <1>3, DescribedKept
<1> QED
  BY <1>0, <1>1, <1>2, <1>4, FilesKept DEF Good

\* Every container belongs to a head.
LEMMA SomeHead ==
  ASSUME NEW c \in AllContainers
  PROVE  \E h \in Heads : c \in MembersOf(h)
<1>1. CASE PodsOf(c) = {}
  BY <1>1 DEF Heads, MembersOf, AllContainers
<1>2. CASE PodsOf(c) # {}
  <2>1. PICK p \in PodsOf(c) : TRUE
    BY <1>2
  <2>2. p \in repo /\ p.ext = "pod"
    BY DEF PodsOf, Pods, In
  <2> QED
    BY <2>2 DEF Heads, MembersOf
<1> QED
  BY <1>1, <1>2

LEMMA CheckDesiredGood ==
  ASSUME Inputs, ~Clash, Good, CheckDesired
  PROVE  Good'
<1> DEFINE broken == \E n \in DOMAIN desired : \E k \in DOMAIN desired[n].files :
                       Broken(k, desired[n].files[k])
<1>0. /\ pc = "scope" /\ scopes = {} /\ Entered /\ Described(Finished)
      /\ ~CheckErrors /\ ~transforms.other /\ todo = {} /\ pods = {}
      /\ pc' = IF broken THEN "failed" ELSE "built"
      /\ UNCHANGED <<input, scopes, scope, memberOf, todo, pods, pod, state, desired>>
  BY DEF Good, CheckDesired, Goto, Building, Entered
<1>1. Finished = Heads
  BY <1>0 DEF Finished, Pending
<1>2. \A h \in Heads : DOMAIN FilesMeant(h) = Keys(h)
  BY DEF FilesMeant
<1>3. broken <=> \E h \in Heads : \E k \in Keys(h) : Broken(k, FilesMeant(h)[k])
  BY <1>0, <1>1, <1>2 DEF Described
<1> HIDE DEF broken
<1>4. CASE broken
  BY <1>0, <1>3, <1>4, FailGood DEF Refused
<1>5. CASE ~broken
  <2>1. \A c \in repo : ~Unreadable(c)
    <3>1. SUFFICES ASSUME NEW c \in repo, Unreadable(c) PROVE FALSE
      OBVIOUS
    <3>2. c \in AllContainers
      BY <3>1, BuildAssumption DEF Unreadable, AllContainers
    <3> QED
      BY <3>1, <3>2, <1>0, <1>1, SomeHead DEF Described
  <2>2. ~\E f \in repo : f.dir # Root /\ Pods(f.dir) = {} /\ f.dir \notin transforms.dirs
    BY <1>0 DEF Entered
  <2>3. \A g, h \in Heads : g.stem = h.stem => g = h
    BY <1>0, <1>1 DEF Described
  <2>4. ~Refused
    BY <1>0, <1>3, <1>5, <2>1, <2>2, <2>3 DEF Refused
  <2>5. Described(Heads)'
    BY <1>0, <1>1, DescribedKept, FilesKept
  <2>6. transforms' = transforms
    BY <1>0 DEF input
  <2> QED
    BY <1>0, <1>5, <2>4, <2>5, <2>6, FilesKept, PartsKept DEF Good, Building, InScope
<1> QED
  BY <1>4, <1>5

LEMMA StepBuild ==
  ASSUME BuildInv, [Next]_vars
  PROVE  BuildInv'
<1>1. UNCHANGED input
  BY DEF Next, vars, CheckDir, LoadTransforms, EnterScope, BuildStandalone, StandaloneDone,
         StartPod, AddMember, FinishPod, LeaveScope, CheckDesired, Fail
<1>2. Inputs /\ Inputs' /\ Clash' = Clash
  BY <1>1, PartsKept DEF BuildInv, Inputs, input
<1>3. ASSUME ~Clash
      PROVE  Good'
  <2>1. Good
    BY <1>3 DEF BuildInv
  <2>2. CASE Next
    BY <1>2, <1>3, <2>1, <2>2, CheckGood, LoadGood, EnterGood, StandaloneGood,
       StandaloneDoneGood, StartPodGood, AddMemberGood, FinishPodGood, LeaveScopeGood,
       CheckDesiredGood DEF Next
  <2>3. CASE UNCHANGED vars
    <3>1. /\ UNCHANGED <<pc, scopes, scope, memberOf, todo, pods, pod, state, desired>>
          /\ repo' = repo /\ transforms' = transforms
      BY <2>3 DEF vars, input
    <3>2. Finished' = Finished /\ Added' = Added
      BY <1>1, <3>1, FilesKept DEF Finished, Pending, Added
    <3>3. \A hs : Described(hs) => Described(hs)'
      BY <1>1, <3>1, DescribedKept
    <3>4. Described(Finished) => Described(Finished)'
      BY <3>2, <3>3
    <3>5. Described(Heads) => Described(Heads)'
      BY <1>1, <3>3, FilesKept
    <3>6. Entered => Entered'
      BY <1>1, <3>1, FilesKept DEF Entered
    <3>7. Divided => Divided'
      BY <1>1, <3>1, FilesKept DEF Divided, InScope
    <3>8. HalfPod => HalfPod'
      <4>1. PartsOf(pod, Added)' = PartsOf(pod, Added)
        BY <1>1, <3>1, <3>2, PartsKept
      <4>2. Gathers(state.files, PartsOf(pod, Added))
              <=> Gathers(state.files, PartsOf(pod, Added))'
        BY <3>1, <4>1 DEF Gathers
      <4> QED
        BY <1>1, <3>1, <3>2, <4>2, FilesKept DEF HalfPod
    <3> QED
      BY <1>1, <2>1, <3>1, <3>4, <3>5, <3>6, <3>7, <3>8, FilesKept, PartsKept
         DEF Good, Building, InScope
  <2> QED
    BY <2>2, <2>3
<1> QED
  BY <1>2, <1>3 DEF BuildInv

\* What buildDesiredFull has put together at each point of its loops, whatever the
\* order it took the directories, pods and containers in.
THEOREM BuildCorrect == Spec => []BuildInv
BY InitGood, StepBuild, PTL DEF Spec

-----------------------------------------------------------------------------
(* What follows from it.                                                   *)

LEMMA OrderFollows == BuildInv => OrderDecidesNothing
BY DEF BuildInv, Good, Described, OrderDecidesNothing

\* For every repository and transform directory without a clash, in whatever order
\* Go walks its maps: refused or not, the accounts, their files and their members
\* are what the repository means.
THEOREM OrderIrrelevant == Spec => []OrderDecidesNothing
BY BuildCorrect, OrderFollows, PTL

LEMMA MeantGathers ==
  ASSUME ~Clash, NEW h \in Heads
  PROVE  Gathers(FilesMeant(h), Parts(h))
<1>1. Apart(Parts(h))
  BY DEF Clash, Apart
<1>2. ASSUME NEW p \in Parts(h), NEW k \in DOMAIN p
      PROVE  k \in Keys(h) /\ FilesMeant(h)[k] = p[k]
  <2>1. k \in Keys(h)
    BY DEF Keys
  <2>2. PICK q : q = (CHOOSE o \in Parts(h) : k \in DOMAIN o)
    OBVIOUS
  <2>3. q \in Parts(h) /\ k \in DOMAIN q
    BY <2>2
  <2>4. q = p
    BY <1>1, <2>3 DEF Apart
  <2> QED
    BY <2>1, <2>2, <2>4 DEF FilesMeant
<1> QED
  BY <1>2 DEF Gathers, FilesMeant, Keys

LEMMA OneHead ==
  ASSUME Inputs, ~CheckErrors, NEW c \in AllContainers, NEW g \in Heads, NEW h \in Heads,
         c \in MembersOf(g), c \in MembersOf(h)
  PROVE  g = h
<1>1. \A i \in Heads : c \in MembersOf(i) =>
        IF PodsOf(c) = {} THEN i = c ELSE i \in PodsOf(c)
  BY DEF Heads, MembersOf
<1> QED
  BY <1>1, OnePod

\* The files of the repository that the account of h is made from.
LEMMA WhatHeadHas ==
  ASSUME Inputs, NEW h \in Heads, NEW f \in repo
  PROVE  (\E p \in Parts(h) : \E k \in DOMAIN p : p[k].from = f) <=>
           \/ f \in MembersOf(h)
           \/ f = h
           \/ \E c \in MembersOf(h) : f \in SidecarsOf(c)
<1>0. f \in QuadletFile /\ h \in repo /\ h \in QuadletFile
  BY DEF Inputs, Heads, AllContainers
<1>1. ASSUME NEW c, NEW i, NEW k \in DOMAIN OwnFile(c, i)
      PROVE  OwnFile(c, i)[k].from = c
  BY DEF OwnFile, One, Content
<1>2. ASSUME NEW c, NEW i, NEW k \in DOMAIN CompanionFiles(c, i)
      PROVE  CompanionFiles(c, i)[k].from # f
  <2>1. PICK t : t = CHOOSE u \in transforms.companions : k = Key(c.stem \o u.suffix, u.ext)
    OBVIOUS
  <2>2. \E u \in transforms.companions : k = Key(c.stem \o u.suffix, u.ext)
    BY DEF CompanionFiles
  <2>3. t \in transforms.companions
    BY <2>1, <2>2
  <2>4. CompanionFiles(c, i)[k].from = t
    BY <2>1 DEF CompanionFiles, Content
  <2>5. DOMAIN t = {"suffix", "ext", "noPod", "bad"}
    BY <2>3, BuildAssumption DEF Inputs
  <2>6. "dir" \in DOMAIN f
    BY <1>0 DEF QuadletFile
  <2> QED
    BY <2>4, <2>5, <2>6
<1>3. ASSUME NEW c, NEW s \in SidecarsOf(c)
      PROVE  [dir |-> c.dir, stem |-> s.stem, ext |-> s.ext] = s
  BY DEF SidecarsOf, Sidecars, In, Inputs, QuadletFile
<1>4. ASSUME NEW c
      PROVE  (\E k \in DOMAIN SidecarFiles(c) : SidecarFiles(c)[k].from = f)
               <=> f \in SidecarsOf(c)
  <2>1. ASSUME NEW s \in SidecarsOf(c)
        PROVE  /\ Key(s.stem, s.ext) \in DOMAIN SidecarFiles(c)
               /\ SidecarFiles(c)[Key(s.stem, s.ext)].from = s
    BY <1>3 DEF SidecarFiles, Key, Content
  <2>2. \A k \in DOMAIN SidecarFiles(c) : \E s \in SidecarsOf(c) : k = Key(s.stem, s.ext)
    BY DEF SidecarFiles
  <2> QED
    BY <2>1, <2>2
<1>5. h.ext = "pod" => \A k \in DOMAIN PodState(h).files : PodState(h).files[k].from = h
  BY DEF PodState, One, Content
<1>6. h.ext = "pod" => \E k \in DOMAIN PodState(h).files : PodState(h).files[k].from = h
  BY DEF PodState, One, Content
<1>7. h.ext # "pod" => h \in MembersOf(h)
  BY DEF Heads, MembersOf, AllContainers
<1>8. ASSUME NEW c \in MembersOf(h)
      PROVE  \E k \in DOMAIN OwnFile(c, InPod(h)) : OwnFile(c, InPod(h))[k].from = c
  BY DEF OwnFile, One, Content
<1>9. ASSUME NEW p \in Parts(h), NEW k \in DOMAIN p, p[k].from = f
      PROVE  \/ f \in MembersOf(h)
             \/ f = h
             \/ \E c \in MembersOf(h) : f \in SidecarsOf(c)
  <2>1. CASE \E c \in MembersOf(h) : p = OwnFile(c, InPod(h))
    BY <1>1, <1>9, <2>1
  <2>2. CASE \E c \in MembersOf(h) : p = CompanionFiles(c, InPod(h))
    BY <1>2, <1>9, <2>2
  <2>3. CASE \E c \in MembersOf(h) : p = SidecarFiles(c)
    BY <1>4, <1>9, <2>3
  <2>4. CASE h.ext = "pod" /\ p = PodState(h).files
    BY <1>5, <1>9, <2>4
  <2> QED
    BY <1>9, <2>1, <2>2, <2>3, <2>4 DEF Parts
<1>10. ASSUME \/ f \in MembersOf(h)
              \/ f = h
              \/ \E c \in MembersOf(h) : f \in SidecarsOf(c)
       PROVE  \E p \in Parts(h) : \E k \in DOMAIN p : p[k].from = f
  <2>1. \A c \in MembersOf(h) : OwnFile(c, InPod(h)) \in Parts(h) /\ SidecarFiles(c) \in Parts(h)
    BY DEF Parts
  <2>2. h.ext = "pod" => PodState(h).files \in Parts(h)
    BY DEF Parts
  <2> QED
    BY <1>4, <1>6, <1>7, <1>8, <1>10, <2>1, <2>2
<1> QED
  BY <1>9, <1>10

\* Each file is one of what exactly one head has.
LEMMA OneHeadHas ==
  ASSUME Inputs, ~CheckErrors, NEW f \in repo
  PROVE  \E h \in Heads : \A g \in Heads :
           (\E p \in Parts(g) : \E k \in DOMAIN p : p[k].from = f) <=> g = h
<1>0. f \in QuadletFile /\ f.ext \in {"container", "pod", "service", "timer"}
  BY DEF Inputs, QuadletFile
<1>1. \A h \in Heads : h.ext \in {"container", "pod"}
  BY DEF Heads, AllContainers
<1>2. \A h \in Heads : \A c \in MembersOf(h) : c \in AllContainers /\ c.ext = "container"
  BY DEF Heads, MembersOf, AllContainers
<1>3. \A c : \A s \in SidecarsOf(c) : s.ext \in {"service", "timer"}
  BY DEF SidecarsOf, Sidecars, In
<1>4. CASE f.ext = "container"
  <2>1. f \in AllContainers
    BY <1>4 DEF AllContainers
  <2>2. PICK h \in Heads : f \in MembersOf(h)
    BY <2>1, SomeHead
  <2>3. f \in Heads => f \in MembersOf(f)
    BY <1>4 DEF MembersOf
  <2>4. \A g \in Heads : (\E p \in Parts(g) : \E k \in DOMAIN p : p[k].from = f)
                           <=> f \in MembersOf(g)
    BY <1>3, <1>4, <2>3, WhatHeadHas
  <2> QED
    BY <2>1, <2>2, <2>4, OneHead
<1>5. CASE f.ext = "pod"
  <2>1. f \in Heads
    BY <1>5 DEF Heads
  <2>2. \A g \in Heads : (\E p \in Parts(g) : \E k \in DOMAIN p : p[k].from = f) <=> f = g
    BY <1>2, <1>3, <1>5, WhatHeadHas
  <2> QED
    BY <2>1, <2>2
<1>6. CASE f.ext \in {"service", "timer"}
  <2>1. f.dir \in Dir \cup {Root} /\ f \in Sidecars(f.dir)
    BY <1>0, <1>6 DEF Sidecars, In, QuadletFile
  <2>2. Owners(f) # {}
    BY <2>1 DEF CheckErrors, Orphans
  <2>3. PICK c \in Containers(f.dir) :
          c \in Owners(f) /\ \A o \in Owners(f) : Len(o.stem) <= Len(c.stem)
    BY <2>2, SomeOwner
  <2>4. f \in SidecarsOf(c) /\ c \in AllContainers
    BY <2>1, <2>3 DEF SidecarsOf, Containers, In, AllContainers
  <2>5. PICK h \in Heads : c \in MembersOf(h)
    BY <2>4, SomeHead
  <2>6. \A g \in Heads : (\E p \in Parts(g) : \E k \in DOMAIN p : p[k].from = f)
                           <=> c \in MembersOf(g)
    BY <1>1, <1>2, <1>6, <2>4, WhatHeadHas, OneOwner
  <2> QED
    BY <2>4, <2>5, <2>6, OneHead
<1> QED
  BY <1>0, <1>4, <1>5, <1>6

LEMMA EachFileFollows == BuildInv => EachFileOnce
<1> SUFFICES ASSUME BuildInv, pc = "built", ~Clash, NEW f \in repo
             PROVE  \E n \in DOMAIN desired :
                      \A m \in DOMAIN desired : f \in SourcesOf(m) <=> m = n
  BY DEF EachFileOnce
<1>1. Inputs /\ ~Refused /\ Described(Heads)
  BY DEF BuildInv, Good
<1>2. ~CheckErrors
  BY <1>1 DEF Refused
<1>3. ASSUME NEW h \in Heads
      PROVE  f \in SourcesOf(h.stem) <=>
               \E p \in Parts(h) : \E k \in DOMAIN p : p[k].from = f
  <2>1. desired[h.stem].files = FilesMeant(h) /\ Gathers(FilesMeant(h), Parts(h))
    BY <1>1, MeantGathers DEF Described
  <2>2. DOMAIN FilesMeant(h) = UNION {DOMAIN p : p \in Parts(h)}
    BY DEF FilesMeant, Keys
  <2>3. f \in SourcesOf(h.stem) <=> \E k \in DOMAIN FilesMeant(h) : FilesMeant(h)[k].from = f
    BY <2>1 DEF SourcesOf
  <2>4. \A p \in Parts(h) : \A k \in DOMAIN p : FilesMeant(h)[k] = p[k]
    BY <2>1 DEF Gathers
  <2>5. \A k \in DOMAIN FilesMeant(h) : \E p \in Parts(h) : k \in DOMAIN p
    BY <2>2
  <2>6. \A p \in Parts(h) : \A k \in DOMAIN p : k \in DOMAIN FilesMeant(h)
    BY <2>2
  <2> QED
    BY <2>3, <2>4, <2>5, <2>6
<1>4. PICK h \in Heads : \A g \in Heads :
        (\E p \in Parts(g) : \E k \in DOMAIN p : p[k].from = f) <=> g = h
  BY <1>1, <1>2, OneHeadHas
<1>5. \A m \in DOMAIN desired : \E g \in Heads : m = g.stem
  BY <1>1 DEF Described
<1>6. h.stem \in DOMAIN desired /\ \A g \in Heads : g.stem = h.stem => g = h
  BY <1>1 DEF Described
<1> QED
  BY <1>3, <1>4, <1>5, <1>6

\* Each file of an accepted repository reaches exactly one account: the longest
\* owner of a sidecar is unique, and so is the pod of a container, because pod names
\* have no hyphen.
THEOREM EachFileReachesOne == Spec => []EachFileOnce
BY BuildCorrect, EachFileFollows, PTL

=============================================================================
