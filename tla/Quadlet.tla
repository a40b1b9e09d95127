-------------------------------- MODULE Quadlet --------------------------------
(***************************************************************************)
(* One .container file: its sections, how a transform is merged into it    *)
(* (merge.go), and its [Secrets] (secrets.go).                             *)
(*                                                                         *)
(* A document is what ParseINI makes of a file: the sequence of its        *)
(* sections, with those called [Secrets] kept apart, since the code never  *)
(* depends on where they stand among the others.  Comments, bare lines and *)
(* what precedes the first header are wording and left out.  A "+" before  *)
(* a key is the flag "plus" of the entry.                                  *)
(***************************************************************************)
EXTENDS Naturals, SequencesExt

CONSTANTS
  Derived,     \* Derived[path]: the name derived from the target of a file secret
  Fold,        \* Fold[name]: the name in lower case, "_" made "-", after "<container>-"
  BadName,     \* the names that are no environment variables
  Plain,       \* stands for the key of a value that is not encrypted
  NoKey,       \* there is no age key file, or nothing usable in it
  Empty,       \* the empty value
  NotBase64    \* values that cannot be decoded as a file's content

ASSUME QuadletAssumption == Plain # NoKey

-----------------------------------------------------------------------------
(* Sections and keys.                                                      *)

HasSection(body, s) == \E i \in DOMAIN body : body[i].name = s

IndexOf(body, s) == SelectInSeq(body, LAMBDA sec : sec.name = s)

\* The first section of the name.
GetSection(body, s) == body[IndexOf(body, s)]

HasKey(entries, k) == \E i \in DOMAIN entries : entries[i].key = k /\ ~entries[i].plus

\* Appends entries to the first section of the name.
AppendTo(body, s, entries) ==
  [body EXCEPT ![IndexOf(body, s)].entries = @ \o entries]

-----------------------------------------------------------------------------
(* Merging.                                                                *)

\* The elements of seq that are in T, in their order.
Keep(seq, T) == FoldLeft(LAMBDA kept, x : IF x \in T THEN Append(kept, x) ELSE kept, <<>>, seq)

WithPlus(entries)    == Keep(entries, {e \in Range(entries) : e.plus})
WithoutPlus(entries) == Keep(entries, {e \in Range(entries) : ~e.plus})

StripPlus(entries) == [i \in DOMAIN entries |-> [entries[i] EXCEPT !.plus = FALSE]]

\* A default is added unless the key is there by now, also from a "+" entry or
\* from an earlier default of the same transform.
AddDefault(entries, e) == IF HasKey(entries, e.key) THEN entries ELSE Append(entries, e)

AddDefaults(entries, defaults) == FoldLeft(AddDefault, entries, defaults)

PrependsAfterSpec(spec, trans) ==
  AddDefaults(spec \o StripPlus(WithPlus(trans)), WithoutPlus(trans))

MergeSection(spec, trans) ==
  AddDefaults(StripPlus(WithPlus(trans)) \o spec, WithoutPlus(trans))

\* Every section of the spec meets the first one of its name in the transform;
\* the sections that only the transform has follow, all of them, whole.
MergeTransform(spec, trans) ==
  LET Merged(sec) ==
        IF HasSection(trans, sec.name)
        THEN [sec EXCEPT !.entries = MergeSection(@, GetSection(trans, sec.name).entries)]
        ELSE sec
      New == Keep(trans, {sec \in Range(trans) : ~HasSection(spec, sec.name)})
  IN [i \in DOMAIN spec |-> Merged(spec[i])]
       \o [i \in DOMAIN New |-> [New[i] EXCEPT !.entries = StripPlus(@)]]

ApplyTransforms(spec, transforms) == FoldLeft(MergeTransform, spec, transforms)

-----------------------------------------------------------------------------
(* The [Secrets] sections of a document, in order.  A secret has a kind    *)
(* ("env" or "file"), a target (a name or a path), a value and the key it  *)
(* is encrypted for.  Only the first section is ever looked at.            *)

SecretsOf(secs)  == IF secs = <<>> THEN <<>> ELSE secs[1]
SecretName(e)    == IF e.kind = "file" THEN Derived[e.target] ELSE e.target
Encrypted(e)     == e.by # Plain
PodmanName(e)    == Fold[SecretName(e)]

\* validateSecretsSection: two paths that give the same name are refused; a path
\* and a variable, or two variables, are not.
ValidSecrets(secs) ==
  LET s == SecretsOf(secs)
  IN /\ \A i \in DOMAIN s : /\ s[i].kind \in {"env", "file"}
                            /\ SecretName(s[i]) \notin BadName
                            /\ s[i].value # Empty
     /\ \A i, j \in DOMAIN s :
          s[i].kind = "file" /\ s[j].kind = "file" /\ SecretName(s[i]) = SecretName(s[j])
            => s[i].target = s[j].target

\* The value is encrypted for this very key; a key file that gives another
\* recipient does not open it.
Opens(e, key) == key # NoKey /\ e.by = key

Decodes(e) == e.kind = "file" => e.value \notin NotBase64

CanDecrypt(secs, key) ==
  /\ ValidSecrets(secs)
  /\ \A i \in DOMAIN SecretsOf(secs) :
       Encrypted(SecretsOf(secs)[i]) => Opens(SecretsOf(secs)[i], key)

CanEncrypt(secs, key) ==
  /\ ValidSecrets(secs)
  /\ key # NoKey
  /\ \A i \in DOMAIN SecretsOf(secs) :
       Encrypted(SecretsOf(secs)[i]) \/ Decodes(SecretsOf(secs)[i])

\* decryptSecretsInPlace, and encryptSecretsInPlace, which leaves alone what is
\* encrypted already, for whatever key.
Decrypt(secs) ==
  [i \in DOMAIN secs |->
     IF i = 1 THEN [j \in DOMAIN secs[1] |-> [secs[1][j] EXCEPT !.by = Plain]] ELSE secs[i]]

Encrypt(secs, key) ==
  [i \in DOMAIN secs |->
     IF i = 1
     THEN [j \in DOMAIN secs[1] |-> IF Encrypted(secs[1][j]) THEN secs[1][j]
                                    ELSE [secs[1][j] EXCEPT !.by = key]]
     ELSE secs[i]]

\* parseSecrets goes through; its result is Decrypt(secs)[1].
CanParse(secs, key) ==
  /\ CanDecrypt(secs, key)
  /\ \A i \in DOMAIN SecretsOf(secs) :
       Encrypted(SecretsOf(secs)[i]) \/ Decodes(SecretsOf(secs)[i])

\* The line Secret=<podman name>,type=...,target=... of one secret.
Directive(e) ==
  [key |-> "Secret", value |-> [secret |-> PodmanName(e), kind |-> e.kind, target |-> e.target],
   plus |-> FALSE]

InjectSecretDirectives(body, s) ==
  IF HasSection(body, "Container")
  THEN AppendTo(body, "Container", [i \in DOMAIN s |-> Directive(s[i])])
  ELSE body

-----------------------------------------------------------------------------
(* From the file to what is deployed of it.                                *)

\* checkContent, for the raw file, and checkContentPostMerge, for the merged one.
CheckContent(doc) ==
  /\ ValidSecrets(doc.secrets)
  /\ HasSection(doc.body, "Container")
  /\ HasKey(GetSection(doc.body, "Container").entries, "Image")
  /\ ~HasKey(GetSection(doc.body, "Container").entries, "Pod")

CheckMerged(body) ==
  /\ HasSection(body, "Container")
  /\ HasKey(GetSection(body, "Container").entries, "Image")
  /\ ~HasSection(body, "Secrets")

\* transformContainerFile: the secrets become directives of the spec, which then
\* goes through the transforms like any other of its entries.
TransformContainerFile(doc, transforms) ==
  ApplyTransforms(InjectSecretDirectives(doc.body, SecretsOf(doc.secrets)), transforms)

\* injectPod, for a member of a pod.
InjectPod(body, pod) ==
  AppendTo(body, "Container", <<[key |-> "Pod", value |-> pod, plus |-> FALSE]>>)

CreateOnce(store, s) ==
  FoldLeft(LAMBDA st, e : [st EXCEPT ![PodmanName(e)] = IF @ = Empty THEN e.value ELSE @],
           store, s)

\* createPodmanSecrets: one after the other, each created or replaced.
CreateSecrets(store, s) ==
  FoldLeft(LAMBDA st, e : [st EXCEPT ![PodmanName(e)] = e.value], store, s)
=============================================================================
