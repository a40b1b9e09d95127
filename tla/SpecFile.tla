-------------------------------- MODULE SpecFile --------------------------------
(***************************************************************************)
(* The life of one .container file: its author changes it with "quadsync   *)
(* edit" (edit.go), in steps between which the editor fails, the command   *)
(* dies or the age key is exchanged; and every now and then a sync builds  *)
(* and deploys what the file says (transformContainerFile and what Sync    *)
(* does with it), under transforms that change, too.                       *)
(***************************************************************************)
EXTENDS Quadlet

CONSTANTS
  Docs,        \* what an author may write: documents with plain secrets
  Drafts,      \* what an author may leave in the editor
  Transforms,  \* the pairs (or fewer) of transforms that may be in force
  Key,         \* age keys
  Pod,         \* the pod the container is in
  NoDoc,       \* there is no such file
  Torn,        \* a file whose writing was cut short
  NoUnit       \* nothing has been deployed

\* What the parser makes of a text: lines with strings, in sections with strings for
\* names.  The names of podman are a function of kind and target of any secret.
Body == Seq([name : STRING, entries : Seq([key : STRING, value : STRING, plus : BOOLEAN])])

Named(e) == (e.kind = "file" => e.target \in DOMAIN Derived) /\ SecretName(e) \in DOMAIN Fold

Secret ==
  {e \in [kind : STRING, target : STRING, value : STRING, by : Key \cup {Plain}] : Named(e)}

Document == [body : Body, secrets : Seq(Seq(Secret))]

ASSUME SpecFileAssumption ==
  /\ Docs \subseteq Drafts /\ Drafts \subseteq Document /\ Transforms \subseteq Seq(Body)
  /\ NoKey \notin Key /\ Plain \notin Key

VARIABLES
  file,        \* the file in the repository
  new,         \* "<file>.new"
  scratch,     \* the scratch file of the editor
  key,         \* what the age key file holds
  pc,
  output,      \* what the edit is going to write
  unit,        \* the quadlet deployed last
  store,       \* podman's secrets
  meant,       \* history: what the author last saved in the file
  source       \* history: what the author had saved when unit was deployed

edit == <<new, scratch, pc, output>>
host == <<unit, store, source>>
vars == <<file, edit, key, host, meant>>

Podman == {Fold[n] : n \in DOMAIN Fold}

Init ==
  /\ file \in Docs
  /\ new = NoDoc
  /\ scratch = NoDoc
  /\ key \in Key
  /\ pc = "idle"
  /\ output = NoDoc
  /\ unit = NoUnit
  /\ store = [p \in Podman |-> Empty]
  /\ meant = file
  /\ source = [doc |-> NoDoc, transforms |-> <<>>]

-----------------------------------------------------------------------------
(* quadsync edit.                                                          *)

GiveUp ==
  /\ pc' = "idle"
  /\ scratch' = NoDoc
  /\ output' = NoDoc
  /\ UNCHANGED <<file, key, host, meant>>

\* A file without a [Secrets] section is shown with an empty one.
AppendScaffold(doc) == IF doc.secrets = <<>> THEN [doc EXCEPT !.secrets = << <<>> >>] ELSE doc

\* The file is read, validated, decrypted and put on tmpfs; otherwise the command
\* ends here.
Open ==
  /\ pc = "idle"
  /\ CanDecrypt(file.secrets, key)
  /\ scratch' = AppendScaffold([file EXCEPT !.secrets = Decrypt(@)])
  /\ pc' = "editor"
  /\ UNCHANGED <<file, new, output, key, host, meant>>

\* The author saves something, and the editor ends well.
RunEditor ==
  /\ pc = "editor"
  /\ scratch' \in Drafts \cup {scratch}
  /\ pc' = "check"
  /\ UNCHANGED <<file, new, output, key, host, meant>>

EditorFails == pc = "editor" /\ GiveUp /\ UNCHANGED new

StripEmptySecretsSection(doc) ==
  [doc EXCEPT !.secrets = Keep(@, {s \in Range(@) : s # <<>>})]

Edited == StripEmptySecretsSection(scratch)

CanSave ==
  /\ ValidSecrets(Edited.secrets)
  /\ Edited.secrets # <<>> => CanEncrypt(Edited.secrets, key)

\* What was edited is validated, and encrypted for the key there is now.  The
\* early return for an unchanged file without secrets is never taken: the scaffold
\* is part of what the author was shown and is not part of Edited.
CheckEdited ==
  /\ pc = "check"
  /\ CanSave
  /\ output' = IF Edited.secrets = <<>> THEN Edited
               ELSE [Edited EXCEPT !.secrets = Encrypt(@, key)]
  /\ pc' = "write"
  /\ UNCHANGED <<file, new, scratch, key, host, meant>>

EditRefused ==
  /\ pc = "check"
  /\ ~CanSave
  /\ GiveUp
  /\ UNCHANGED new

WriteInPlace ==
  /\ pc = "write"
  /\ \/ /\ file' = output
        /\ new' = output
        /\ pc' = "rename"
        /\ UNCHANGED <<scratch, output, key, host, meant>>
     \/ /\ file' = [output EXCEPT !.body = <<>>]
        /\ pc' = "idle"
        /\ scratch' = NoDoc
        /\ output' = NoDoc
        /\ UNCHANGED <<new, key, host, meant>>

WriteErrorDropped ==
  /\ pc = "write"
  /\ new' \in {output, Torn}
  /\ pc' = "rename"
  /\ UNCHANGED <<file, scratch, output, key, host, meant>>

\* os.WriteFile of "<file>.new".
WriteNew ==
  /\ pc = "write"
  /\ \/ /\ new' = output
        /\ pc' = "rename"
        /\ UNCHANGED <<file, scratch, output, key, host, meant>>
     \/ new' \in {new, Torn} /\ GiveUp

\* os.Rename onto the file.
Rename ==
  /\ pc = "rename"
  /\ file' = new
  /\ new' = NoDoc
  /\ meant' = Edited
  /\ pc' = "idle"
  /\ scratch' = NoDoc
  /\ output' = NoDoc
  /\ UNCHANGED <<key, host>>

RenameFails == pc = "rename" /\ GiveUp /\ UNCHANGED new

\* The command is killed.  Its scratch file stays behind under a name that no other
\* edit uses, and "<file>.new" stays for the next edit to overwrite.
Killed ==
  /\ pc # "idle"
  /\ GiveUp
  /\ IF pc = "write" THEN new' \in {new, Torn, output} ELSE UNCHANGED new

-----------------------------------------------------------------------------
(* Around it.                                                              *)

\* The key file is replaced, lost or put back.
RotateKey ==
  /\ key' \in Key \cup {NoKey}
  /\ UNCHANGED <<file, edit, host, meant>>

\* A sync deploys the file as it is committed now, under the transforms there are;
\* one that cannot parse or build it deploys nothing.
Deploy ==
  \E transforms \in Transforms :
    LET doc    == [file EXCEPT !.secrets = Decrypt(@)]
        merged == TransformContainerFile(doc, transforms)
    IN /\ CheckContent(file)
       /\ CanParse(file.secrets, key)
       /\ CheckMerged(merged)
       /\ unit' = InjectPod(merged, Pod)
       /\ store' = CreateSecrets(store, SecretsOf(doc.secrets))
       /\ source' = [doc |-> meant, transforms |-> transforms]
       /\ UNCHANGED <<file, edit, key, meant>>

EditStep ==
  \/ Open \/ RunEditor \/ EditorFails \/ CheckEdited \/ EditRefused
  \/ WriteNew \/ Rename \/ RenameFails \/ Killed

Next == EditStep \/ RotateKey \/ Deploy

Spec == Init /\ [][Next]_vars

-----------------------------------------------------------------------------
TypeOK ==
  /\ file \in Document /\ meant \in Document
  /\ new \in Document \cup {NoDoc, Torn}
  /\ pc \in {"idle", "editor", "check", "write", "rename"}
  /\ pc # "idle" => scratch \in Document
  /\ pc \in {"write", "rename"} => output \in Document
  /\ key \in Key \cup {NoKey}
  /\ store \in [Podman -> STRING \cup {Empty}]
  /\ unit # NoUnit => source.doc \in Document /\ source.transforms \in Transforms

Plaintext(doc) == [doc EXCEPT !.secrets = Decrypt(@)]

\* The file always says what its author saved last, in full: no editor that fails,
\* key that is missing, write that is cut short or command that dies on the way
\* changes or damages it, and decrypting gives back what was encrypted.
FileIsMeant == Plaintext(file) = Plaintext(meant)

\* What a transform has for the sections of a name.
Rules(trans, s) == IF HasSection(trans, s) THEN GetSection(trans, s).entries ELSE <<>>

\* Prepended(ts, s)[i]: what the first i transforms put before the lines of a section.
Prepended(ts, s) ==
  LET lines[i \in 0..Len(ts)] ==
        IF i = 0 THEN <<>> ELSE StripPlus(WithPlus(Rules(ts[i], s))) \o lines[i - 1]
  IN lines

PodLine == [key |-> "Pod", value |-> Pod, plus |-> FALSE]

\* What a section named s with the lines es becomes under the transforms ts: what they
\* prepend, the last one's first, then es, and then only defaults (and the pod), each
\* for a key that neither es, nor a default before it, nor a "+" line of its own or of
\* an earlier transform sets.  And no default is missing: its key is there.
SectionAsDocumented(es, ts, s, got) ==
  LET pre   == Prepended(ts, s)
      have  == pre[Len(ts)] \o es
      added == Len(have) + 1 .. Len(got)
  IN /\ IsPrefix(have, got)
     /\ \A k \in added :
          \/ got[k] = PodLine
          \/ \E i \in DOMAIN ts : /\ got[k] \in Range(WithoutPlus(Rules(ts[i], s)))
                                  /\ ~HasKey(pre[i] \o es, got[k].key)
                                  /\ \A m \in added : m < k => got[m].key # got[k].key
     /\ \A i \in DOMAIN ts : \A e \in Range(WithoutPlus(Rules(ts[i], s))) : HasKey(got, e.key)

\* README.md:23: each section that is deployed is the author's, with the directives of
\* the secrets last, under the base's transform and then the directory's.
MergedAsDocumented ==
  unit # NoUnit =>
    LET spec == InjectSecretDirectives(source.doc.body, SecretsOf(source.doc.secrets))
    IN \A j \in DOMAIN spec :
         /\ unit[j].name = spec[j].name
         /\ SectionAsDocumented(spec[j].entries, source.transforms, spec[j].name,
                                unit[j].entries)

\* No two secrets of the document are given the same name in podman's store.
DistinctNames(s) == \A i, j \in DOMAIN s : PodmanName(s[i]) = PodmanName(s[j]) => i = j

\* README.md:191: every secret of the first [Secrets] section reaches its variable or
\* path with the value its author meant, however often the file and the keys have
\* changed since earlier ones were stored; provided the names are distinct.
SecretsReachTargets ==
  unit # NoUnit =>
    LET s   == SecretsOf(source.doc.secrets)
        got == Range(GetSection(unit, "Container").entries)
    IN /\ \A e \in Range(s) : Directive(e) \in got
       /\ DistinctNames(s) => \A e \in Range(s) : store[PodmanName(e)] = e.value
       /\ \A x \in got : x.key = "Secret" =>
            \/ \E e \in Range(s) : x = Directive(e)
            \/ \E y \in Range(GetSection(source.doc.body, "Container").entries) : x = y
            \/ \E i \in DOMAIN source.transforms :
                 \E y \in Range(Rules(source.transforms[i], "Container")) :
                   x = [y EXCEPT !.plus = FALSE]
=============================================================================
