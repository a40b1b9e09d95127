------------------------------- MODULE MCSpecFile -------------------------------
(***************************************************************************)
(* Documents of a section [Container] and one more, with none, one or two  *)
(* secrets; drafts with what the code refuses, or reads only in part; and  *)
(* transforms with defaults, prepended entries and a section of their own, *)
(* and with a key that one sets a default for and the next one prepends.   *)
(***************************************************************************)
EXTENDS SpecFile

Set(k, v)  == [key |-> k, value |-> v, plus |-> FALSE]
Plus(k, v) == [key |-> k, value |-> v, plus |-> TRUE]
Section(s, es) == [name |-> s, entries |-> es]

MCDerived == "/run/token" :> "run_token" @@ "/TOKEN" :> "TOKEN"
MCFold    == "TOKEN" :> "app-token" @@ "run_token" :> "app-run-token" @@ "1ST" :> "app-1st"

Env(n, v)  == [kind |-> "env", target |-> n, value |-> v, by |-> Plain]
Path(t, v) == [kind |-> "file", target |-> t, value |-> v, by |-> Plain]

Image  == Section("Container", <<Set("Image", "app"), Set("Volume", "spec")>>)
Unit   == Section("Unit", <<Set("After", "net")>>)
Doc(body, secrets) == [body |-> body, secrets |-> secrets]

MCDocs == {Doc(<<Image>>, <<>>),
           Doc(<<Unit, Image, Unit>>, << <<Env("TOKEN", "v1")>> >>),
           Doc(<<Image, Unit>>, << <<Env("TOKEN", "v2"), Path("/run/token", "v1")>> >>)}

MCDrafts == MCDocs \cup
  {Doc(<<Unit>>, <<>>),                                          \* no [Container]
   Doc(<<Image>>, << <<Env("1ST", "v1")>> >>),                   \* no variable name
   Doc(<<Image>>, << <<Path("/run/token", "raw")>> >>),          \* no base64
   Doc(<<Image>>, << <<>>, <<Env("TOKEN", "v1")>> >>),           \* an empty section
   Doc(<<Image>>, << <<Path("/run/token", "v2")>>, <<Env("TOKEN", "v1")>> >>),
   Doc(<<Image>>, << <<Env("TOKEN", "v1"), Path("/TOKEN", "v2")>> >>)}  \* one name

Base == <<Section("Container", <<Plus("Volume", "base"), Set("Image", "none"),
                                 Set("Network", "host"), Set("Network", "none")>>),
          Section("Service", <<Plus("Restart", "always"), Set("Restart", "no")>>)>>
Dir  == <<Section("Unit", <<Set("After", "db"), Set("Wants", "db")>>),
          Section("Container", <<Plus("Volume", "dir"), Plus("Network", "dir"),
                                 Set("Network", "none")>>)>>

Symmetry == Permutations(Key)

MCTransforms == {<<>>, <<Base>>, <<Base, Dir>>}
=============================================================================
