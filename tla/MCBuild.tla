------------------------------- MODULE MCBuild -------------------------------
(***************************************************************************)
(* Every repository made of some of twelve files in the root and two       *)
(* directories: pods with one, two or no members, sidecars that two stems  *)
(* claim, the same account twice, a pod whose name has a hyphen.           *)
(***************************************************************************)
EXTENDS Build

web == <<"web">>
api == <<"web", "api">>
db  == <<"web", "api", "db">>
Bad == <<"Web">>

MCStem == {web, api, db, Bad}
MCBadName == {Bad}

\* As strings: "Web." < "web-api-db." < "web-api." < "web."
MCOrder == [s \in MCStem |-> CASE s = Bad -> 0 [] s = db -> 1 [] s = api -> 2 [] s = web -> 3]

F(d, s, e) == [dir |-> d, stem |-> s, ext |-> e]

Universe ==
  {F(Root, web, "container"), F(Root, api, "container"), F(Root, db, "timer"),
   F(Root, web, "pod"),
   F("a", web, "pod"), F("a", api, "pod"), F("a", api, "container"), F("a", db, "container"),
   F("a", db, "service"),
   F("b", api, "container"), F("b", Bad, "container"), F("b", db, "timer")}

MCRepos == SUBSET Universe

MCBadContent == {F("b", db, "timer")}
MCSealed     == {F("b", api, "container"), F("a", db, "container")}

Data == [suffix |-> <<"data">>, ext |-> "volume", noPod |-> FALSE, bad |-> FALSE]
Stream == [suffix |-> <<"stream">>, ext |-> "container", noPod |-> FALSE, bad |-> FALSE]
Backup == [suffix |-> <<"backup">>, ext |-> "container", noPod |-> TRUE, bad |-> FALSE]
Wrong == [suffix |-> <<"stream">>, ext |-> "container", noPod |-> FALSE, bad |-> TRUE]
Clashing == [suffix |-> <<"db">>, ext |-> "container", noPod |-> FALSE, bad |-> FALSE]

T(base, dirs, companions, breaking, other, key) ==
  [base |-> base, basePod |-> base, dirs |-> dirs, podDirs |-> dirs, companions |-> companions,
   breaking |-> breaking, other |-> other, key |-> key]

MCTransformDirs ==
  {T(FALSE, {"a", "b"}, {}, {}, FALSE, FALSE),
   T(TRUE, {"a", "b"}, {Data, Stream, Backup}, {}, FALSE, TRUE),
   T(TRUE, {"b"}, {Wrong}, {}, FALSE, TRUE),
   T(FALSE, {"a", "b"}, {Clashing}, {"dir"}, FALSE, TRUE),
   T(FALSE, {"b"}, {Clashing}, {}, FALSE, TRUE),
   T(TRUE, {"a", "b"}, {}, {}, TRUE, TRUE)}
=============================================================================
