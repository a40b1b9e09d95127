-------------------------------- MODULE Keeper --------------------------------
(***************************************************************************)
(* What Sync promises, with nothing of how it goes about it: which changes *)
(* of accounts, files, secrets and hashes may happen at all, and when.     *)
(* Reconcile is shown to implement it (KeeperView).                        *)
(***************************************************************************)
CONSTANTS
  Proc, Free, Name, File, Secret,
  Plan,      \* the desired states that valid work trees ask for
  NoPlan,    \* nothing has been decided
  NoSpec, NoFile, Torn, NoValue, NoHash, TornHash,
  HashOf(_),
  Home       \* the accounts, files and secrets there are at first

VARIABLES
  holder,    \* who is syncing
  plan,      \* what the holder is applying
  account, files, store,
  mark       \* mark[n]: the hash of what was last deployed for n

keeperVars == <<holder, plan, account, files, store, mark>>

Init ==
  /\ holder = Free
  /\ plan = NoPlan
  /\ <<account, files, store>> = Home
  /\ mark = [n \in Name |-> NoHash]

Decided   == holder # Free /\ plan # NoPlan
Wanted(n) == Decided /\ plan[n] # NoSpec
Orphan(n) == Decided /\ plan[n] = NoSpec /\ account[n] = "managed"

\* The only names a sync may work on: wanted, in the group, and not yet deployed
\* with this very content.
Due(n) == Wanted(n) /\ account[n] = "managed" /\ mark[n] # HashOf(plan[n])

InPlace(n) ==
  /\ \A f \in File : plan[n].files[f] # NoFile => files[n][f] = plan[n].files[f]
  /\ \A s \in Secret : plan[n].secrets[s] # NoValue => store[n][s] = plan[n].secrets[s]

-----------------------------------------------------------------------------
Begin ==
  /\ holder = Free
  /\ \E p \in Proc : holder' = p
  /\ UNCHANGED <<plan, account, files, store, mark>>

Decide ==
  /\ holder # Free
  /\ plan = NoPlan
  /\ plan' \in Plan
  /\ UNCHANGED <<holder, account, files, store, mark>>

\* A sync ends, gives up or dies.
Stop == plan' = NoPlan /\ holder' \in {holder, Free}

End == Stop /\ UNCHANGED <<account, files, store, mark>>

Adopt(n) ==
  /\ Wanted(n)
  /\ account[n] = "none"
  /\ account' = [account EXCEPT ![n] = "managed"]
  /\ UNCHANGED <<holder, plan, files, store, mark>>

\* A file that is wanted gets its content, or is cut short; in the second case the
\* writer may have died of it.
Write(n, f) ==
  /\ Due(n)
  /\ plan[n].files[f] # NoFile
  /\ \/ files' = [files EXCEPT ![n][f] = plan[n].files[f]] /\ UNCHANGED <<holder, plan>>
     \/ files' = [files EXCEPT ![n][f] = Torn] /\ (Stop \/ UNCHANGED <<holder, plan>>)
  /\ UNCHANGED <<account, store, mark>>

\* A file that is not wanted goes.
Prune(n, f) ==
  /\ Due(n)
  /\ plan[n].files[f] = NoFile
  /\ files' = [files EXCEPT ![n][f] = NoFile]
  /\ UNCHANGED <<holder, plan, account, store, mark>>

Provide(n, s) ==
  /\ Due(n)
  /\ plan[n].secrets[s] # NoValue
  /\ store' = [store EXCEPT ![n][s] = plan[n].secrets[s]]
  /\ UNCHANGED <<holder, plan, account, files, mark>>

\* A name is marked as deployed only with all of it in place.
Mark(n) ==
  /\ Due(n)
  /\ InPlace(n)
  /\ \/ mark' = [mark EXCEPT ![n] = HashOf(plan[n])] /\ UNCHANGED <<holder, plan>>
     \/ mark' = [mark EXCEPT ![n] = TornHash] /\ (Stop \/ UNCHANGED <<holder, plan>>)
  /\ UNCHANGED <<account, files, store>>

\* A mark may be taken away at any time, by anyone.
Unmark(n) ==
  /\ mark' = [mark EXCEPT ![n] = NoHash]
  /\ UNCHANGED <<holder, plan, account, files, store>>

\* The home of an account that is not wanted is emptied, and the account goes.
Empty(n) ==
  /\ Orphan(n)
  /\ \E gone \in SUBSET File :
       files' = [files EXCEPT ![n] = [f \in File |-> IF f \in gone THEN NoFile ELSE @[f]]]
  /\ UNCHANGED <<holder, plan, account, store, mark>>

Remove(n) ==
  /\ Orphan(n)
  /\ account' = [account EXCEPT ![n] = "none"]
  /\ files' = [files EXCEPT ![n] = [f \in File |-> NoFile]]
  /\ store' = [store EXCEPT ![n] = [s \in Secret |-> NoValue]]
  /\ UNCHANGED <<holder, plan, mark>>

Next ==
  \/ Begin \/ Decide \/ End
  \/ \E n \in Name :
       \/ Adopt(n) \/ Mark(n) \/ Unmark(n) \/ Empty(n) \/ Remove(n)
       \/ \E f \in File : Write(n, f) \/ Prune(n, f)
       \/ \E s \in Secret : Provide(n, s)

Spec == Init /\ [][Next]_keeperVars
=============================================================================
