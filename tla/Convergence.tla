----------------------------- MODULE Convergence -----------------------------
(***************************************************************************)
(* What the loop of syncs promises in the long run: once commands stop     *)
(* failing, the host comes to agree with the repository and stays so.      *)
(***************************************************************************)
EXTENDS Reconcile

\* From some moment on no command fails and no process is killed.
CalmDown ==
  /\ ~calm
  /\ calm' = TRUE
  /\ UNCHANGED <<hostVars, upstream, repo, head, cut, lock, hash, pc, desired, current, todo,
                 name, work, errs>>

\* Every process is started again and again (the timer of the host, the requests
\* of operators) and goes on once started; pushes and redeploys may or may not
\* come.
ConvergingSpec ==
  /\ Init
  /\ [][Next \/ CalmDown]_vars
  /\ \A p \in Proc : WF_vars(SyncStep(p))
  /\ WF_vars(CalmDown)

\* The host agrees with the head of the branch: accounts, files as written and as
\* loaded by the user manager, and secrets.
Agrees ==
  \A n \in Name \ Foreign :
    IF Build[upstream][n] # NoSpec
    THEN /\ InPlace(n, Build[upstream][n])
         /\ \A f \in FilesOf(Build[upstream][n]) :
              loaded[n][f] = Build[upstream][n].files[f]
    ELSE user[n] = "none"

\* Git can give the next sync the head of the branch.  It cannot when a clone was
\* killed before it had a commit, when a checkout was cut short and HEAD is the head of
\* the branch already, or when index.lock is in the way of a reset.
Reachable == CanCheckOut \/ (head = upstream /\ repo = head)

\* Whatever failed before, and however often operators redeploy, the host comes to
\* agree with a valid head of the branch for good: each failed deploy and each
\* failed removal is tried again by the syncs that follow.  With a clone that was
\* spoilt it does so once an operator has removed it, or a push lets git repair it.
Converges == <>[](Reachable /\ Build[upstream] # Invalid => Agrees)
=============================================================================
