-------------------------------- MODULE Daemon --------------------------------
(***************************************************************************)
(* "quadsync serve": the control daemon.  Each connection is a goroutine   *)
(* that serves one request after the other (handleConn, dispatch).  A      *)
(* request for a name first asks whether its account is managed and acts   *)
(* on it later, without sync.lock; "sync" and "redeploy" call Sync, where  *)
(* the connection is one more process of Reconcile.  list, get and logs    *)
(* change nothing and are left out.                                        *)
(***************************************************************************)
EXTENDS Reconcile

CONSTANTS
  Conn,      \* the connections of the daemon, which run Sync as processes
  NoRequest

ServiceOp == {"start", "stop", "restart"}
NamedOp   == ServiceOp \cup {"redeploy", "repull"}

Request == [op : NamedOp, name : Name] \cup {[op |-> "sync", name |-> NoName]}

ASSUME DaemonAssumption == Conn \subseteq Proc /\ NoRequest \notin Request

VARIABLES
  req,       \* req[c]: the request c is serving
  at,        \* at[c]: where c is in dispatch
  ok,        \* ok[c]: the field OK of the response it will send
  fresh,     \* history: the connections whose service has been started since
             \* their request came in
  unstopped  \* history: those whose repull went on although its stop had left the
             \* service running

connVars   == <<req, at, ok>>
daemonVars == <<vars, req, at, ok, fresh, unstopped>>

ConnLabel == {"read", "check", "act", "unhash", "sync", "syncing", "repull", "podman",
              "start", "write"}

DaemonTypeOK ==
  /\ TypeOK
  /\ req \in [Conn -> Request \cup {NoRequest}]
  /\ at \in [Conn -> ConnLabel]
  /\ ok \in [Conn -> BOOLEAN]
  /\ fresh \subseteq Conn
  /\ unstopped \subseteq Conn

DaemonInit ==
  /\ Init
  /\ req = [c \in Conn |-> NoRequest]
  /\ at = [c \in Conn |-> "read"]
  /\ ok = [c \in Conn |-> FALSE]
  /\ fresh = {}
  /\ unstopped = {}

NotSync == UNCHANGED <<outer, hash, pc, desired, current, todo, name, work, errs>>

Turn(c, to) ==
  /\ at' = [at EXCEPT ![c] = to]
  /\ UNCHANGED <<req, ok>>

Respond(c, good) ==
  /\ at' = [at EXCEPT ![c] = "write"]
  /\ ok' = [ok EXCEPT ![c] = good]
  /\ UNCHANGED req

\* The unit that the daemon addresses: always "<name>.service", of a pod too.
Service(c) == ContainerFile[req[c].name]
Account(c) == req[c].name

\* The web frontend forwards what its routes admit, one request per connection;
\* any other member of the socket's group may send several, one after the other.
ReadRequest(c) ==
  /\ at[c] = "read"
  /\ \E r \in Request :
       /\ req' = [req EXCEPT ![c] = r]
       /\ at' = [at EXCEPT ![c] = IF r.op = "sync" THEN "sync" ELSE "check"]
  /\ UNCHANGED <<hostVars, ok>>
  /\ NotSync

Dispatched(c) ==
  CASE req[c].op \in ServiceOp -> "act"
    [] req[c].op = "redeploy"  -> "unhash"
    [] req[c].op = "repull"    -> "repull"

UncheckedRequest(c) ==
  /\ at[c] = "check"
  /\ Turn(c, Dispatched(c))
  /\ UNCHANGED hostVars
  /\ NotSync

\* requireManaged: the group is listed anew for each request.
RequireManaged(c) ==
  /\ at[c] = "check"
  /\ \/ Account(c) \in ManagedUsersOf /\ Turn(c, Dispatched(c))
     \/ Account(c) \notin ManagedUsersOf /\ Respond(c, FALSE)
     \/ MayFail("request") /\ Respond(c, FALSE)
  /\ UNCHANGED hostVars
  /\ NotSync

\* "systemctl start" leaves a running service alone.
StartService(n, f) ==
  /\ HasService(n, f)
  /\ SetActive(n, IF active[n] = Stopped THEN loaded[n] ELSE active[n])

ServiceAction(c) ==
  \/ req[c].op = "start"   /\ StartService(Account(c), Service(c))
  \/ req[c].op = "stop"    /\ StopService(Account(c), Service(c))
  \/ req[c].op = "restart" /\ RestartService(Account(c), Service(c))

\* start, stop and restart: runUserM, whose error is the answer.
ControlService(c) ==
  /\ at[c] = "act"
  /\ \/ ServiceAction(c) /\ Respond(c, TRUE)
     \/ ~HasService(Account(c), Service(c)) /\ UNCHANGED hostVars /\ Respond(c, FALSE)
     \/ Fails("request", ServiceAction(c)) /\ Respond(c, FALSE)
  /\ NotSync

RedeployKeepsHash(c) ==
  /\ at[c] = "unhash"
  /\ Turn(c, "sync")
  /\ UNCHANGED hostVars
  /\ NotSync

\* opRedeploy, first half: a hash file that cannot be removed ends the request.
RedeployUnhash(c) ==
  /\ at[c] = "unhash"
  /\ \/ hash' = [hash EXCEPT ![Account(c)] = NoHash] /\ Turn(c, "sync")
     \/ MayFail("request") /\ UNCHANGED hash /\ Respond(c, FALSE)
  /\ UNCHANGED <<hostVars, outer, pc, desired, current, todo, name, work, errs>>

BlockingSync(c) ==
  /\ at[c] = "sync"
  /\ Lock(c)
  /\ Turn(c, "syncing")

\* OpSync, and opRedeploy, second half: the goroutine calls Sync.
CallSync(c) ==
  /\ at[c] = "sync"
  /\ Lock(c) \/ LockBusy(c)
  /\ Turn(c, "syncing")

\* Sync in the goroutine, up to its return.
WithinSync(c) ==
  /\ at[c] = "syncing"
  /\ GitSync(c) \/ BuildDesired(c) \/ ManagedUsers(c) \/ DeployStep(c) \/ CleanupStep(c)
  /\ UNCHANGED connVars

\* Sync returns to dispatch, with an error or without.
SyncReturns(c) ==
  /\ at[c] = "syncing"
  /\ Return(c)
  /\ Respond(c, pc[c] = "done" /\ errs[c] = {})

StopSkipped(c) ==
  /\ at[c] = "repull"
  /\ Turn(c, "start")
  /\ UNCHANGED hostVars
  /\ NotSync

\* doRepull: the image is resolved, the service stopped.  Any error of the stop is
\* dropped, also that of a service which goes on running.
RepullStop(c) ==
  /\ at[c] = "repull"
  /\ \/ StopService(Account(c), Service(c))
     \/ /\ MayFail("repull") \/ ~HasService(Account(c), Service(c))
        /\ UNCHANGED hostVars
  /\ Turn(c, "podman")
  /\ NotSync

\* "podman rm -f" and "podman rmi -f", both best effort: a container that was
\* started meanwhile goes down with its image, if they find it.
RepullRemove(c) ==
  /\ at[c] = "podman"
  /\ \/ SetActive(Account(c), Stopped)
     \/ UNCHANGED hostVars
  /\ Turn(c, "start")
  /\ NotSync

RepullStart(c) ==
  /\ at[c] = "start"
  /\ \/ StartService(Account(c), Service(c)) /\ Respond(c, TRUE)
     \/ ~HasService(Account(c), Service(c)) /\ UNCHANGED hostVars /\ Respond(c, FALSE)
     \/ /\ Fails("request", StartService(Account(c), Service(c)))
        /\ Respond(c, FALSE)
  /\ NotSync

\* The response goes to the socket.  A frontend that has given up after three
\* minutes is not there to read it, which changes nothing here.
WriteResponse(c) ==
  /\ at[c] = "write"
  /\ req' = [req EXCEPT ![c] = NoRequest]
  /\ at' = [at EXCEPT ![c] = "read"]
  /\ ok' = [ok EXCEPT ![c] = FALSE]
  /\ UNCHANGED hostVars
  /\ NotSync

Serve(c) ==
  \/ RequireManaged(c) \/ ControlService(c)
  \/ RedeployUnhash(c) \/ CallSync(c) \/ WithinSync(c) \/ SyncReturns(c)
  \/ RepullStop(c) \/ RepullRemove(c) \/ RepullStart(c)
  \/ WriteResponse(c)

\* The main service of n is started in this step.  A restart by Sync counts also when
\* it fails, for it is best effort.
Starts(n) ==
  \/ n \in Name /\ active[n] = Stopped /\ active'[n] # Stopped
  \/ \E p \in Proc : /\ pc[p] = "restart" /\ pc'[p] # "restart"
                     /\ name[p] = n
                     /\ HasService(n, D(p).service)
  \/ \E c \in Conn : /\ at[c] = "act" /\ ok'[c]
                     /\ req[c] = [op |-> "restart", name |-> n]

RunsOn(c) == at[c] = "repull" /\ at'[c] = "podman" /\ active'[Account(c)] # Stopped

Watch ==
  /\ fresh' = {c \in Conn : at'[c] # "read" /\ (c \in fresh \/ Starts(req'[c].name))}
  /\ unstopped' = {c \in Conn : at'[c] # "read" /\ (c \in unstopped \/ RunsOn(c))}

\* The processes that are not connections: the timer's "quadsync sync".
TimerStep(p) == SyncStep(p) /\ UNCHANGED connVars

OperatorStep ==
  /\ Push \/ RemoveClone \/ \E n \in Name : Redeploy(n)
  /\ UNCHANGED connVars

DaemonNext ==
  /\ \/ \E c \in Conn : ReadRequest(c) \/ Serve(c)
     \/ \E p \in Proc \ Conn : TimerStep(p)
     \/ OperatorStep
  /\ Watch

DaemonSpec ==
  /\ DaemonInit
  /\ [][DaemonNext]_daemonVars
  /\ \A c \in Conn : WF_daemonVars(Serve(c) /\ Watch)
  /\ \A p \in Proc \ Conn : WF_daemonVars(TimerStep(p) /\ Watch)

-----------------------------------------------------------------------------
\* serve.go:109, "the frontend can never reach a service outside quadsync's
\* control": no request, and no sync, changes anything of a foreign account, in
\* whatever order requests, syncs and deletions of accounts come.
ForeignOutOfReach ==
  [][\A n \in Foreign :
       UNCHANGED <<user[n], linger[n], disk[n], loaded[n], secrets[n], enabled[n],
                   active[n]>>]_daemonVars

\* "redeployed" is true: when the daemon gets to that answer, the service has been
\* started since the request came in, by whoever held the lock meanwhile, or the sync
\* has found the name no longer listed.  The hash goes away without the lock, maybe in
\* the middle of another sync's deploy of the name.
RedeployIsTrue ==
  [][\A c \in Conn :
       at[c] # "write" /\ at'[c] = "write" /\ ok'[c] /\ req[c].op = "redeploy" =>
         c \in fresh \/ user[Account(c)] # "managed"]_daemonVars

\* "repulled" is true of a service that the repull has stopped: it has been started
\* since the request came in, by the repull or, when its own start finds it running, by
\* a sync or another request that came in between.  A service that the stop left running
\* is the exception: where podman does not find its container either, start leaves it
\* alone, and the answer is "repulled" with the old instance.
RepullIsTrue ==
  [][\A c \in Conn :
       at[c] # "write" /\ at'[c] = "write" /\ ok'[c] /\ req[c].op = "repull" =>
         c \in fresh' \/ c \in unstopped]_daemonVars

\* Every request is answered, also one that meets a running sync: the daemon does
\* not queue behind sync.lock.
RequestAnswered == \A c \in Conn : at[c] # "read" ~> at[c] = "read"

=============================================================================
