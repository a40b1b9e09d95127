-------------------------------- MODULE Host --------------------------------
(***************************************************************************)
(* The Linux host that quadsync manages, as the commands of system.go see  *)
(* it: one Unix account per container, its home with the two managed       *)
(* directories, its systemd user manager and its podman secret store.      *)
(*                                                                         *)
(* Every operator below is the effect of one external command.  A command  *)
(* that fails, or is killed by the timeout of run(), runAsUser() or        *)
(* runUserM(), is a second operator or a second disjunct, which is open to *)
(* a run only when the command is in Faulty.                               *)
(***************************************************************************)
EXTENDS Naturals

CONSTANTS
  Name,           \* account names: container stems and pod stems (Username)
  Foreign,        \* accounts that exist on the host outside the managed group
  OwnFiles,       \* what such an account keeps in the directories quadsync uses
  File,           \* base names of managed files, over all accounts
  Unit,           \* the files with extension .service or .timer
  Timer,          \* the files with extension .timer
  ContainerFile,  \* ContainerFile[n] is the file "<n>.container"
  Content,        \* complete contents a file may have
  NoFile,         \* stands for "there is no such file"
  Torn,           \* content of a file whose writing was cut short
  Secret,         \* podman secret names
  Value,          \* secret values
  NoValue,        \* stands for "there is no such secret"
  Stopped,        \* the main service is not running
  Faulty          \* the commands that may fail in this instance

ASSUME HostAssumption ==
  /\ Foreign \subseteq Name
  /\ Unit \subseteq File
  /\ Timer \subseteq Unit
  /\ ContainerFile \in [Name -> File \ Unit]
  /\ NoFile \notin Content
  /\ Torn \notin Content
  /\ Torn # NoFile
  /\ NoValue \notin Value
  /\ OwnFiles \in [File -> Content \cup {NoFile}]

VARIABLES
  user,      \* user[n]: "none", "managed" (in the managed group) or "foreign"
  linger,    \* linger[n]: logind keeps the user manager of n across boots
  disk,      \* disk[n][f]: content of f in its managed directory of n's home
  loaded,    \* loaded[n][f]: what n's user manager read at its last reload
  secrets,   \* secrets[n][s]: podman's secret store of n
  enabled,   \* enabled[n]: the timers enabled (and started) for n
  active,    \* active[n]: the units n's main service was started from
  calm       \* TRUE once commands have stopped failing (see Convergence)

hostVars == <<user, linger, disk, loaded, secrets, enabled, active>>

Files   == [File -> Content \cup {NoFile, Torn}]
NoFiles == [f \in File |-> NoFile]
Store   == [Secret -> Value \cup {NoValue}]
NoStore == [s \in Secret |-> NoValue]

ASSUME StoppedAssumption == Stopped \notin Files

HostTypeOK ==
  /\ user \in [Name -> {"none", "managed", "foreign"}]
  /\ linger \in [Name -> BOOLEAN]
  /\ disk \in [Name -> Files]
  /\ loaded \in [Name -> Files]
  /\ secrets \in [Name -> Store]
  /\ enabled \in [Name -> SUBSET Timer]
  /\ active \in [Name -> Files \cup {Stopped}]
  /\ calm \in BOOLEAN

HostInit ==
  /\ user = [n \in Name |-> IF n \in Foreign THEN "foreign" ELSE "none"]
  /\ linger = [n \in Name |-> FALSE]
  /\ disk = [n \in Name |-> IF n \in Foreign THEN OwnFiles ELSE NoFiles]
  /\ loaded = disk
  /\ secrets = [n \in Name |-> NoStore]
  /\ enabled = [n \in Name |-> {}]
  /\ active = [n \in Name |-> IF n \in Foreign THEN OwnFiles ELSE Stopped]
  /\ calm = FALSE

MayFail(cmd) == cmd \in Faulty /\ ~calm

\* A command that fails: most often it did nothing, but one that is killed by
\* the timeout after its work was done has had its effect.
Fails(cmd, effect) == MayFail(cmd) /\ (UNCHANGED hostVars \/ effect)

-----------------------------------------------------------------------------
(* Accounts: useradd, loginctl, userdel, getent.                           *)

\* useradd refuses a name that exists, in the managed group or not.
Useradd(n) ==
  /\ user[n] = "none"
  /\ user' = [user EXCEPT ![n] = "managed"]
  /\ UNCHANGED <<linger, disk, loaded, secrets, enabled, active>>

EnableLinger(n) ==
  /\ linger' = [linger EXCEPT ![n] = TRUE]
  /\ UNCHANGED <<user, disk, loaded, secrets, enabled, active>>

DisableLinger(n) ==
  /\ linger' = [linger EXCEPT ![n] = FALSE]
  /\ UNCHANGED <<user, disk, loaded, secrets, enabled, active>>

\* loginctl terminate-user ends the manager and everything it runs.  While the
\* account still lingers logind may bring the manager and its services back.
TerminateUser(n) ==
  /\ \/ /\ active' = [active EXCEPT ![n] = Stopped]
        /\ loaded' = [loaded EXCEPT ![n] = NoFiles]
     \/ linger[n] /\ UNCHANGED <<active, loaded>>
  /\ UNCHANGED <<user, linger, disk, secrets, enabled>>

\* userdel -r refuses an account that still has processes; otherwise the home
\* goes with the account: files, enabled timers and podman's store.
Userdel(n) ==
  /\ user[n] = "managed"
  /\ active[n] = Stopped
  /\ user' = [user EXCEPT ![n] = "none"]
  /\ disk' = [disk EXCEPT ![n] = NoFiles]
  /\ loaded' = [loaded EXCEPT ![n] = NoFiles]
  /\ secrets' = [secrets EXCEPT ![n] = NoStore]
  /\ enabled' = [enabled EXCEPT ![n] = {}]
  /\ UNCHANGED <<linger, active>>

ManagedUsersOf == {n \in Name : user[n] = "managed"}

-----------------------------------------------------------------------------
(* Files in the home of n, written and removed as n.                       *)

\* writeQuadletFile: "mkdir -p ... && cat > file".
PutFile(n, f, c) ==
  /\ disk' = [disk EXCEPT ![n][f] = c]
  /\ UNCHANGED <<user, linger, loaded, secrets, enabled, active>>

\* removeAllQuadlets deletes the files of both directories; one that is cut
\* short has deleted some of them.
RemoveFiles(n, gone) ==
  /\ disk' = [disk EXCEPT ![n] = [f \in File |-> IF f \in gone THEN NoFile ELSE @[f]]]
  /\ UNCHANGED <<user, linger, loaded, secrets, enabled, active>>

\* listUserUnitFiles: *.service and *.timer in the user-unit directory.
UserUnitFiles(n) == {f \in Unit : disk[n][f] # NoFile}

\* "systemctl disable --now" of a stale unit if it is a timer, then "rm -f":
\* off and gone say which of the two took effect.
DisableAndRemove(n, f, off, gone) ==
  /\ enabled' = [enabled EXCEPT ![n] = IF off THEN @ \ {f} ELSE @]
  /\ disk' = [disk EXCEPT ![n][f] = IF gone THEN NoFile ELSE @]
  /\ UNCHANGED <<user, linger, loaded, secrets, active>>

\* "podman secret create --replace".
PutSecret(n, s, v) ==
  /\ secrets' = [secrets EXCEPT ![n][s] = v]
  /\ UNCHANGED <<user, linger, disk, loaded, enabled, active>>

-----------------------------------------------------------------------------
(* The systemd user manager of n, through "systemctl --user -M n@".        *)

\* daemon-reload: systemd and podman's quadlet generator reread the home.
DaemonReload(n) ==
  /\ loaded' = [loaded EXCEPT ![n] = disk[n]]
  /\ UNCHANGED <<user, linger, disk, secrets, enabled, active>>

EnableTimer(n, f) ==
  /\ enabled' = [enabled EXCEPT ![n] = @ \cup {f}]
  /\ UNCHANGED <<user, linger, disk, loaded, secrets, active>>

DisableTimer(n, f) ==
  /\ enabled' = [enabled EXCEPT ![n] = @ \ {f}]
  /\ UNCHANGED <<user, linger, disk, loaded, secrets, active>>

\* A service is named by the quadlet file it is generated from: it exists for
\* systemd once that file is loaded.
HasService(n, f) == loaded[n][f] # NoFile

SetActive(n, a) ==
  /\ active' = [active EXCEPT ![n] = a]
  /\ UNCHANGED <<user, linger, disk, loaded, secrets, enabled>>

RestartService(n, f) == HasService(n, f) /\ SetActive(n, loaded[n])

\* A restart that fails leaves the old instance running, or nothing.
RestartServiceFails(n, f) ==
  /\ MayFail("restart") \/ ~HasService(n, f)
  /\ \/ UNCHANGED hostVars
     \/ HasService(n, f) /\ SetActive(n, Stopped)

StopService(n, f) == HasService(n, f) /\ SetActive(n, Stopped)

StopServiceFails(n, f) ==
  /\ MayFail("stop") \/ ~HasService(n, f)
  /\ UNCHANGED hostVars
=============================================================================
