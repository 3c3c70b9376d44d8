------------------------------- MODULE PidFile -------------------------------
(***************************************************************************)
(* One daemon per host: the pid file of src/client/daemonize.c (the same   *)
(* text as src/server/daemonize.c), and those that remove it: signal_cb_int *)
(* and the stop of the init script, src/client/pfstrase_initd.sh.           *)
(* A file outlives its name: a process that has opened it keeps it, and    *)
(* its lock, when another process unlinks the name.                        *)
(***************************************************************************)
EXTENDS Naturals, FiniteSets

CONSTANTS
  Clients,   \* pfstrase_client processes started with -d
  Others,    \* pfstrase_server (or pfsql) processes started with -d
  MaxFiles   \* bound: pid files of pfstrase_client ever created

NoOwner == "nobody"
Initd   == "initd"

ASSUME DaemonsAssumption == Clients \cap Others = {} /\ NoOwner \notin Clients \cup Others
ASSUME BoundsAssumption  == MaxFiles \in Nat

VARIABLES
  name,     \* the file pfstrase_client's pid_file_name stands for, 0 when there is none
  files,    \* files created so far
  owner,    \* who holds the lock of each file
  at, fd,   \* where each daemon is, and its pid_fd, 0 for none
  initd,    \* the init script: "killed" when a stop is between its kill and its rm
  stops     \* history: daemons that have ever begun to stop by SIGINT, and Initd

pidVars == <<name, files, owner, at, fd, initd, stops>>

Daemons == Clients \cup Others
Files  == 1 .. MaxFiles

PidInit ==
  /\ name = 0 /\ files = 0 /\ owner = [f \in Files |-> NoOwner]
  /\ at = [d \in Daemons |-> "off"] /\ fd = [d \in Daemons |-> 0]
  /\ initd = "off" /\ stops = {}

GoTo(d, state) == at' = [at EXCEPT ![d] = state]

(***************************************************************************)
(* The main of pfstrase_server and of pfsql assigns a local variable named *)
(* pid_file_name, so that daemonize finds the global one NULL there: it    *)
(* opens and locks nothing, and signal_cb_int has nothing to remove.       *)
(***************************************************************************)
StartUnlocked(d) ==
  /\ at[d] = "off"
  /\ GoTo(d, "running")
  /\ UNCHANGED <<name, files, owner, fd, initd, stops>>

StopUnlocked(d) ==
  /\ at[d] = "running"
  /\ GoTo(d, "off")
  /\ stops' = stops \cup {d}
  /\ UNCHANGED <<name, files, owner, fd, initd>>

-----------------------------------------------------------------------------
(* pfstrase_client.                                                        *)

\* Faulty variant: the name is unlinked before open, as shmmap_server_init does.
OpenAnew(d) ==
  /\ at[d] = "off"
  /\ files' = files + 1 /\ name' = files + 1
  /\ fd' = [fd EXCEPT ![d] = files + 1]
  /\ GoTo(d, "opened")
  /\ UNCHANGED <<owner, initd, stops>>

\* open with O_CREAT: the named file, or a new one.
Open(d) ==
  /\ at[d] = "off"
  /\ IF name # 0
     THEN /\ fd' = [fd EXCEPT ![d] = name]
          /\ UNCHANGED <<name, files>>
     ELSE /\ files < MaxFiles
          /\ files' = files + 1 /\ name' = files + 1
          /\ fd' = [fd EXCEPT ![d] = files + 1]
  /\ GoTo(d, "opened")
  /\ UNCHANGED <<owner, initd, stops>>

\* lockf with F_TLOCK succeeds and the pid is written.
Lock(d) ==
  /\ at[d] = "opened" /\ owner[fd[d]] = NoOwner
  /\ owner' = [owner EXCEPT ![fd[d]] = d]
  /\ GoTo(d, "running")
  /\ UNCHANGED <<name, files, fd, initd, stops>>

\* lockf fails: "already found. Abort second instance."
Abort(d) ==
  /\ at[d] = "opened" /\ owner[fd[d]] # NoOwner
  /\ GoTo(d, "off")
  /\ fd' = [fd EXCEPT ![d] = 0]
  /\ UNCHANGED <<name, files, owner, initd, stops>>

\* SIGINT: lockf with F_ULOCK ...
Unlock(d) ==
  /\ at[d] = "running"
  /\ owner' = [f \in Files |-> IF f = fd[d] THEN NoOwner ELSE owner[f]]
  /\ GoTo(d, "unlocked")
  /\ stops' = stops \cup {d}
  /\ UNCHANGED <<name, files, fd, initd>>

\* ... close ...
Close(d) ==
  /\ at[d] = "unlocked"
  /\ fd' = [fd EXCEPT ![d] = 0]
  /\ GoTo(d, "closed")
  /\ UNCHANGED <<name, files, owner, initd, stops>>

\* Faulty variant: the name is removed by a daemon that dies, too.
DieUnlinking(d) ==
  /\ at[d] # "off"
  /\ owner' = [f \in Files |-> IF owner[f] = d THEN NoOwner ELSE owner[f]]
  /\ fd' = [fd EXCEPT ![d] = 0]
  /\ name' = 0
  /\ GoTo(d, "off")
  /\ UNCHANGED <<files, initd, stops>>

\* ... unlink of the name, whatever file it stands for by now, and exit.
Unlink(d) ==
  /\ at[d] = "closed"
  /\ name' = 0
  /\ GoTo(d, "off")
  /\ UNCHANGED <<files, owner, fd, initd, stops>>

\* The process dies: the kernel releases the lock, the file stays.
Die(d) ==
  /\ at[d] # "off"
  /\ owner' = [f \in Files |-> IF owner[f] = d THEN NoOwner ELSE owner[f]]
  /\ fd' = [fd EXCEPT ![d] = 0]
  /\ GoTo(d, "off")
  /\ UNCHANGED <<name, files, initd, stops>>

-----------------------------------------------------------------------------
(* "pfstrase stop": SIGINT to the pid in the file, which the client it reaches *)
(* may handle much later (Unlock), when its send is over ...                  *)
InitdKill ==
  /\ initd = "off"
  /\ initd' = "killed"
  /\ stops' = stops \cup {Initd}
  /\ UNCHANGED <<name, files, owner, at, fd>>

\* ... and rm -f of the name, whatever file it stands for.
InitdRemove ==
  /\ initd = "killed"
  /\ initd' = "off"
  /\ name' = 0
  /\ UNCHANGED <<files, owner, at, fd, stops>>

PidNext ==
  \/ \E d \in Clients :
       Open(d) \/ Lock(d) \/ Abort(d) \/ Unlock(d) \/ Close(d) \/ Unlink(d)
  \/ \E d \in Others : StartUnlocked(d) \/ StopUnlocked(d)
  \/ \E d \in Daemons : Die(d)
  \/ InitdKill \/ InitdRemove

PidSpec == PidInit /\ [][PidNext]_pidVars

-----------------------------------------------------------------------------
\* Each daemon has one pid_fd, each file one lock, and the name stands for one file
\* or none (daemonize.c 60-80).
PidTypeOK ==
  /\ name \in 0 .. MaxFiles /\ files \in 0 .. MaxFiles
  /\ owner \in [Files -> Daemons \cup {NoOwner}]
  /\ at \in [Daemons -> {"off", "opened", "running", "unlocked", "closed"}]
  /\ fd \in [Daemons -> 0 .. MaxFiles]
  /\ initd \in {"off", "killed"} /\ stops \subseteq Daemons \cup {Initd}

\* A client has been told to stop, or the init script to stop one.
StopAsked == stops \cap (Clients \cup {Initd}) # {}

\* "%s already found. Abort second instance." (daemonize.c 77) does not quite
\* hold: signal_cb_int unlocks and closes the file before it unlinks the name, and
\* pfstrase_initd.sh (18-19) removes the name while the client it has signalled may
\* still be at work, so that another can start beside it.  What the lock does give:
\* two pfstrase_client at work have locked different files, one of them has no name
\* to its file, and a stop, by SIGINT or by the script, has been asked for.  Daemons
\* that only ever die leave a lock to rely on.
SecondOnlyAfterStop ==
  \A d, e \in Clients :
    at[d] = "running" /\ at[e] = "running" /\ d # e =>
      fd[d] # fd[e] /\ (fd[d] # name \/ fd[e] # name) /\ StopAsked

=============================================================================
