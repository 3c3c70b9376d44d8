------------------------------- MODULE Servers -------------------------------
(***************************************************************************)
(* Several pfstrase_server processes on one host, from main to              *)
(* shmmap_server_kill: the one systemd keeps (pfstrase_server.service,      *)
(* Restart=always, no -d) and those somebody starts by hand, with the       *)
(* pfstop and pfsql processes that read what they copy.  No lock keeps      *)
(* servers apart (pfstrase_server.c 162 hides the name of the pid file).    *)
(* They share the port, the name of the semaphore and the name of the       *)
(* memory.                                                                  *)
(*                                                                          *)
(* Semaphores and memories are objects with numbers; a name leads to one or *)
(* to none, and an object lives on for those who have opened it.  ShmMap    *)
(* has one server at a time in more detail, with what a reader finds in its *)
(* memory and when a parse of it fails.  Here a parse may fail at any time, *)
(* and the question is what becomes of names, port and tokens.              *)
(***************************************************************************)
EXTENDS Integers, FiniteSets

CONSTANTS
  Inst,      \* server processes, one at a time each
  Services,  \* those that systemd starts again
  Readers    \* pfstop and pfsql processes

ASSUME InstAssumption ==
  /\ IsFiniteSet(Inst) /\ Services \subseteq Inst
  /\ IsFiniteSet(Readers) /\ Inst \cap Readers = {}

VARIABLES
  pc,         \* where each server is in main, or in set_shm_map
  sem, mem,   \* mutex_sem and mm_ptr of each server, None when it has none
  rpc, rsem,  \* where each reader is, and its mutex_sem
  semName, memName,  \* the objects the two names lead to
  val,        \* value of each semaphore
  port,       \* who listens
  armed,      \* servers whose pq_timer has been started by a SIGHUP
  told,       \* services that systemctl was told to stop
  overlapped, \* history: servers that have run together with another one
  lost        \* history: semaphores a token of which went with a failed or dead process

handles == <<sem, mem>>
readers == <<rpc, rsem>>
names   == <<semName, memName>>
vars == <<pc, handles, readers, names, val, port, armed, told, overlapped, lost>>

None   == 0
Nobody == "nobody"
Ids    == 1 .. Cardinality(Inst) + Cardinality(Readers) + 1

Up(i)      == pc[i] # "off"
Running(i) == pc[i] \in {"running", "waiting", "copying", "hit"}
Go(i, state)   == pc' = [pc EXCEPT ![i] = state]
GoRd(r, state) == rpc' = [rpc EXCEPT ![r] = state]
Copying(i) == pc[i] \in {"copying", "hit"}

\* A number for a new object: one that no name and no process refers to.
UnusedSem ==
  CHOOSE k \in Ids : k # semName /\ (\A i \in Inst : sem[i] # k) /\ (\A r \in Readers : rsem[r] # k)
UnusedMem == CHOOSE k \in Ids : k # memName /\ \A i \in Inst : mem[i] # k

\* The kernel frees an object without a name that nobody has open any more: its
\* value is that of no object.
SemKept(k) == k = semName' \/ (\E i \in Inst : sem'[i] = k) \/ (\E r \in Readers : rsem'[r] = k)
Tokens(v, l) ==
  /\ val'  = [k \in Ids |-> IF SemKept(k) THEN v[k] ELSE 0]
  /\ lost' = {k \in l : SemKept(k)}

Init ==
  /\ pc = [i \in Inst |-> "off"]
  /\ sem = [i \in Inst |-> None] /\ mem = [i \in Inst |-> None]
  /\ rpc = [r \in Readers |-> "off"]
  /\ rsem = [r \in Readers |-> None]
  /\ semName = None /\ memName = None
  /\ val = [k \in Ids |-> 0]
  /\ port = Nobody /\ armed = {} /\ told = {} /\ overlapped = {} /\ lost = {}

-----------------------------------------------------------------------------
(* main, up to the event loop.                                             *)

\* History: i meets everyone who is there.
Meets(i) ==
  LET others == {j \in Inst \ {i} : Up(j)}
  IN  overlapped' = IF others = {} THEN overlapped \ {i} ELSE overlapped \cup {i} \cup others

\* Faulty variant: no sem_unlink before sem_open.
BeginKeepingName(i) ==
  /\ pc[i] = "off"
  /\ Go(i, "unlinked") /\ Meets(i)
  /\ told' = told \ {i}
  /\ UNCHANGED <<handles, readers, names, val, port, armed, lost>>

\* read_conf_file, and sem_unlink in shmmap_server_init.
Begin(i) ==
  /\ pc[i] = "off"
  /\ Go(i, "unlinked") /\ Meets(i)
  /\ semName' = None
  /\ told' = told \ {i}
  /\ UNCHANGED <<handles, readers, memName, port, armed>>
  /\ Tokens(val, lost)

\* sem_open with O_CREAT: a new semaphore at 0, or the one of a server that is
\* starting at the same time.
OpenSem(i) ==
  /\ pc[i] = "unlinked"
  /\ LET new == semName = None
         k   == IF new THEN UnusedSem ELSE semName
     IN  /\ sem' = [sem EXCEPT ![i] = k] /\ semName' = k
         /\ val'  = IF new THEN [val EXCEPT ![k] = 0] ELSE val
         /\ lost' = IF new THEN lost \ {k} ELSE lost
  /\ Go(i, "opened")
  /\ UNCHANGED <<mem, readers, memName, port, armed, told, overlapped>>

\* Faulty variant: sem_post only for a memory that is new.
OpenMemPostNew(i) ==
  /\ pc[i] = "opened"
  /\ LET k == IF memName = None THEN UnusedMem ELSE memName
     IN  /\ mem' = [mem EXCEPT ![i] = k] /\ memName' = k
         /\ pc'  = [j \in Inst |-> IF j = i THEN "mapped"
                                  ELSE IF pc[j] = "copying" /\ mem[j] = k THEN "hit" ELSE pc[j]]
  /\ val' = IF memName = None THEN [val EXCEPT ![sem[i]] = @ + 1] ELSE val
  /\ UNCHANGED <<sem, readers, semName, port, armed, told, overlapped, lost>>

\* shm_open with O_CREAT and O_TRUNC, ftruncate, mmap, mlock, sem_post: the memory
\* a crashed server left behind is used again, emptied, and who copies into it is
\* hit.
OpenMem(i) ==
  /\ pc[i] = "opened"
  /\ LET k == IF memName = None THEN UnusedMem ELSE memName
     IN  /\ mem' = [mem EXCEPT ![i] = k] /\ memName' = k
         /\ pc'  = [j \in Inst |-> IF j = i THEN "mapped"
                                  ELSE IF pc[j] = "copying" /\ mem[j] = k THEN "hit" ELSE pc[j]]
  /\ val' = [val EXCEPT ![sem[i]] = @ + 1]
  /\ UNCHANGED <<sem, readers, semName, port, armed, told, overlapped, lost>>

\* socket_listen and the start of the timers.  When bind fails the descriptor is
\* closed but returned, and main goes on with a watcher that never gets an RPC.
Listen(i) ==
  /\ pc[i] = "mapped"
  /\ port' = IF port = Nobody THEN i ELSE port
  /\ Go(i, "running")
  /\ UNCHANGED <<handles, readers, names, val, armed, told, overlapped, lost>>

-----------------------------------------------------------------------------
(* ev_run.                                                                 *)

\* shm_timer_cb, up to sem_wait.  The loop is not back before the copy is done; the
\* handlers of libev only note a signal, and sem_wait is restarted after them.
FireTimer(i) ==
  /\ pc[i] = "running"
  /\ Go(i, "waiting")
  /\ UNCHANGED <<handles, readers, names, val, port, armed, told, overlapped, lost>>

\* sem_wait gets its token and the copy begins.
StartCopy(i) ==
  /\ pc[i] = "waiting" /\ val[sem[i]] > 0
  /\ val' = [val EXCEPT ![sem[i]] = @ - 1]
  /\ Go(i, "copying")
  /\ UNCHANGED <<handles, readers, names, port, armed, told, overlapped, lost>>

\* The end of memcpy, and sem_post.
EndCopy(i) ==
  /\ Copying(i)
  /\ val' = [val EXCEPT ![sem[i]] = @ + 1]
  /\ Go(i, "running")
  /\ UNCHANGED <<handles, readers, names, port, armed, told, overlapped, lost>>

\* The process is gone with all it had open; the names stay.
Gone(i) ==
  /\ Go(i, "off")
  /\ sem' = [sem EXCEPT ![i] = None] /\ mem' = [mem EXCEPT ![i] = None]
  /\ armed' = armed \ {i}
  /\ port' = IF port = i THEN Nobody ELSE port

\* memcpy goes on between O_TRUNC and ftruncate and dies of SIGBUS, with the token.
Fault(i) ==
  /\ pc[i] = "hit"
  /\ Gone(i)
  /\ UNCHANGED <<readers, names, told, overlapped>>
  /\ Tokens(val, lost \cup {sem[i]})

\* signal_cb_hup: the configuration is read, shm_timer starts over, and pq_timer,
\* which nobody initialised (PSQL is not defined), is started.
Reload(i) ==
  /\ pc[i] = "running"
  /\ armed' = armed \cup {i}
  /\ UNCHANGED <<pc, handles, readers, names, val, port, told, overlapped, lost>>

\* Faulty variant: without SO_REUSEADDR the port is not free again.
CrashKeepingPort(i) ==
  /\ pc[i] = "running" /\ i \in armed
  /\ Go(i, "off")
  /\ sem' = [sem EXCEPT ![i] = None] /\ mem' = [mem EXCEPT ![i] = None]
  /\ armed' = armed \ {i}
  /\ UNCHANGED <<readers, names, port, told, overlapped>>
  /\ Tokens(val, lost)

\* db_interval later pq_timer fires and libev calls its callback, a null pointer.
Crash(i) ==
  /\ pc[i] = "running" /\ i \in armed
  /\ Gone(i)
  /\ UNCHANGED <<readers, names, told, overlapped>>
  /\ Tokens(val, lost)

\* signal_cb_int: socket_destroy, ev_break.  The signal is from systemctl stop
\* (KillSignal=SIGINT), after which systemd leaves the service alone, or from
\* somebody else.
Stop(i) ==
  /\ pc[i] = "running"
  /\ port' = IF port = i THEN Nobody ELSE port
  /\ Go(i, "stopping")
  /\ told' \in {told} \cup {told \cup {j} : j \in Services \cap {i}}
  /\ UNCHANGED <<handles, readers, names, val, armed, overlapped, lost>>

\* shmmap_server_kill: munmap, closes, and sem_unlink of the name, whoever's
\* semaphore it leads to ...
Kill(i) ==
  /\ pc[i] = "stopping"
  /\ sem' = [sem EXCEPT ![i] = None] /\ mem' = [mem EXCEPT ![i] = None]
  /\ semName' = None
  /\ Go(i, "unlinking")
  /\ UNCHANGED <<readers, memName, port, armed, told, overlapped>>
  /\ Tokens(val, lost)

\* ... shm_unlink likewise, and the end of main.
Leave(i) ==
  /\ pc[i] = "unlinking"
  /\ Gone(i)
  /\ memName' = None
  /\ UNCHANGED <<readers, semName, told, overlapped>>
  /\ Tokens(val, lost)

-----------------------------------------------------------------------------
(* The readers: shmmap_client_init and get_shm_map.                        *)

\* sem_open without O_CREAT, shm_open, mmap; without the names it exits.
ReaderOpens(r) ==
  /\ rpc[r] = "off" /\ semName # None
  /\ rsem' = [rsem EXCEPT ![r] = semName]
  /\ GoRd(r, "ready")
  /\ UNCHANGED <<pc, handles, names, val, port, armed, told, overlapped, lost>>

\* sem_wait gets its token and the parse begins.
ReaderTakes(r) ==
  /\ rpc[r] = "ready" /\ val[rsem[r]] > 0
  /\ val' = [val EXCEPT ![rsem[r]] = @ - 1]
  /\ GoRd(r, "parsing")
  /\ UNCHANGED <<pc, handles, rsem, names, port, armed, told, overlapped, lost>>

\* The text parses, and sem_post.
ReaderLoads(r) ==
  /\ rpc[r] = "parsing"
  /\ val' = [val EXCEPT ![rsem[r]] = @ + 1]
  /\ GoRd(r, "ready")
  /\ UNCHANGED <<pc, handles, rsem, names, port, armed, told, overlapped, lost>>

\* It does not (zeroed memory, or torn text): goto out, past sem_post.
ReaderFails(r) ==
  /\ rpc[r] = "parsing"
  /\ lost' = lost \cup {rsem[r]}
  /\ GoRd(r, "ready")
  /\ UNCHANGED <<pc, handles, rsem, names, val, port, armed, told, overlapped>>

\* The reader leaves, is killed, or dies of SIGBUS in a memory that was emptied.
ReaderDies(r) ==
  /\ rpc[r] # "off"
  /\ rsem' = [rsem EXCEPT ![r] = None]
  /\ GoRd(r, "off")
  /\ UNCHANGED <<pc, handles, names, port, armed, told, overlapped>>
  /\ Tokens(val, IF rpc[r] = "parsing" THEN lost \cup {rsem[r]} ELSE lost)

-----------------------------------------------------------------------------
Next ==
  \/ \E i \in Inst :
       \/ Begin(i) \/ OpenSem(i) \/ OpenMem(i) \/ Listen(i)
       \/ FireTimer(i) \/ StartCopy(i) \/ EndCopy(i) \/ Fault(i)
       \/ Reload(i) \/ Crash(i) \/ Stop(i) \/ Kill(i) \/ Leave(i)
  \/ \E r \in Readers :
       ReaderOpens(r) \/ ReaderTakes(r) \/ ReaderLoads(r) \/ ReaderFails(r) \/ ReaderDies(r)

Spec == Init /\ [][Next]_vars

(***************************************************************************)
(* Fairness.  systemd starts the service again 10 s after it ended, unless  *)
(* it was told to stop it; a process that can go on does, where it waits in *)
(* sem_wait as in ShmMap: whoever posts is back at its next timer only; and *)
(* pq_timer fires: it is due db_interval after the last of the reloads,     *)
(* which are not for ever more frequent than that.  No operator has to do   *)
(* anything, and no reader has to look.                                     *)
(***************************************************************************)
Fairness ==
  /\ \A i \in Services : WF_vars(i \notin told /\ Begin(i)) /\ SF_vars(Crash(i))
  /\ \A i \in Inst :
       /\ WF_vars(OpenSem(i) \/ OpenMem(i) \/ Listen(i))
       /\ SF_vars(StartCopy(i)) /\ WF_vars(EndCopy(i)) /\ WF_vars(Kill(i) \/ Leave(i))
  /\ \A r \in Readers : WF_vars(ReaderLoads(r) \/ ReaderFails(r))

FairSpec == Spec /\ Fairness

-----------------------------------------------------------------------------
\* The variables keep their types: however the processes share a semaphore, it has no
\* more tokens than there are servers (shmmap.c 29-49, 104-106, 123-133).
TypeOK ==
  /\ pc \in [Inst -> {"off", "unlinked", "opened", "mapped", "running",
                      "waiting", "copying", "hit", "stopping", "unlinking"}]
  /\ sem \in [Inst -> Ids \cup {None}] /\ mem \in [Inst -> Ids \cup {None}]
  /\ rpc \in [Readers -> {"off", "ready", "parsing"}] /\ rsem \in [Readers -> Ids \cup {None}]
  /\ semName \in Ids \cup {None} /\ memName \in Ids \cup {None}
  /\ val \in [Ids -> 0 .. Cardinality(Inst)]
  /\ port \in Inst \cup {Nobody}
  /\ armed \subseteq Inst /\ told \subseteq Inst /\ overlapped \subseteq Inst /\ lost \subseteq Ids

\* Who has taken a token of semaphore k.
Takers(k) ==
  {i \in Inst : sem[i] = k /\ Copying(i)} \cup {r \in Readers : rsem[r] = k /\ rpc[r] = "parsing"}

\* A server that is alone serves, whatever the ones before it left behind: it has
\* the port, both names lead to its objects, and its semaphore has one token, in
\* it or with who took it last, unless a failed parse has kept that.  The names a
\* crash leaves are taken over by shmmap_server_init (28-33), and old readers keep
\* to the old semaphore.
AloneServes ==
  \A i \in Inst :
    Running(i) /\ i \notin overlapped =>
      /\ port = i /\ semName = sem[i] /\ memName = mem[i]
      /\ val[sem[i]] + Cardinality(Takers(sem[i])) = IF sem[i] \in lost THEN 0 ELSE 1

\* No wait is for ever without a cause on record: a semaphore that has a name, or that
\* somebody has open, has a token, or a server has still to post its first one, or
\* who took one has it still, or one was lost to a failed parse or a death.  So it
\* is even where servers that start at once share a semaphore, or take names, memory
\* and readers from each other (shmmap.c 28-49, 104-106, 123-133, 62).
TokensAccounted ==
  \A k \in Ids :
    \/ k # semName /\ (\A i \in Inst : sem[i] # k) /\ (\A r \in Readers : rsem[r] # k)
    \/ val[k] > 0
    \/ \E i \in Inst : sem[i] = k /\ pc[i] = "opened"
    \/ Takers(k) # {}
    \/ k \in lost

\* A service that is told to reload (ExecReload) ends and comes back, as systemd
\* starts it again: it comes to listen and to own the names, unless it is told to
\* stop, another server has been there too, or a reader's failed parse has kept the
\* token it waits for.
ReloadedServesAgain ==
  \A i \in Services :
    (i \in armed) ~> \/ pc[i] = "running" /\ i \notin armed /\ port = i /\ semName = sem[i]
                     \/ \E j \in Inst \ {i} : Up(j) \/ i \in overlapped
                     \/ i \in told
                     \/ pc[i] = "waiting" /\ sem[i] \in lost
=============================================================================
