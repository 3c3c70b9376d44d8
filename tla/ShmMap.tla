------------------------------- MODULE ShmMap -------------------------------
(***************************************************************************)
(* The shared-memory map of src/server/shmmap.c: one pfstrase_server       *)
(* publishes the JSON text of server_tag_rate_map into a POSIX             *)
(* shared-memory object, and readers (pfstop viewers and pfsql) parse it   *)
(* out, both under a named POSIX semaphore.                                *)
(*                                                                         *)
(* Kernel objects outlive their names: sem_unlink and shm_unlink remove a  *)
(* name, a process that opened the object keeps it.  An object is named    *)
(* here by the boot of the server that created it, so sem[k] and mem[k]    *)
(* are the semaphore and the memory created by the k-th server process,    *)
(* and semName, shmName say which object a later open would get.           *)
(*                                                                         *)
(* A JSON text is a member of Images: complete document n of a boot, an    *)
(* all-zero file, a file that is truncated and not yet sized, or a mixture *)
(* of two texts left by a memcpy under way.                                *)
(***************************************************************************)
EXTENDS Naturals, FiniteSets

CONSTANTS
  Readers,     \* the pfstop and pfsql processes
  MaxStarts,   \* bound: server processes started, one after the other
  MaxVer,      \* bound: documents a server process can build
  Faults       \* which failures may happen, a subset of AllFaults

\* The code's own crash is in the event loop (a null callback, pfstrase_server.c 138);
\* a kill may strike anywhere.
AllFaults == {"server_crash", "server_kill", "reader_kill", "init_fail"}

ASSUME ReadersAssumption == IsFiniteSet(Readers)
ASSUME BoundsAssumption  == MaxStarts \in Nat \ {0} /\ MaxVer \in Nat \ {0}
ASSUME FaultsAssumption  == Faults \subseteq AllFaults

VARIABLES
  starts,      \* server processes started so far; the last is the current one
  semName,     \* semaphore SEM_MUTEX_NAME stands for, 0 when unlinked
  shmName,     \* memory SERVER_TAG_RATE_MAP_FILE stands for, 0 when unlinked
  sem,         \* value of each semaphore
  mem,         \* contents of each memory object
  spc,         \* where the server is
  sshm,        \* fd_shm of the server, 0 before shm_open
  ver,         \* number of the server's newest server_tag_rate_map
  rpc,         \* where each reader is
  rsem, rshm,  \* mutex_sem and fd_shm of each reader, 0 before they are opened
  rsaw,        \* memory contents when the reader's parse began
  view,        \* server_tag_rate_map of each reader
  fate         \* history: what became of each semaphore's token

kernelVars == <<semName, shmName, sem, mem>>
serverVars == <<starts, spc, sshm, ver>>
readerVars == <<rpc, rsem, rshm, rsaw, view>>
vars == <<kernelVars, serverVars, readerVars, fate>>

Boots == 1 .. MaxStarts
Image(k, b, n) == [kind |-> k, boot |-> b, n |-> n]
Images == [kind : {"unsized", "blank", "torn", "doc"},
           boot : 0 .. MaxStarts, n : 0 .. MaxVer]

NoImage == Image("blank", 0, 0)   \* memory not created, or an empty map
Garbage == Image("torn", 0, 0)    \* a mixture that happened to parse

Booting  == {"semopen", "shmopen", "sized", "mapped"}  \* sem_open .. sem_post
Writing  == {"locked", "copying", "copied"}            \* sem_wait .. sem_post
ServerPc == {"down", "unlinked", "idle", "tick", "stopping"} \cup Booting \cup Writing
ReaderPc == {"off", "semopen", "idle", "waiting", "parsing"}

\* "none" before sem_open creates the semaphore, "live" while its token is free
\* or in use, then the failure that took the token out of use for good.
Losses == {"init_fail", "kill", "parse"}
Fates  == {"none", "live"} \cup Losses

(***************************************************************************)
(* The server has the semaphore of its own boot.  A token is held by the   *)
(* process between its sem_wait and its sem_post; sem_open creates the     *)
(* semaphore with value 0, so a booting server holds it too.               *)
(***************************************************************************)
ServerHolds(k) == k = starts /\ spc \in Booting \cup Writing
ReaderHolds(r, k) == rsem[r] = k /\ rpc[r] = "parsing"
Held(k) == ServerHolds(k) \/ \E r \in Readers : ReaderHolds(r, k)

Init ==
  /\ starts = 0 /\ semName = 0 /\ shmName = 0
  /\ sem = [k \in Boots |-> 0]
  /\ mem = [k \in Boots |-> NoImage]
  /\ spc = "down" /\ sshm = 0 /\ ver = 0
  /\ rpc  = [r \in Readers |-> "off"]
  /\ rsem = [r \in Readers |-> 0]
  /\ rshm = [r \in Readers |-> 0]
  /\ rsaw = [r \in Readers |-> NoImage]
  /\ view = [r \in Readers |-> NoImage]
  /\ fate = [k \in Boots |-> "none"]

-----------------------------------------------------------------------------
(* shmmap_server_init: one action per system call.                         *)

\* The process starts: umask, sem_unlink of whatever the last one left.
SrvStart ==
  /\ spc = "down" /\ starts < MaxStarts
  /\ starts' = starts + 1
  /\ semName' = 0
  /\ spc' = "unlinked" /\ sshm' = 0 /\ ver' = 1
  /\ UNCHANGED <<shmName, sem, mem, readerVars, fate>>

\* Faulty variant: the semaphore is created free.
SrvSemOpenFree ==
  /\ spc = "unlinked"
  /\ semName' = starts
  /\ sem' = [sem EXCEPT ![starts] = 1]
  /\ fate' = [fate EXCEPT ![starts] = "live"]
  /\ spc' = "semopen"
  /\ UNCHANGED <<shmName, mem, starts, sshm, ver, readerVars>>

\* sem_open with O_CREAT and value 0.
SrvSemOpen ==
  /\ spc = "unlinked"
  /\ semName' = starts
  /\ sem' = [sem EXCEPT ![starts] = 0]
  /\ fate' = [fate EXCEPT ![starts] = "live"]
  /\ spc' = "semopen"
  /\ UNCHANGED <<shmName, mem, starts, sshm, ver, readerVars>>

\* Faulty variant: no O_TRUNC, and ftruncate to the same size keeps the contents.
SrvShmOpenKeeping ==
  /\ spc = "semopen"
  /\ shmName' = IF shmName = 0 THEN starts ELSE shmName
  /\ sshm' = shmName'
  /\ IF shmName = 0 THEN mem' = [mem EXCEPT ![starts] = Image("unsized", starts, 0)]
                    ELSE mem' = mem
  /\ spc' = IF shmName = 0 THEN "shmopen" ELSE "sized"
  /\ UNCHANGED <<semName, sem, starts, ver, readerVars, fate>>

\* shm_open with O_CREAT and O_TRUNC: a file left by a server that did not
\* unlink it is reused, and emptied under the readers that still map it.
SrvShmOpen ==
  /\ spc = "semopen"
  /\ shmName' = IF shmName = 0 THEN starts ELSE shmName
  /\ sshm' = shmName'
  /\ mem' = [mem EXCEPT ![shmName'] = Image("unsized", starts, 0)]
  /\ spc' = "shmopen"
  /\ UNCHANGED <<semName, sem, starts, ver, readerVars, fate>>

\* ftruncate to mm_size: zero pages.
SrvShmSize ==
  /\ spc = "shmopen"
  /\ mem' = [mem EXCEPT ![sshm].kind = "blank"]
  /\ spc' = "sized"
  /\ UNCHANGED <<semName, shmName, sem, starts, sshm, ver, readerVars, fate>>

\* mmap and mlock.
SrvShmMap ==
  /\ spc = "sized"
  /\ spc' = "mapped"
  /\ UNCHANGED <<kernelVars, starts, sshm, ver, readerVars, fate>>

\* The first sem_post; the event loop starts.
SrvInitPost ==
  /\ spc = "mapped"
  /\ sem' = [sem EXCEPT ![starts] = @ + 1]
  /\ spc' = "idle"
  /\ UNCHANGED <<semName, shmName, mem, starts, sshm, ver, readerVars, fate>>

\* One of the calls fails and the process exits with 1, cleaning nothing up.
SrvInitFail ==
  /\ "init_fail" \in Faults
  /\ spc \in {"unlinked"} \cup Booting
  /\ fate' = IF spc \in Booting THEN [fate EXCEPT ![starts] = "init_fail"] ELSE fate
  /\ spc' = "down"
  /\ UNCHANGED <<kernelVars, starts, sshm, ver, readerVars>>

-----------------------------------------------------------------------------
(* The running server: sock_rpc_cb and shm_timer_cb run one at a time.     *)

\* Faulty variant: the next map is built from older data.
SrvRpcBackwards ==
  /\ spc = "idle"
  /\ ver' = IF ver < MaxVer THEN ver + 1 ELSE 1
  /\ UNCHANGED <<kernelVars, starts, spc, sshm, readerVars, fate>>

\* An RPC or the passing of time makes the next map differ from the last.
SrvRpc ==
  /\ spc = "idle" /\ ver < MaxVer
  /\ ver' = ver + 1
  /\ UNCHANGED <<kernelVars, starts, spc, sshm, readerVars, fate>>

\* set_shm_map builds the text; it then blocks in sem_wait.
SrvTick ==
  /\ spc = "idle"
  /\ spc' = "tick"
  /\ UNCHANGED <<kernelVars, starts, sshm, ver, readerVars, fate>>

SrvWait ==
  /\ spc = "tick" /\ sem[starts] > 0
  /\ sem' = [sem EXCEPT ![starts] = @ - 1]
  /\ spc' = "locked"
  /\ UNCHANGED <<semName, shmName, mem, starts, sshm, ver, readerVars, fate>>

\* Faulty variant: the copy does not wait for the semaphore.
SrvCopyBeginUnlocked ==
  /\ spc \in {"tick", "locked"}
  /\ mem' = [mem EXCEPT ![sshm].kind = "torn"]
  /\ spc' = "copying"
  /\ UNCHANGED <<semName, shmName, sem, starts, sshm, ver, readerVars, fate>>

\* memcpy takes time: what it overwrites is a mixture until it ends.  boot and
\* n still name the last complete document.
SrvCopyBegin ==
  /\ spc = "locked"
  /\ mem' = [mem EXCEPT ![sshm].kind = "torn"]
  /\ spc' = "copying"
  /\ UNCHANGED <<semName, shmName, sem, starts, sshm, ver, readerVars, fate>>

SrvCopyEnd ==
  /\ spc = "copying"
  /\ mem' = [mem EXCEPT ![sshm] = Image("doc", starts, ver)]
  /\ spc' = "copied"
  /\ UNCHANGED <<semName, shmName, sem, starts, sshm, ver, readerVars, fate>>

\* Faulty variant: the sem_post after the copy is missing.
SrvPostMissing ==
  /\ spc = "copied"
  /\ spc' = "idle"
  /\ UNCHANGED <<kernelVars, starts, sshm, ver, readerVars, fate>>

SrvPost ==
  /\ spc = "copied"
  /\ sem' = [sem EXCEPT ![starts] = @ + 1]
  /\ spc' = "idle"
  /\ UNCHANGED <<semName, shmName, mem, starts, sshm, ver, readerVars, fate>>

\* SIGINT ends the event loop; shmmap_server_kill unlinks the semaphore ...
SrvStop ==
  /\ spc = "idle"
  /\ semName' = 0
  /\ spc' = "stopping"
  /\ UNCHANGED <<shmName, sem, mem, starts, sshm, ver, readerVars, fate>>

\* ... and then the memory.
SrvExit ==
  /\ spc = "stopping"
  /\ shmName' = 0
  /\ spc' = "down"
  /\ UNCHANGED <<semName, sem, mem, starts, sshm, ver, readerVars, fate>>

\* The process dies with nothing cleaned up.
SrvKill ==
  /\ \/ "server_kill" \in Faults /\ spc # "down"
     \/ "server_crash" \in Faults /\ spc = "idle"
  /\ fate' = IF ServerHolds(starts) THEN [fate EXCEPT ![starts] = "kill"] ELSE fate
  /\ spc' = "down"
  /\ UNCHANGED <<kernelVars, starts, sshm, ver, readerVars>>

-----------------------------------------------------------------------------
(* A reader: shmmap_client_init once, then get_shm_map on every timer.     *)

\* sem_open of the existing name; without one the process exits.
RdSemOpen(r) ==
  /\ rpc[r] = "off" /\ semName # 0
  /\ rsem' = [rsem EXCEPT ![r] = semName]
  /\ rpc'  = [rpc EXCEPT ![r] = "semopen"]
  /\ UNCHANGED <<kernelVars, serverVars, rshm, rsaw, view, fate>>

\* shm_open and mmap.
RdShmOpen(r) ==
  /\ rpc[r] = "semopen" /\ shmName # 0
  /\ rshm' = [rshm EXCEPT ![r] = shmName]
  /\ rpc'  = [rpc EXCEPT ![r] = "idle"]
  /\ UNCHANGED <<kernelVars, serverVars, rsem, rsaw, view, fate>>

\* The state of a reader that has exited: its descriptors and map are gone.
Gone(r) ==
  /\ rpc'  = [rpc EXCEPT ![r] = "off"]
  /\ rsem' = [rsem EXCEPT ![r] = 0]
  /\ rshm' = [rshm EXCEPT ![r] = 0]
  /\ rsaw' = [rsaw EXCEPT ![r] = NoImage]
  /\ view' = [view EXCEPT ![r] = NoImage]

\* shm_open finds no memory: exit(1).
RdNoShm(r) ==
  /\ rpc[r] = "semopen" /\ shmName = 0
  /\ Gone(r)
  /\ UNCHANGED <<kernelVars, serverVars, fate>>

\* The refresh (or insert) timer fires and get_shm_map blocks in sem_wait.
RdTick(r) ==
  /\ rpc[r] = "idle"
  /\ rpc' = [rpc EXCEPT ![r] = "waiting"]
  /\ UNCHANGED <<kernelVars, serverVars, rsem, rshm, rsaw, view, fate>>

\* Faulty variant: a sem_trywait whose result is ignored.
RdWaitIgnored(r) ==
  /\ rpc[r] = "waiting"
  /\ sem'  = [sem EXCEPT ![rsem[r]] = IF @ > 0 THEN @ - 1 ELSE @]
  /\ rpc'  = [rpc EXCEPT ![r] = "parsing"]
  /\ rsaw' = [rsaw EXCEPT ![r] = mem[rshm[r]]]
  /\ UNCHANGED <<semName, shmName, mem, serverVars, rsem, rshm, view, fate>>

RdWait(r) ==
  /\ rpc[r] = "waiting" /\ sem[rsem[r]] > 0
  /\ sem'  = [sem EXCEPT ![rsem[r]] = @ - 1]
  /\ rpc'  = [rpc EXCEPT ![r] = "parsing"]
  /\ rsaw' = [rsaw EXCEPT ![r] = mem[rshm[r]]]
  /\ UNCHANGED <<semName, shmName, mem, serverVars, rsem, rshm, view, fate>>

(***************************************************************************)
(* json_tokener_parse_verbose reads the memory over a span of time, from   *)
(* contents a to contents b.  Contents that stood still and are a document *)
(* parse to it; contents that changed, or were being changed, may parse to *)
(* either end or to a mixture, or not parse; zero bytes never parse; bytes *)
(* beyond the end of a truncated file raise SIGBUS.                        *)
(***************************************************************************)
MayParseTo(a, b) ==
  {i \in {a, b} : i.kind = "doc"}
    \cup {i \in {Garbage} : \/ "torn" \in {a.kind, b.kind}
                            \/ a # b /\ "doc" \in {a.kind, b.kind}}
MayFail(a, b)  == a # b \/ a.kind # "doc"
MayFault(a, b) == a.boot # b.boot \/ "unsized" \in {a.kind, b.kind}

\* Faulty variant: the successful path has no sem_post either.
RdLoadNoPost(r) ==
  /\ rpc[r] = "parsing"
  /\ \E i \in MayParseTo(rsaw[r], mem[rshm[r]]) : view' = [view EXCEPT ![r] = i]
  /\ rpc' = [rpc EXCEPT ![r] = "idle"]
  /\ rsaw' = [rsaw EXCEPT ![r] = NoImage]
  /\ UNCHANGED <<kernelVars, serverVars, rsem, rshm, fate>>

\* Faulty variant: a map that is there already is kept.
RdLoadFirst(r) ==
  /\ rpc[r] = "parsing"
  /\ \E i \in MayParseTo(rsaw[r], mem[rshm[r]]) :
       view' = [view EXCEPT ![r] = IF @ = NoImage THEN i ELSE @]
  /\ sem' = [sem EXCEPT ![rsem[r]] = @ + 1]
  /\ rpc' = [rpc EXCEPT ![r] = "idle"]
  /\ rsaw' = [rsaw EXCEPT ![r] = NoImage]
  /\ UNCHANGED <<semName, shmName, mem, serverVars, rsem, rshm, fate>>

\* The parse succeeds: the map is replaced and the semaphore posted.  (Both
\* are of this reader alone until the post, so they are one step.)
RdLoad(r) ==
  /\ rpc[r] = "parsing"
  /\ \E i \in MayParseTo(rsaw[r], mem[rshm[r]]) : view' = [view EXCEPT ![r] = i]
  /\ sem' = [sem EXCEPT ![rsem[r]] = @ + 1]
  /\ rpc' = [rpc EXCEPT ![r] = "idle"]
  /\ rsaw' = [rsaw EXCEPT ![r] = NoImage]
  /\ UNCHANGED <<semName, shmName, mem, serverVars, rsem, rshm, fate>>

\* The parse fails: `goto out` passes over the sem_post and the old map stays.
RdParseFail(r) ==
  /\ rpc[r] = "parsing"
  /\ MayFail(rsaw[r], mem[rshm[r]])
  /\ rpc' = [rpc EXCEPT ![r] = "idle"]
  /\ rsaw' = [rsaw EXCEPT ![r] = NoImage]
  /\ fate' = [fate EXCEPT ![rsem[r]] = "parse"]
  /\ UNCHANGED <<kernelVars, serverVars, rsem, rshm, view>>

\* The reader dies of SIGBUS in its parse, the semaphore in its hands.
RdFault(r) ==
  /\ rpc[r] = "parsing"
  /\ MayFault(rsaw[r], mem[rshm[r]])
  /\ Gone(r)
  /\ fate' = [fate EXCEPT ![rsem[r]] = "kill"]
  /\ UNCHANGED <<kernelVars, serverVars>>

\* `q`, or SIGINT: only the event loop sees them, so only between callbacks.
RdQuit(r) ==
  /\ rpc[r] = "idle"
  /\ Gone(r)
  /\ UNCHANGED <<kernelVars, serverVars, fate>>

RdKill(r) ==
  /\ "reader_kill" \in Faults
  /\ rpc[r] # "off"
  /\ Gone(r)
  /\ fate' = IF rpc[r] = "parsing" THEN [fate EXCEPT ![rsem[r]] = "kill"] ELSE fate
  /\ UNCHANGED <<kernelVars, serverVars>>

-----------------------------------------------------------------------------
SrvNext ==
  \/ SrvStart \/ SrvSemOpen \/ SrvShmOpen \/ SrvShmSize \/ SrvShmMap
  \/ SrvInitPost \/ SrvInitFail
  \/ SrvRpc \/ SrvTick \/ SrvWait \/ SrvCopyBegin \/ SrvCopyEnd \/ SrvPost
  \/ SrvStop \/ SrvExit \/ SrvKill

RdNext(r) ==
  \/ RdSemOpen(r) \/ RdShmOpen(r) \/ RdNoShm(r)
  \/ RdTick(r) \/ RdWait(r) \/ RdLoad(r) \/ RdParseFail(r) \/ RdFault(r)
  \/ RdQuit(r) \/ RdKill(r)

Next == SrvNext \/ \E r \in Readers : RdNext(r)

Spec == Init /\ [][Next]_vars

(***************************************************************************)
(* Fairness.  A process that can run does, and systemd restarts a server   *)
(* that stopped (Restart=always).  Semaphores queue nobody, but whoever    *)
(* posts comes back only at its next timer, seconds later, so a waiter is  *)
(* not overtaken for ever: strong fairness on the two sem_wait.  Timers    *)
(* keep firing.  Nothing makes an operator stop a server, a user quit or a *)
(* process fail, and nobody need start a viewer.                           *)
(***************************************************************************)
ServerGoesOn ==
  \/ SrvStart \/ SrvSemOpen \/ SrvShmOpen \/ SrvShmSize \/ SrvShmMap \/ SrvInitPost
  \/ SrvTick \/ SrvCopyBegin \/ SrvCopyEnd \/ SrvPost \/ SrvExit
ReaderGoesOn(r) ==
  \/ RdShmOpen(r) \/ RdNoShm(r) \/ RdTick(r)
  \/ RdLoad(r) \/ RdParseFail(r) \/ RdFault(r)

Fairness ==
  /\ WF_vars(ServerGoesOn) /\ SF_vars(SrvWait)
  /\ \A r \in Readers : WF_vars(ReaderGoesOn(r)) /\ SF_vars(RdWait(r))

FairSpec == Spec /\ Fairness

-----------------------------------------------------------------------------
\* The variables keep their types: a semaphore's value is 0 or 1, although servers
\* and readers post it (shmmap.c 49, 83, 106, 133).
TypeOK ==
  /\ starts \in 0 .. MaxStarts
  /\ semName \in 0 .. MaxStarts /\ shmName \in 0 .. MaxStarts
  /\ sem \in [Boots -> {0, 1}]
  /\ mem \in [Boots -> Images]
  /\ spc \in ServerPc
  /\ sshm \in 0 .. MaxStarts
  /\ ver \in 0 .. MaxVer
  /\ rpc \in [Readers -> ReaderPc]
  /\ rsem \in [Readers -> 0 .. MaxStarts]
  /\ rshm \in [Readers -> 0 .. MaxStarts]
  /\ rsaw \in [Readers -> Images]
  /\ view \in [Readers -> Images]
  /\ fate \in [Boots -> Fates]

\* A semaphore admits one process: between sem_wait and sem_post of the same
\* semaphore there are never two (shmmap.c 104-106 and 123-133), not even
\* after a restart, a kill or a failed parse.
SemaphoreExclusion ==
  \A k \in Boots :
    /\ \A r \in Readers : ~ (ServerHolds(k) /\ ReaderHolds(r, k))
    /\ \A r, q \in Readers : ReaderHolds(r, k) /\ ReaderHolds(q, k) => r = q

\* Every semaphore that can be opened is free, or someone is inside, or its
\* token is lost to a recorded failure, and only one of these.  So a semaphore
\* at 0 with nobody inside is always the mark of an exit in the middle of
\* shmmap_server_init, of a death inside, or of get_shm_map's `goto out`.
TokenConserved ==
  /\ \A k \in Boots : LET free == sem[k] = 1 IN
       /\ fate[k] = "live" <=> free \/ Held(k)
       /\ ~ (free /\ Held(k))
  /\ \A k \in {semName} \cup {rsem[r] : r \in Readers} : k # 0 => fate[k] # "none"

\* A torn map is only ever loaded by a reader that holds a semaphore of an
\* earlier server: the semaphore keeps memcpy (105) and parse (124) of one
\* server's lifetime apart, and nothing else does.
TornOnlyAcrossRestart ==
  \A r \in Readers : view[r].kind = "torn" => rsem[r] < starts

\* A reader never loads a map older than the semaphore it opened: the name
\* appears with value 0 and is posted only after the memory of the server
\* before was emptied (29-49).
NothingOlderThanSemaphore ==
  \A r \in Readers : view[r].kind = "doc" => view[r].boot >= rsem[r]

\* What one reader process shows never goes back in time: a later load is of a
\* later server or of the same server's same or later document.
Older(a, b) == a.boot < b.boot \/ (a.boot = b.boot /\ a.n <= b.n)
ViewMonotone ==
  [][\A r \in Readers :
       view[r].kind = "doc" /\ view'[r].kind = "doc" => Older(view[r], view'[r])]_vars

\* Whoever blocks in sem_wait gets through, unless the token of that semaphore
\* has been lost or the process itself ends: contention alone never starves a
\* server or a viewer.
WaitersGetThrough ==
  /\ (spc = "tick") ~> (spc # "tick" \/ fate[starts] \in Losses)
  /\ \A r \in Readers :
       (rpc[r] = "waiting") ~> (rpc[r] # "waiting" \/ fate[rsem[r]] \in Losses)

\* "Sync shared memory data based on ev shm_timer interval"
\* (pfstrase_server.c 98): with nobody killed, every started copy happens.
SyncKeepsHappening == (spc = "tick") ~> (spc = "copied")

\* "Usage can be viewed in real-time" (README.md 7), as far as it goes: whenever a server
\* has copied a document, every reader that has opened this server's semaphore
\* (whichever memory it found then) comes to show just what the memory holds, so this
\* document or a later one; or the reader ends, the token is lost, or another server
\* starts (shmmap.c 66-79, 104-106, 123-133).  A reader left over from an earlier
\* server is promised nothing.
ViewersCatchUp ==
  \A r \in Readers :
    (spc = "copied" /\ rsem[r] = starts)
      ~> \/ sshm # 0 /\ view[r] = mem[sshm]
         \/ rpc[r] = "off" \/ fate[rsem[r]] \in Losses \/ rsem[r] # starts

-----------------------------------------------------------------------------
(***************************************************************************)
(* The promise kept: what the semaphore, the copy and the parse amount to. *)
(* The board is empty until the first copy of the current server ended.    *)
(***************************************************************************)
Published == IF sshm = 0 THEN 0 ELSE mem[sshm].n
Shown == [r \in Readers |-> [boot |-> view[r].boot, n |-> view[r].n]]

BoardOf == INSTANCE Board WITH
  epoch <- starts, published <- Published, attached <- rsem, shown <- Shown

\* Readers of the current server load complete, current documents, whatever
\* fails and in whatever order the processes run (shmmap.c 26-143).
ImplementsBoard == BoardOf!Spec

=============================================================================
