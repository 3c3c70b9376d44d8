------------------------------- MODULE Pipeline -------------------------------
(***************************************************************************)
(* One file server's reports on their way to the database, through three   *)
(* daemons that are driven by timers of their own:                         *)
(*   pfstrase_client, every `frequency', sends a report;                   *)
(*   pfstrase_server, every `sharedmem_interval', turns the newest report  *)
(*     into rates and copies them into shared memory;                      *)
(*   pfsql, every `db_interval', inserts what it finds there.              *)
(* Nothing tells one daemon what another has done: a rate that is replaced *)
(* before pfsql looks is in no row, one that is still there is inserted    *)
(* again.  SIGHUP makes a daemon read its file and start its timer over.   *)
(*                                                                         *)
(* Time passes in units; every timer that is due fires before it goes on,  *)
(* in any order.  A report is its number, a rate the two reports it is the *)
(* difference of.  ShmMap has the system calls on semaphore and memory: a  *)
(* copy, and a look, is a single step here.  What is kept of them is what  *)
(* a look may come to: it finds a memory into which nothing has been       *)
(* copied yet, or one whose server has another semaphore, and the failed   *)
(* parse keeps the token for good.                                         *)
(***************************************************************************)
EXTENDS Integers

CONSTANTS
  Frequencies, ShmIntervals, DbIntervals, \* what the files may say; 0 is legal
  FuseInterval, \* db_interval of pfstrase_server, which no file sets (no PSQL)
  MaxReports,   \* bound: reports, after which the host is silent
  MaxMishaps    \* bound: reloads, stops, lost reports, broken connections

ASSUME IntervalsAssumption ==
  /\ Frequencies \subseteq Nat /\ ShmIntervals \subseteq Nat /\ DbIntervals \subseteq Nat
  /\ FuseInterval \in Nat \ {0}
ASSUME BoundsAssumption == MaxReports \in Nat \ {0} /\ MaxMishaps \in Nat

VARIABLES
  repeat,    \* the interval of each daemon's timer
  left,      \* time to its next callback, Off when it is not active
  fuse,      \* time to the callback of the server's pq_timer, or Off
  server,    \* "up", "stopped" by SIGINT, or "crashed"
  pfsql,     \* TRUE while it runs
  cur, old,  \* the server's newest and its last accounted report, 0 for none
  board,     \* the rate in the memory that has the name
  attached,  \* pfsql has that memory; otherwise it has an older one
  frozen,    \* the rate in the older memory
  shared,    \* pfsql has the semaphore that has the name; otherwise an older one
  blank,     \* of the two memories, "named" and "older", those with no text yet
  lost,      \* of the two semaphores, those whose token a failed parse has kept
  linked,    \* pfsql's connection to the database is good
  sent,      \* reports made
  last,      \* the rate pfsql has inserted last
  calm,      \* history: the newest report when anything was last disturbed
  mishaps    \* history: disturbances so far

timers == <<repeat, left, fuse>>
maps   == <<cur, old>>
memory == <<board, attached, frozen>>
tokens == <<shared, blank, lost>>
vars == <<timers, server, pfsql, maps, memory, tokens, linked, sent, last, calm, mishaps>>

Client == "pfstrase_client"
Server == "pfstrase_server"
Pfsql  == "pfsql"
Daemons == {Client, Server, Pfsql}

Settings == [d \in Daemons |-> CASE d = Client -> Frequencies
                                 [] d = Server -> ShmIntervals
                                 [] d = Pfsql  -> DbIntervals]

Off == -1
\* A rate: what happened after report from and up to report to.
Rate(from, to) == [from |-> from, to |-> to]
NoRate == Rate(0, 0)
Rates == [from : 0 .. MaxReports, to : 0 .. MaxReports]

\* libev, after a callback and in ev_timer_again: a repeat of 0 ends the timer.
Again(v) == IF v > 0 THEN v ELSE Off
Due(d)   == left[d] = 0
Rearm(d) == left' = [left EXCEPT ![d] = Again(repeat[d])]

\* The memory and the semaphore pfsql has.
Mem == IF attached THEN "named" ELSE "older"
Sem == IF shared THEN "named" ELSE "older"

\* Who is due to copy, or to look, and waits in sem_wait for a token that is lost.
\* Its loop does nothing else either.
Blocked(d) ==
  /\ Due(d)
  /\ \/ d = Server /\ server = "up" /\ "named" \in lost
     \/ d = Pfsql /\ pfsql /\ Sem \in lost
Serving == server = "up" /\ ~ Blocked(Server)

\* Timers lose no rate as long as pfsql looks more often than reports come, with
\* an interval of the shared memory to spare.
Fits == repeat[Server] + repeat[Pfsql] < repeat[Client]

Init ==
  /\ repeat \in {r \in [Daemons -> UNION {Settings[d] : d \in Daemons}] :
                   \A d \in Daemons : r[d] \in Settings[d]}
  /\ left = [d \in Daemons |-> 0] /\ fuse = Off
  /\ server = "up" /\ pfsql = TRUE
  /\ cur = 0 /\ old = 0
  /\ board = NoRate /\ attached = TRUE /\ frozen = NoRate
  /\ shared = TRUE /\ blank = {"named"} /\ lost = {}
  /\ linked = TRUE
  /\ sent = 0 /\ last = NoRate /\ calm = 0 /\ mishaps = 0

\* What operators and networks do; from here on only newer reports are in order.
Disturb == mishaps < MaxMishaps /\ mishaps' = mishaps + 1 /\ calm' = sent

-----------------------------------------------------------------------------
(* The three callbacks.                                                    *)

\* sock_timer_cb: the report is read by the server within this unit, or lost.  As
\* long as the intervals do not fit, or a token is lost, no report counts as
\* undisturbed.
Report ==
  /\ Due(Client)
  /\ sent' = sent + 1
  /\ calm' = IF Fits /\ lost = {} THEN calm ELSE sent'
  /\ \/ Serving /\ cur' = sent' /\ UNCHANGED mishaps
     \/ ~ Serving /\ UNCHANGED <<cur, mishaps>>
     \/ Serving /\ mishaps < MaxMishaps /\ mishaps' = mishaps + 1 /\ UNCHANGED cur
  /\ left' = [left EXCEPT ![Client] = IF sent' = MaxReports THEN Off ELSE Again(repeat[Client])]
  /\ UNCHANGED <<repeat, fuse, server, pfsql, old, memory, tokens, linked, last>>

\* Faulty variants: the accounted report never moves on; a rate lasts for one
\* interval of the shared memory.
CopyFromFirst ==
  /\ Serving /\ Due(Server)
  /\ old' = IF old = 0 THEN cur ELSE old
  /\ board' = IF 0 < old /\ old < cur THEN Rate(old, cur) ELSE board
  /\ blank' = blank \ {"named"}
  /\ Rearm(Server)
  /\ UNCHANGED <<repeat, fuse, server, pfsql, cur, attached, frozen, shared, lost, linked, sent, last,
                 calm, mishaps>>
CopyClearing ==
  /\ Serving /\ Due(Server)
  /\ old' = cur
  /\ board' = IF 0 < old /\ old < cur THEN Rate(old, cur) ELSE NoRate
  /\ blank' = blank \ {"named"}
  /\ Rearm(Server)
  /\ UNCHANGED <<repeat, fuse, server, pfsql, cur, attached, frozen, shared, lost, linked, sent, last,
                 calm, mishaps>>

\* shm_timer_cb: group_statsbytags, and set_shm_map's copy.
Copy ==
  /\ Serving /\ Due(Server)
  /\ old' = cur
  /\ board' = IF 0 < old /\ old < cur THEN Rate(old, cur) ELSE board
  /\ blank' = blank \ {"named"}
  /\ Rearm(Server)
  /\ UNCHANGED <<repeat, fuse, server, pfsql, cur, attached, frozen, shared, lost, linked, sent, last,
                 calm, mishaps>>

Looks == pfsql /\ Due(Pfsql) /\ ~ Blocked(Pfsql)

\* pq_timer_cb of pfsql: get_shm_map and pq_insert.  It looks neither at what it
\* has inserted before nor at what PQexec says.  Where the memory has no rate (any
\* more), screen_map still has the last one, which is inserted again.
Insert ==
  /\ Looks /\ Mem \notin blank
  /\ LET seen == IF attached THEN board ELSE frozen
     IN  last' = IF linked /\ seen # NoRate THEN seen ELSE last
  /\ Rearm(Pfsql)
  /\ UNCHANGED <<repeat, fuse, server, pfsql, maps, memory, tokens, linked, sent, calm, mishaps>>

\* The server that copies into pfsql's memory was started after it and has another
\* semaphore, which keeps no copy away from pfsql's parse.
Raced == server = "up" /\ attached /\ ~ shared

\* get_shm_map finds no text yet, or a torn one: the parse fails and the token is
\* kept (goto out), or the torn text parses, and pq_insert makes a row of it that is
\* no report's, and not in last.
BadLook ==
  /\ Looks /\ (Mem \in blank \/ Raced)
  /\ lost' \in {lost \cup {Sem}} \cup {l \in {lost} : Mem \notin blank}
  /\ Rearm(Pfsql)
  /\ calm' = sent
  /\ UNCHANGED <<repeat, fuse, server, pfsql, maps, memory, shared, blank, linked, sent, last, mishaps>>

\* Where a parse meets the server's O_TRUNC pfsql dies of SIGBUS.
Fault ==
  /\ pfsql /\ Raced /\ "named" \in blank
  /\ pfsql' = FALSE
  /\ left' = [left EXCEPT ![Pfsql] = Off]
  /\ calm' = sent
  /\ UNCHANGED <<repeat, fuse, server, maps, memory, tokens, linked, sent, last, mishaps>>

\* A timer that is overdue for good does not hold up the others.
Elapse ==
  /\ \A d \in Daemons : Due(d) => Blocked(d)
  /\ fuse = 0 => Blocked(Server)
  /\ left' = [d \in Daemons |-> IF left[d] \in {Off, 0} THEN left[d] ELSE left[d] - 1]
  /\ fuse' = IF fuse \in {Off, 0} THEN fuse ELSE fuse - 1
  /\ UNCHANGED <<repeat, server, pfsql, maps, memory, tokens, linked, sent, last, calm, mishaps>>

-----------------------------------------------------------------------------
(* SIGHUP, SIGINT, crashes and restarts.                                   *)

Runs(d) == CASE d = Client -> sent < MaxReports
             [] d = Server -> Serving
             [] d = Pfsql  -> pfsql /\ ~ Blocked(Pfsql)

\* Faulty variants: the new interval is added to what is left; ev_timer_again only
\* while the timer is active.
ReloadAdds(d) ==
  /\ Runs(d) /\ Disturb
  /\ \E v \in Settings[d] :
       /\ repeat' = [repeat EXCEPT ![d] = v]
       /\ left' = [left EXCEPT ![d] = @ + v]
  /\ fuse' = IF d = Server THEN FuseInterval ELSE fuse
  /\ UNCHANGED <<server, pfsql, maps, memory, tokens, linked, sent, last>>
ReloadActive(d) ==
  /\ Runs(d) /\ Disturb
  /\ \E v \in Settings[d] :
       /\ repeat' = [repeat EXCEPT ![d] = v]
       /\ left' = [left EXCEPT ![d] = IF @ = Off THEN Off ELSE Again(v)]
  /\ fuse' = IF d = Server THEN FuseInterval ELSE fuse
  /\ UNCHANGED <<server, pfsql, maps, memory, tokens, linked, sent, last>>

\* signal_cb_hup: the file is read and the timer starts over, from the whole new
\* interval.  The server's starts pq_timer too, which has no callback.
Reload(d) ==
  /\ Runs(d) /\ Disturb
  /\ \E v \in Settings[d] :
       /\ repeat' = [repeat EXCEPT ![d] = v]
       /\ left' = [left EXCEPT ![d] = Again(v)]
  /\ fuse' = IF d = Server THEN FuseInterval ELSE fuse
  /\ UNCHANGED <<server, pfsql, maps, memory, tokens, linked, sent, last>>

\* The server's maps are gone with it.
ServerGone(how) ==
  /\ server = "up" /\ server' = how
  /\ cur' = 0 /\ old' = 0
  /\ left' = [left EXCEPT ![Server] = Off] /\ fuse' = Off

\* pq_timer fires.  Memory and semaphore keep their names.
CrashServer ==
  /\ fuse = 0 /\ Serving
  /\ ServerGone("crashed")
  /\ calm' = sent
  /\ UNCHANGED <<repeat, pfsql, memory, tokens, linked, sent, last, mishaps>>

\* A server that waits for ever does not hear SIGINT either, and is killed.
KillServer ==
  /\ Blocked(Server)
  /\ ServerGone("crashed")
  /\ Disturb
  /\ UNCHANGED <<repeat, pfsql, memory, tokens, linked, sent, last>>

\* SIGINT: shmmap_server_kill unlinks both names; who has memory and semaphore keeps
\* them.
StopServer ==
  /\ Serving
  /\ ServerGone("stopped")
  /\ Disturb
  /\ board' = NoRate
  /\ frozen' = IF attached THEN board ELSE frozen
  /\ attached' = FALSE /\ shared' = FALSE
  /\ blank' = {"older" : m \in blank \cap {Mem}}
  /\ lost' = {"older" : k \in lost \cap {Sem}}
  /\ UNCHANGED <<repeat, pfsql, linked, sent, last>>

\* main of pfstrase_server, up to ev_run: the semaphore is a new one, and the memory
\* that has the name is used again, emptied.
StartServer ==
  /\ server # "up" /\ server' = "up"
  /\ \E v \in ShmIntervals : repeat' = [repeat EXCEPT ![Server] = v]
  /\ left' = [left EXCEPT ![Server] = 0]
  /\ board' = NoRate
  /\ shared' = FALSE
  /\ blank' = blank \cup {"named"}
  /\ lost' = {"older" : k \in lost \cap {Sem}}
  /\ calm' = sent
  /\ UNCHANGED <<fuse, pfsql, maps, attached, frozen, linked, sent, last, mishaps>>

StopPfsql ==
  /\ pfsql /\ pfsql' = FALSE
  /\ Disturb
  /\ left' = [left EXCEPT ![Pfsql] = Off]
  /\ UNCHANGED <<repeat, fuse, server, maps, memory, tokens, linked, sent, last>>

\* main of pfsql: shmmap_client_init needs the names, whoever's semaphore and memory
\* they lead to, and pq_connect the database.
StartPfsql ==
  /\ ~ pfsql /\ server # "stopped"
  /\ pfsql' = TRUE /\ attached' = TRUE /\ shared' = TRUE /\ linked' = TRUE
  /\ blank' = blank \ {"older"} /\ lost' = lost \ {"older"}
  /\ \E v \in DbIntervals : repeat' = [repeat EXCEPT ![Pfsql] = v]
  /\ left' = [left EXCEPT ![Pfsql] = 0]
  /\ calm' = sent
  /\ UNCHANGED <<fuse, server, maps, board, frozen, sent, last, mishaps>>

\* The database goes away; pq_insert never connects again.
BreakLink ==
  /\ linked /\ linked' = FALSE
  /\ Disturb
  /\ UNCHANGED <<timers, server, pfsql, maps, memory, tokens, sent, last>>

-----------------------------------------------------------------------------
Next ==
  \/ Report \/ Copy \/ Insert \/ BadLook \/ Fault \/ Elapse
  \/ \E d \in Daemons : Reload(d)
  \/ CrashServer \/ KillServer \/ StopServer \/ StartServer
  \/ StopPfsql \/ StartPfsql \/ BreakLink

Spec == Init /\ [][Next]_vars

(***************************************************************************)
(* Fairness.  Time goes on and callbacks run when they are due, if what    *)
(* they wait for is there.  Nobody has to start, reload, stop or kill      *)
(* anything.                                                               *)
(***************************************************************************)
Fairness ==
  /\ WF_vars(Elapse) /\ WF_vars(Report) /\ WF_vars(Copy) /\ WF_vars(Insert \/ BadLook)
  /\ WF_vars(CrashServer)

FairSpec == Spec /\ Fairness

-----------------------------------------------------------------------------
\* Timers stay within the intervals of the files read, and a host's old report is no
\* newer than its current one (pfstrase_client.c, pfstrase_server.c, pfsql.c).
TypeOK ==
  /\ \A d \in Daemons : repeat[d] \in Settings[d] /\ left[d] \in {Off, 0} \cup 0 .. repeat[d]
  /\ fuse \in Off .. FuseInterval
  /\ server \in {"up", "stopped", "crashed"} /\ pfsql \in BOOLEAN
  /\ old \in 0 .. cur /\ cur \in 0 .. sent /\ sent \in 0 .. MaxReports
  /\ board \in Rates /\ frozen \in Rates /\ last \in Rates
  /\ shared \in BOOLEAN /\ blank \subseteq {"named", "older"} /\ lost \subseteq {"named", "older"}
  /\ attached \in BOOLEAN /\ linked \in BOOLEAN
  /\ calm \in 0 .. sent /\ mishaps \in 0 .. MaxMishaps

\* No load is in the database under two times: a row is the one inserted last
\* over again, or begins where that one ended or later.  Restarts of the server
\* and of pfsql, a memory of an earlier server and lost reports do not change
\* that (stats.c 384-406; pq_insert takes the host's own "time", pq.c 60).  It is
\* about whole texts: what a pfsql that has outlived a crash makes of a torn one
\* (shmmap.c 105, 124) is no report's rate at all.
RowsForward ==
  [][last' # last => last'.from >= last.to]_vars

\* And none is left out between two rows, although no daemon waits for another,
\* as long as the intervals fit (the defaults do: 300, 1 and 30) and nothing has
\* been reloaded, stopped or disconnected since the first of them, and no look has
\* gone wrong: lost reports only make a row longer (stats.c 384-406, pfsql.c 85-89).
RowsJoin ==
  [][last' # last /\ last.to > calm => last'.from = last.to]_vars

\* What a report brought to a server that publishes comes to be inserted, in a row
\* of its own or in a later one's, after any number of reloads, even from an
\* interval of 0; unless the server or pfsql ends first, an interval is 0, the
\* connection is broken, or pfsql has another semaphore than the server, which has
\* been started after it.  In that last case it may insert an old server's rates for
\* ever, or wait for ever for the token its own failed parse has kept (pfsql.c
\* 104-110 and 186-191, shmmap.c 28-64 and 123-128).  Where they share the semaphore
\* a parse fails before the first copy only, so that neither of them ever waits for
\* ever once a load has been accounted: 0 < old.
ReportsReachDatabase ==
  \A k \in 1 .. MaxReports :
    (cur = k /\ 0 < old /\ old < k)
      ~> \/ last.to >= k
         \/ server # "up" \/ ~ pfsql \/ ~ shared \/ ~ linked
         \/ repeat[Server] = 0 \/ repeat[Pfsql] = 0

=============================================================================
