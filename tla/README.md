# A TLA+ development of PFSTRASE

PFSTRASE watches a Lustre parallel file system. This directory holds TLA+
specifications of its C programs and scripts, TLC configurations that check
them on small instances, and proofs checked by TLAPS. Every definition is
translated from the source under `src/`; `PROJECT.json` maps each one to its
lines.

## The system

```
 file servers (mds, oss)                 aggregation host
 +-----------------+   TCP, JSON   +-----------------+  shared memory  +--------+
 | pfstrase_client | ------------> | pfstrase_server | --------------> | pfstop |
 | (collectors)    |               | host_map,       |  + semaphore    +--------+
 +-----------------+               | nid_map,        |                 +--------+    SQL
 SLURM: slurm_tagging,  ---------> | rates per tag   | --------------> | pfsql  | ------> database
 qhost.py, map_nids.py             +-----------------+                 +--------+
```

| component | state | operations | modelled by |
|---|---|---|---|
| shared-memory map (`server/shmmap.c`) | named semaphore, named memory, handles of every process | server init/kill, `set_shm_map`, client init, `get_shm_map` | `ShmMap`, `Board` |
| counters to rates (`server/stats.c`, client `socket_client.c`, `exports.c`) | `host_map` (`time`, `data`, `otime`, `odata`, jid, uid), `nid_map`, `server_tag_rate_map` | reports, tag messages, the timer: `tag_stats`, `calc_rates`, `group_statsbytags` | `HostMap` |
| job tags (`socket_server.c`, `slurm_tagging`, `qhost.py`) | the listen queue, jid and uid of each host | prolog and epilog, cron snapshots, blocking `sock_rpc` | `JobTags` |
| pid files (`daemonize.c`, `signal_cb_int`, `pfstrase_initd.sh`) | the file, its name and its lock | start, abort, stop, the script's stop, death | `PidFile` |
| database inserts (`server/pq.c`) | the statement buffer, `record_str` | one host's rates to INSERT statements | `PqInsert` |
| collectors (`client/collect.c`, `exports.c`, `target.c`, `osc.c`, `llite.c`, `cpu.c`, `sysinfo.c`, `lfs_utils.c`) | the class found at start, the report under construction | find the class once; walk `/proc`, merge, send | `Collect` |
| viewer (`server/screen.c`, `group_ratesbytags`) | the reader's map, `screen_map`, rows, grouping, scroll, `da_refresh_flag` | timer, keys, resize | `Viewer` |
| server processes (`pfstrase_server.c`, `shmmap.c`, `socket_listen`) | who has the port, the two names and the tokens | start, copy, SIGHUP, SIGINT, crash, of several servers, and their readers | `Servers` |
| timers of the daemons (`pfstrase_client.c`, `pfstrase_server.c`, `pfsql.c`) | intervals, time to the next callback, the rate last inserted | timers, SIGHUP, SIGINT, start | `Pipeline` |
| web site, deployment, `iogen`, autotools, `hostlist.py` | | | left out: display, installation, third-party code |

How the parts meet: the collectors' report is an RPC with `data`; the scripts'
messages are RPCs without. One thread in `pfstrase_server` (libev) reads a
connection to its end, updates the maps, and serves a timer that turns the maps
into `server_tag_rate_map` and copies its JSON text into shared memory under a
semaphore. Viewers and `pfsql` run timers of their own that parse that text out
under the same semaphore. Nothing is persisted: a restart of the server begins
with empty maps.

What is hard here:

* **Named kernel objects outlive names.** `sem_unlink` and `shm_unlink` leave
  the objects to those who have them open, so after a restart old readers hold
  a semaphore nobody else uses and memory that may or may not be written.
* **Death and errors under a semaphore.** Nothing recovers a token.
* **Unreliable, unacknowledged reports**, clocks that are set back and counters
  that start again, out of which differences must be published exactly once.
* **Two sources of the same fact**: a job start is told by the prolog and, from
  a snapshot of uncertain age, by `qhost.py`.
* **One thread with a blocking read** serving both network and timers.
* **Check-then-act on a pid file**, and servers that nothing keeps apart.
* **Three daemons on timers of their own**: nobody tells `pfsql` that a rate is new.
* **Directories that change under a walk**, and a class that is found only once.
* **Fixed buffers** whose boundary decides whether a statement is valid.

`PROJECT.json` lists these as hazards, each at its line, with the properties
that would catch it going wrong.

## Modules

**`ShmMap`** has one action per system call of `shmmap.c`. An object is named by
the boot of the server that created it: `sem[k]` and `mem[k]`, while `semName`
and `shmName` say what a later open would get. `spc` is the server's position
(`shmmap_server_init` is `unlinked` .. `mapped`, `set_shm_map` is `tick`,
`locked`, `copying`, `copied`), `rpc` that of each reader (`get_shm_map` is
`waiting`, `parsing`). A JSON text is one of: complete document `n`, blank
(zeroed), unsized (truncated), torn (a copy under way). A parse reads from the
contents when it began (`rsaw`) to the contents when it ends, and what it may
give depends on both. `fate` records what became of each semaphore's token.

**`Board`** is what the protocol promises, with no semaphore in it: servers take
over an empty board, publish snapshots that never go back, and a viewer that
attached to the current server sees exactly the snapshot on the board when it
looks. `ShmMap` implements it (`ImplementsBoard`) under the mapping: the board's
snapshot is the number of the last complete document in the server's memory, a
viewer is attached to the server whose semaphore it opened. A viewer of an
earlier server is promised nothing, and that is the most that is true.

**`HostMap`** follows one operation from the counter of a Lustre export to a
published rate. A counter is that of one event in the export of one nid; Lustre lists
an event only once it has occurred, and a counter that is not listed is `Absent`.
`SendReport` is the client's timer, `ReportRpc` and `TagRpc` are
`update_host_entry` with and without `data`, `Tick` is the server's timer:
`Baseline` is the first report of a host (`otime` set, no rate), `IsNew` the test
`dt > 0`, `Delta` is `calc_rates` without the division (an export without an older
value has no rate, an event that the older value does not list has rate 0), `Rows` is
`aggregate_stat`. `nid_map` refers to the one entry of a host, as the shared
json object does. Histories: `acc`, what was published of each counter; `first`, the
operations done when its accounting began.

**`JobTags`** models the listen queue as a sequence of connections, each open or
ended by its sender. `qhost.py` connects, then looks (`squeue`), then sends and
ends; its place in the queue is therefore older than its snapshot. With no job at all
its line 51 raises and nothing is sent, so that `QhostLook` needs a running job, on one
of the nodes or `Elsewhere` in the cluster.
What `nc` and a `pfstrase_client` send is fixed when they connect, and the server
sees nothing of it before their end, so their connections are queued as ended;
`TellSilent` and `AgentSilent` are those of a machine that stops dead in between.
`Receive` is `recv` returning 0, `process_rpc` and `update_host_map`. `AgentReport` is a
`pfstrase_client` on a compute node, whose reports carry jid and uid `-`.
`missed` and `covers` record which nodes' last message was lost and which
`qhost.py` runs will have made up for it.

**`PidFile`** separates the file from its name, and the three calls of
`signal_cb_int` from each other. `InitdKill` and `InitdRemove` are the init script's
stop, which removes the name whether or not the client it has signalled has begun to
stop. `StartUnlocked` is `pfstrase_server` (and `pfsql`), whose `main` assigns a local
`pid_file_name` so that `daemonize` locks nothing.

**`PqInsert`** counts bytes. A record is the text of one tag entry; `Full` is the
test of `pq.c` 108, `Fitted` is `snprintf` at the end of the buffer. `IdleEntry`
is an entry with no positive rate, which leaves `record_str` as it was: the
variable is uninitialised, so it holds what its place on the stack does, which
is the record of an earlier entry, or before the first one (`Leftover`)
nothing or bytes that are no SQL. `SkipEntry` is an entry whose tags do not parse.

**`Viewer`** is `pfstop`'s event loop: the timer (`FullRefresh`, with the flag set),
a key (`Pressed` and what it changes, then `KeyedRefresh` with the flag clear) and
SIGWINCH. `Grouped` is what `group_ratesbytags` does to the reader's map: the json
objects are shared, so a group's sum is stored in its first entry. `Rows` is what
it puts into `screen_map`. The same in-place change happens to the derived byte
rates, which are scaled each time; `value` stands for both.

**`Servers`** has several `pfstrase_server` processes from `main` to
`shmmap_server_kill`, what systemd starts again and what somebody starts by hand, and
the readers that take the tokens of their semaphores. Semaphores and memories are
numbered objects, the two names lead to one or none, the port is with one process.
`Reload` arms `pq_timer`, which only the code under `#ifdef PSQL` initialises; that
macro is defined nowhere (`configure.ac` sets an automake conditional), so `Crash`
follows: libev calls a null pointer. An `OpenMem` under another server's `memcpy`
hits it (`Fault`: SIGBUS, with the token), and the two unlinks of `shmmap_server_kill`
are two steps. A reader's parse may fail at any time (`ReaderFails` keeps the token);
when it does is in `ShmMap`, which has one server at a time in all its steps, with
the memory's text and the starts that fail. `overlapped` remembers who has run beside
another server, `lost` whose token went with a failed parse or a death, `told` the
services that `systemctl stop` has stopped.

**`Pipeline`** follows the reports of one host through three timers. A rate is the
pair of reports it is the difference of; `board` is what the memory says, `frozen`
what the memory of an earlier server says. Callbacks that are due fire in any
order before `Elapse`; `Again` is libev's rule for a repeat of 0. `calm` is the
newest report when anything was last disturbed (a reload, a stop, a crash, a
broken connection, a parse gone wrong, intervals that do not fit). A copy and a look
are single steps, as they exclude each other while server and `pfsql` have one
semaphore. `BadLook` is what happens where that is not enough: the parse meets a
memory without a text yet (`blank`), or a server with another semaphore (`Raced`, a
`pfsql` that has outlived a crash) and so torn text or, in the truncated memory,
SIGBUS (`Fault`). A parse that fails keeps the token (`lost`), and who looks or copies
next under that semaphore is `Blocked` for good. What is inserted from a torn text that
parses is no rate of any report, and not in `last`. A blocked server does not hear
SIGINT: `KillServer`.

**`Collect`** is one host: the devices file, the directories that become entries of
a report, and the daemon's walk over them, one readdir at a time (`ReadExport`,
`ReadTarget`, `ReadLlite`, `ReadOsc`). A directory that appears under the walk may be
returned or not, one that goes cannot be read. `born` is the devices file when
`devices_discover` ran. `Delta` is `calc_rates` with its key of nid, target and type,
for one event (`HostMap` has several).

How they compose: `Collect` says what a report holds, `HostMap` what the server makes
of reports, `ShmMap` how that gets into the memory, `Pipeline` how often, `PqInsert`
what one look of `pfsql` writes, `Viewer` what a screen shows. Each takes the step
before it whole; they share no variables.

`MC_*` modules extend these for TLC. The proofs are in `ShmMapProofs`, `HostMapProofs`,
`JobTagsProofs`, `CollectProofs`, `ViewerProofs`, `DaemonProofs` (of `Servers` and
`PidFile`) and `PfsqlProofs` (of `Pipeline` and `PqInsert`); `Sums` has what the proofs
need of sums over finite sets. `PidFile` and `PqInsert` are extended together with
another component there, so what others call `Init`, `Next`, `Spec` and `TypeOK` has
their prefix, `Pid` and `Pq`. Operators marked "Faulty variant" are plausible bugs of the definition
that follows them; `PROJECT.json` pairs each with the property that catches it.

## What is checked

| run | instance | question and answer |
|---|---|---|
| `shm_safety` | 2 readers, 2 server lifetimes, 2 documents, every failure | The semaphore excludes; its token is never lost unaccounted; torn maps reach only readers of an earlier server's semaphore; nobody loads a map older than the semaphore; views never go back; `Board` is implemented. |
| `shm_waiters` | 2 readers, 2 lifetimes, 2 documents each, crashes in the event loop and failed starts, fairness | A wait that does not end is behind a lost token, never behind contention; every document a server has copied, or a later one, comes to be what its readers show. |
| `shm_sync` | 1 reader, 1 server, no failure | **Violated**: see findings. |
| `host_export` | 1 export that lists 2 events, 2 operations each, 3 clock values, 2 mishaps, fairness of the tick | No operation is published twice; none of an event already listed is passed over while nothing was reset; published times only grow; a newer report comes to be accounted. |
| `host_tags` | 1 server, 2 nids, 2 nodes, 2 jobs, 2 operations per export, 2 clock values | Rows add up to what the exports did, whatever registrations and job messages come in between. |
| `job_tags` | 1 node with an agent, others that may run jobs, 2 jobs, 1 `qhost.py`, backlog 2, a restart, every fault, fairness | The job held for a node settles on the one it runs, unless its own agent had the last word; a running job comes to be shown; `sock_rpc` ends, unless its peer stopped dead. |
| `pid_lock` | 4 clients, 1 server, the init script, 3 files | Two clients at work have locked different files, one of them without a name, and only after a stop by SIGINT or by the script was asked for. |
| `viewer` | 3 entries of 2 servers, 3 groupings, uid filter, 2 heights, 2 keys between loads, fairness | Rows count every entry of a reporting server once, although keys regroup the map in place; the window lies over the rows; header and rows come to agree. |
| `pq_batches` | buffer of 7, records of 2 and 3 bytes, 6 entries | Every record gets into an executed statement, in order; it is missing only if the statement was refused or its tags do not parse, and there twice only after an idle entry. |
| `servers` | the service, one server started by hand, one reader, fairness | A server that is alone has port, names and a memory of its own, and its one token is accounted for, whatever was left behind; no semaphore that anybody has, or can open, is without a token but for a cause on record; a reloaded service comes back. |
| `pipeline` | intervals 2 or 5 (reports), 0 or 1 (memory), 0 or 3 (database), 4 reports, 3 mishaps, fairness | Rows in the database never overlap; they leave no gap while the intervals fit; a report comes to be in a row, or one of the named ends has cut it off. |
| `collect` | a host of mdt and obdfilter devices with 2 exports of one client and an osd, or a mounting host; 3 operations, 2 mishaps, fairness | What was there when the clock was read and stayed is in the report; nothing is counted twice; exports of the discovered class come to be published. |

Why the bounds are enough. Two server lifetimes are what it takes for an old and
a new object to meet; two readers, for two to meet inside one semaphore; two documents
for a reader to show the first one when it should show the second. `shm_waiters` leaves
out the deaths of readers and of a server in the middle of a copy: those lose the
token, after which the two properties promise nothing; parses that fail it has, as they
need no fault. The histories of an export need three reports (accounted, newest, under
way), hence three clock values; the second of two events may first appear in any of
them. A reset and a restart may both happen.
Three viewer entries make a group of
two and one of another server. Buffers of 7 with records of 2 and 3 end before, at and after the boundary. Two
jobs let an old snapshot and a newer message disagree, and jobs elsewhere let a
snapshot say that the node is idle; a backlog of 2 has a message wait behind an open
connection. One `qhost.py` at a time is enough for that; `TagsSettle` is proved for any
number that overlap, and any nodes. Two servers are enough for one to take the other's names,
and a reader for a token to be lost or kept between them. Four
reports make two rates with one lost between them; the intervals 5, 1 and 3 fit, 2, 1
and 3 do not, and an interval of 0 ends a timer. Two mishaps let an export go and come back and a report be lost. `CHECK_DEADLOCK FALSE` is
set where the bounded system really stops (records run out, the last server ends, a silent peer holds `sock_rpc`).

Fairness. `ShmMap`: a process that can run does; a restarted server is systemd's
`Restart=always`; whoever posts a semaphore waits for its next timer, seconds
away, so a waiter is not overtaken for ever (strong fairness on the two
`sem_wait`). Nothing makes an operator stop a server, a user quit or a process
fail. `HostMap`: libev serves every ready watcher in each round, so RPCs do not
put the timer off for ever (strong fairness of `Tick`). That takes the loop as not
blocked in `recv` or `sem_wait`; `job_tags` and `shm_waiters` say when it is. `JobTags`: the loop
accepts and receives, cron keeps starting `qhost.py`, a started script goes on or
fails, and while jobs run it does not fail for ever; TCP retries a full backlog.
`Servers`: systemd starts the service again (`RestartSec=10`) unless it was told to stop
it, a started process goes on, `sem_wait` as in `ShmMap`, `pq_timer` fires; no reader has
to look. `Pipeline`: time passes and callbacks that do not wait for a lost token run;
nobody has to start, stop or kill anything. `Collect`: the timer
repeats and no step of the walk waits for anything.
`Viewer`: the timer fires again and again, and nobody presses a key in each and
every round of the loop in which it does (strong fairness of the load).

## Findings

* `get_shm_map` (`shmmap.c` 128) leaves by `goto out` after a failed parse without
  `sem_post`. The server posts the semaphore at the end of its init, before the
  first copy, so a viewer started just then parses zero bytes, keeps the
  semaphore, and the server blocks for ever in its event loop (`shm_sync`).

Seen while modelling, without a run of their own: a viewer left open over a
restart of the server keeps the old one's data for ever (`ViewersCatchUp` says
how far the promise goes); a record that fills `query` to its last byte costs the
whole statement, and a row whose tags were cut at 256 bytes is passed over (the cases
`refused` and `skipped` of `MissingOrTwiceOnlyIf`); the first interval of an event
of an export long known is never published, as `calc_rates` has nothing to compare it
with (`first` of `NoOpPassedOver`); `qhost.py` sends nothing when no job runs, so that a
node whose epilog was lost keeps its job until some job runs; the server
and `pfsql` lock no pid file (`StartUnlocked`); a client stopped by SIGINT removes
the pid file's name only after it has unlocked it, so a second one can come to run,
and the init script removes it at once, whether or not the client has stopped
(`SecondOnlyAfterStop` says what is left); servers that vanish from the map keep
their rows in `screen_map`; a peer that stops dead stops the
server's timers (`Silent` of `ServerKeepsServing`), be it the host of `qhost.py`, a node
in its prolog or an agent; a `pfstrase_client` on a
compute node sends jid and uid `-` with each report, which `update_host_entry` writes
over the job SLURM reported (`AgentHasLastWord` of `TagsSettle`); an entry without
positive rates inserts the record before it again, because `record_str` is not
initialised (`stale` of `MissingOrTwiceOnlyIf`); `systemctl reload` ends the server 30 s
later (`Crash`), and all its maps with it; a second server takes the names away from
the first, and neither notices that its `bind` failed (`overlapped` of `AloneServes`);
after `systemctl stop` and start of the server a running `pfsql` inserts the last rates
of the old one until it is started again, after a crash it parses under a semaphore the
new server does not have, where a torn text may be inserted as it is or block `pfsql` for
ever (`shared` of `ReportsReachDatabase`), and after the database has been away it
inserts nothing more (`linked`); a host that is silent has its
last row inserted again at each `db_interval`; a daemon that starts before Lustre has
devices reports an empty class until it is started again, and a host that serves both
mdt and ost reports only one of them (`AllPublished`).

## What is proved

Every invariant the runs check, every action property and the refinement
`ImplementsBoard` is also a theorem, for all values of the constants that satisfy the
named `ASSUME`s. Each proof has the same form: an inductive invariant, a lemma that
the initial states satisfy it, one for each action (or one for each conjunct, with a
step per action) that it is kept, and a last step by temporal logic.

**`ShmMapProofs`**, for any readers, server starts, documents and failures.

* `TypeCorrect`, `Exclusion`, `Tokens`. None of the three is inductive: that a
  semaphore never exceeds 1 needs that whoever posts it holds it (tokens), and that
  needs that nobody else can hold it (exclusion). `IInv` is their conjunction with
  `Positions`, which ties a process's position to the handles it has opened.
  `ServerTokenStep` and `ReaderTokenStep` show that a step moves at most the token of
  one semaphore, and `TokenStep` adds the others up.
* `TornAcrossRestart`, `NothingOlder`, `ViewsForward`, `BoardImplemented`. `Contents`
  says which documents the memories can hold where the copy stands
  (`MemoryOfServer`), and which a reader can have loaded, or be about to, given the
  semaphore it has open (`MemoryOfReader`). `BoardImplemented` shows that `Init` maps to
  the board's initial state, and each action to one of the board's or to a stutter.

**`HostMapProofs`**, for any servers, nids, events, nodes and jobs.

* `CountedAtMostOnce`. The strengthening is `Chain`: for every counter the samples
  accounted, newest and under way, and the live counter, were taken in this order.
  From one to the next the number of operations done does not go back, and the
  counter grows by at most the operations done in between (it stands lower after a
  reset). What was published is at most what had been done when each of these
  samples was taken, so the difference of two of them can be added.
* `NothingPassedOver` adds `Complete`: until something is reset, each sample holds all
  operations done before it, so nothing lies between the first accounted sample that
  lists an event and the last one but what is published. What came before that first
  sample is `first`, not 0: the theorem promises nothing of it. `NeverBack` needs only the guard of the tick. `TypeCorrect` has in
  `Bounded` that no counter stands above what was done.
* `RowsAddUpHolds`: the exports of a server fall apart into those tagged with each
  job, and a sum over the whole is the sum over the parts (`Sums!SumOfParts`).

**`JobTagsProofs`**, for any nodes, backlog, faults, and any `qhost.py` runs that overlap.

* `TypeCorrect`, `TagsSettleHolds`. A word in the queue that is no longer true is
  harmless when a later connection that has ended speaks of the node too
  (`Superseded`). `Clean(h, p)` says so of every word from place `p` on: from the start
  unless the node was missed, and from each `qhost.py`'s own place on if it connected
  after that. That its place is older than its look is what carries the proof.

**`CollectProofs`**, for any places, classes and counters.

* `StandingReported`: `Walks` ties what is still to be read to the phase of the walk;
  `Stands` says that what was there when the clock was read is of a type still to come,
  still to be read, or in the report with no less than its count then.
* `NothingCountedTwice`: a place may be read twice in a walk, but only after it has gone
  and come back at zero. `Fits` bounds what is published, what the next report will
  add and what is not yet read, together, by the operations done.
* `TypeCorrect`.

**`ViewerProofs`**, for any entries, keys, uid filter and heights.

* `RowsCountOnceHolds`: a group has one leader (`Leader`), and in a map of ones the
  leader's sum is the group's size (`LoadedRows`). What later groupings in place leave
  in the map need only be numbers (`GroupedIs`), because rows are rebuilt only from a
  map just loaded.
* `WindowOverRowsHolds`, `TypeCorrect`: no key finds a scroll distance left by the one
  before it; each row of `screen_map` is led by an entry of its own (`RowsOf`), hence
  there are no more rows than entries (`RowsFew`).

**`DaemonProofs`**.

* `Servers`, for any number of servers and readers: `TypeCorrect`, `TokensAccountedHolds`,
  `AloneServesHolds`. A token is counted with those who have taken it or are about to
  post the first one: together they are no more than the servers (`Room`).
  `AccountedStep` follows the token of every semaphore that is in use through each step.
  `Alone` says of a server that has met no other, at each of its steps, what it has put
  where, and that its semaphore has one token, or has lost it (`OneToken`).
* `PidFile`, for any daemons and number of files: `PidFileTypeCorrect`,
  `SecondOnlyAfterStopHolds`. A lock is held by one client that has the file open
  (`Locks`, `Owners`); until a stop is asked for the name stands for every file that is
  open (`Named`).

**`PfsqlProofs`**.

* `Pipeline`, for any intervals, numbers of reports and mishaps: `TypeCorrect`;
  `Forward` from the order of `last`, `frozen`, `board`, `old` and `cur` (`Order`); `Join`
  from `Timing` as well: while the intervals fit, a report has been copied and its rate
  inserted before the client's timer runs out again.
* `PqInsert`, for any buffer, lengths and number of entries: `PqInsertTypeCorrect`,
  `InOrderHolds`, `MissingOrTwiceHolds`. Each entry with a positive rate is in an
  executed statement, in the buffer, was refused or was skipped (`Accounted`), and only in one place
  unless an idle entry repeated it (`Single`).

The assumptions are the named `ASSUME`s, which each run evaluates on its instance: sets
of processes, nids, jobs and entries are finite, bounds natural numbers, names of
different things differ. The library's induction theorems take an operator that the
installed provers cannot instantiate; where sums and least elements need induction over a finite set, `Sums`
takes a smallest set that is a counterexample (`SmallestSubset`). No module that is
proved about declares a RECURSIVE operator.

Model-checked and not proved are the liveness properties, which no installed prover can
handle (ENABLED, fairness): `WaitersGetThrough`, `ViewersCatchUp`, `NewDataIsAccounted`,
`JobComesToBeShown`, `ServerKeepsServing`, `HeaderComesToFit`, `ReloadedServesAgain`,
`ReportsReachDatabase` and `CountsComeToBePublished`. The proofs are of `Spec`, without
fairness, and so hold for `FairSpec`.

## Not modelled, and why

The derived events (`derived_events` recomputes columns out of others; `Collect` and
`Viewer` have one event stand for all); the division by `dt`; formatting and parsing of JSON; the
contents of a configuration file but the intervals; load, cpu and the local nid in a
report; `PQconnectdb` and `pq_select`; the terminal;
`fork` and `setsid`; the site's Django views; deployment.

## Plan

1. Composition of `JobTags` with `HostMap`: load is attributed to the job that ran, up
   to one report.
2. `derived_events` and the order of rows in `Viewer`.
3. The safety parts of the liveness arguments: what each of them waits for is there.
