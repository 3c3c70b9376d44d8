------------------------------- MODULE HostMap -------------------------------
(***************************************************************************)
(* From a file server's counters to a published rate: src/server/stats.c,  *)
(* fed by pfstrase_client on each Lustre server (sock_send_data) and read  *)
(* by set_shm_map.                                                         *)
(*                                                                         *)
(* A Lustre server counts, per export (one per client nid) and event, the  *)
(* operations done for that client, and lists only the events that have    *)
(* occurred.  pfstrase_client reports all counters with its own clock; the *)
(* aggregation server keeps the newest report and the one last accounted   *)
(* (data and odata), and publishes the differences under the job of the    *)
(* host each nid is registered to.                                         *)
(*                                                                         *)
(* Data is abstracted: a job stands for the pair of jid and uid, and a     *)
(* rate is kept as a difference and the time it took.  A row adds up the   *)
(* events, which the code keeps apart.                                     *)
(***************************************************************************)
EXTENDS Integers, FiniteSetsExt

CONSTANTS
  Servers,    \* Lustre servers (mds, oss) running pfstrase_client
  Clients,    \* compute nodes, known to the map by nid and job messages
  Nids,       \* Lustre addresses of the compute nodes
  Events,     \* kinds of operation an export counts
  Jobs,       \* values of jid/uid, "-" of an idle node among them
  MaxOps,     \* bound: operations done per counter
  MaxTime,    \* bound: values of a server host's clock
  MaxMishaps  \* bound: exports that go and restarts of the aggregation server

ASSUME HostsAssumption ==
  /\ IsFiniteSet(Nids) /\ IsFiniteSet(Events) /\ IsFiniteSet(Jobs)
  /\ Servers \cap Clients = {}
ASSUME BoundsAssumption == MaxOps \in Nat /\ MaxTime \in Nat /\ MaxMishaps \in Nat

VARIABLES
  done,       \* operations really done, per server and counter
  cnt,        \* the counters, Absent where the export lists no such event
  wire,       \* the report each server host is sending, or NoSample
  host_map,   \* known, job, cur (time and data), old (otime and odata)
  nid_map,    \* the host entry each nid refers to
  server_tag_rate_map,  \* what was last published for each host
  acc,        \* history: operations ever published, per server and counter
  first,      \* history: operations done when a counter's accounting began
  mishaps     \* history: exports gone and restarts so far

lustre  == <<done, cnt>>
maps    == <<host_map, nid_map>>
history == <<acc, first, mishaps>>
vars == <<lustre, wire, maps, server_tag_rate_map, history>>

Hosts  == Servers \cup Clients
\* A counter is that of one event in the export of one nid.
Counters == Nids \X Events
NidOf(c) == c[1]
Absent == -1
NoJob  == "*"        \* tag of an entry nobody gave a job, and of an unknown nid
NoHost == "nobody"

\* A report: the reporting host's clock and counters.  ops is what the counters
\* stand for, for the properties only.  time 0 is no report.
Samples == [time : 0 .. MaxTime, cnt : [Counters -> Absent .. MaxOps], ops : [Counters -> 0 .. MaxOps]]
NoSample == [time |-> 0, cnt |-> [c \in Counters |-> Absent], ops |-> [c \in Counters |-> 0]]

NoEntry == [known |-> FALSE, job |-> NoJob, cur |-> NoSample, old |-> NoSample]
NoRates == [time |-> 0, dt |-> 0, rows |-> [j \in Jobs \cup {NoJob} |-> 0]]

EmptyHostMap == [h \in Hosts |-> NoEntry]
EmptyNidMap  == [n \in Nids |-> NoHost]
EmptyRateMap == [h \in Hosts |-> NoRates]

Init ==
  /\ done = [s \in Servers |-> [c \in Counters |-> 0]]
  /\ cnt  = [s \in Servers |-> [c \in Counters |-> Absent]]
  /\ wire = [s \in Servers |-> NoSample]
  /\ host_map = EmptyHostMap /\ nid_map = EmptyNidMap /\ server_tag_rate_map = EmptyRateMap
  /\ acc   = [s \in Servers |-> [c \in Counters |-> 0]]
  /\ first = [s \in Servers |-> [c \in Counters |-> 0]]
  /\ mishaps = 0

-----------------------------------------------------------------------------
(* The Lustre server.                                                      *)

\* A compute node does an operation; its first one makes the event appear, and the
\* export with it.
Operation(s, c) ==
  /\ done[s][c] < MaxOps
  /\ done' = [done EXCEPT ![s][c] = @ + 1]
  /\ cnt'  = [cnt EXCEPT ![s][c] = IF @ = Absent THEN 1 ELSE @ + 1]
  /\ UNCHANGED <<wire, maps, server_tag_rate_map, history>>

\* The export goes away (umount, eviction, reboot) and will start from nothing.
ExportGone(s, n) ==
  /\ mishaps < MaxMishaps
  /\ \E c \in Counters : NidOf(c) = n /\ cnt[s][c] # Absent
  /\ cnt' = [cnt EXCEPT ![s] = [c \in Counters |-> IF NidOf(c) = n THEN Absent ELSE @[c]]]
  /\ mishaps' = mishaps + 1
  /\ UNCHANGED <<done, wire, maps, server_tag_rate_map, acc, first>>

(***************************************************************************)
(* sock_timer_cb: collect_devices reads clock and counters, and the whole  *)
(* fixed-size buffer is sent in one blocking loop, so a host has at most   *)
(* one report under way and its reports arrive in the order they were      *)
(* collected.  The clock is CLOCK_REALTIME, which may be set either way.   *)
(* A connect that fails sends nothing and keeps nothing: no step.          *)
(***************************************************************************)
SendReport(s) ==
  /\ wire[s] = NoSample
  /\ \E t \in 1 .. MaxTime :
       wire' = [wire EXCEPT ![s] = [time |-> t, cnt |-> cnt[s], ops |-> done[s]]]
  /\ UNCHANGED <<lustre, maps, server_tag_rate_map, history>>

\* The connection breaks, or the text does not parse: the RPC has no effect.
LoseReport(s) ==
  /\ wire[s] # NoSample
  /\ wire' = [wire EXCEPT ![s] = NoSample]
  /\ UNCHANGED <<lustre, maps, server_tag_rate_map, history>>

-----------------------------------------------------------------------------
(* sock_rpc: update_host_entry.                                            *)

\* An RPC with data.  Its nid, if any, is not looked at (`else if`).
ReportRpc(s) ==
  /\ wire[s] # NoSample
  /\ host_map' = [host_map EXCEPT ![s].known = TRUE, ![s].cur = wire[s]]
  /\ wire' = [wire EXCEPT ![s] = NoSample]
  /\ UNCHANGED <<lustre, nid_map, server_tag_rate_map, history>>

\* An RPC without data, from slurm_tagging, qhost.py or map_nids.py: any of job
\* and nid may be there.  nid_map gets a reference to the host's one entry, so
\* the job seen through a nid is always the host's newest.
TagRpc(h) ==
  /\ \E j \in Jobs : host_map' \in {[host_map EXCEPT ![h].known = TRUE],
                                    [host_map EXCEPT ![h].known = TRUE, ![h].job = j]}
  /\ nid_map' \in {nid_map} \cup {[nid_map EXCEPT ![n] = h] : n \in Nids}
  /\ UNCHANGED <<lustre, wire, server_tag_rate_map, history>>

-----------------------------------------------------------------------------
(* shm_timer_cb: tag_stats, then group_statsbytags, over every host.       *)

\* tag_stats: the job tag of an export, through its nid's entry.
TagOf(n) == IF nid_map[n] = NoHost THEN NoJob ELSE host_map[nid_map[n]].job

Has(sample, c) == sample.cnt[c] # Absent

\* calc_rates: no rate for an export without an older value, 0 for an event that the
\* older value does not list, and never a negative one.
Delta(old, cur, c) ==
  IF Has(old, c) /\ Has(cur, c) /\ cur.cnt[c] > old.cnt[c]
  THEN cur.cnt[c] - old.cnt[c] ELSE 0

CountersOf(j) == {c \in Counters : TagOf(NidOf(c)) = j}

\* Faulty variant: exports of unregistered nids are left out.
RowsRegistered(old, cur) ==
  [j \in Jobs \cup {NoJob} |->
     MapThenSumSet(LAMBDA c : Delta(old, cur, c),
                   {c \in CountersOf(j) : nid_map[NidOf(c)] # NoHost})]

\* aggregate_stat and add_stats: one row per tag.
Rows(old, cur) ==
  [j \in Jobs \cup {NoJob} |-> MapThenSumSet(LAMBDA c : Delta(old, cur, c), CountersOf(j))]

Baseline(e) == e.cur.time # 0 /\ e.old.time = 0

\* Faulty variants: a clock set back counts as new; one second is not enough.
IsNewEitherWay(e) == e.old.time # 0 /\ e.cur.time # e.old.time
IsNewLater(e)     == e.old.time # 0 /\ e.cur.time - e.old.time > 1

IsNew(e) == e.old.time # 0 /\ e.cur.time - e.old.time > 0

\* Faulty variants: otime and odata set only once; set even when dt <= 0.
AccountsOnce(e) == Baseline(e)
AccountsAny(e)  == e.cur.time # 0

\* The host's newest report becomes its otime and odata.
Accounts(e) == Baseline(e) \/ IsNew(e)

Tick ==
  /\ host_map' = [h \in Hosts |->
       LET e == host_map[h]
       IN  IF Accounts(e) THEN [e EXCEPT !.old = e.cur] ELSE e]
  /\ server_tag_rate_map' = [h \in Hosts |->
       LET e == host_map[h]
       IN  IF IsNew(e)
           THEN [time |-> e.cur.time, dt |-> e.cur.time - e.old.time, rows |-> Rows(e.old, e.cur)]
           ELSE server_tag_rate_map[h]]
  /\ acc' = [s \in Servers |-> [c \in Counters |->
       LET e == host_map[s]
       IN  IF IsNew(e) THEN acc[s][c] + Delta(e.old, e.cur, c) ELSE acc[s][c]]]
  /\ first' = [s \in Servers |-> [c \in Counters |->
       LET e == host_map[s]
       IN  IF Accounts(e) /\ ~ Has(e.old, c) THEN e.cur.ops[c] ELSE first[s][c]]]
  /\ UNCHANGED <<lustre, wire, nid_map, mishaps>>

\* The aggregation server ends and a new one starts with empty maps; reports
\* under way are cut off.
Restart ==
  /\ mishaps < MaxMishaps
  /\ mishaps' = mishaps + 1
  /\ wire' = [s \in Servers |-> NoSample]
  /\ host_map' = EmptyHostMap /\ nid_map' = EmptyNidMap /\ server_tag_rate_map' = EmptyRateMap
  /\ UNCHANGED <<lustre, acc, first>>

-----------------------------------------------------------------------------
Next ==
  \/ \E s \in Servers :
       \/ \E c \in Counters : Operation(s, c)
       \/ \E n \in Nids : ExportGone(s, n)
       \/ SendReport(s) \/ LoseReport(s) \/ ReportRpc(s)
  \/ \E h \in Clients : TagRpc(h)
  \/ Tick \/ Restart

Spec == Init /\ [][Next]_vars

\* The event loop serves every watcher that is ready in each of its rounds, so
\* RPCs do not put the timer off for ever.
FairSpec == Spec /\ SF_vars(Tick)

-----------------------------------------------------------------------------
Entries == [known : BOOLEAN, job : Jobs \cup {NoJob}, cur : Samples, old : Samples]
Rates == [time : 0 .. MaxTime, dt : 0 .. MaxTime, rows : [Jobs \cup {NoJob} -> Nat]]

\* The variables keep their types: no rate is negative, and none is over a negative
\* time, whatever counters and clocks do (stats.c 309-318).
TypeOK ==
  /\ done \in [Servers -> [Counters -> 0 .. MaxOps]]
  /\ cnt \in [Servers -> [Counters -> Absent .. MaxOps]]
  /\ wire \in [Servers -> Samples]
  /\ host_map \in [Hosts -> Entries]
  /\ nid_map \in [Nids -> Hosts \cup {NoHost}]
  /\ server_tag_rate_map \in [Hosts -> Rates]
  /\ acc \in [Servers -> [Counters -> 0 .. MaxOps]]
  /\ first \in [Servers -> [Counters -> 0 .. MaxOps]]
  /\ mishaps \in 0 .. MaxMishaps

\* No operation is published twice: whatever reports are lost, counters reset,
\* clocks set back and servers restarted, what has been published of an event of an
\* export is at most what was done (calc_rates 309-318 with the guard 384-386 and the
\* updates 405-406 of group_statsbytags).
NoOpCountedTwice ==
  \A s \in Servers, c \in Counters : acc[s][c] <= done[s][c]

\* None is passed over once its event is known: as long as no export went and the
\* server was not restarted, what is missing of the operations up to the last
\* accounted report is just what was done before the first accounted report that
\* lists the event, however many reports were lost or held back by a clock that was
\* set back.  That much is lost even where the export has been known for long, as
\* calc_rates has nothing to compare a new event with (stats.c 303, 311-314).
NoOpPassedOver ==
  mishaps = 0 =>
    \A s \in Servers, c \in Counters :
      LET old == host_map[s].old
      IN  Has(old, c) => acc[s][c] = old.ops[c] - first[s][c]

\* Readers never see a server's rates go back in time, or change without a later
\* time (the comment of stats.c 369), as long as this server runs.
PublishedForward ==
  [][\A h \in Hosts :
       LET was == server_tag_rate_map[h]
           is  == server_tag_rate_map'[h]
       IN  mishaps' = mishaps /\ is # was => is.time > was.time]_vars

\* What is published for a server adds up to what its exports did: nothing falls
\* between the rows, not even the load of a nid nobody registered or of a job
\* message that came between the report and the tick.
RowsAddUp ==
  [][\A s \in Servers :
       LET is == server_tag_rate_map'[s]
       IN  mishaps' = mishaps /\ is # server_tag_rate_map[s] =>
             MapThenSumSet(LAMBDA j : is.rows[j], DOMAIN is.rows)
               = MapThenSumSet(LAMBDA c : acc'[s][c] - acc[s][c], Counters)]_vars

\* A report that is newer than the one last accounted is accounted, unless a
\* later report takes its place first.
NewDataIsAccounted ==
  \A h \in Servers, t \in 1 .. MaxTime :
    (host_map[h].cur.time = t /\ t > host_map[h].old.time)
      ~> (host_map[h].old.time = t \/ host_map[h].cur.time # t)

=============================================================================
