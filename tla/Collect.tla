------------------------------- MODULE Collect -------------------------------
(***************************************************************************)
(* What a pfstrase_client reports of its host: devices_discover, which      *)
(* runs once, before main, and collect_devices, which walks directories     *)
(* under /proc every time the timer fires, while Lustre mounts and          *)
(* unmounts devices and clients come and go.                                *)
(*                                                                          *)
(* A place is a directory whose stats become one entry of the report: an    *)
(* export (target and client nid), a target, a mount (llite) or an osc.     *)
(* The host's load and cpu, which are always there, are left out.  One      *)
(* event stands for all of a place's counters.  The reading server is       *)
(* reduced to calc_rates over the last report read; HostMap has the rest.   *)
(***************************************************************************)
EXTENDS Integers, Sequences, SequencesExt, FiniteSetsExt

CONSTANTS
  Places,     \* directories that may be there
  StatsType,  \* stats_type of each place's entry
  Target,     \* obd name of each place
  Nid,        \* client nid of each export, NoNid of other places
  Hosts,      \* the sets of device types a host may have
  MaxOps,     \* bound: operations counted by all exports
  MaxMishaps  \* bound: devices and places that go, restarts, lost reports

NoNid == "-"
ServerTypes == {"mds", "oss"}                 \* exports
OtherTypes  == {"target", "llite", "osc"}

ASSUME PlacesAssumption ==
  /\ IsFiniteSet(Places)
  /\ StatsType \in [Places -> ServerTypes \cup OtherTypes]
  /\ \A p \in Places : (Nid[p] = NoNid) <=> StatsType[p] \in OtherTypes
\* An export is a directory, named for its client's nid, of a target of a type.
ASSUME ExportsAssumption ==
  \A p, q \in Places :
    Nid[p] # NoNid /\ <<Nid[p], Target[p], StatsType[p]>> = <<Nid[q], Target[q], StatsType[q]>>
      => p = q
ASSUME HostsAssumption == Hosts \subseteq SUBSET {"mdt", "obdfilter", "osc"}
ASSUME BoundsAssumption == MaxOps \in Nat /\ MaxMishaps \in Nat

VARIABLES
  devices,   \* mdt, obdfilter and osc lines of the devices file, in its order
  present,   \* places that are there
  cnt,       \* their counters
  born,      \* the devices file when the daemon started
  phase,     \* the rest of collect_devices: stats types still to walk
  todo,      \* what readdir has still to return in the first of them
  data,      \* the counters read so far, per place
  host,      \* the server's omap, of the last report, and obdclass
  done,      \* history: operations ever counted
  acc,       \* history: operations ever published
  standing,  \* history: counters when the report's clock was read, of the
             \* places to be walked that have been there since
  mishaps    \* history: mishaps so far

lustre == <<devices, present, cnt, done>>
walk   == <<phase, todo, data, standing>>
vars == <<lustre, born, walk, host, acc, mishaps>>

Exports == {p \in Places : StatsType[p] \in ServerTypes}
DeviceTypes == UNION Hosts

\* The devices under which a place of a type can be.
Under(type) == CASE type = "mds"    -> {"mdt"}
                 [] type = "oss"    -> {"obdfilter"}
                 [] type = "target" -> {"mdt", "obdfilter"}
                 [] type \in {"llite", "osc"} -> {"osc"}
Loaded == {devices[i] : i \in DOMAIN devices}
\* Targets, mounts and oscs: they come with a device of their kinds.
Others(kinds) == {p \in Places \ Exports : Under(StatsType[p]) \cap kinds # {}}
CanBe(p) == Under(StatsType[p]) \cap Loaded # {}

\* devices_discover: the first line of a known type decides.  Without one the
\* class is the first of its enumeration, MDS, and its string is empty.
Known == [mdt |-> "mds", obdfilter |-> "oss", osc |-> "osc"]
\* Faulty variant: no break, so the last line decides.
LastClassStr(lines) == IF lines = <<>> THEN "" ELSE Known[lines[Len(lines)]]
ClassStr(lines) == IF lines = <<>> THEN "" ELSE Known[Head(lines)]
Class(lines)    == IF lines = <<>> THEN "mds" ELSE ClassStr(lines)

\* collect_devices: what is walked, in order, after the host's load and cpu.
Phases(class) ==
  IF class = "osc" THEN <<"llite", "osc">> ELSE <<class, "target">>

Nothing == [p \in Places |-> <<>>]

Init ==
  /\ devices \in UNION {SetToAllKPermutations(kinds) : kinds \in Hosts}
  /\ present = Others(Loaded)
  /\ cnt = [p \in Places |-> 0] /\ done = [p \in Places |-> 0]
  /\ born = devices
  /\ phase = <<>> /\ todo = {} /\ data = Nothing /\ standing = <<>>
  /\ host = [omap |-> Nothing, obdclass |-> ""]
  /\ acc = [p \in Places |-> 0]
  /\ mishaps = 0

Mishap == mishaps < MaxMishaps /\ mishaps' = mishaps + 1

-----------------------------------------------------------------------------
(* Lustre.                                                                 *)

Walking(p) == phase # <<>> /\ Head(phase) = StatsType[p]

\* Places that go: whoever reads them now finds no file.
Vanish(gone) ==
  /\ present' = present \ gone
  /\ cnt' = [p \in Places |-> IF p \in gone THEN 0 ELSE cnt[p]]
  /\ standing' = [p \in DOMAIN standing \ gone |-> standing[p]]

\* A place that appears under a walk may be returned by readdir or not, also if
\* one of its name has been returned before.
Add(new) ==
  /\ present' = present \cup new
  /\ todo' \in {todo, todo \cup {p \in new : Walking(p)}}
  /\ UNCHANGED <<cnt, done, born, phase, data, standing, host, acc, mishaps>>

Load(t) ==
  /\ t \notin Loaded /\ \E kinds \in Hosts : Loaded \cup {t} \subseteq kinds
  /\ devices' = Append(devices, t)
  /\ Add(Others({t}) \ present)

Unload(t) ==
  /\ Mishap
  /\ \E i \in DOMAIN devices : devices[i] = t /\ devices' = RemoveAt(devices, i)
  /\ Vanish({p \in present : Under(StatsType[p]) \cap (Loaded \ {t}) = {}})
  /\ UNCHANGED <<done, born, phase, todo, data, host, acc>>

Connect(p) ==
  /\ p \in Exports \ present /\ CanBe(p)
  /\ Add({p})
  /\ UNCHANGED devices

Evict(p) ==
  /\ p \in present \cap Exports /\ Mishap
  /\ Vanish({p})
  /\ UNCHANGED <<devices, done, born, phase, todo, data, host, acc>>

Operation(p) ==
  /\ p \in present \cap Exports /\ SumFunction(done) < MaxOps
  /\ cnt' = [cnt EXCEPT ![p] = @ + 1] /\ done' = [done EXCEPT ![p] = @ + 1]
  /\ UNCHANGED <<devices, present, born, walk, host, acc, mishaps>>

-----------------------------------------------------------------------------
(* The daemon.                                                             *)

\* devices_discover runs when the process starts, and never again: a reload of
\* the configuration does not repeat it.
Restart ==
  /\ Mishap
  /\ born' = devices
  /\ phase' = <<>> /\ todo' = {} /\ data' = Nothing /\ standing' = <<>>
  /\ UNCHANGED <<lustre, host, acc>>

\* opendir and what readdir will return: the directory of a type is there as long
\* as a device of the type is.
Listing(type) == {p \in present : StatsType[p] = type}

\* sock_timer_cb, sock_send_data: collect_devices reads the clock and begins.
BeginWalk ==
  /\ phase = <<>>
  /\ phase' = Phases(Class(born))
  /\ todo' = Listing(Head(phase'))
  /\ data' = Nothing
  /\ standing' = [p \in {p \in present : StatsType[p] \in Range(phase')} |-> cnt[p]]
  /\ UNCHANGED <<lustre, born, host, acc, mishaps>>

\* Faulty variant: a directory that cannot be read ends the walk of its type.
ReadOrLeave(p, entry) ==
  /\ p \in todo
  /\ todo' = IF p \in present THEN todo \ {p} ELSE {}
  /\ data' = [data EXCEPT ![p] = IF p \in present /\ entry THEN Append(@, cnt[p]) ELSE @]
  /\ UNCHANGED <<lustre, born, phase, standing, host, acc, mishaps>>

\* What one readdir leads to, with collect_stats: a directory that is not there any
\* more, or whose files say nothing, is left out.
Read(p, entry) ==
  /\ p \in todo
  /\ todo' = todo \ {p}
  /\ data' = [data EXCEPT ![p] = IF p \in present /\ entry THEN Append(@, cnt[p]) ELSE @]
  /\ UNCHANGED <<lustre, born, phase, standing, host, acc, mishaps>>

\* An export's stats say nothing until its client has done something.
ReadExport(p) == StatsType[p] \in ServerTypes /\ Read(p, cnt[p] > 0)
ReadTarget(p) == StatsType[p] = "target" /\ Read(p, TRUE)
ReadLlite(p)  == StatsType[p] = "llite" /\ Read(p, TRUE)
ReadOsc(p)    == StatsType[p] = "osc" /\ Read(p, TRUE)
ReadPlace(p)  == ReadExport(p) \/ ReadTarget(p) \/ ReadLlite(p) \/ ReadOsc(p)

\* The end of a directory, and the next one.
NextDirectory ==
  /\ Len(phase) > 1 /\ todo = {}
  /\ phase' = Tail(phase)
  /\ todo' = Listing(Head(phase'))
  /\ UNCHANGED <<lustre, born, data, standing, host, acc, mishaps>>

WalkEnds == Len(phase) = 1 /\ todo = {}

\* Faulty variant: a key without the target.
KeyOfNid(p) == <<Nid[p], StatsType[p]>>
\* calc_rates: the key of an export's entry.  Entries without a client nid have
\* none and give no rate.
Key(p) == <<Nid[p], Target[p], StatsType[p]>>

\* What a report adds: of each key omap has the last count of the report before,
\* a key that it has not gives nothing, and nothing is negative.
Delta(p) ==
  LET before == {q \in Exports : Key(q) = Key(p) /\ host.omap[q] # <<>>}
      old    == Last(host.omap[CHOOSE q \in before : TRUE])
  IN  IF before = {} THEN 0
      ELSE SumFunction([i \in DOMAIN data[p] |-> Max({0, data[p][i] - old})])

\* Faulty variant: the report's array is kept.
EndWalkKeepingData ==
  /\ WalkEnds
  /\ phase' = <<>> /\ standing' = <<>>
  /\ UNCHANGED <<lustre, born, todo, data>>

\* json_object_put: the report is dropped, sent or not.
EndWalk ==
  /\ WalkEnds
  /\ phase' = <<>> /\ data' = Nothing /\ standing' = <<>>
  /\ UNCHANGED <<lustre, born, todo>>

\* The server reads the report and accounts it: group_statsbytags adds up the
\* entries of the type that is the host's class.
Deliver ==
  /\ EndWalk
  /\ host' = [omap |-> data, obdclass |-> ClassStr(born)]
  /\ acc' = [p \in Places |->
               IF p \in Exports /\ StatsType[p] = ClassStr(born) THEN acc[p] + Delta(p) ELSE acc[p]]
  /\ UNCHANGED mishaps

\* No name, no socket, no connection, or another report before the next copy.
Lose == EndWalk /\ Mishap /\ UNCHANGED <<host, acc>>

Daemon == Restart \/ BeginWalk \/ (\E p \in Places : ReadPlace(p)) \/ NextDirectory
          \/ Deliver \/ Lose
Next ==
  \/ \E t \in DeviceTypes : Load(t) \/ Unload(t)
  \/ \E p \in Places : Connect(p) \/ Evict(p) \/ Operation(p)
  \/ Daemon

Spec == Init /\ [][Next]_vars

\* The timer repeats and a walk under way goes on: nothing in it waits.
Fairness ==
  /\ WF_vars(BeginWalk) /\ WF_vars(NextDirectory) /\ WF_vars(Deliver)
  /\ \A p \in Places : WF_vars(ReadPlace(p))
FairSpec == Spec /\ Fairness

-----------------------------------------------------------------------------

\* Counters and readings are numbers of operations, only what is there counts, the
\* walk is some rest of collect_devices' order (collect.c 37-61, lfs_utils.c 22).
TypeOK ==
  /\ devices \in SeqOf(DeviceTypes, 3) /\ IsInjective(devices)
  /\ born \in SeqOf(DeviceTypes, 3)
  /\ present \subseteq Places /\ todo \subseteq Places
  /\ cnt \in [Places -> 0 .. MaxOps] /\ \A p \in Places \ present : cnt[p] = 0
  /\ done \in [Places -> 0 .. MaxOps] /\ \A p \in Places : acc[p] \in Nat
  /\ phase # <<>> => IsSuffix(phase, Phases(Class(born)))
  /\ phase = <<>> => todo = {} /\ data = Nothing
  /\ \A p \in todo : StatsType[p] = Head(phase)
  /\ \A p \in Places : \A i \in DOMAIN data[p] : data[p][i] \in 0 .. MaxOps
  /\ DOMAIN standing \subseteq present

\* A report is whole for what was there all along: whatever was there when the clock
\* was read (collect.c 20-26), and has not gone since, is in the report with no
\* less than its count then, whoever else comes, goes, or cannot be read in the
\* course of the walk (exports.c 33-82, target.c 39-69, llite.c 46-94).
StandingAreReported ==
  WalkEnds =>
    \A p \in DOMAIN standing :
      (p \in Exports => standing[p] > 0)
        => data[p] # <<>> /\ Last(data[p]) >= standing[p]

\* The rates of an export add up to no more than its operations: not when its client
\* is evicted and comes back with counters at zero, not when it is in one report
\* twice, not when reports or the daemon are lost (stats.c 257-308).
NoOpCountedTwice == \A p \in Exports : acc[p] <= done[p]

\* Where the daemon found a server's device first in its list, what that server's
\* exports have counted comes to be in a report that is read as one of that class,
\* once they count no more: the daemon never gets stuck in a walk, and reports
\* after it has been started again as before (lfs_utils.c 71-93, collect.c 45-51,
\* stats.c 410-415).
Published(p) == /\ host.obdclass = StatsType[p]
                /\ host.omap[p] # <<>> /\ Last(host.omap[p]) >= cnt[p]
AllPublished ==
  \A p \in present \cap Exports :
    cnt[p] > 0 /\ born # <<>> /\ Known[Head(born)] = StatsType[p] => Published(p)
CountsComeToBePublished == []<>AllPublished
=============================================================================
