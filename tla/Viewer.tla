-------------------------------- MODULE Viewer --------------------------------
(***************************************************************************)
(* pfstop: src/server/screen.c, with group_ratesbytags of stats.c.  One    *)
(* event loop serves keys, window sizes and a timer.  The timer's callback *)
(* loads the shared map, groups it by the tags chosen with a key, rebuilds *)
(* the rows and draws a window of them.  A key feeds the same callback,    *)
(* with da_refresh_flag 0: group and draw, but neither load nor rebuild.   *)
(*                                                                         *)
(* Grouping adds the rates of a group up in place: json objects of the map *)
(* are shared, and add_stats stores each sum in the group's first entry.   *)
(*                                                                         *)
(* An entry of the map stands for its rates; its value here is how many    *)
(* published entries are in it, 1 in a map just loaded.  Order, columns    *)
(* and the derived events are left out, and of the filters all but uid.    *)
(***************************************************************************)
EXTENDS Integers, FiniteSetsExt

CONSTANTS
  Entries,    \* entries ever published, in the order of the JSON text
  Keys,       \* grouping keys that are pressed, a subset of DOMAIN GroupTags
  FilterUser, \* filter_user, or Everyone
  Heights,    \* values of LINES
  MaxKeys     \* bound: keys pressed between two loads

Everyone == "everyone"

\* The tags of each case of refresh_timer_cb; "system" is the same everywhere.
GroupTags ==
  [f |-> {"server", "fid"}, u |-> {"server", "fid", "uid"},
   j |-> {"server", "fid", "jid", "uid"}, c |-> {"server", "fid", "client", "jid", "uid"},
   s |-> {"server"}, n |-> {"server"}]

\* Every entry is of a server, and comes somewhere in the text.
ASSUME EntriesAssumption ==
  /\ IsFiniteSet(DOMAIN Entries) /\ DOMAIN Entries \subseteq Nat
  /\ \A i \in DOMAIN Entries : "server" \in DOMAIN Entries[i]
ASSUME KeysAssumption   == Keys \subseteq DOMAIN GroupTags
ASSUME BoundsAssumption == MaxKeys \in Nat /\ Heights \subseteq Nat

VARIABLES
  map,             \* server_tag_rate_map: its servers, and its entries' values
  screen_map,      \* per server, the rows of its last grouping
  rows,            \* scrdata_array
  groupby,         \* the key last pressed
  group_tags,      \* the grouping the header is drawn from
  da_refresh_flag,
  lines, scroll_start, scroll_delta,
  due,             \* the timer's callback is pending
  loop,            \* running, blocked in sem_wait, or ended
  lost,            \* a failed parse has kept the semaphore
  keys,            \* keys since the last load
  seen, by         \* history: the map last loaded, and the grouping of rows

data == <<map, screen_map, rows, group_tags, lost, seen, by>>
vars == <<data, groupby, da_refresh_flag, lines, scroll_start, scroll_delta, due, loop, keys>>

Servers == {Entries[i].server : i \in DOMAIN Entries}
OfServers(S) == {i \in DOMAIN Entries : Entries[i].server \in S}

\* A map just loaded, with these servers and entries.
Loaded(S, I) == [servers |-> S, value |-> [i \in I |-> 1]]
Published == UNION {{Loaded(S, I) : I \in SUBSET OfServers(S)} : S \in SUBSET Servers}

Init ==
  /\ map = Loaded({}, {}) /\ seen = Loaded({}, {})
  /\ screen_map = [s \in Servers |-> {}] /\ rows = {}
  /\ groupby = "j" /\ group_tags = "j" /\ by = "j"
  /\ da_refresh_flag = 1
  /\ lines \in Heights /\ scroll_start = 0 /\ scroll_delta = 0
  /\ due = FALSE /\ loop = "running" /\ lost = FALSE /\ keys = 0

-----------------------------------------------------------------------------
(* group_ratesbytags.                                                      *)

Key(g, i) == [t \in GroupTags[g] \cap DOMAIN Entries[i] |-> Entries[i][t]]

\* The uid filter looks at the tags that are grouped by; cpu entries have no uid.
Passes(g, i) ==
  \/ FilterUser = Everyone
  \/ "uid" \notin GroupTags[g] \cap DOMAIN Entries[i]
  \/ Entries[i].uid = FilterUser

Group(m, g, i) == {k \in DOMAIN m.value : Passes(g, k) /\ Key(g, k) = Key(g, i)}
Total(m, I) == MapThenSumSet(LAMBDA i : m.value[i], I)

\* The entries that lead a group hold its sum.
Leads(m, g, i) == Passes(g, i) /\ i = Min(Group(m, g, i))

Grouped(m, g) ==
  [m EXCEPT !.value = [i \in DOMAIN m.value |->
     IF Leads(m, g, i) THEN Total(m, Group(m, g, i)) ELSE m.value[i]]]

\* What it puts into screen_map for server s.
Rows(m, g, s) ==
  {[key |-> Key(g, i), value |-> Total(m, Group(m, g, i))] :
     i \in {k \in DOMAIN m.value : Entries[k].server = s /\ Leads(m, g, k)}}

\* screen_map is never cleared: servers that are not in the map keep their rows.
Regroup(m) ==
  /\ map' = Grouped(m, groupby)
  /\ screen_map' = [s \in Servers |->
       IF s \in m.servers THEN Rows(m, groupby, s) ELSE screen_map[s]]
  /\ group_tags' = groupby

-----------------------------------------------------------------------------
(* screen_refresh_cb: the window over n rows.                              *)

\* Faulty variant: not cut at the first row.
ClampedAbove(start, n) == Min({start, n - (lines - 2)})

Clamped(start, n) == Max({0, Min({start, n - (lines - 2)})})

Draw(n) ==
  /\ scroll_start' = Clamped(scroll_start + scroll_delta, n)
  /\ scroll_delta' = 0
  /\ da_refresh_flag' = 1 /\ due' = FALSE

\* Faulty variant: the map is grouped again, and the rows are rebuilt, after a key.
KeyedRefreshRebuilds ==
  /\ loop = "running" /\ due /\ da_refresh_flag = 0
  /\ Regroup(map)
  /\ rows' = UNION {screen_map'[s] : s \in Servers}
  /\ by' = groupby
  /\ Draw(Cardinality(rows'))
  /\ UNCHANGED <<lost, seen, groupby, lines, loop, keys>>

\* Faulty variant: the flag is not set again.
KeyedRefreshForgets ==
  /\ loop = "running" /\ due /\ da_refresh_flag = 0
  /\ Regroup(map)
  /\ scroll_start' = Clamped(scroll_start + scroll_delta, Cardinality(rows))
  /\ scroll_delta' = 0 /\ due' = FALSE
  /\ UNCHANGED <<rows, by, lost, seen, groupby, da_refresh_flag, lines, loop, keys>>

\* refresh_timer_cb after a key.
KeyedRefresh ==
  /\ loop = "running" /\ due /\ da_refresh_flag = 0
  /\ Regroup(map)
  /\ Draw(Cardinality(rows))
  /\ UNCHANGED <<rows, by, lost, seen, groupby, lines, loop, keys>>

\* The rest of refresh_timer_cb once get_shm_map has left map m.
Rebuild(m) ==
  /\ Regroup(m)
  /\ rows' = UNION {screen_map'[s] : s \in Servers}
  /\ by' = groupby
  /\ Draw(Cardinality(rows'))
  /\ UNCHANGED <<groupby, lines, loop>>

\* Faulty variant: the window is cut to the rows there were before.
FullRefreshCutBefore ==
  /\ loop = "running" /\ due /\ da_refresh_flag = 1 /\ ~ lost
  /\ \E m \in Published :
       /\ Regroup(m) /\ seen' = m
       /\ rows' = UNION {screen_map'[s] : s \in Servers}
  /\ by' = groupby
  /\ Draw(Cardinality(rows))
  /\ keys' = 0
  /\ UNCHANGED <<groupby, lines, loop, lost>>

\* refresh_timer_cb with the flag set: whatever is published now is loaded.
FullRefresh ==
  /\ loop = "running" /\ due /\ da_refresh_flag = 1 /\ ~ lost
  /\ \E m \in Published : Rebuild(m) /\ seen' = m
  /\ keys' = 0
  /\ UNCHANGED lost

\* The parse fails: the map stays, grouped as it was, and the semaphore is kept.
RefreshParseFails ==
  /\ loop = "running" /\ due /\ da_refresh_flag = 1 /\ ~ lost
  /\ Rebuild(map)
  /\ lost' = TRUE
  /\ UNCHANGED <<seen, keys>>

\* The next load waits for the semaphore this process has kept.
RefreshBlocks ==
  /\ loop = "running" /\ due /\ da_refresh_flag = 1 /\ lost
  /\ loop' = "blocked"
  /\ UNCHANGED <<data, groupby, da_refresh_flag, lines, scroll_start, scroll_delta, due, keys>>

-----------------------------------------------------------------------------
TimerExpires ==
  /\ loop = "running" /\ ~ due
  /\ due' = TRUE
  /\ UNCHANGED <<data, groupby, da_refresh_flag, lines, scroll_start, scroll_delta, loop, keys>>

\* SIGWINCH: the new height, and the callback with the flag as it is.
Resize ==
  /\ loop = "running"
  /\ lines' \in Heights \ {lines}
  /\ due' = TRUE
  /\ UNCHANGED <<data, groupby, da_refresh_flag, scroll_start, scroll_delta, loop, keys>>

\* screen_key_cb.  Input has the highest priority but takes one key in a round,
\* and the callback it feeds runs in the same round, so no second key comes
\* before it.
Pressed ==
  /\ loop = "running" /\ da_refresh_flag = 1 /\ keys < MaxKeys
  /\ da_refresh_flag' = 0 /\ due' = TRUE /\ keys' = keys + 1
  /\ UNCHANGED <<data, lines, scroll_start, loop>>

GroupKey == \E g \in Keys : Pressed /\ groupby' = g /\ UNCHANGED scroll_delta

\* Up and down, the pages, Home and End (half the range of an int).
Far == Cardinality(DOMAIN Entries) + 1
ScrollKey ==
  /\ Pressed
  /\ \E d \in {-1, 1, -lines, lines, -Far, Far} : scroll_delta' = scroll_delta + d
  /\ UNCHANGED groupby

\* Sorting, details, unknown keys.
OtherKey == Pressed /\ UNCHANGED <<groupby, scroll_delta>>

\* `q`, SIGINT and SIGTERM, between callbacks.
Quit ==
  /\ loop = "running"
  /\ loop' = "ended"
  /\ UNCHANGED <<data, groupby, da_refresh_flag, lines, scroll_start, scroll_delta, due, keys>>

Next ==
  \/ FullRefresh \/ RefreshParseFails \/ RefreshBlocks \/ KeyedRefresh
  \/ TimerExpires \/ Resize \/ GroupKey \/ ScrollKey \/ OtherKey \/ Quit

Spec == Init /\ [][Next]_vars

\* The loop serves what is pending, and the timer fires again and again; nobody
\* presses a key in each and every round in which it does.
FairSpec ==
  /\ Spec
  /\ WF_vars(TimerExpires) /\ WF_vars(KeyedRefresh) /\ WF_vars(RefreshBlocks)
  /\ SF_vars(FullRefresh \/ RefreshParseFails)

-----------------------------------------------------------------------------
Groupings == Keys \cup {"j"}
AllRows ==
  [key : {Key(g, i) : g \in Groupings, i \in DOMAIN Entries}, value : Nat]

\* A map holds entries of the servers it names, rows have keys of groupings that are
\* offered; there are no more rows than entries, and a window of no line would begin
\* two below them (screen.c 492-541).
TypeOK ==
  /\ map.servers \subseteq Servers
  /\ DOMAIN map.value \subseteq OfServers(map.servers)
  /\ \A i \in DOMAIN map.value : map.value[i] \in Nat \ {0}
  /\ screen_map \in [Servers -> SUBSET AllRows] /\ rows \subseteq AllRows
  /\ {groupby, group_tags, by} \subseteq Groupings
  /\ da_refresh_flag \in {0, 1} /\ due \in BOOLEAN /\ lost \in BOOLEAN
  /\ lines \in Heights
  /\ scroll_start \in 0 .. Cardinality(DOMAIN Entries) + 2
  /\ scroll_delta \in {0, -1, 1, -Far, Far} \cup Heights \cup {-h : h \in Heights}
  /\ loop \in {"running", "blocked", "ended"}
  /\ keys \in 0 .. MaxKeys
  /\ seen \in Published

\* The rows of a reporting server show each entry that passes the filter exactly
\* once, although every key groups the same map again in place (add_stats 103):
\* what a key does to the map is never shown, because it is shown only after the
\* next load (screen.c 183, 473).  A failed parse ends that.
RowsCountOnce ==
  ~ lost =>
    \A s \in seen.servers :
      {r \in rows : r.key.server = s} =
        {[key |-> Key(by, i), value |-> Cardinality(Group(seen, by, i))] :
           i \in {k \in DOMAIN seen.value : Entries[k].server = s /\ Passes(by, k)}}

\* The window lies over the rows: whatever keys, new sizes and vanished rows come
\* together, it never begins before the first row, nor so late that it leaves
\* lines empty while rows are above it.
WindowOverRows ==
  ~ due => scroll_start = 0 \/ scroll_start + (lines - 2) <= Cardinality(rows)

\* The header changes at once with a grouping key and the rows only with the next
\* load; they come to agree, unless the viewer ends or hangs.
HeaderComesToFit ==
  (group_tags # by) ~> (group_tags = by \/ loop # "running")

=============================================================================
