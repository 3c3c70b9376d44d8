--------------------------- MODULE HostMapProofs ---------------------------
(***************************************************************************)
(* Theorems about HostMap, for any servers, nids, events, jobs and bounds. *)
(* The argument follows one counter through the samples that hold it:      *)
(* the one last accounted, the newest received, the one under way and the  *)
(* live counter are in the order they were taken (Chain), and between two  *)
(* of them the counter never grows by more than the operations done.       *)
(* Clocks play no part: an unaccounted sample may lie in either direction  *)
(* of time.  While nothing is reset, each sample holds all operations done *)
(* before it (Complete).  What is added up for a tag is then the sum of    *)
(* the parts that the nids registered for it have.                         *)
(***************************************************************************)
EXTENDS HostMap, Sums

Old(s) == host_map[s].old
Cur(s) == host_map[s].cur
Live(s) == [cnt |-> cnt[s], ops |-> done[s]]

\* x was taken before y.  A counter that was reset in between stands lower.
Before(x, y, c) ==
  /\ x.ops[c] <= y.ops[c]
  /\ Has(x, c) => y.cnt[c] - x.cnt[c] <= y.ops[c] - x.ops[c]

\* What is known of a sample of counter c on server s, once it is a report: it is
\* older than the live counter, and what is accounted is no newer than it.
Sound(s, c, x) ==
  x.time # 0 => Before(x, Live(s), c) /\ acc[s][c] <= x.ops[c]

Chain(s, c) ==
  /\ acc[s][c] <= done[s][c]
  /\ Sound(s, c, Old(s)) /\ Sound(s, c, Cur(s)) /\ Sound(s, c, wire[s])
  /\ Old(s).time # 0 => Before(Old(s), Cur(s), c)
  /\ Old(s).time # 0 /\ wire[s].time # 0 => Before(Old(s), wire[s], c)
  /\ Cur(s).time # 0 /\ wire[s].time # 0 => Before(Cur(s), wire[s], c)

\* The types the argument needs, with names for the sets of reports and entries.
Values  == {Absent} \cup (Nat \ {0})
SampleSet == [time : Nat, cnt : [Counters -> Values], ops : [Counters -> Nat]]
EntrySet  == [known : BOOLEAN, job : Jobs \cup {NoJob}, cur : SampleSet, old : SampleSet]

Types ==
  /\ done \in [Servers -> [Counters -> Nat]]
  /\ cnt \in [Servers -> [Counters -> Values]]
  /\ wire \in [Servers -> SampleSet]
  /\ host_map \in [Hosts -> EntrySet]
  /\ acc \in [Servers -> [Counters -> Nat]]

\* A report last accounted is never newer than the newest: there is a newest.
Reported(s) ==
  /\ wire[s].time = 0 => wire[s] = NoSample
  /\ Old(s).time # 0 => Cur(s).time # 0

IInv ==
  /\ Types
  /\ \A s \in Servers : Reported(s)
  /\ \A s \in Servers, c \in Counters : Chain(s, c)

LEMMA CountersFinite == IsFiniteSet(Counters)
  BY HostsAssumption, FS_Product DEF Counters

LEMMA EmptyAre == NoSample \in SampleSet /\ NoSample.time = 0 /\ NoEntry \in EntrySet
                  /\ NoEntry.cur = NoSample /\ NoEntry.old = NoSample
  BY DEF NoSample, NoEntry, SampleSet, EntrySet, Values

LEMMA TypedSample ==
  ASSUME NEW x \in SampleSet, NEW c \in Counters
  PROVE  /\ x.time \in Nat /\ x.ops[c] \in Nat
         /\ x.cnt[c] \in Int /\ (x.cnt[c] = Absent \/ x.cnt[c] > 0)
  BY DEF SampleSet, Values, Absent

LEMMA Typed ==
  ASSUME Types, NEW s \in Servers, NEW c \in Counters
  PROVE  /\ Old(s) \in SampleSet /\ Cur(s) \in SampleSet /\ wire[s] \in SampleSet
         /\ Old(s).cnt[c] \in Int /\ Cur(s).cnt[c] \in Int
         /\ done[s][c] \in Nat /\ acc[s][c] \in Nat
         /\ cnt[s][c] \in Int /\ (cnt[s][c] = Absent \/ cnt[s][c] > 0)
<1>1. host_map[s] \in EntrySet /\ wire[s] \in SampleSet
  BY DEF Types, Hosts
<1>2. Old(s) \in SampleSet /\ Cur(s) \in SampleSet
  BY <1>1 DEF Old, Cur, EntrySet
<1>3. done[s][c] \in Nat /\ acc[s][c] \in Nat
  BY DEF Types
<1>4. cnt[s][c] \in Values
  BY DEF Types
<1> QED
  BY <1>1, <1>2, <1>3, <1>4, TypedSample DEF Values, Absent

LEMMA InitIInv == Init => IInv
<1> SUFFICES ASSUME Init PROVE IInv
  OBVIOUS
<1>1. Types
  BY EmptyAre DEF Init, EmptyHostMap, Types, Values
<1>2. \A s \in Servers : Old(s) = NoSample /\ Cur(s) = NoSample /\ wire[s] = NoSample
  BY EmptyAre DEF Init, EmptyHostMap, Old, Cur, Hosts
<1>3. \A s \in Servers : Reported(s)
  BY <1>2, EmptyAre DEF Reported
<1>4. \A s \in Servers, c \in Counters : Chain(s, c)
  BY <1>2, EmptyAre DEF Init, Chain, Sound, Absent
<1> QED
  BY <1>1, <1>3, <1>4 DEF IInv

LEMMA TypesStep == IInv /\ [Next]_vars => Types'
<1> SUFFICES ASSUME IInv, [Next]_vars PROVE Types'
  OBVIOUS
<1>0. Types
  BY DEF IInv
<1>1. ASSUME NEW s \in Servers, NEW c \in Counters, Operation(s, c) PROVE Types'
  <2>1. done[s][c] + 1 \in Nat /\ (IF cnt[s][c] = Absent THEN 1 ELSE cnt[s][c] + 1) \in Values
    BY <1>0 DEF Types, Values, Absent
  <2>2. /\ done' = [done EXCEPT ![s] = [done[s] EXCEPT ![c] = done[s][c] + 1]]
        /\ cnt' = [cnt EXCEPT ![s] = [cnt[s] EXCEPT ![c] = IF cnt[s][c] = Absent THEN 1 ELSE cnt[s][c] + 1]]
        /\ wire' = wire /\ host_map' = host_map /\ acc' = acc
    BY <1>1 DEF Operation, maps, history
  <2> QED
    BY <1>0, <2>1, <2>2 DEF Types
<1>2. ASSUME NEW s \in Servers, NEW n \in Nids, ExportGone(s, n) PROVE Types'
  <2>1. /\ done' = done /\ wire' = wire /\ host_map' = host_map /\ acc' = acc
        /\ cnt' = [cnt EXCEPT ![s] = [c \in Counters |-> IF NidOf(c) = n THEN Absent ELSE cnt[s][c]]]
    BY <1>0, <1>2 DEF ExportGone, maps, Types
  <2>2. [c \in Counters |-> IF NidOf(c) = n THEN Absent ELSE cnt[s][c]] \in [Counters -> Values]
    BY <1>0 DEF Types, Values
  <2> QED
    BY <1>0, <2>1, <2>2 DEF Types
<1>3. ASSUME NEW s \in Servers, SendReport(s) PROVE Types'
  <2>1. PICK t \in 1 .. MaxTime :
          wire' = [wire EXCEPT ![s] = [time |-> t, cnt |-> cnt[s], ops |-> done[s]]]
    BY <1>3 DEF SendReport
  <2>2. [time |-> t, cnt |-> cnt[s], ops |-> done[s]] \in SampleSet
    BY <1>0, BoundsAssumption DEF Types, SampleSet
  <2> QED
    BY <1>0, <1>3, <2>1, <2>2 DEF SendReport, lustre, maps, history, Types
<1>4. ASSUME NEW s \in Servers, LoseReport(s) PROVE Types'
  BY <1>0, <1>4, EmptyAre DEF LoseReport, lustre, maps, history, Types
<1>5. ASSUME NEW s \in Servers, ReportRpc(s) PROVE Types'
  <2>1. host_map[s] \in EntrySet /\ wire[s] \in SampleSet
    BY <1>0 DEF Types, Hosts
  <2>2. [host_map[s] EXCEPT !.known = TRUE, !.cur = wire[s]] \in EntrySet
    BY <2>1 DEF EntrySet
  <2>3. host_map' = [host_map EXCEPT ![s] = [host_map[s] EXCEPT !.known = TRUE, !.cur = wire[s]]]
    BY <1>5, <1>0 DEF ReportRpc, Types, Hosts, EntrySet
  <2>4. wire' = [wire EXCEPT ![s] = NoSample] /\ done' = done /\ cnt' = cnt /\ acc' = acc
    BY <1>5 DEF ReportRpc, lustre, history
  <2> QED
    BY <1>0, <2>2, <2>3, <2>4, EmptyAre DEF Types
<1>6. ASSUME NEW h \in Clients, TagRpc(h) PROVE Types'
  <2>1. host_map[h] \in EntrySet
    BY <1>0 DEF Types, Hosts
  <2>2. PICK j \in Jobs :
          \/ host_map' = [host_map EXCEPT ![h] = [host_map[h] EXCEPT !.known = TRUE]]
          \/ host_map' = [host_map EXCEPT ![h] = [host_map[h] EXCEPT !.known = TRUE, !.job = j]]
    BY <1>6, <1>0 DEF TagRpc, Types, Hosts, EntrySet
  <2>3. /\ [host_map[h] EXCEPT !.known = TRUE] \in EntrySet
        /\ [host_map[h] EXCEPT !.known = TRUE, !.job = j] \in EntrySet
    BY <2>1 DEF EntrySet
  <2>4. host_map' \in [Hosts -> EntrySet]
    BY <1>0, <2>2, <2>3 DEF Types
  <2>5. wire' = wire /\ done' = done /\ cnt' = cnt /\ acc' = acc
    BY <1>6 DEF TagRpc, lustre, history
  <2> QED
    BY <1>0, <2>4, <2>5 DEF Types
<1>7. CASE Tick
  <2>1. \A h \in Hosts : host_map[h] \in EntrySet /\ [host_map[h] EXCEPT !.old = host_map[h].cur] \in EntrySet
    BY <1>0 DEF Types, EntrySet
  <2>2. host_map' \in [Hosts -> EntrySet]
    BY <1>7, <2>1 DEF Tick
  <2>3. ASSUME NEW s \in Servers, NEW c \in Counters
        PROVE  Delta(host_map[s].old, host_map[s].cur, c) \in Nat
    <3>1. Old(s).cnt[c] \in Int /\ Cur(s).cnt[c] \in Int
      BY <1>0, Typed
    <3> QED
      BY <3>1 DEF Delta, Old, Cur
  <2>4. \A s \in Servers, c \in Counters :
          (IF IsNew(host_map[s]) THEN acc[s][c] + Delta(host_map[s].old, host_map[s].cur, c)
                                 ELSE acc[s][c]) \in Nat
    BY <1>0, <2>3 DEF Types
  <2>5. acc' \in [Servers -> [Counters -> Nat]]
    BY <1>7, <2>4 DEF Tick
  <2>6. wire' = wire /\ done' = done /\ cnt' = cnt
    BY <1>7 DEF Tick, lustre
  <2> QED
    BY <1>0, <2>2, <2>5, <2>6 DEF Types
<1>8. CASE Restart
  BY <1>0, <1>8, EmptyAre DEF Restart, EmptyHostMap, lustre, Types
<1>9. CASE UNCHANGED vars
  BY <1>0, <1>9 DEF vars, lustre, maps, history, Types
<1> QED
  BY <1>1, <1>2, <1>3, <1>4, <1>5, <1>6, <1>7, <1>8, <1>9 DEF Next

LEMMA ReportedStep == IInv /\ [Next]_vars => \A s \in Servers : Reported(s)'
<1> SUFFICES ASSUME IInv, [Next]_vars, NEW s \in Servers PROVE Reported(s)'
  OBVIOUS
<1>0. Types /\ Reported(s) /\ host_map[s] \in EntrySet /\ wire[s] \in SampleSet
  BY DEF IInv, Types, Hosts
<1>1. ASSUME NEW t \in Servers,
             (\E c \in Counters : Operation(t, c)) \/ (\E n \in Nids : ExportGone(t, n))
      PROVE  Reported(s)'
  BY <1>0, <1>1 DEF Operation, ExportGone, maps, Reported, Old, Cur
<1>2. ASSUME NEW t \in Servers, SendReport(t) PROVE Reported(s)'
  <2>1. Old(s)' = Old(s) /\ Cur(s)' = Cur(s)
    BY <1>2 DEF SendReport, maps, Old, Cur
  <2>2. wire'[s] = wire[s] \/ wire'[s].time # 0
    BY <1>0, <1>2, BoundsAssumption DEF SendReport, Types
  <2> QED
    BY <1>0, <2>1, <2>2 DEF Reported
<1>3. ASSUME NEW t \in Servers, LoseReport(t) PROVE Reported(s)'
  <2>1. Old(s)' = Old(s) /\ Cur(s)' = Cur(s)
    BY <1>3 DEF LoseReport, maps, Old, Cur
  <2>2. wire'[s] = wire[s] \/ wire'[s] = NoSample
    BY <1>0, <1>3 DEF LoseReport, Types
  <2> QED
    BY <1>0, <2>1, <2>2 DEF Reported
<1>4. ASSUME NEW t \in Servers, ReportRpc(t) PROVE Reported(s)'
  <2>1. Old(s)' = Old(s) /\ wire' = [wire EXCEPT ![t] = NoSample]
    BY <1>0, <1>4 DEF ReportRpc, Old, Types, Hosts, EntrySet
  <2>2. Cur(s)' = IF t = s THEN wire[s] ELSE Cur(s)
    BY <1>0, <1>4 DEF ReportRpc, Cur, Types, Hosts, EntrySet
  <2>3. t = s => wire[s].time # 0
    BY <1>0, <1>4 DEF ReportRpc, Reported
  <2> QED
    BY <1>0, <2>1, <2>2, <2>3 DEF Reported, Types
<1>5. ASSUME NEW h \in Clients, TagRpc(h) PROVE Reported(s)'
  <2>1. h # s /\ wire' = wire /\ h \in Hosts
    BY <1>5, HostsAssumption DEF TagRpc, Hosts
  <2>2. host_map'[s] = host_map[s]
    BY <1>0, <1>5, <2>1 DEF TagRpc, Types, Hosts
  <2> QED
    BY <1>0, <2>1, <2>2 DEF Reported, Old, Cur
<1>6. CASE Tick
  <2>1. wire' = wire /\ host_map'[s] = IF Accounts(host_map[s])
                                     THEN [host_map[s] EXCEPT !.old = host_map[s].cur]
                                     ELSE host_map[s]
    BY <1>6 DEF Tick, Hosts
  <2>2. Cur(s)' = Cur(s) /\ Old(s)' \in {Old(s), Cur(s)}
    BY <1>0, <2>1 DEF Cur, Old, EntrySet
  <2> QED
    BY <1>0, <2>1, <2>2 DEF Reported
<1>7. CASE Restart
  BY <1>7, EmptyAre DEF Restart, EmptyHostMap, Hosts, Reported, Old, Cur
<1>8. CASE UNCHANGED vars
  BY <1>0, <1>8 DEF vars, maps, Reported, Old, Cur
<1> QED
  BY <1>1, <1>2, <1>3, <1>4, <1>5, <1>6, <1>7, <1>8 DEF Next

\* Chain of one counter depends on nothing but it and its samples.
LEMMA SameChain ==
  ASSUME NEW s \in Servers, NEW c \in Counters, Chain(s, c),
         done'[s][c] = done[s][c], cnt'[s][c] = cnt[s][c], acc'[s][c] = acc[s][c],
         Old(s)' = Old(s), Cur(s)' = Cur(s), wire'[s] \in {wire[s], NoSample}
  PROVE  Chain(s, c)'
  BY EmptyAre DEF Chain, Sound, Before, Live

LEMMA ChainOperation ==
  ASSUME IInv, NEW t \in Servers, NEW m \in Counters, Operation(t, m),
         NEW s \in Servers, NEW c \in Counters
  PROVE  Chain(s, c)'
<1>0. Types /\ Chain(s, c)
  BY DEF IInv
<1>1. Old(s)' = Old(s) /\ Cur(s)' = Cur(s) /\ wire' = wire /\ acc' = acc
  BY DEF Operation, maps, history, Old, Cur
<1>2. CASE s = t /\ c = m
  <2>1. done'[s][c] = done[s][c] + 1 /\ cnt'[s][c] = IF cnt[s][c] = Absent THEN 1 ELSE cnt[s][c] + 1
    BY <1>0, <1>2 DEF Operation, Types
  <2>2. ASSUME NEW x \in SampleSet, Before(x, Live(s), c)
        PROVE  Before(x, Live(s), c)'
    BY <2>1, <2>2, <1>0, Typed, TypedSample DEF Before, Live, Has, Absent
  <2> QED
    BY <1>0, <1>1, <2>1, <2>2, Typed, TypedSample DEF Chain, Sound
<1>3. CASE ~ (s = t /\ c = m)
  <2>1. done'[s][c] = done[s][c] /\ cnt'[s][c] = cnt[s][c]
    BY <1>0, <1>3 DEF Operation, Types
  <2> QED
    BY <1>0, <1>1, <2>1, SameChain
<1> QED
  BY <1>2, <1>3

LEMMA ChainExportGone ==
  ASSUME IInv, NEW t \in Servers, NEW n \in Nids, ExportGone(t, n),
         NEW s \in Servers, NEW c \in Counters
  PROVE  Chain(s, c)'
<1>0. Types /\ Chain(s, c)
  BY DEF IInv
<1>1. Old(s)' = Old(s) /\ Cur(s)' = Cur(s) /\ wire' = wire /\ acc' = acc /\ done' = done
  BY DEF ExportGone, maps, Old, Cur
<1>2. cnt'[s][c] = cnt[s][c] \/ cnt'[s][c] = Absent
  BY <1>0 DEF ExportGone, Types
<1>3. ASSUME NEW x \in SampleSet, Before(x, Live(s), c)
      PROVE  Before(x, Live(s), c)'
  BY <1>0, <1>1, <1>2, <1>3, Typed, TypedSample DEF Before, Live, Has, Absent
<1> QED
  BY <1>0, <1>1, <1>2, <1>3, Typed DEF Chain, Sound

\* A new report equals the live counter, so it is newer than every sample.
LEMMA ChainSendReport ==
  ASSUME IInv, NEW t \in Servers, SendReport(t), NEW s \in Servers, NEW c \in Counters
  PROVE  Chain(s, c)'
<1>0. Types /\ Chain(s, c)
  BY DEF IInv
<1>1. Old(s)' = Old(s) /\ Cur(s)' = Cur(s) /\ cnt' = cnt /\ done' = done /\ acc' = acc
  BY DEF SendReport, lustre, maps, history, Old, Cur
<1>2. CASE s = t
  <2>1. wire'[s].cnt = cnt[s] /\ wire'[s].ops = done[s]
    BY <1>0, <1>2 DEF SendReport, Types
  <2>2. Before(wire[s], Live(s), c)'
    BY <1>0, <1>1, <2>1, Typed DEF Before, Live, Has
  <2>3. ASSUME NEW x \in SampleSet, Before(x, Live(s), c)
        PROVE  Before(x, Live(s), c)' /\ Before(x, wire'[s], c)
    BY <1>1, <2>1, <2>3 DEF Before, Live, Has
  <2>4. acc'[s][c] <= wire'[s].ops[c]
    BY <1>0, <1>1, <2>1 DEF Chain
  <2> QED
    BY <1>0, <1>1, <2>2, <2>3, <2>4, Typed DEF Chain, Sound
<1>3. CASE s # t
  BY <1>0, <1>1, <1>3, SameChain DEF SendReport, Types
<1> QED
  BY <1>2, <1>3

LEMMA ChainLoseReport ==
  ASSUME IInv, NEW t \in Servers, LoseReport(t), NEW s \in Servers, NEW c \in Counters
  PROVE  Chain(s, c)'
<1>1. wire'[s] \in {wire[s], NoSample}
  BY DEF IInv, Types, LoseReport
<1> QED
  BY <1>1, SameChain DEF IInv, LoseReport, lustre, maps, history, Old, Cur

LEMMA ChainReportRpc ==
  ASSUME IInv, NEW t \in Servers, ReportRpc(t), NEW s \in Servers, NEW c \in Counters
  PROVE  Chain(s, c)'
<1>0. Types /\ Chain(s, c) /\ Reported(s)
  BY DEF IInv
<1>1. /\ Old(s)' = Old(s) /\ cnt' = cnt /\ done' = done /\ acc' = acc
      /\ Cur(s)' = IF s = t THEN wire[s] ELSE Cur(s)
      /\ wire'[s] = IF s = t THEN NoSample ELSE wire[s]
  BY <1>0 DEF ReportRpc, lustre, history, Old, Cur, Types, Hosts, EntrySet
<1>2. CASE s = t
  <2>1. wire[s].time # 0
    BY <1>0, <1>2 DEF ReportRpc, Reported
  <2> QED
    BY <1>0, <1>1, <1>2, <2>1, EmptyAre DEF Chain, Sound, Before, Live
<1>3. CASE s # t
  BY <1>0, <1>1, <1>3, SameChain
<1> QED
  BY <1>2, <1>3

LEMMA ChainTagRpc ==
  ASSUME IInv, NEW h \in Clients, TagRpc(h), NEW s \in Servers, NEW c \in Counters
  PROVE  Chain(s, c)'
<1>0. Types /\ Chain(s, c)
  BY DEF IInv
<1>1. h # s /\ h \in Hosts
  BY HostsAssumption DEF Hosts
<1>2. host_map'[s] = host_map[s]
  BY <1>0, <1>1 DEF TagRpc, Types, Hosts
<1> QED
  BY <1>0, <1>2, SameChain DEF TagRpc, lustre, history, Old, Cur

\* A tick accounts the newest report, and no more than what was done since the
\* one accounted before it.
LEMMA ChainTick ==
  ASSUME IInv, Tick, NEW s \in Servers, NEW c \in Counters
  PROVE  Chain(s, c)'
<1> DEFINE e == host_map[s]
<1>0. Types /\ Chain(s, c) /\ Reported(s) /\ e \in EntrySet
  BY DEF IInv, Types, Hosts
<1>1. cnt' = cnt /\ done' = done /\ wire' = wire
  BY DEF Tick, lustre
<1>2. /\ host_map'[s] = IF Accounts(e) THEN [e EXCEPT !.old = e.cur] ELSE e
      /\ acc'[s][c] = IF IsNew(e) THEN acc[s][c] + Delta(e.old, e.cur, c) ELSE acc[s][c]
  BY DEF Tick, Hosts
<1>3. /\ Cur(s)' = Cur(s)
      /\ Old(s)' = IF Baseline(e) \/ IsNew(e) THEN Cur(s) ELSE Old(s)
  BY <1>0, <1>2 DEF Old, Cur, EntrySet, Accounts
<1>4. CASE IsNew(e)
  <2>1. Old(s).time # 0 /\ Cur(s).time # 0
    BY <1>0, <1>4 DEF IsNew, Old, Reported
  <2>2. acc'[s][c] = acc[s][c] + Delta(Old(s), Cur(s), c)
    BY <1>2, <1>4 DEF Old, Cur
  <2>3. Delta(Old(s), Cur(s), c) <= Cur(s).ops[c] - Old(s).ops[c]
    BY <1>0, <2>1, Typed, TypedSample DEF Chain, Before, Delta, Has
  <2>4. Delta(Old(s), Cur(s), c) \in Nat
    BY <1>0, Typed DEF Delta
  <2>5. acc'[s][c] <= Cur(s).ops[c]
    BY <1>0, <2>1, <2>2, <2>3, <2>4, Typed, TypedSample DEF Chain, Sound
  <2>6. acc'[s][c] <= done[s][c] /\ (wire[s].time # 0 => acc'[s][c] <= wire[s].ops[c])
    BY <1>0, <2>1, <2>2, <2>4, <2>5, Typed, TypedSample DEF Chain, Sound, Before, Live
  <2>7. Before(Cur(s), Cur(s), c)
    BY <1>0, Typed, TypedSample DEF Before
  <2> QED
    BY <1>0, <1>1, <1>3, <1>4, <2>1, <2>5, <2>6, <2>7 DEF Chain, Sound, Live, Before
<1>5. CASE ~ IsNew(e) /\ Baseline(e)
  <2>1. Before(Cur(s), Cur(s), c)
    BY <1>0, Typed, TypedSample DEF Before
  <2> QED
    BY <1>0, <1>1, <1>2, <1>3, <1>5, <2>1 DEF Chain, Sound, Live, Before
<1>6. CASE ~ IsNew(e) /\ ~ Baseline(e)
  BY <1>0, <1>1, <1>2, <1>3, <1>6, SameChain
<1> QED
  BY <1>4, <1>5, <1>6

LEMMA ChainRestart ==
  ASSUME IInv, Restart, NEW s \in Servers, NEW c \in Counters
  PROVE  Chain(s, c)'
<1>1. Old(s)' = NoSample /\ Cur(s)' = NoSample /\ wire'[s] = NoSample /\ acc' = acc /\ done' = done
  BY EmptyAre DEF Restart, EmptyHostMap, Hosts, Old, Cur, lustre
<1> QED
  BY <1>1, EmptyAre DEF IInv, Chain, Sound

LEMMA ChainStep ==
  ASSUME IInv, [Next]_vars, NEW s \in Servers, NEW c \in Counters
  PROVE  Chain(s, c)'
<1>1. CASE UNCHANGED vars
  BY <1>1, SameChain DEF IInv, vars, lustre, maps, history, Old, Cur
<1>2. CASE Next
  BY <1>2, ChainOperation, ChainExportGone, ChainSendReport, ChainLoseReport,
     ChainReportRpc, ChainTagRpc, ChainTick, ChainRestart DEF Next
<1> QED
  BY <1>1, <1>2

-----------------------------------------------------------------------------
\* The chain of samples of every counter holds in every reachable state: a report
\* under way is never older than the newest received, nor that one than the one
\* calc_rates last took as its old values.
THEOREM InvariantHolds == Spec => []IInv
<1>1. IInv /\ [Next]_vars => IInv'
  BY TypesStep, ReportedStep, ChainStep DEF IInv
<1> QED
  BY InitIInv, <1>1, PTL DEF Spec

\* Whatever reports are lost, counters reset, clocks set back and servers
\* restarted, group_statsbytags never publishes an operation twice, for any
\* servers, nids and jobs.
THEOREM CountedAtMostOnce == Spec => []NoOpCountedTwice
<1>1. IInv => NoOpCountedTwice
  BY DEF IInv, Chain, NoOpCountedTwice
<1> QED
  BY InvariantHolds, <1>1, PTL

-----------------------------------------------------------------------------
(***************************************************************************)
(* What NoOpPassedOver needs: with no counter reset and no restart, a      *)
(* counter is the number of operations done, in every sample; and what is  *)
(* accounted of an event that the last report listed is everything since   *)
(* the first accounted report that listed it.                              *)
(***************************************************************************)
Exact(x, c) == x.cnt[c] = IF x.ops[c] = 0 THEN Absent ELSE x.ops[c]

NoGap(s, c) ==
  /\ Exact(Live(s), c) /\ Exact(Old(s), c) /\ Exact(Cur(s), c) /\ Exact(wire[s], c)
  /\ Old(s).time = 0 => ~ Has(Old(s), c)
  /\ acc[s][c] = IF Has(Old(s), c) THEN Old(s).ops[c] - first[s][c] ELSE 0

Complete ==
  /\ mishaps \in Nat
  /\ first \in [Servers -> [Counters -> Nat]]
  /\ mishaps = 0 => \A s \in Servers, c \in Counters : NoGap(s, c)

LEMMA EmptyExact == \A c \in Counters : Exact(NoSample, c) /\ ~ Has(NoSample, c)
  BY DEF Exact, Has, NoSample

LEMMA InitComplete == Init => Complete
<1> SUFFICES ASSUME Init PROVE Complete
  OBVIOUS
<1>1. \A s \in Servers : Old(s) = NoSample /\ Cur(s) = NoSample /\ wire[s] = NoSample
  BY EmptyAre DEF Init, EmptyHostMap, Old, Cur, Hosts
<1>2. \A s \in Servers, c \in Counters :
        cnt[s][c] = Absent /\ done[s][c] = 0 /\ acc[s][c] = 0 /\ first[s][c] = 0
  BY DEF Init
<1>3. mishaps \in Nat /\ first \in [Servers -> [Counters -> Nat]]
  BY DEF Init
<1>4. \A s \in Servers, c \in Counters : NoGap(s, c)
  BY <1>1, <1>2, EmptyExact DEF NoGap, Exact, Live
<1> QED
  BY <1>3, <1>4 DEF Complete

\* Where neither the counter, nor its samples, nor what was accounted change.
LEMMA SameNoGap ==
  ASSUME NEW s \in Servers, NEW c \in Counters, NoGap(s, c),
         done'[s][c] = done[s][c], cnt'[s][c] = cnt[s][c],
         acc'[s][c] = acc[s][c], first'[s][c] = first[s][c],
         Old(s)' = Old(s), Cur(s)' \in {Cur(s), wire[s]}, wire'[s] \in {wire[s], NoSample}
  PROVE  NoGap(s, c)'
<1>1. Exact(Live(s), c)'
  BY DEF NoGap, Exact, Live
<1>2. Exact(Old(s), c)' /\ Exact(Cur(s), c)' /\ Exact(wire[s], c)'
  BY EmptyExact DEF NoGap, Exact
<1>3. (Old(s).time = 0)' => ~ Has(Old(s), c)'
  BY DEF NoGap, Has
<1>4. Has(Old(s), c)' <=> Has(Old(s), c)
  BY DEF Has
<1> QED
  BY <1>1, <1>2, <1>3, <1>4 DEF NoGap

\* An operation moves the counter and the number done together.
LEMMA NoGapOperation ==
  ASSUME IInv, NEW t \in Servers, NEW m \in Counters, Operation(t, m),
         NEW s \in Servers, NEW c \in Counters, NoGap(s, c)
  PROVE  NoGap(s, c)'
<1>0. Types
  BY DEF IInv
<1>1. Old(s)' = Old(s) /\ Cur(s)' = Cur(s) /\ wire' = wire /\ acc' = acc /\ first' = first
  BY DEF Operation, maps, history, Old, Cur
<1>2. CASE s = t /\ c = m
  <2>1. done'[s][c] = done[s][c] + 1 /\ cnt'[s][c] = IF cnt[s][c] = Absent THEN 1 ELSE cnt[s][c] + 1
    BY <1>0, <1>2 DEF Operation, Types
  <2>2. done[s][c] \in Nat /\ cnt[s][c] = IF done[s][c] = 0 THEN Absent ELSE done[s][c]
    BY <1>0, Typed DEF NoGap, Exact, Live
  <2>3. Exact(Live(s), c)'
    BY <2>1, <2>2 DEF Exact, Live, Absent
  <2> QED
    BY <1>1, <2>3 DEF NoGap, Exact, Has
<1>3. CASE ~ (s = t /\ c = m)
  <2>1. done'[s][c] = done[s][c] /\ cnt'[s][c] = cnt[s][c]
    BY <1>0, <1>3 DEF Operation, Types
  <2> QED
    BY <1>1, <2>1, SameNoGap
<1> QED
  BY <1>2, <1>3

\* A report is exact because the counters it is taken from are.
LEMMA NoGapSendReport ==
  ASSUME IInv, NEW t \in Servers, SendReport(t),
         NEW s \in Servers, NEW c \in Counters, NoGap(s, c)
  PROVE  NoGap(s, c)'
<1>0. Types
  BY DEF IInv
<1>1. /\ Old(s)' = Old(s) /\ Cur(s)' = Cur(s) /\ cnt' = cnt /\ done' = done
      /\ acc' = acc /\ first' = first
  BY DEF SendReport, lustre, maps, history, Old, Cur
<1>2. CASE s = t
  <2>1. wire'[s].cnt = cnt[s] /\ wire'[s].ops = done[s]
    BY <1>0, <1>2 DEF SendReport, Types
  <2>2. Exact(wire[s], c)'
    BY <2>1 DEF NoGap, Exact, Live
  <2> QED
    BY <1>1, <2>2 DEF NoGap, Exact, Live, Has
<1>3. CASE s # t
  <2>1. wire'[s] = wire[s]
    BY <1>0, <1>3 DEF SendReport, Types
  <2> QED
    BY <1>1, <2>1, SameNoGap
<1> QED
  BY <1>2, <1>3

\* A tick accounts exactly what was done between two reports: calc_rates
\* takes 0 for an event only where the older report does not list it.
LEMMA NoGapTick ==
  ASSUME IInv, Complete, Tick, NEW s \in Servers, NEW c \in Counters, NoGap(s, c)
  PROVE  NoGap(s, c)'
<1> DEFINE e == host_map[s]
<1>0. Types /\ Chain(s, c) /\ Reported(s) /\ e \in EntrySet /\ first[s][c] \in Nat
  BY DEF IInv, Types, Hosts, Complete
<1>1. cnt' = cnt /\ done' = done /\ wire' = wire
  BY DEF Tick, lustre
<1>2. /\ host_map'[s] = IF Accounts(e) THEN [e EXCEPT !.old = e.cur] ELSE e
      /\ acc'[s][c] = IF IsNew(e) THEN acc[s][c] + Delta(Old(s), Cur(s), c) ELSE acc[s][c]
      /\ first'[s][c] = IF Accounts(e) /\ ~ Has(Old(s), c) THEN Cur(s).ops[c] ELSE first[s][c]
  BY DEF Tick, Hosts, Old, Cur
<1>3. /\ Cur(s)' = Cur(s)
      /\ Old(s)' = IF Accounts(e) THEN Cur(s) ELSE Old(s)
  BY <1>0, <1>2 DEF Old, Cur, EntrySet
<1>4. CASE ~ Accounts(e)
  BY <1>1, <1>2, <1>3, <1>4, SameNoGap DEF Accounts
<1>5. CASE Accounts(e)
  <2>1. Cur(s).time # 0
    BY <1>0, <1>5 DEF Accounts, Baseline, IsNew, Reported, Old, Cur
  <2>2. /\ Old(s).ops[c] \in Nat /\ Cur(s).ops[c] \in Nat /\ acc[s][c] \in Nat
        /\ Exact(Old(s), c) /\ Exact(Cur(s), c)
    BY <1>0, Typed, TypedSample DEF NoGap
  <2>3. Exact(Live(s), c)' /\ Exact(Old(s), c)' /\ Exact(Cur(s), c)' /\ Exact(wire[s], c)'
    BY <1>1, <1>3, <1>5 DEF NoGap, Exact, Live
  <2>4. acc'[s][c] = IF Has(Cur(s), c) THEN Cur(s).ops[c] - first'[s][c] ELSE 0
    <3>1. CASE Has(Old(s), c)
      <4>1. Old(s).time # 0 /\ IsNew(e)
        BY <1>5, <3>1 DEF NoGap, Accounts, Baseline, Old
      <4>2. Old(s).ops[c] <= Cur(s).ops[c]
        BY <1>0, <4>1 DEF Chain, Before
      <4>3. Delta(Old(s), Cur(s), c) = Cur(s).ops[c] - Old(s).ops[c]
        BY <2>2, <3>1, <4>2 DEF Delta, Has, Exact, Absent
      <4>4. Has(Cur(s), c)
        BY <2>2, <3>1, <4>2 DEF Has, Exact, Absent
      <4>5. acc[s][c] = Old(s).ops[c] - first[s][c] /\ first'[s][c] = first[s][c]
        BY <1>2, <3>1 DEF NoGap
      <4> QED
        BY <1>0, <1>2, <2>2, <4>1, <4>3, <4>4, <4>5
    <3>2. CASE ~ Has(Old(s), c)
      <4>1. acc[s][c] = 0 /\ Delta(Old(s), Cur(s), c) = 0 /\ first'[s][c] = Cur(s).ops[c]
        BY <1>2, <1>5, <3>2 DEF NoGap, Delta
      <4> QED
        BY <1>2, <2>2, <4>1
    <3> QED
      BY <3>1, <3>2
  <2>5. Old(s)' = Cur(s)
    BY <1>3, <1>5
  <2> QED
    BY <2>1, <2>3, <2>4, <2>5 DEF NoGap, Has
<1> QED
  BY <1>4, <1>5

LEMMA OnlyTickAccounts ==
  ASSUME Next, ~ Tick PROVE first' = first /\ mishaps' \in {mishaps, mishaps + 1}
<1>1. ASSUME NEW s \in Servers,
             (\E c \in Counters : Operation(s, c)) \/ (\E n \in Nids : ExportGone(s, n))
      PROVE  first' = first /\ mishaps' \in {mishaps, mishaps + 1}
  BY <1>1 DEF Operation, ExportGone, history
<1>2. ASSUME NEW s \in Servers, SendReport(s) \/ LoseReport(s) \/ ReportRpc(s)
      PROVE  first' = first /\ mishaps' = mishaps
  BY <1>2 DEF SendReport, LoseReport, ReportRpc, history
<1>3. ASSUME NEW h \in Clients, TagRpc(h) PROVE first' = first /\ mishaps' = mishaps
  BY <1>3 DEF TagRpc, history
<1>4. ASSUME Restart PROVE first' = first /\ mishaps' = mishaps + 1
  BY <1>4 DEF Restart
<1> QED
  BY <1>1, <1>2, <1>3, <1>4 DEF Next

LEMMA CompleteStep == IInv /\ Complete /\ [Next]_vars => Complete'
<1> SUFFICES ASSUME IInv, Complete, [Next]_vars PROVE Complete'
  OBVIOUS
<1>0. Types /\ mishaps \in Nat /\ first \in [Servers -> [Counters -> Nat]]
  BY DEF IInv, Complete
<1>1. mishaps' \in Nat /\ first' \in [Servers -> [Counters -> Nat]] /\ (mishaps' = 0 => mishaps = 0)
  <2>1. CASE Tick
    <3>1. \A s \in Servers, c \in Counters :
            (IF Accounts(host_map[s]) /\ ~ Has(host_map[s].old, c)
             THEN host_map[s].cur.ops[c] ELSE first[s][c]) \in Nat
      BY <1>0, Typed, TypedSample DEF Cur
    <3> QED
      BY <1>0, <2>1, <3>1 DEF Tick
  <2>2. CASE UNCHANGED vars
    BY <1>0, <2>2 DEF vars, history
  <2>3. CASE Next /\ ~ Tick
    <3>1. first' = first /\ mishaps' \in {mishaps, mishaps + 1}
      BY <2>3, OnlyTickAccounts
    <3> QED
      BY <1>0, <3>1
  <2> QED
    BY <2>1, <2>2, <2>3
<1>2. ASSUME mishaps' = 0, NEW s \in Servers, NEW c \in Counters PROVE NoGap(s, c)'
  <2>0. mishaps = 0 /\ NoGap(s, c) /\ ~ Restart /\ \A t \in Servers, m \in Nids : ~ ExportGone(t, m)
    BY <1>0, <1>1, <1>2 DEF Complete, Restart, ExportGone
  <2>1. ASSUME NEW t \in Servers, LoseReport(t) PROVE NoGap(s, c)'
    <3>1. wire'[s] \in {wire[s], NoSample}
      BY <1>0, <2>1 DEF LoseReport, Types
    <3> QED
      BY <2>0, <2>1, <3>1, SameNoGap DEF LoseReport, lustre, maps, history, Old, Cur
  <2>2. ASSUME NEW t \in Servers, ReportRpc(t) PROVE NoGap(s, c)'
    <3>1. /\ Old(s)' = Old(s) /\ cnt' = cnt /\ done' = done /\ acc' = acc /\ first' = first
          /\ Cur(s)' \in {Cur(s), wire[s]} /\ wire'[s] \in {wire[s], NoSample}
      BY <1>0, <2>2 DEF ReportRpc, lustre, history, Old, Cur, Types, Hosts, EntrySet
    <3> QED
      BY <2>0, <3>1, SameNoGap
  <2>3. ASSUME NEW h \in Clients, TagRpc(h) PROVE NoGap(s, c)'
    <3>1. h # s /\ h \in Hosts
      BY HostsAssumption DEF Hosts
    <3>2. host_map'[s] = host_map[s]
      BY <1>0, <2>3, <3>1 DEF TagRpc, Types, Hosts
    <3> QED
      BY <2>0, <2>3, <3>2, SameNoGap DEF TagRpc, lustre, history, Old, Cur
  <2>4. CASE UNCHANGED vars
    BY <2>0, <2>4, SameNoGap DEF vars, lustre, maps, history, Old, Cur
  <2> QED
    BY <2>0, <2>1, <2>2, <2>3, <2>4, NoGapOperation, NoGapSendReport, NoGapTick DEF Next
<1> QED
  BY <1>1, <1>2 DEF Complete

\* As long as no export went and the server is not restarted, everything done of an
\* event of an export between the first accounted report that lists it and the last
\* one has been published, whatever was lost or held back; what was done before that
\* first one is not, even where the export was known already (calc_rates 303-318,
\* group_statsbytags 384-406).
THEOREM NothingPassedOver == Spec => []NoOpPassedOver
<1>1. IInv /\ Complete => NoOpPassedOver
  BY DEF Complete, NoGap, NoOpPassedOver, Old, Has
<1>2. Init => Complete
  BY InitComplete
<1>3. IInv /\ Complete /\ [Next]_vars => Complete'
  BY CompleteStep
<1> QED
  BY InvariantHolds, <1>1, <1>2, <1>3, PTL DEF Spec


-----------------------------------------------------------------------------
(***************************************************************************)
(* What PublishedForward needs: nothing published for a host is of a later *)
(* time than the report last accounted for it.                             *)
(***************************************************************************)
Published(h) ==
  /\ server_tag_rate_map[h].time \in Nat
  /\ server_tag_rate_map[h].time <= host_map[h].old.time

LEMMA InitPublished == Init => \A h \in Hosts : Published(h)
  BY DEF Init, EmptyRateMap, EmptyHostMap, NoRates, NoEntry, NoSample, Published

\* A tick publishes a host's report only when it is of a later time than the one
\* last accounted, and accounts it then.
LEMMA TickPublishes ==
  ASSUME IInv, NEW h \in Hosts, Published(h), Tick
  PROVE  /\ Published(h)'
         /\ \/ server_tag_rate_map'[h] = server_tag_rate_map[h]
            \/ server_tag_rate_map'[h].time > server_tag_rate_map[h].time
<1> DEFINE e == host_map[h]
<1>0. e \in EntrySet /\ e.old \in SampleSet /\ e.cur \in SampleSet
  BY DEF IInv, Types, EntrySet
<1>1. e.old.time \in Nat /\ e.cur.time \in Nat
  BY <1>0 DEF SampleSet
<1>2. host_map'[h] = IF Accounts(e) THEN [e EXCEPT !.old = e.cur] ELSE e
  BY DEF Tick
<1>3. host_map'[h].old = IF Accounts(e) THEN e.cur ELSE e.old
  BY <1>0, <1>2 DEF EntrySet
<1>4. CASE IsNew(e)
  <2>1. server_tag_rate_map'[h].time = e.cur.time
    BY <1>4 DEF Tick
  <2>2. e.cur.time > e.old.time
    BY <1>1, <1>4 DEF IsNew
  <2> QED
    BY <1>1, <1>3, <1>4, <2>1, <2>2 DEF Accounts, Published
<1>5. CASE ~ IsNew(e)
  <2>1. server_tag_rate_map'[h] = server_tag_rate_map[h]
    BY <1>5 DEF Tick
  <2>2. host_map'[h].old.time >= e.old.time
    BY <1>1, <1>3, <1>5 DEF Accounts, Baseline
  <2>3. server_tag_rate_map'[h].time = server_tag_rate_map[h].time /\ host_map'[h].old.time \in Nat
    BY <1>1, <1>3, <2>1
  <2>4. server_tag_rate_map[h].time \in Nat /\ server_tag_rate_map[h].time <= e.old.time
    BY DEF Published
  <2>5. Published(h)'
    BY <1>1, <2>2, <2>3, <2>4 DEF Published
  <2> QED
    BY <2>1, <2>5
<1> QED
  BY <1>4, <1>5

LEMMA PublishedStep ==
  ASSUME IInv, Complete, [Next]_vars, NEW h \in Hosts, Published(h)
  PROVE  /\ Published(h)'
         /\ \/ mishaps' # mishaps
            \/ server_tag_rate_map'[h] = server_tag_rate_map[h]
            \/ server_tag_rate_map'[h].time > server_tag_rate_map[h].time
<1>0. Types /\ host_map[h] \in EntrySet /\ mishaps \in Nat
  BY DEF IInv, Types, Complete
<1>1. CASE host_map'[h].old = host_map[h].old /\ server_tag_rate_map' = server_tag_rate_map
  BY <1>1 DEF Published
<1>2. ASSUME NEW s \in Servers,
             (\E c \in Counters : Operation(s, c)) \/ (\E n \in Nids : ExportGone(s, n))
      PROVE  host_map'[h].old = host_map[h].old /\ server_tag_rate_map' = server_tag_rate_map
  BY <1>2 DEF Operation, ExportGone, maps
<1>3. ASSUME NEW s \in Servers, SendReport(s) \/ LoseReport(s)
      PROVE  host_map'[h].old = host_map[h].old /\ server_tag_rate_map' = server_tag_rate_map
  BY <1>3 DEF SendReport, LoseReport, maps
<1>4. ASSUME NEW s \in Servers, ReportRpc(s)
      PROVE  host_map'[h].old = host_map[h].old /\ server_tag_rate_map' = server_tag_rate_map
  BY <1>0, <1>4 DEF ReportRpc, Types, Hosts, EntrySet
<1>5. ASSUME NEW k \in Clients, TagRpc(k)
      PROVE  host_map'[h].old = host_map[h].old /\ server_tag_rate_map' = server_tag_rate_map
  <2>1. host_map \in [Hosts -> EntrySet] /\ k \in Hosts /\ host_map[k] \in EntrySet
    BY <1>0 DEF Types, Hosts
  <2> DEFINE known == [host_map[k] EXCEPT !.known = TRUE]
             given(j) == [host_map[k] EXCEPT !.known = TRUE, !.job = j]
  <2>2. PICK j \in Jobs : \/ host_map' = [host_map EXCEPT ![k] = known]
                          \/ host_map' = [host_map EXCEPT ![k] = given(j)]
    BY <1>5, <2>1 DEF TagRpc, EntrySet
  <2>3. known.old = host_map[k].old /\ given(j).old = host_map[k].old
    BY <2>1 DEF EntrySet
  <2> HIDE DEF known, given
  <2>4. host_map'[h].old = host_map[h].old
    BY <2>1, <2>2, <2>3
  <2> QED
    BY <1>5, <2>4 DEF TagRpc
<1>6. CASE Tick
  BY <1>6, TickPublishes
<1>7. CASE Restart
  <2>1. mishaps' # mishaps
    BY <1>0, <1>7 DEF Restart
  <2>2. Published(h)'
    BY <1>7 DEF Restart, EmptyHostMap, EmptyRateMap, NoRates, NoEntry, NoSample, Published
  <2> QED
    BY <2>1, <2>2
<1>8. CASE UNCHANGED vars
  BY <1>1, <1>8 DEF vars, maps
<1> QED
  BY <1>1, <1>2, <1>3, <1>4, <1>5, <1>6, <1>7, <1>8 DEF Next

\* As long as one aggregation server runs, what is published for a host changes only
\* together with a later time, whichever way that host's clock is set (the guard of
\* group_statsbytags, stats.c 384-386).
THEOREM NeverBack == Spec => PublishedForward
<1> DEFINE I == IInv /\ Complete /\ \A h \in Hosts : Published(h)
           Ahead == \A h \in Hosts :
                      \/ mishaps' # mishaps
                      \/ server_tag_rate_map'[h] = server_tag_rate_map[h]
                      \/ server_tag_rate_map'[h].time > server_tag_rate_map[h].time
<1>1. Init => I
  BY InitIInv, InitComplete, InitPublished
<1>2. I /\ [Next]_vars => I' /\ Ahead
  <2> SUFFICES ASSUME I, [Next]_vars PROVE I' /\ Ahead
    OBVIOUS
  <2>1. IInv' /\ Complete'
    BY TypesStep, ReportedStep, ChainStep, CompleteStep DEF IInv
  <2> QED
    BY <2>1, PublishedStep
<1>3. Ahead <=> \A h \in Hosts :
                  LET was == server_tag_rate_map[h]
                      is  == server_tag_rate_map'[h]
                  IN  mishaps' = mishaps /\ is # was => is.time > was.time
  OBVIOUS
<1> QED
  BY <1>1, <1>2, <1>3, PTL DEF Spec, PublishedForward

-----------------------------------------------------------------------------
(***************************************************************************)
(* The types and bounds.  A rate is a sum over exports, so it is never     *)
(* negative; of the counters it is enough that none stands above what was  *)
(* done.                                                                   *)
(***************************************************************************)
Bounded ==
  /\ done \in [Servers -> [Counters -> 0 .. MaxOps]]
  /\ cnt \in [Servers -> [Counters -> Absent .. MaxOps]]
  /\ \A s \in Servers, c \in Counters : cnt[s][c] <= done[s][c]
  /\ wire \in [Servers -> Samples]
  /\ host_map \in [Hosts -> Entries]
  /\ nid_map \in [Nids -> Hosts \cup {NoHost}]
  /\ first \in [Servers -> [Counters -> 0 .. MaxOps]]
  /\ mishaps \in 0 .. MaxMishaps

LEMMA EmptyBounded == NoSample \in Samples /\ NoEntry \in Entries /\ NoRates \in Rates
<1>1. NoSample \in Samples
  BY BoundsAssumption DEF NoSample, Samples, Absent
<1>2. NoEntry \in Entries
  BY <1>1 DEF NoEntry, Entries
<1>3. NoRates \in Rates
  BY BoundsAssumption DEF NoRates, Rates
<1> QED
  BY <1>1, <1>2, <1>3

LEMMA InitBounded == Init => Bounded /\ server_tag_rate_map \in [Hosts -> Rates]
<1> SUFFICES ASSUME Init PROVE Bounded /\ server_tag_rate_map \in [Hosts -> Rates]
  OBVIOUS
<1>1. \A s \in Servers, c \in Counters : cnt[s][c] <= done[s][c]
  BY DEF Init, Absent
<1>2. /\ wire \in [Servers -> Samples] /\ host_map \in [Hosts -> Entries]
      /\ nid_map \in [Nids -> Hosts \cup {NoHost}]
      /\ server_tag_rate_map \in [Hosts -> Rates]
  BY EmptyBounded DEF Init, EmptyHostMap, EmptyNidMap, EmptyRateMap
<1>3. /\ done \in [Servers -> [Counters -> 0 .. MaxOps]]
      /\ cnt \in [Servers -> [Counters -> Absent .. MaxOps]]
      /\ first \in [Servers -> [Counters -> 0 .. MaxOps]]
      /\ mishaps \in 0 .. MaxMishaps
  BY BoundsAssumption DEF Init, Absent
<1> QED
  BY <1>1, <1>2, <1>3 DEF Bounded

LEMMA BoundedStep == Bounded /\ [Next]_vars => Bounded'
<1> SUFFICES ASSUME Bounded, [Next]_vars PROVE Bounded'
  OBVIOUS
<1>1. ASSUME NEW s \in Servers, NEW c \in Counters, Operation(s, c) PROVE Bounded'
  <2> DEFINE up == IF cnt[s][c] = Absent THEN 1 ELSE cnt[s][c] + 1
  <2>1. done[s][c] \in 0 .. MaxOps /\ cnt[s][c] \in Absent .. MaxOps /\ cnt[s][c] <= done[s][c]
    BY DEF Bounded
  <2>2. done[s][c] + 1 \in 0 .. MaxOps /\ up \in Absent .. MaxOps /\ up <= done[s][c] + 1
    BY <1>1, <2>1, BoundsAssumption DEF Operation, Absent
  <2>3. /\ done' = [done EXCEPT ![s] = [done[s] EXCEPT ![c] = done[s][c] + 1]]
        /\ cnt' = [cnt EXCEPT ![s] = [cnt[s] EXCEPT ![c] = up]]
        /\ UNCHANGED <<wire, host_map, nid_map, first, mishaps>>
    BY <1>1 DEF Operation, maps, history
  <2> HIDE DEF up
  <2>4. done' \in [Servers -> [Counters -> 0 .. MaxOps]] /\ cnt' \in [Servers -> [Counters -> Absent .. MaxOps]]
    BY <2>2, <2>3 DEF Bounded
  <2>5. \A t \in Servers, m \in Counters : cnt'[t][m] <= done'[t][m]
    BY <2>2, <2>3 DEF Bounded
  <2> QED
    BY <2>3, <2>4, <2>5 DEF Bounded
<1>2. ASSUME NEW s \in Servers, NEW n \in Nids, ExportGone(s, n) PROVE Bounded'
  <2> DEFINE left == [c \in Counters |-> IF NidOf(c) = n THEN Absent ELSE cnt[s][c]]
  <2>1. Absent \in Absent .. MaxOps /\ mishaps + 1 \in 0 .. MaxMishaps
    BY <1>2, BoundsAssumption DEF Bounded, ExportGone, Absent
  <2>2. /\ cnt' = [cnt EXCEPT ![s] = left]
        /\ mishaps' = mishaps + 1
        /\ UNCHANGED <<done, wire, host_map, nid_map, first>>
    BY <1>2 DEF ExportGone, maps, Bounded
  <2>5. \A c \in Counters : done[s][c] \in 0 .. MaxOps /\ cnt[s][c] <= done[s][c]
    BY DEF Bounded
  <2>6. left \in [Counters -> Absent .. MaxOps] /\ \A c \in Counters : left[c] <= done[s][c]
    BY <2>1, <2>5 DEF Bounded, Absent
  <2> HIDE DEF left
  <2>3. cnt' \in [Servers -> [Counters -> Absent .. MaxOps]]
    BY <2>2, <2>6 DEF Bounded
  <2>4. \A t \in Servers, m \in Counters : cnt'[t][m] <= done'[t][m]
    BY <2>2, <2>6 DEF Bounded
  <2> QED
    BY <2>1, <2>2, <2>3, <2>4 DEF Bounded
<1>3. ASSUME NEW s \in Servers, SendReport(s) PROVE Bounded'
  <2>1. PICK t \in 1 .. MaxTime :
          wire' = [wire EXCEPT ![s] = [time |-> t, cnt |-> cnt[s], ops |-> done[s]]]
    BY <1>3 DEF SendReport
  <2>2. t \in 0 .. MaxTime
    BY BoundsAssumption
  <2>3. [time |-> t, cnt |-> cnt[s], ops |-> done[s]] \in Samples
    BY <2>2 DEF Bounded, Samples
  <2> QED
    BY <1>3, <2>1, <2>3 DEF SendReport, lustre, maps, history, Bounded
<1>4. ASSUME NEW s \in Servers, LoseReport(s) PROVE Bounded'
  BY <1>4, EmptyBounded DEF LoseReport, lustre, maps, history, Bounded
<1>5. ASSUME NEW s \in Servers, ReportRpc(s) PROVE Bounded'
  <2>1. host_map[s] \in Entries /\ wire[s] \in Samples /\ host_map \in [Hosts -> Entries] /\ s \in Hosts
    BY DEF Bounded, Hosts
  <2> DEFINE e == [host_map[s] EXCEPT !.known = TRUE, !.cur = wire[s]]
  <2>2. e \in Entries /\ host_map' = [host_map EXCEPT ![s] = e]
    BY <1>5, <2>1 DEF ReportRpc, Entries
  <2> HIDE DEF e
  <2>3. host_map' \in [Hosts -> Entries]
    BY <2>1, <2>2
  <2>4. wire' = [wire EXCEPT ![s] = NoSample] /\ UNCHANGED <<done, cnt, nid_map, first, mishaps>>
    BY <1>5 DEF ReportRpc, lustre, history
  <2> QED
    BY <2>3, <2>4, EmptyBounded DEF Bounded
<1>6. ASSUME NEW h \in Clients, TagRpc(h) PROVE Bounded'
  <2>1. host_map[h] \in Entries /\ host_map \in [Hosts -> Entries] /\ h \in Hosts
    BY DEF Bounded, Hosts
  <2> DEFINE known == [host_map[h] EXCEPT !.known = TRUE]
             given(j) == [host_map[h] EXCEPT !.known = TRUE, !.job = j]
  <2>2. PICK j \in Jobs : \/ host_map' = [host_map EXCEPT ![h] = known]
                          \/ host_map' = [host_map EXCEPT ![h] = given(j)]
    BY <1>6, <2>1 DEF TagRpc, Entries
  <2>3. known \in Entries /\ given(j) \in Entries
    BY <2>1 DEF Entries
  <2> HIDE DEF known, given
  <2>4. host_map' \in [Hosts -> Entries]
    BY <2>1, <2>2, <2>3
  <2>5. nid_map' \in [Nids -> Hosts \cup {NoHost}]
    BY <1>6, <2>1 DEF TagRpc, Bounded
  <2>6. UNCHANGED <<done, cnt, wire, first, mishaps>>
    BY <1>6 DEF TagRpc, lustre, history
  <2> QED
    BY <2>4, <2>5, <2>6 DEF Bounded
<1>7. CASE Tick
  <2>1. \A h \in Hosts : host_map[h] \in Entries /\ [host_map[h] EXCEPT !.old = host_map[h].cur] \in Entries
    BY DEF Bounded, Entries
  <2>2. host_map' \in [Hosts -> Entries]
    BY <1>7, <2>1 DEF Tick
  <2>3. \A s \in Servers, c \in Counters : host_map[s].cur.ops[c] \in 0 .. MaxOps /\ first[s][c] \in 0 .. MaxOps
    BY DEF Bounded, Hosts, Entries, Samples
  <2>4. first' \in [Servers -> [Counters -> 0 .. MaxOps]]
    BY <1>7, <2>3 DEF Tick
  <2>5. UNCHANGED <<done, cnt, wire, nid_map, mishaps>>
    BY <1>7 DEF Tick, lustre
  <2> QED
    BY <2>2, <2>4, <2>5 DEF Bounded
<1>8. CASE Restart
  <2>1. mishaps' \in 0 .. MaxMishaps
    BY <1>8, BoundsAssumption DEF Restart, Bounded
  <2>2. /\ wire' \in [Servers -> Samples] /\ host_map' \in [Hosts -> Entries]
        /\ nid_map' \in [Nids -> Hosts \cup {NoHost}]
    BY <1>8, EmptyBounded DEF Restart, EmptyHostMap, EmptyNidMap
  <2> QED
    BY <1>8, <2>1, <2>2 DEF Restart, lustre, Bounded
<1>9. CASE UNCHANGED vars
  BY <1>9 DEF vars, lustre, maps, history, Bounded
<1> QED
  BY <1>1, <1>2, <1>3, <1>4, <1>5, <1>6, <1>7, <1>8, <1>9 DEF Next


\* What the exports of a host did between two reports, as a function.
Deltas(old, cur) == [c \in Counters |-> Delta(old, cur, c)]

\* The sum of a row, written with an operator, is a sum over that function.
LEMMA DeltasAdded ==
  ASSUME NEW old, NEW cur, NEW S \in SUBSET Counters
  PROVE  MapThenSumSet(LAMBDA c : Delta(old, cur, c), S) = SumFunctionOnSet(Deltas(old, cur), S)
<1> DEFINE g == CHOOSE h : h = [s \in SUBSET S |-> IF s = {} THEN 0
                                 ELSE Delta(old, cur, CHOOSE x \in s : TRUE)
                                        + h[s \ {CHOOSE x \in s : TRUE}]]
<1>0. IsFiniteSet(S)
  BY CountersFinite, FS_Subset DEF CountersOf
<1>1. MapThenSumSet(LAMBDA c : Delta(old, cur, c), S) = g[S]
  BY DEF MapThenSumSet, MapThenFoldSet
<1>2. \A s \in SUBSET S : s # {} => Delta(old, cur, OneOf(s)) = Deltas(old, cur)[OneOf(s)]
  BY OneOfIsOne DEF Deltas
<1>3. ASSUME NEW h
      PROVE  IsSum(h, Deltas(old, cur), S)
               <=> h = [s \in SUBSET S |-> IF s = {} THEN 0
                          ELSE Delta(old, cur, OneOf(s)) + h[s \ {OneOf(s)}]]
  <2>1. [s \in SUBSET S |-> IF s = {} THEN 0
           ELSE Delta(old, cur, OneOf(s)) + h[s \ {OneOf(s)}]]
        = [s \in SUBSET S |-> IF s = {} THEN 0
             ELSE Deltas(old, cur)[OneOf(s)] + h[s \ {OneOf(s)}]]
    BY <1>2
  <2> QED
    BY <2>1 DEF IsSum
<1>4. PICK h : IsSum(h, Deltas(old, cur), S)
  BY <1>0, SumExists
<1>5. g = [s \in SUBSET S |-> IF s = {} THEN 0
             ELSE Delta(old, cur, OneOf(s)) + g[s \ {OneOf(s)}]]
  <2>1. h = [s \in SUBSET S |-> IF s = {} THEN 0
               ELSE Delta(old, cur, CHOOSE x \in s : TRUE) + h[s \ {CHOOSE x \in s : TRUE}]]
    BY <1>3, <1>4 DEF OneOf
  <2> QED
    BY <2>1 DEF OneOf
<1>6. IsSum(g, Deltas(old, cur), S)
  <2> HIDE DEF g
  <2> QED
    BY <1>3, <1>5
<1> QED
  <2> HIDE DEF g
  <2> QED
    BY <1>0, <1>1, <1>6, SumIs

LEMMA DeltaIsNat ==
  ASSUME NEW old \in Samples, NEW cur \in Samples, NEW c \in Counters
  PROVE  Delta(old, cur, c) \in Nat
<1>1. old.cnt[c] \in Absent .. MaxOps /\ cur.cnt[c] \in Absent .. MaxOps
  BY DEF Samples
<1>2. old.cnt[c] \in Int /\ cur.cnt[c] \in Int
  BY <1>1, BoundsAssumption DEF Absent
<1> QED
  BY <1>2 DEF Delta

LEMMA RowsAreNat ==
  ASSUME NEW old \in Samples, NEW cur \in Samples
  PROVE  Rows(old, cur) \in [Jobs \cup {NoJob} -> Nat]
<1>1. ASSUME NEW j \in Jobs \cup {NoJob}
      PROVE  MapThenSumSet(LAMBDA c : Delta(old, cur, c), CountersOf(j)) \in Nat
  <2> DEFINE S == CountersOf(j)
  <2>1. S \in SUBSET Counters /\ IsFiniteSet(S)
    BY CountersFinite, FS_Subset DEF CountersOf
  <2>2. \A c \in S : Deltas(old, cur)[c] \in Nat
    <3>1. \A c \in Counters : Deltas(old, cur)[c] = Delta(old, cur, c)
      BY DEF Deltas
    <3> QED
      BY <2>1, <3>1, DeltaIsNat
  <2> HIDE DEF S
  <2>3. SumFunctionOnSet(Deltas(old, cur), S) \in Nat
    BY <2>1, <2>2, SumType
  <2>4. MapThenSumSet(LAMBDA c : Delta(old, cur, c), S) \in Nat
    BY <2>1, <2>3, DeltasAdded
  <2> QED
    BY <2>4 DEF S
<1> QED
  BY <1>1 DEF Rows

LEMMA RatesStep ==
  ASSUME IInv, Bounded, server_tag_rate_map \in [Hosts -> Rates], [Next]_vars
  PROVE  server_tag_rate_map' \in [Hosts -> Rates]
<1>1. CASE Tick
  <2>1. ASSUME NEW h \in Hosts
        PROVE  LET e == host_map[h]
               IN  (IF IsNew(e)
                    THEN [time |-> e.cur.time, dt |-> e.cur.time - e.old.time, rows |-> Rows(e.old, e.cur)]
                    ELSE server_tag_rate_map[h]) \in Rates
    <3> DEFINE e == host_map[h]
    <3>1. e.old \in Samples /\ e.cur \in Samples
      BY DEF Bounded, Entries
    <3>2. e.old.time \in 0 .. MaxTime /\ e.cur.time \in 0 .. MaxTime
      BY <3>1 DEF Samples
    <3>3. Rows(e.old, e.cur) \in [Jobs \cup {NoJob} -> Nat]
      BY <3>1, RowsAreNat
    <3>4. IsNew(e) => e.cur.time - e.old.time \in 0 .. MaxTime
      BY <3>2, BoundsAssumption DEF IsNew
    <3> QED
      BY <3>2, <3>3, <3>4 DEF Rates
  <2> QED
    BY <1>1, <2>1 DEF Tick
<1>2. CASE Restart
  BY <1>2, EmptyBounded DEF Restart, EmptyRateMap
<1>3. CASE UNCHANGED server_tag_rate_map
  BY <1>3
<1>4. \/ Tick \/ Restart \/ UNCHANGED server_tag_rate_map
  BY DEF Next, vars, Operation, ExportGone, SendReport, LoseReport, ReportRpc, TagRpc
<1> QED
  BY <1>1, <1>2, <1>3, <1>4

\* The variables keep their types. No rate is negative, and none is over a negative
\* time, whatever counters and clocks do (calc_rates 309-318).
THEOREM TypeCorrect == Spec => []TypeOK
<1> DEFINE B == Bounded /\ server_tag_rate_map \in [Hosts -> Rates]
<1>1. Init => B
  BY InitBounded
<1>2. IInv /\ B /\ [Next]_vars => B'
  BY BoundedStep, RatesStep
<1>3. IInv /\ B => TypeOK
  <2> SUFFICES ASSUME IInv, B PROVE TypeOK
    OBVIOUS
  <2>1. \A s \in Servers, c \in Counters :
          acc[s][c] \in Nat /\ acc[s][c] <= done[s][c] /\ done[s][c] \in 0 .. MaxOps
    BY DEF IInv, Types, Chain, Bounded
  <2>2. \A s \in Servers, c \in Counters : acc[s][c] \in 0 .. MaxOps
    BY <2>1, BoundsAssumption
  <2>3. acc \in [Servers -> [Counters -> 0 .. MaxOps]]
    BY <2>2 DEF IInv, Types
  <2> QED
    BY <2>3 DEF Bounded, TypeOK
<1> QED
  BY InvariantHolds, <1>1, <1>2, <1>3, PTL DEF Spec


-----------------------------------------------------------------------------
(***************************************************************************)
(* RowsAddUp: the rows are the sums over the parts the tags make of the    *)
(* nids.                                                                   *)
(***************************************************************************)
\* A sum of differences, written with an operator, is a sum over a function.
LEMMA GrowthAdded ==
  ASSUME NEW a, NEW b
  PROVE  MapThenSumSet(LAMBDA c : a[c] - b[c], Counters)
           = SumFunctionOnSet([c \in Counters |-> a[c] - b[c]], Counters)
<1> DEFINE d == [c \in Counters |-> a[c] - b[c]]
           g == CHOOSE h : h = [s \in SUBSET Counters |-> IF s = {} THEN 0
                                 ELSE (a[CHOOSE x \in s : TRUE] - b[CHOOSE x \in s : TRUE])
                                        + h[s \ {CHOOSE x \in s : TRUE}]]
<1>1. MapThenSumSet(LAMBDA c : a[c] - b[c], Counters) = g[Counters]
  BY DEF MapThenSumSet, MapThenFoldSet
<1>2. \A s \in SUBSET Counters : s # {} => d[OneOf(s)] = a[OneOf(s)] - b[OneOf(s)]
  BY OneOfIsOne
<1>3. ASSUME NEW h
      PROVE  IsSum(h, d, Counters)
               <=> h = [s \in SUBSET Counters |-> IF s = {} THEN 0
                          ELSE (a[OneOf(s)] - b[OneOf(s)]) + h[s \ {OneOf(s)}]]
  <2>1. [s \in SUBSET Counters |-> IF s = {} THEN 0
           ELSE (a[OneOf(s)] - b[OneOf(s)]) + h[s \ {OneOf(s)}]]
        = [s \in SUBSET Counters |-> IF s = {} THEN 0 ELSE d[OneOf(s)] + h[s \ {OneOf(s)}]]
    BY <1>2
  <2> HIDE DEF d
  <2> QED
    BY <2>1 DEF IsSum
<1>4. PICK h : IsSum(h, d, Counters)
  <2> HIDE DEF d
  <2> QED
    BY CountersFinite, SumExists
<1>5. g = [s \in SUBSET Counters |-> IF s = {} THEN 0
             ELSE (a[OneOf(s)] - b[OneOf(s)]) + g[s \ {OneOf(s)}]]
  <2>1. h = [s \in SUBSET Counters |-> IF s = {} THEN 0
               ELSE (a[CHOOSE x \in s : TRUE] - b[CHOOSE x \in s : TRUE])
                      + h[s \ {CHOOSE x \in s : TRUE}]]
    BY <1>3, <1>4 DEF OneOf
  <2> QED
    BY <2>1 DEF OneOf
<1>6. IsSum(g, d, Counters)
  <2> HIDE DEF g, d
  <2> QED
    BY <1>3, <1>5
<1> QED
  <2> HIDE DEF g
  <2> QED
    BY <1>1, <1>6, SumIs, CountersFinite

\* What the rows add up to, for any tags.
LEMMA RowsTotal ==
  ASSUME NEW old \in Samples, NEW cur \in Samples, \A c \in Counters : TagOf(NidOf(c)) \in Jobs \cup {NoJob}
  PROVE  SumFunctionOnSet(Rows(old, cur), Jobs \cup {NoJob})
           = SumFunctionOnSet(Deltas(old, cur), Counters)
<1> DEFINE J == Jobs \cup {NoJob}
           tag == [c \in Counters |-> TagOf(NidOf(c))]
           d == Deltas(old, cur)
<1>1. IsFiniteSet(J) /\ IsFiniteSet(Counters)
  BY HostsAssumption, CountersFinite, FS_AddElement
<1>2. \A c \in Counters : d[c] \in Int /\ tag[c] \in J
  BY DeltaIsNat DEF Deltas
<1>3. \A j \in J : CountersOf(j) = {c \in Counters : tag[c] = j}
  BY DEF CountersOf
<1>4. ASSUME NEW j \in J
      PROVE  Rows(old, cur)[j] = SumFunctionOnSet(d, {c \in Counters : tag[c] = j})
  <2> DEFINE S == CountersOf(j)
  <2>1. S \in SUBSET Counters
    BY DEF CountersOf
  <2>2. Rows(old, cur)[j] = MapThenSumSet(LAMBDA c : Delta(old, cur, c), S)
    BY DEF Rows
  <2>3. S = {c \in Counters : tag[c] = j}
    BY <1>3
  <2> HIDE DEF S
  <2>4. MapThenSumSet(LAMBDA c : Delta(old, cur, c), S) = SumFunctionOnSet(d, S)
    BY <2>1, DeltasAdded
  <2> QED
    BY <2>2, <2>3, <2>4
<1> DEFINE parts == [j \in J |-> SumFunctionOnSet(d, {c \in Counters : tag[c] = j})]
<1>5. \A j \in J : Rows(old, cur)[j] = parts[j]
  BY <1>4
<1>6. SumFunctionOnSet(parts, J) = SumFunctionOnSet(d, Counters)
  <2> HIDE DEF d, tag, J
  <2> QED
    BY <1>1, <1>2, SumOfParts
<1>7. SumFunctionOnSet(Rows(old, cur), J) = SumFunctionOnSet(parts, J)
  <2> HIDE DEF parts, J, d, tag
  <2> QED
    BY <1>1, <1>5, SumSame
<1> QED
  BY <1>6, <1>7

\* The sum RowsAddUp takes of a host's rows, as one over a function.
LEMMA RowsAdded ==
  ASSUME NEW r
  PROVE  MapThenSumSet(LAMBDA j : r[j], DOMAIN r) = SumFunctionOnSet(r, DOMAIN r)
  BY DEF MapThenSumSet, SumFunctionOnSet, FoldFunctionOnSet

LEMMA TickAddsUp ==
  ASSUME IInv, Bounded, Tick, NEW s \in Servers,
         server_tag_rate_map'[s] # server_tag_rate_map[s]
  PROVE  LET r == server_tag_rate_map'[s].rows
         IN  MapThenSumSet(LAMBDA j : r[j], DOMAIN r)
               = MapThenSumSet(LAMBDA c : acc'[s][c] - acc[s][c], Counters)
<1> DEFINE e == host_map[s]
           J == Jobs \cup {NoJob}
           r == server_tag_rate_map'[s].rows
           grown == [c \in Counters |-> acc'[s][c] - acc[s][c]]
<1>1. s \in Hosts /\ e.old \in Samples /\ e.cur \in Samples
  BY DEF Bounded, Entries, Hosts
<1>2. IsNew(e) /\ r = Rows(e.old, e.cur)
  BY <1>1 DEF Tick
<1>3. DOMAIN r = J
  BY <1>2 DEF Rows
<1>4. \A c \in Counters : TagOf(NidOf(c)) \in J
  <2>1. ASSUME NEW n \in Nids
        PROVE  TagOf(n) \in J
    BY DEF Bounded, TagOf, Entries
  <2>2. \A c \in Counters : NidOf(c) \in Nids
    BY DEF Counters, NidOf
  <2> QED
    BY <2>1, <2>2
<1>5. \A c \in Counters : grown[c] = Deltas(e.old, e.cur)[c]
  <2>1. \A c \in Counters : acc'[s][c] = acc[s][c] + Delta(e.old, e.cur, c)
    BY <1>2 DEF Tick
  <2>2. \A c \in Counters : acc[s][c] \in Nat /\ Delta(e.old, e.cur, c) \in Nat
    BY <1>1, DeltaIsNat DEF IInv, Types
  <2> QED
    BY <2>1, <2>2 DEF Deltas
<1>6. SumFunctionOnSet(r, J) = SumFunctionOnSet(Deltas(e.old, e.cur), Counters)
  BY <1>1, <1>2, <1>4, RowsTotal
<1>7. SumFunctionOnSet(grown, Counters) = SumFunctionOnSet(Deltas(e.old, e.cur), Counters)
  <2> HIDE DEF grown, e
  <2> QED
    BY <1>5, SumSame, CountersFinite
<1>8. MapThenSumSet(LAMBDA c : acc'[s][c] - acc[s][c], Counters) = SumFunctionOnSet(grown, Counters)
  BY GrowthAdded
<1>9. MapThenSumSet(LAMBDA j : r[j], DOMAIN r) = SumFunctionOnSet(r, DOMAIN r)
  BY RowsAdded
<1> QED
  BY <1>3, <1>6, <1>7, <1>8, <1>9

\* What is published for a server adds up to what its exports did, whoever
\* registers a nid or changes a job meanwhile: aggregate_stat and add_stats lose no
\* export and take none twice (tag_stats by the host's one entry).
THEOREM RowsAddUpHolds == Spec => RowsAddUp
<1> DEFINE J == IInv /\ Complete /\ Bounded
           AddsUp == \A s \in Servers :
                       LET is == server_tag_rate_map'[s]
                       IN  mishaps' = mishaps /\ is # server_tag_rate_map[s] =>
                             MapThenSumSet(LAMBDA j : is.rows[j], DOMAIN is.rows)
                               = MapThenSumSet(LAMBDA c : acc'[s][c] - acc[s][c], Counters)
<1>1. Init => J
  BY InitIInv, InitComplete, InitBounded
<1>2. J /\ [Next]_vars => J'
  BY TypesStep, ReportedStep, ChainStep, CompleteStep, BoundedStep DEF IInv
<1>3. J /\ [Next]_vars => AddsUp
  <2> SUFFICES ASSUME J, [Next]_vars, NEW s \in Servers,
                      mishaps' = mishaps, server_tag_rate_map'[s] # server_tag_rate_map[s]
               PROVE  LET is == server_tag_rate_map'[s]
                      IN  MapThenSumSet(LAMBDA j : is.rows[j], DOMAIN is.rows)
                            = MapThenSumSet(LAMBDA c : acc'[s][c] - acc[s][c], Counters)
    OBVIOUS
  <2>1. Tick
    <3>1. ~ Restart
      BY DEF Restart, Bounded
    <3>2. \/ Tick \/ Restart \/ UNCHANGED server_tag_rate_map
      BY DEF Next, vars, Operation, ExportGone, SendReport, LoseReport, ReportRpc, TagRpc
    <3> QED
      BY <3>1, <3>2
  <2> QED
    BY <2>1, TickAddsUp
<1> QED
  BY <1>1, <1>2, <1>3, PTL DEF Spec, RowsAddUp


=============================================================================
