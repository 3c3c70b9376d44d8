----------------------------- MODULE PfsqlProofs ------------------------------
(***************************************************************************)
(* Theorems about what gets into the database: Pipeline, for any           *)
(* configuration files, any number of reports and any disturbances, and    *)
(* PqInsert, for any buffer, any lengths of records and any entries.       *)
(*                                                                         *)
(* Pipeline: RowsForward rests on the order in which a rate passes through *)
(* the daemons: last, frozen, board, old and cur lie one after the other   *)
(* (Order).  RowsJoin needs the time as well: a report is copied, and its  *)
(* rate inserted, before the client's timer has run out again (Timing).    *)
(***************************************************************************)
EXTENDS Pipeline, PqInsert, FiniteSetTheorems, SequenceTheorems, TLAPS

USE IntervalsAssumption, BoundsAssumption

LEMMA SettingsLemma ==
  /\ Client \in Daemons /\ Server \in Daemons /\ Pfsql \in Daemons
  /\ Client # Server /\ Client # Pfsql /\ Server # Pfsql
  /\ Settings[Client] = Frequencies /\ Settings[Server] = ShmIntervals
  /\ Settings[Pfsql] = DbIntervals
  /\ \A d \in Daemons : Settings[d] \subseteq Nat
  /\ \A d \in Daemons : d = Client \/ d = Server \/ d = Pfsql
  BY DEF Settings, Daemons, Client, Server, Pfsql

LEMMA AgainLemma == \A v \in Nat : Again(v) \in {Off} \cup 0 .. v /\ Again(v) \in Int
  BY DEF Again, Off

Both == {"named", "older"}

\* Every timer has a natural interval, and the client's ends with its reports.
Typed ==
  /\ TypeOK
  /\ repeat \in [Daemons -> Nat] /\ left \in [Daemons -> Int]
  /\ sent = MaxReports => left[Client] = Off

LEMMA InitTyped == Init => Typed
<1> SUFFICES ASSUME Init PROVE Typed
  OBVIOUS
<1>1. repeat \in [Daemons -> Nat] /\ \A d \in Daemons : repeat[d] \in Settings[d]
  BY SettingsLemma DEF Init
<1>2. left \in [Daemons -> Int] /\ \A d \in Daemons : left[d] = 0
  BY DEF Init
<1> QED
  BY <1>1, <1>2 DEF Init, Typed, TypeOK, NoRate, Rate, Rates, Off

\* A timer that starts over with an interval of the file.
LEMMA Started ==
  ASSUME Typed, NEW d \in Daemons, NEW v \in Settings[d], NEW a \in {Off} \cup 0 .. v,
         repeat' = [repeat EXCEPT ![d] = v], left' = [left EXCEPT ![d] = a]
  PROVE  /\ repeat' \in [Daemons -> Nat] /\ left' \in [Daemons -> Int]
         /\ \A e \in Daemons : /\ repeat'[e] \in Settings[e]
                               /\ left'[e] \in {Off, 0} \cup 0 .. repeat'[e]
<1>1. v \in Nat /\ a \in Int
  BY SettingsLemma DEF Off
<1> QED
  BY <1>1 DEF Typed, TypeOK

LEMMA TypedStep == Typed /\ [Next]_vars => Typed'
<1> SUFFICES ASSUME Typed, [Next]_vars PROVE Typed'
  OBVIOUS
<1> USE DEF timers, maps, memory, tokens
<1>0. /\ TypeOK /\ repeat \in [Daemons -> Nat] /\ left \in [Daemons -> Int]
      /\ \A d \in Daemons : /\ repeat[d] \in Settings[d] /\ repeat[d] \in Nat
                            /\ left[d] \in {Off, 0} \cup 0 .. repeat[d]
  BY DEF Typed, TypeOK
<1> DEFINE TimersOK == /\ repeat \in [Daemons -> Nat] /\ left \in [Daemons -> Int]
                       /\ \A d \in Daemons : /\ repeat[d] \in Settings[d]
                                             /\ left[d] \in {Off, 0} \cup 0 .. repeat[d]
\* A callback that starts its own timer again.
<1>a. ASSUME NEW d \in Daemons, NEW a \in {Off} \cup 0 .. repeat[d], repeat' = repeat,
             left' = [left EXCEPT ![d] = a]
      PROVE  TimersOK'
  <2>1. a \in Int
    BY <1>0, <1>a DEF Off
  <2> QED
    BY <1>0, <1>a, <2>1
<1>b. ASSUME TimersOK', UNCHANGED sent, left'[Client] = left[Client],
             UNCHANGED <<cur, old>> \/ (old' = cur /\ cur' = cur) \/ (old' = 0 /\ cur' = 0),
             fuse' \in Off .. FuseInterval, server' \in {"up", "stopped", "crashed"},
             pfsql' \in BOOLEAN, board' \in Rates, frozen' \in Rates, last' \in Rates,
             attached' \in BOOLEAN, linked' \in BOOLEAN, calm' \in {calm, sent},
             shared' \in BOOLEAN, blank' \in SUBSET Both, lost' \in SUBSET Both,
             mishaps' \in 0 .. MaxMishaps
      PROVE  Typed'
  BY <1>0, <1>b DEF Typed, TypeOK, Both
<1>t. blank \in SUBSET Both /\ lost \in SUBSET Both /\ shared \in BOOLEAN
      /\ Mem \in Both /\ Sem \in Both
  BY <1>0 DEF TypeOK, Both, Mem, Sem
<1>c. NoRate \in Rates
  BY DEF NoRate, Rates, Rate
<1>d. Disturb => calm' = sent /\ mishaps' \in 0 .. MaxMishaps
  BY <1>0 DEF Disturb, TypeOK
<1>e. Client \in Daemons /\ Server \in Daemons /\ Pfsql \in Daemons
  BY SettingsLemma
<1>1. CASE Report
  <2>1. sent < MaxReports /\ sent' = sent + 1 /\ sent' \in 1 .. MaxReports
    BY <1>0, <1>1 DEF Report, Due, Typed, TypeOK, Off
  <2>2. /\ left' = [left EXCEPT ![Client] =
                      IF sent' = MaxReports THEN Off ELSE Again(repeat[Client])]
        /\ repeat' = repeat
    BY <1>1 DEF Report
  <2>3. TimersOK'
    BY <1>0, <1>a, <1>e, <2>2, AgainLemma
  <2>4. sent' = MaxReports => left'[Client] = Off
    BY <1>0, <1>e, <2>2
  <2>5. calm' \in 0 .. sent' /\ cur' \in {cur, sent'} /\ mishaps' \in 0 .. MaxMishaps
    BY <1>0, <1>1, <2>1 DEF Report, TypeOK
  <2>6. UNCHANGED <<fuse, server, pfsql, old, memory, tokens, linked, last>>
    BY <1>1 DEF Report
  <2>7. old' \in 0 .. cur' /\ cur' \in 0 .. sent'
    BY <1>0, <2>1, <2>5, <2>6 DEF TypeOK
  <2> QED
    BY <1>0, <2>1, <2>3, <2>4, <2>5, <2>6, <2>7 DEF Typed, TypeOK
<1>2. CASE Copy
  <2>1. TimersOK' /\ left'[Client] = left[Client]
    BY <1>0, <1>2, <1>a, <1>e, AgainLemma, SettingsLemma DEF Copy, Rearm
  <2>2. board' \in Rates
    BY <1>0, <1>2 DEF Copy, Rate, Rates, TypeOK
  <2> QED
    BY <1>0, <1>t, <1>2, <1>b, <2>1, <2>2 DEF Copy, TypeOK
<1>3. CASE Insert \/ BadLook
  <2>1. TimersOK' /\ left'[Client] = left[Client]
    BY <1>0, <1>3, <1>a, <1>e, AgainLemma, SettingsLemma DEF Insert, BadLook, Rearm
  <2>2. lost' \in SUBSET Both /\ UNCHANGED <<shared, blank>>
    BY <1>t, <1>3 DEF Insert, BadLook
  <2> QED
    BY <1>0, <1>t, <1>3, <1>b, <2>1, <2>2 DEF Insert, BadLook, TypeOK
<1>11. CASE Fault
  <2>1. TimersOK' /\ left'[Client] = left[Client]
    BY <1>0, <1>11, <1>a, <1>e, SettingsLemma DEF Fault
  <2> QED
    BY <1>0, <1>t, <1>11, <1>b, <2>1 DEF Fault, TypeOK
<1>4. CASE Elapse
  <2>1. left' = [d \in Daemons |-> IF left[d] \in {Off, 0} THEN left[d] ELSE left[d] - 1]
    BY <1>4 DEF Elapse
  <2>2. \A d \in Daemons : left'[d] \in {Off, 0} \cup 0 .. repeat[d]
    BY <1>0, <2>1 DEF Off
  <2>3. TimersOK'
    BY <1>0, <1>4, <2>1, <2>2 DEF Elapse, Off
  <2>4. sent' = MaxReports => left'[Client] = Off
    BY <1>4, <1>e, <2>1 DEF Elapse, Typed
  <2>5. fuse' \in Off .. FuseInterval
    BY <1>0, <1>4 DEF Elapse, TypeOK, Off
  <2> QED
    BY <1>0, <1>4, <2>3, <2>4, <2>5 DEF Elapse, Typed, TypeOK
<1>5. ASSUME NEW d \in Daemons, Reload(d) PROVE Typed'
  <2>1. TimersOK'
    <3>1. PICK v \in Settings[d] : /\ repeat' = [repeat EXCEPT ![d] = v]
                                   /\ left' = [left EXCEPT ![d] = Again(v)]
      BY <1>5 DEF Reload
    <3>2. v \in Nat
      BY SettingsLemma
    <3> QED
      BY <3>1, <3>2, AgainLemma, Started
  <2>2. sent' = sent /\ (sent = MaxReports => left'[Client] = left[Client])
    <3>0. Runs(Client) = (sent < MaxReports)
      BY DEF Runs, Client, Server, Pfsql
    <3>1. d = Client => sent < MaxReports
      BY <1>5, <3>0 DEF Reload
    <3>2. \E v \in Settings[d] : left' = [left EXCEPT ![d] = Again(v)]
      BY <1>5 DEF Reload
    <3>3. d # Client => left'[Client] = left[Client]
      BY <1>0, <1>e, <3>2
    <3>4. sent' = sent /\ sent \in Nat
      BY <1>0, <1>5 DEF Reload, TypeOK
    <3> QED
      BY <3>1, <3>3, <3>4
  <2>3. fuse' \in Off .. FuseInterval
    BY <1>0, <1>5 DEF Reload, TypeOK, Off
  <2> QED
    BY <1>0, <1>5, <1>d, <2>1, <2>2, <2>3 DEF Reload, Typed, TypeOK
<1>6. CASE CrashServer \/ KillServer \/ StopServer
  <2>1. repeat' = repeat /\ left' = [left EXCEPT ![Server] = Off]
    BY <1>6 DEF CrashServer, KillServer, StopServer, ServerGone
  <2>2. TimersOK' /\ left'[Client] = left[Client]
    BY <1>0, <1>a, <1>e, <2>1, SettingsLemma
  <2>3. mishaps' \in 0 .. MaxMishaps /\ calm' = sent /\ sent' = sent
    BY <1>0, <1>6, <1>d DEF CrashServer, KillServer, StopServer, TypeOK
  <2>4. board' \in Rates /\ frozen' \in Rates
    BY <1>0, <1>6, <1>c DEF CrashServer, KillServer, StopServer, TypeOK
  <2>5. fuse' \in Off .. FuseInterval
    BY <1>6 DEF CrashServer, KillServer, StopServer, ServerGone, Off
  <2>6. old' = 0 /\ cur' = 0 /\ server' \in {"crashed", "stopped"}
    BY <1>6 DEF CrashServer, KillServer, StopServer, ServerGone
  <2>7. /\ pfsql' \in BOOLEAN /\ last' \in Rates /\ attached' \in BOOLEAN
        /\ linked' \in BOOLEAN
    BY <1>0, <1>6 DEF CrashServer, KillServer, StopServer, TypeOK
  <2>8. /\ shared' \in BOOLEAN /\ blank' \in SUBSET Both /\ lost' \in SUBSET Both
    BY <1>t, <1>6 DEF CrashServer, KillServer, StopServer, Both
  <2> QED
    BY <1>b, <2>2, <2>3, <2>4, <2>5, <2>6, <2>7, <2>8
<1>7. CASE StartServer
  <2>1. TimersOK' /\ left'[Client] = left[Client]
    <3>1. PICK v \in ShmIntervals : /\ repeat' = [repeat EXCEPT ![Server] = v]
                                    /\ left' = [left EXCEPT ![Server] = 0]
      BY <1>7 DEF StartServer
    <3> QED
      BY <1>0, <1>e, <3>1, SettingsLemma, Started
  <2>2. /\ shared' \in BOOLEAN /\ blank' \in SUBSET Both /\ lost' \in SUBSET Both
    BY <1>t, <1>7 DEF StartServer, Both
  <2> QED
    BY <1>0, <1>7, <1>b, <1>c, <2>1, <2>2 DEF StartServer, TypeOK
<1>8. CASE StopPfsql \/ BreakLink
  <2>1. TimersOK' /\ left'[Client] = left[Client]
    BY <1>0, <1>8, <1>a, <1>e, SettingsLemma DEF StopPfsql, BreakLink
  <2> QED
    BY <1>0, <1>t, <1>8, <1>b, <1>d, <2>1 DEF StopPfsql, BreakLink, TypeOK
<1>9. CASE StartPfsql
  <2>1. TimersOK' /\ left'[Client] = left[Client]
    <3>1. PICK v \in DbIntervals : repeat' = [repeat EXCEPT ![Pfsql] = v]
      BY <1>9 DEF StartPfsql
    <3>2. left' = [left EXCEPT ![Pfsql] = 0] /\ v \in Nat
      BY <1>9 DEF StartPfsql
    <3> QED
      BY <1>0, <1>e, <3>1, <3>2, SettingsLemma, Started
  <2>2. /\ shared' \in BOOLEAN /\ blank' \in SUBSET Both /\ lost' \in SUBSET Both
    BY <1>t, <1>9 DEF StartPfsql
  <2> QED
    BY <1>0, <1>9, <1>b, <2>1, <2>2 DEF StartPfsql, TypeOK
<1>10. CASE UNCHANGED vars
  BY <1>0, <1>10 DEF vars, Typed, TypeOK
<1> QED
  BY <1>1, <1>2, <1>3, <1>4, <1>5, <1>6, <1>7, <1>8, <1>9, <1>10, <1>11 DEF Next

\* The variables keep their types: no interval is negative and no timer runs for
\* longer than its interval, whatever the files say and whenever SIGHUP comes.
THEOREM TypedHolds == Spec => []Typed
  BY InitTyped, TypedStep, PTL DEF Spec

-----------------------------------------------------------------------------
(***************************************************************************)
(* The order of the rates.                                                 *)
(***************************************************************************)

\* Rate y is x again, is none, or begins where x ends or later.
Follows(x, y) == y \in {x, NoRate} \/ y.from >= x.to

\* Nothing in the daemons is older than what lies behind it on the way.
Order ==
  /\ server # "up" => cur = 0
  /\ \A x \in {last, board, frozen} : /\ x.to <= sent
                                      /\ cur # 0 => x.to <= cur
                                      /\ old # 0 => x.to <= old
  /\ Follows(last, board)
  /\ ~ attached => Follows(last, frozen) /\ Follows(frozen, board)

LEMMA InitOrder == Init => Order
  BY DEF Init, Order, Follows, NoRate, Rate

LEMMA OrderStep == Typed /\ Order /\ [Next]_vars => Order'
<1> SUFFICES ASSUME Typed, Order, [Next]_vars PROVE Order'
  OBVIOUS
<1> USE DEF timers, maps, memory, tokens
<1>0. /\ old \in Nat /\ cur \in Nat /\ sent \in Nat /\ old <= cur /\ cur <= sent
      /\ \A x \in {last, board, frozen} : x \in Rates /\ x.from \in Nat /\ x.to \in Nat
      /\ attached \in BOOLEAN
  BY DEF Typed, TypeOK, Rates
<1>1. CASE Report
  <2>1. /\ sent' = sent + 1 /\ cur' \in {cur, sent'} /\ (server # "up" => cur' = cur)
        /\ UNCHANGED <<server, old, last, board, frozen, attached>>
    BY <1>1 DEF Report, Serving
  <2> QED
    BY <1>0, <2>1 DEF Order, Follows
<1>2. CASE Copy
  <2>1. /\ UNCHANGED <<server, cur, sent, last, frozen, attached>> /\ old' = cur
        /\ \/ board' = board
           \/ 0 < old /\ old < cur /\ board' = Rate(old, cur)
    BY <1>2 DEF Copy
  <2>2. CASE board' = board
    BY <1>0, <2>1, <2>2 DEF Order, Follows
  <2>3. CASE 0 < old /\ old < cur /\ board' = Rate(old, cur)
    <3>1. board'.from = old /\ board'.to = cur
      BY <2>3 DEF Rate
    <3>2. last.to <= old /\ frozen.to <= old
      BY <2>3 DEF Order
    <3> QED
      BY <1>0, <2>1, <2>3, <3>1, <3>2 DEF Order, Follows
  <2> QED
    BY <2>1, <2>2, <2>3
<1>3. CASE Insert
  <2>1. /\ UNCHANGED <<server, cur, old, sent, board, frozen, attached>>
        /\ last' \in {last, IF attached THEN board ELSE frozen}
    BY <1>3 DEF Insert
  <2> QED
    BY <1>0, <2>1 DEF Order, Follows
<1>4. CASE CrashServer \/ KillServer
  <2>1. /\ cur' = 0 /\ old' = 0 /\ UNCHANGED <<sent, board, frozen, attached, last>>
    BY <1>4 DEF CrashServer, KillServer, ServerGone
  <2> QED
    BY <1>0, <2>1 DEF Order, Follows
<1>5. CASE StopServer
  <2>1. /\ cur' = 0 /\ old' = 0 /\ board' = NoRate /\ UNCHANGED <<sent, last>>
        /\ frozen' = IF attached THEN board ELSE frozen
        /\ attached' = FALSE
    BY <1>5 DEF StopServer, ServerGone
  <2>2. NoRate.to = 0
    BY DEF NoRate, Rate
  <2> QED
    BY <1>0, <2>1, <2>2 DEF Order, Follows
<1>6. CASE StartServer
  <2>1. /\ board' = NoRate /\ UNCHANGED <<cur, old, sent, frozen, attached, last>>
        /\ NoRate.to = 0 /\ cur = 0
    BY <1>6 DEF StartServer, NoRate, Rate, Order
  <2> QED
    BY <1>0, <2>1 DEF Order, Follows
<1>7. CASE StartPfsql
  BY <1>7 DEF StartPfsql, Order
<1>8. CASE Elapse \/ BadLook \/ Fault \/ StopPfsql \/ BreakLink \/ (\E d \in Daemons : Reload(d))
  BY <1>8 DEF Elapse, BadLook, Fault, StopPfsql, BreakLink, Reload, Order
<1>9. CASE UNCHANGED vars
  BY <1>9 DEF vars, Order
<1> QED
  BY <1>1, <1>2, <1>3, <1>4, <1>5, <1>6, <1>7, <1>8, <1>9 DEF Next

LEMMA OrderHolds == Spec => [](Typed /\ Order)
  BY InitOrder, OrderStep, TypedHolds, PTL DEF Spec

\* A row is the last one again or begins where that one ended or later, through
\* every restart, reload and lost report (stats.c 384-406, pq.c 60).
THEOREM Forward == Spec => RowsForward
<1>1. Typed /\ Order /\ [Next]_vars => (last' # last => last'.from >= last.to)
  <2> SUFFICES ASSUME Order, [Next]_vars, last' # last PROVE last'.from >= last.to
    OBVIOUS
  <2>1. Insert
    BY DEF Next, Report, Copy, BadLook, Fault, Elapse, Reload, CrashServer, KillServer, StopServer,
           StartServer, StopPfsql, StartPfsql, BreakLink, vars
  <2>2. last' = (IF attached THEN board ELSE frozen) /\ last' # NoRate
    BY <2>1 DEF Insert
  <2> QED
    BY <2>2 DEF Order, Follows
<1> QED
  BY <1>1, OrderHolds, PTL DEF Spec, RowsForward

\* The part of it the runs check: types and timers, for any intervals the files name.
THEOREM TypeCorrect == Spec => []TypeOK
  BY TypedHolds, PTL DEF Typed

-----------------------------------------------------------------------------
(***************************************************************************)
(* The timing.  From a disturbance on, calm is the newest report: a report *)
(* above calm was sent since, with intervals that fit.                     *)
(***************************************************************************)

\* What has been inserted or is on the board above calm has gone through daemons
\* that have run, and been connected, ever since.
Calm ==
  /\ sent > calm => Fits /\ lost = {}
  /\ ~ attached => frozen.to <= calm /\ last.to <= calm
  /\ ~ linked => last.to <= calm
  /\ server # "up" => board.to <= calm
  /\ server = "up" => board = NoRate \/ (old # 0 /\ board.to = old)

\* The newest report is copied within an interval of the shared memory, and the
\* rate on the board inserted within one of pfsql more, before the client's timer
\* runs out.  The time since the newest report is repeat[Client] - left[Client].
Timing ==
  /\ cur > calm /\ old < cur /\ left[Client] # Off /\ left[Server] # Off
       => left[Server] + repeat[Client] <= repeat[Server] + left[Client]
  /\ last.to > calm /\ left[Pfsql] # Off =>
       /\ board = last \/ board.from = last.to
       /\ old < cur => board = last
       /\ board # last /\ left[Client] # Off
            => left[Pfsql] + repeat[Client] <= repeat[Server] + repeat[Pfsql] + left[Client]

LEMMA InitTiming == Init => Calm /\ Timing
  BY DEF Init, Calm, Timing, NoRate, Rate

LEMMA TimingStep == Typed /\ Order /\ Calm /\ Timing /\ [Next]_vars => Calm' /\ Timing'
<1> SUFFICES ASSUME Typed, Order, Calm, Timing, [Next]_vars PROVE Calm' /\ Timing'
  OBVIOUS
<1> USE DEF timers, maps, memory, tokens
<1>0. /\ old \in Nat /\ cur \in Nat /\ sent \in Nat /\ old <= cur /\ cur <= sent
      /\ calm \in Nat /\ calm <= sent
      /\ \A x \in {last, board, frozen} : x.from \in Nat /\ x.to \in Nat
      /\ \A x \in {last, board, frozen} : x.to <= sent
      /\ attached \in BOOLEAN /\ linked \in BOOLEAN
      /\ repeat[Client] \in Nat /\ repeat[Server] \in Nat /\ repeat[Pfsql] \in Nat
      /\ left[Client] \in Int /\ left[Server] \in Int /\ left[Pfsql] \in Int
      /\ \A d \in {Client, Server, Pfsql} : left[d] = Off \/ (0 <= left[d] /\ left[d] <= repeat[d])
      /\ repeat \in [Daemons -> Nat] /\ left \in [Daemons -> Int]
  <2>1. \A d \in Daemons : repeat[d] \in Nat /\ left[d] \in Int
    BY DEF Typed
  <2>2. \A d \in Daemons : left[d] = Off \/ (0 <= left[d] /\ left[d] <= repeat[d])
    BY <2>1 DEF Typed, TypeOK
  <2> QED
    BY <2>1, <2>2, SettingsLemma DEF Typed, TypeOK, Rates, Order
<1>d. Disturb => calm' = sent
  BY DEF Disturb
\* After a disturbance nothing is above calm.
<1>q. ASSUME calm' = sent, sent' = sent, cur' \in {cur, 0}, last' = last,
             frozen' \in {frozen, board}, board' \in {board, NoRate},
             server' = "up" => board' = NoRate \/ (board' = board /\ old' = old /\ server = "up")
      PROVE  Calm' /\ Timing'
  <2>1. NoRate.to = 0
    BY DEF NoRate, Rate
  <2>2. /\ ~ (sent' > calm') /\ ~ (cur' > calm') /\ last'.to <= calm'
        /\ frozen'.to <= calm' /\ board'.to <= calm'
    BY <1>0, <1>q, <2>1
  <2> QED
    BY <1>0, <1>q, <2>2 DEF Calm, Timing
<1>1. CASE Report
  <2>1. /\ sent' = sent + 1 /\ calm' = (IF Fits /\ lost = {} THEN calm ELSE sent') /\ left[Client] = 0
        /\ UNCHANGED <<repeat, server, old, board, frozen, attached, lost, linked, last>>
        /\ \/ cur' = cur
           \/ cur' = sent'
        /\ Fits' = Fits
    BY <1>1 DEF Report, Due, Fits
  <2>2. left'[Server] = left[Server] /\ left'[Pfsql] = left[Pfsql]
    BY <1>0, <1>1, SettingsLemma DEF Report
  <2>3. left'[Client] \in {Off, repeat[Client]}
    BY <1>0, <1>1, SettingsLemma DEF Report, Again
  <2>4. Calm'
    BY <1>0, <2>1 DEF Calm
  <2>5. CASE ~ (Fits /\ lost = {})
    BY <1>0, <2>1, <2>4, <2>5 DEF Timing
  <2>6. CASE Fits /\ lost = {}
    \* The report before this one has been copied and its rate inserted.
    <3>1. last.to > calm /\ left[Pfsql] # Off => board = last
      BY <1>0, <2>1, <2>6 DEF Timing, Fits, Off
    <3>2. left'[Client] # Off /\ left'[Server] # Off
            => left'[Server] + repeat'[Client] <= repeat'[Server] + left'[Client]
      BY <1>0, <2>1, <2>2, <2>3
    <3> QED
      BY <1>0, <2>1, <2>2, <2>4, <2>6, <3>1, <3>2 DEF Timing
  <2> QED
    BY <2>4, <2>5, <2>6
<1>2. CASE Copy
  <2>1. /\ UNCHANGED <<repeat, server, cur, sent, last, frozen, attached, lost, linked, calm>>
        /\ old' = cur /\ server = "up" /\ left[Server] = 0
        /\ \/ board' = board /\ (old = 0 \/ old = cur)
           \/ 0 < old /\ old < cur /\ board' = Rate(old, cur)
    BY <1>0, <1>2 DEF Copy, Serving, Due
  <2>2. left'[Client] = left[Client] /\ left'[Pfsql] = left[Pfsql]
    BY <1>0, <1>2, SettingsLemma DEF Copy, Rearm
  <2>3. CASE board' = board /\ (old = 0 \/ old = cur)
    BY <1>0, <2>1, <2>2, <2>3 DEF Calm, Timing, Fits
  <2>4. CASE 0 < old /\ old < cur /\ board' = Rate(old, cur)
    <3>1. board'.from = old /\ board'.to = cur
      BY <2>4 DEF Rate
    <3>2. Calm'
      BY <1>0, <2>1, <2>4, <3>1 DEF Calm, Fits
    <3>3. ASSUME last.to > calm, left[Pfsql] # Off
          PROVE  /\ board'.from = last.to
                 /\ left[Client] # Off => left[Pfsql] + repeat[Client]
                                            <= repeat[Server] + repeat[Pfsql] + left[Client]
      <4>1. board = last
        BY <2>4, <3>3 DEF Timing
      <4>2. board # NoRate
        BY <1>0, <3>3, <4>1 DEF NoRate, Rate
      <4>3. board.to = old
        BY <2>1, <4>2 DEF Calm
      <4>4. left[Client] # Off => repeat[Client] <= repeat[Server] + left[Client]
        <5>1. cur > calm
          BY <1>0, <2>4, <3>3, <4>1, <4>3
        <5> QED
          BY <1>0, <2>1, <2>4, <5>1 DEF Timing, Off
      <4>5. left[Pfsql] <= repeat[Pfsql]
        BY <1>0, <3>3
      <4> QED
        BY <1>0, <3>1, <4>1, <4>3, <4>4, <4>5
    <3> QED
      BY <1>0, <2>1, <2>2, <3>2, <3>3 DEF Timing
  <2> QED
    BY <2>1, <2>3, <2>4
<1>3. CASE Insert
  <2>1. /\ UNCHANGED <<repeat, server, cur, old, sent, frozen, board, attached, lost, linked, calm>>
        /\ LET seen == IF attached THEN board ELSE frozen
           IN  last' = IF linked /\ seen # NoRate THEN seen ELSE last
        /\ left[Pfsql] = 0
    BY <1>3 DEF Insert, Looks, Due
  <2>2. left'[Client] = left[Client] /\ left'[Server] = left[Server]
    BY <1>0, <1>3, SettingsLemma DEF Insert, Rearm
  <2>3. Calm'
    BY <1>0, <2>1 DEF Calm, Fits
  <2>4. ASSUME last'.to > calm PROVE board = last'
    <3>1. attached /\ linked
      BY <1>0, <2>1, <2>4 DEF Calm
    <3>2. CASE board # NoRate
      BY <2>1, <3>1, <3>2
    <3>3. CASE board = NoRate
      <4>1. last' = last /\ board.from = 0 /\ board.to = 0
        BY <2>1, <3>1, <3>3 DEF NoRate, Rate
      <4> QED
        BY <1>0, <2>1, <2>4, <4>1 DEF Timing, Off
    <3> QED
      BY <3>2, <3>3
  <2>5. Timing'
    BY <2>1, <2>2, <2>4 DEF Timing
  <2> QED
    BY <2>3, <2>5
<1>4. CASE Elapse
  <2>1. /\ UNCHANGED <<repeat, server, cur, old, sent, frozen, board, attached, lost, linked, last, calm>>
    BY <1>4 DEF Elapse
  <2>2. Calm'
    BY <2>1 DEF Calm, Fits
  <2>3. CASE lost = {}
    <3>1. \A d \in Daemons : ~ Blocked(d)
      BY <2>3 DEF Blocked
    <3>2. \A d \in Daemons : left'[d] = IF left[d] = Off THEN Off ELSE left[d] - 1
      BY <1>4, <3>1 DEF Elapse, Due
    <3>3. \A d \in {Client, Server, Pfsql} : left'[d] # Off => left[d] # Off /\ left'[d] = left[d] - 1
      BY <3>2, SettingsLemma
    <3>4. Timing'
      BY <1>0, <2>1, <3>3 DEF Timing
    <3> QED
      BY <2>2, <3>4
  <2>4. CASE lost # {}
    <3>1. ~ (sent > calm)
      BY <2>4 DEF Calm
    <3>2. Timing'
      BY <1>0, <2>1, <3>1 DEF Timing
    <3> QED
      BY <2>2, <3>2
  <2> QED
    BY <2>3, <2>4
<1>5. CASE \E d \in Daemons : Reload(d)
  BY <1>d, <1>q, <1>5 DEF Reload, Calm
<1>6. CASE CrashServer \/ KillServer
  BY <1>d, <1>q, <1>6 DEF CrashServer, KillServer, ServerGone
<1>7. CASE StopServer
  BY <1>d, <1>q, <1>7 DEF StopServer, ServerGone
<1>8. CASE StartServer
  BY <1>q, <1>8 DEF StartServer
<1>9. CASE BadLook \/ Fault \/ StopPfsql \/ StartPfsql \/ BreakLink
  BY <1>d, <1>q, <1>9 DEF BadLook, Fault, StopPfsql, StartPfsql, BreakLink, Calm
<1>10. CASE UNCHANGED vars
  BY <1>10 DEF vars, Calm, Timing, Fits
<1> QED
  BY <1>1, <1>2, <1>3, <1>4, <1>5, <1>6, <1>7, <1>8, <1>9, <1>10 DEF Next

LEMMA TimingHolds == Spec => [](Typed /\ Order /\ Calm /\ Timing)
  BY InitTiming, TimingStep, OrderHolds, PTL DEF Spec

\* No load is left out between two rows as long as an interval of the client has
\* room for one of the server and one of pfsql, and nothing has been disturbed
\* (stats.c 384-406, pfsql.c 85-89; 300, 1 and 30 by default).
THEOREM Join == Spec => RowsJoin
<1>1. Typed /\ Order /\ Calm /\ Timing /\ [Next]_vars
        => (last' # last /\ last.to > calm => last'.from = last.to)
  <2> SUFFICES ASSUME Typed, Calm, Timing, [Next]_vars, last' # last, last.to > calm
               PROVE  last'.from = last.to
    OBVIOUS
  <2>1. Insert
    BY DEF Next, Report, Copy, BadLook, Fault, Elapse, Reload, CrashServer, KillServer, StopServer,
           StartServer, StopPfsql, StartPfsql, BreakLink, vars
  <2>2. attached
    BY DEF Calm, Typed, TypeOK, Rates
  <2>3. last' = board /\ left[Pfsql] # Off
    BY <2>1, <2>2 DEF Insert, Looks, Due, Off
  <2> QED
    BY <2>3 DEF Timing
<1> QED
  BY <1>1, TimingHolds, PTL DEF Spec, RowsJoin

-----------------------------------------------------------------------------
(***************************************************************************)
(* PqInsert: what has been collected goes from record to query to          *)
(* inserted, each in order and none behind the other (Ordered); no record  *)
(* gets lost on the way but with a refused statement or by its tags        *)
(* (Accounted), and none is there twice that was not collected twice.      *)
(***************************************************************************)
USE RoomAssumption, BoundAssumption

Records == [n : 0 .. MaxEntries, len : 0 .. Room, whole : BOOLEAN]

Filled ==
  /\ inside \in BOOLEAN /\ used \in 0 .. Room /\ entries \in 0 .. MaxEntries
  /\ query \in Seq(Records) /\ record \in Records /\ record.n <= entries
  /\ due \in Seq(1 .. MaxEntries) /\ inserted \in Seq(0 .. MaxEntries)
  /\ refused \subseteq 0 .. MaxEntries /\ skipped \subseteq 0 .. MaxEntries
  /\ stale \subseteq 0 .. MaxEntries
  /\ \A i \in DOMAIN due : due[i] <= entries

Ordered ==
  /\ \A i, k \in DOMAIN query : i < k => query[i].n <= query[k].n
  /\ \A i, k \in DOMAIN inserted : i < k => inserted[i] <= inserted[k]
  /\ \A i \in DOMAIN query : query[i].n <= record.n
  /\ \A i \in DOMAIN inserted : inserted[i] <= record.n
  /\ inside => \A i \in DOMAIN inserted, k \in DOMAIN query : inserted[i] <= query[k].n

\* A record is in the statement under construction, or in an executed one.
InQuery(n)    == \E i \in DOMAIN query : query[i].n = n
InInserted(n) == \E i \in DOMAIN inserted : inserted[i] = n

Accounted ==
  \A i \in DOMAIN due : \/ InInserted(due[i]) \/ due[i] \in refused \cup skipped
                        \/ inside /\ InQuery(due[i])

Single ==
  \A n \in 1 .. MaxEntries \ stale :
    /\ \A i, k \in DOMAIN query : query[i].n = n /\ query[k].n = n => i = k
    /\ \A i, k \in DOMAIN inserted : inserted[i] = n /\ inserted[k] = n => i = k
    /\ inside => ~ (InQuery(n) /\ InInserted(n))

PqInv == Filled /\ Ordered /\ Accounted /\ Single

-----------------------------------------------------------------------------
LEMMA FittedLemma ==
  ASSUME NEW r \in Records, NEW free
  PROVE  Fitted(r, free) \in Records /\ Fitted(r, free).n = r.n
<1>1. r.whole \in BOOLEAN /\ r.n \in 0 .. MaxEntries /\ r.len \in 0 .. Room
  BY DEF Records
<1>2. Fitted(r, free) = [r EXCEPT !.whole = r.whole /\ r.len < free]
  BY DEF Fitted
<1>3. (r.whole /\ r.len < free) \in BOOLEAN
  BY <1>1
<1> DEFINE b == r.whole /\ r.len < free
<1> HIDE DEF b
<1>4. b \in BOOLEAN /\ Fitted(r, free) = [r EXCEPT !.whole = b]
  BY <1>2, <1>3 DEF b
<1> QED
  BY <1>1, <1>4 DEF Records

LEMMA InitPqInv == PqInit => PqInv
<1> SUFFICES ASSUME PqInit PROVE PqInv
  OBVIOUS
<1>1. record \in Records /\ record.n = 0
  <2>1. \A l \in Lengths : l \in 0 .. Room
    OBVIOUS
  <2>2. CASE record = Record(0, 0)
    BY <2>2 DEF Record, Records
  <2>3. ASSUME NEW l \in Lengths, record = [n |-> 0, len |-> l, whole |-> FALSE]
        PROVE  record \in Records /\ record.n = 0
    BY <2>1, <2>3 DEF Records
  <2>4. record \in Leftover
    BY DEF PqInit
  <2> QED
    BY <2>2, <2>3, <2>4 DEF Leftover
<1>2. /\ inside = FALSE /\ query = <<>> /\ used = 0 /\ entries = 0
      /\ due = <<>> /\ inserted = <<>> /\ refused = {} /\ skipped = {} /\ stale = {}
  BY DEF PqInit
<1>3. Filled
  <2>1. <<>> \in Seq(Records) /\ <<>> \in Seq(1 .. MaxEntries) /\ <<>> \in Seq(0 .. MaxEntries)
    BY EmptySeq
  <2>2. DOMAIN due = {}
    BY <1>2
  <2>3. 0 \in 0 .. Room /\ 0 \in 0 .. MaxEntries
    OBVIOUS
  <2>4. query \in Seq(Records) /\ due \in Seq(1 .. MaxEntries) /\ inserted \in Seq(0 .. MaxEntries)
    BY <1>2, <2>1
  <2>5. inside \in BOOLEAN /\ refused \subseteq 0 .. MaxEntries /\ skipped \subseteq 0 .. MaxEntries
      /\ stale \subseteq 0 .. MaxEntries
    BY <1>2
  <2>6. record.n <= entries /\ entries \in 0 .. MaxEntries /\ used \in 0 .. Room
    BY <1>1, <1>2, <2>3
  <2> QED
    BY <1>1, <2>2, <2>4, <2>5, <2>6 DEF Filled
<1>4. Ordered /\ Accounted /\ Single
  BY <1>2 DEF Ordered, Accounted, Single
<1> QED
  BY <1>3, <1>4 DEF PqInv

\* What PQexec of the statement leaves: its records are inserted behind the others,
\* or refused.
LEMMA ExecuteLemma ==
  ASSUME Filled, Ordered, Single, inside, Execute(query)
  PROVE  /\ inserted' \in Seq(0 .. MaxEntries)
         /\ refused \subseteq refused' /\ refused' \subseteq 0 .. MaxEntries
         /\ \A n : InQuery(n) \/ InInserted(n) => InInserted(n)' \/ n \in refused'
         /\ \A n : InInserted(n)' => InInserted(n) \/ InQuery(n)
         /\ \A i, k \in DOMAIN inserted' : i < k => inserted'[i] <= inserted'[k]
         /\ \A i \in DOMAIN inserted' : inserted'[i] <= record.n
         /\ \A n \in 1 .. MaxEntries \ stale, i, k \in DOMAIN inserted' :
              inserted'[i] = n /\ inserted'[k] = n => i = k
<1>1. /\ query \in Seq(Records) /\ DOMAIN query = 1 .. Len(query) /\ Len(query) \in Nat
      /\ inserted \in Seq(0 .. MaxEntries) /\ DOMAIN inserted = 1 .. Len(inserted)
      /\ Len(inserted) \in Nat /\ refused \subseteq 0 .. MaxEntries
  BY DEF Filled
<1>2. \A i \in DOMAIN query : query[i].n \in 0 .. MaxEntries
  <2>1. \A i \in DOMAIN query : query[i] \in Records
    BY <1>1, ElementOfSeq
  <2> QED
    BY <2>1 DEF Records
<1>3. CASE ~ Accepted(query)
  <2>1. inserted' = inserted /\ refused' = refused \cup NumberSet(query)
    BY <1>3 DEF Execute
  <2>2. \A n : n \in NumberSet(query) <=> InQuery(n)
    BY DEF NumberSet, InQuery
  <2>3. NumberSet(query) \subseteq 0 .. MaxEntries
    BY <1>2 DEF NumberSet
  <2>4. \A n : InInserted(n)' <=> InInserted(n)
    BY <2>1 DEF InInserted
  <2> QED
    BY <1>1, <2>1, <2>2, <2>3, <2>4 DEF Ordered, Single
<1>4. CASE Accepted(query)
  <2> DEFINE m == Len(inserted)
  <2>1. inserted' = inserted \o Numbers(query) /\ refused' = refused
    BY <1>4 DEF Execute
  <2>2. /\ Numbers(query) \in Seq(0 .. MaxEntries) /\ Len(Numbers(query)) = Len(query)
        /\ \A i \in DOMAIN query : Numbers(query)[i] = query[i].n
    <3>1. Numbers(query) = [i \in 1 .. Len(query) |-> query[i].n]
      BY <1>1 DEF Numbers
    <3>2. Numbers(query) \in [1 .. Len(query) -> 0 .. MaxEntries]
      BY <1>1, <1>2, <3>1
    <3>3. Numbers(query) \in Seq(0 .. MaxEntries) /\ Len(Numbers(query)) = Len(query)
      BY <1>1, <3>2
    <3> QED
      BY <1>1, <3>1, <3>3
  <2>3. /\ inserted' \in Seq(0 .. MaxEntries) /\ Len(inserted') = m + Len(query)
        /\ \A i \in 1 .. m + Len(query) :
             inserted'[i] = IF i <= m THEN inserted[i] ELSE Numbers(query)[i - m]
    <3> DEFINE num == Numbers(query)
    <3>1. num \in Seq(0 .. MaxEntries) /\ inserted \in Seq(0 .. MaxEntries) /\ Len(num) = Len(query)
      BY <1>1, <2>2
    <3>2. inserted' = inserted \o num
      BY <2>1
    <3> HIDE DEF num
    <3>3. /\ inserted \o num \in Seq(0 .. MaxEntries)
          /\ Len(inserted \o num) = Len(inserted) + Len(num)
          /\ \A i \in 1 .. Len(inserted) + Len(num) :
               (inserted \o num)[i] = IF i <= Len(inserted) THEN inserted[i] ELSE num[i - Len(inserted)]
      BY ONLY <3>1, ConcatProperties
    <3> QED
      BY <3>1, <3>2, <3>3 DEF num
  <2>4. /\ DOMAIN inserted' = 1 .. m + Len(query)
        /\ \A i \in 1 .. m : inserted'[i] = inserted[i]
        /\ \A i \in m + 1 .. m + Len(query) : i - m \in DOMAIN query /\ inserted'[i] = query[i - m].n
    <3>1. m \in Nat /\ Len(query) \in Nat
      BY <1>1
    <3> HIDE DEF m
    <3>2. DOMAIN inserted' = 1 .. m + Len(query)
      BY <2>3, <3>1
    <3>3. \A i \in 1 .. m : inserted'[i] = inserted[i]
      BY <2>3, <3>1
    <3>4. \A i \in m + 1 .. m + Len(query) : i - m \in DOMAIN query /\ i \in 1 .. m + Len(query) /\ ~ (i <= m)
      BY <1>1, <3>1
    <3> QED
      BY <2>2, <2>3, <3>2, <3>3, <3>4
  <2>5. \A i \in DOMAIN query : m + i \in DOMAIN inserted' /\ inserted'[m + i] = query[i].n
    <3> SUFFICES ASSUME NEW i \in DOMAIN query
                 PROVE  m + i \in DOMAIN inserted' /\ inserted'[m + i] = query[i].n
      OBVIOUS
    <3>1. m + i \in m + 1 .. m + Len(query) /\ (m + i) - m = i
      BY <1>1
    <3> QED
      BY <1>1, <2>4, <3>1
  <2>6. \A i \in DOMAIN inserted' : i \in DOMAIN inserted \/ i \in m + 1 .. m + Len(query)
    BY <1>1, <2>4
  <2>7. \A i \in DOMAIN inserted : i \in DOMAIN inserted' /\ inserted'[i] = inserted[i]
    BY <1>1, <2>4
  <2> HIDE DEF m
  <2>8. \A n : InQuery(n) \/ InInserted(n) => InInserted(n)'
    BY <2>5, <2>7 DEF InQuery, InInserted
  <2>9. \A n : InInserted(n)' => InInserted(n) \/ InQuery(n)
    BY <2>4, <2>6, <2>7 DEF InQuery, InInserted
  <2>10. m \in Nat /\ DOMAIN inserted = 1 .. m
    BY <1>1 DEF m
  <2>11. ASSUME NEW i \in DOMAIN inserted', NEW k \in DOMAIN inserted', i < k
         PROVE  inserted'[i] <= inserted'[k]
    <3>1. CASE i \in DOMAIN inserted /\ k \in DOMAIN inserted
      BY <2>7, <2>11, <3>1 DEF Ordered
    <3>2. CASE i \in DOMAIN inserted /\ k \in m + 1 .. m + Len(query)
      BY <2>4, <2>7, <3>2 DEF Ordered
    <3>3. CASE i \in m + 1 .. m + Len(query) /\ k \in m + 1 .. m + Len(query)
      <4>1. i - m < k - m
        BY <2>10, <2>11, <3>3
      <4> QED
        BY <2>4, <3>3, <4>1 DEF Ordered
    <3> QED
      BY <1>1, <2>6, <2>10, <2>11, <3>1, <3>2, <3>3
  <2>12. \A i \in DOMAIN inserted' : inserted'[i] <= record.n
    BY <2>4, <2>6, <2>7 DEF Ordered
  <2>13. ASSUME NEW n \in 1 .. MaxEntries \ stale, NEW i \in DOMAIN inserted', NEW k \in DOMAIN inserted',
                inserted'[i] = n, inserted'[k] = n
         PROVE  i = k
    <3>1. CASE i \in DOMAIN inserted /\ k \in DOMAIN inserted
      BY <2>7, <2>13, <3>1 DEF Single
    <3>2. ASSUME NEW j \in DOMAIN inserted, NEW l \in m + 1 .. m + Len(query),
                 inserted'[j] = n, inserted'[l] = n
          PROVE  FALSE
      <4>1. InInserted(n)
        BY <2>7, <3>2 DEF InInserted
      <4>2. InQuery(n)
        BY <2>4, <3>2 DEF InQuery
      <4> QED
        BY <4>1, <4>2 DEF Single
    <3>3. CASE i \in m + 1 .. m + Len(query) /\ k \in m + 1 .. m + Len(query)
      <4>1. i - m = k - m
        BY <2>4, <2>13, <3>3 DEF Single
      <4> QED
        BY <2>10, <3>3, <4>1
    <3> QED
      BY <2>6, <2>13, <3>1, <3>2, <3>3
  <2> QED
    BY <1>1, <2>1, <2>3, <2>8, <2>9, <2>11, <2>12, <2>13
<1> QED
  BY <1>3, <1>4


\* The statement a record begins, and the one it is added to.
LEMMA QueryLemma ==
  ASSUME Filled, NEW r \in Records, NEW free
  PROVE  /\ <<Fitted(r, free)>> \in Seq(Records) /\ DOMAIN <<Fitted(r, free)>> = {1}
         /\ <<Fitted(r, free)>>[1].n = r.n
         /\ Append(query, Fitted(r, free)) \in Seq(Records)
         /\ DOMAIN Append(query, Fitted(r, free)) = DOMAIN query \cup {Len(query) + 1}
         /\ Append(query, Fitted(r, free))[Len(query) + 1].n = r.n
         /\ \A i \in DOMAIN query : Append(query, Fitted(r, free))[i] = query[i]
         /\ DOMAIN query = 1 .. Len(query) /\ Len(query) \in Nat
<1> DEFINE f == Fitted(r, free)
<1>1. f \in Records /\ f.n = r.n
  BY FittedLemma
<1>2. query \in Seq(Records)
  BY DEF Filled
<1> HIDE DEF f
<1>3. <<f>> \in Seq(Records) /\ DOMAIN <<f>> = {1} /\ <<f>>[1] = f
  BY <1>1
<1>4. /\ Append(query, f) \in Seq(Records) /\ DOMAIN Append(query, f) = DOMAIN query \cup {Len(query) + 1}
      /\ Append(query, f)[Len(query) + 1] = f /\ \A i \in DOMAIN query : Append(query, f)[i] = query[i]
      /\ DOMAIN query = 1 .. Len(query) /\ Len(query) \in Nat
  BY <1>1, <1>2
<1> QED
  BY <1>1, <1>3, <1>4 DEF f

\* An entry's record gets into the statement, with the one before executed if need be.
LEMMA AddLemma ==
  ASSUME Filled, Ordered, Single, inside, inside', NEW r \in Records, Add(r), record' = r,
         record.n <= r.n, stale \subseteq stale', stale' \subseteq 0 .. MaxEntries,
         r.n = 0 \/ r.n \in stale' \/ (~ InQuery(r.n) /\ ~ InInserted(r.n))
  PROVE  /\ used' \in 0 .. Room /\ query' \in Seq(Records) /\ inserted' \in Seq(0 .. MaxEntries)
         /\ refused \subseteq refused' /\ refused' \subseteq 0 .. MaxEntries
         /\ r.len > 0 => InQuery(r.n)'
         /\ \A n : InQuery(n) \/ InInserted(n) => InQuery(n)' \/ InInserted(n)' \/ n \in refused'
         /\ Ordered' /\ Single'
<1>t. /\ r.n \in 0 .. MaxEntries /\ r.len \in 0 .. Room /\ used \in 0 .. Room /\ record.n \in 0 .. MaxEntries
      /\ Room \in Nat /\ MaxEntries \in Nat
  BY DEF Filled, Records
<1>q. \A i \in DOMAIN query : query[i].n \in 0 .. MaxEntries
  <2>1. \A i \in DOMAIN query : query[i] \in Records
    BY ElementOfSeq DEF Filled
  <2> QED
    BY <2>1 DEF Records
<1>i. \A i \in DOMAIN inserted : inserted[i] \in 0 .. MaxEntries
  BY ElementOfSeq DEF Filled
<1>1. CASE Full(r)
  <2>1. Execute(query) /\ query' = <<Fitted(r, Room)>> /\ used' = r.len
    BY <1>1 DEF Add
  <2>2. query' \in Seq(Records) /\ DOMAIN query' = {1} /\ query'[1].n = r.n
    BY <2>1, QueryLemma
  <2>3. /\ inserted' \in Seq(0 .. MaxEntries)
        /\ refused \subseteq refused' /\ refused' \subseteq 0 .. MaxEntries
        /\ \A n : InQuery(n) \/ InInserted(n) => InInserted(n)' \/ n \in refused'
        /\ \A n : InInserted(n)' => InInserted(n) \/ InQuery(n)
        /\ \A i, k \in DOMAIN inserted' : i < k => inserted'[i] <= inserted'[k]
        /\ \A i \in DOMAIN inserted' : inserted'[i] <= record.n
        /\ \A n \in 1 .. MaxEntries \ stale, i, k \in DOMAIN inserted' :
             inserted'[i] = n /\ inserted'[k] = n => i = k
    BY <2>1, ExecuteLemma
  <2>i. \A i \in DOMAIN inserted' : inserted'[i] \in 0 .. MaxEntries
    BY <2>3, ElementOfSeq
  <2>4. \A n : InQuery(n)' <=> n = r.n
    BY <2>2 DEF InQuery
  <2>5. Ordered'
    BY <1>t, <2>2, <2>3, <2>i DEF Ordered
  <2>6. Single'
    <3> SUFFICES ASSUME NEW n \in 1 .. MaxEntries \ stale'
                 PROVE  /\ \A i, k \in DOMAIN query' : query'[i].n = n /\ query'[k].n = n => i = k
                        /\ \A i, k \in DOMAIN inserted' : inserted'[i] = n /\ inserted'[k] = n => i = k
                        /\ ~ (InQuery(n)' /\ InInserted(n)')
      BY DEF Single
    <3>1. n \in 1 .. MaxEntries \ stale
      OBVIOUS
    <3>2. ~ (InQuery(n)' /\ InInserted(n)')
      BY <2>3, <2>4
    <3> QED
      BY <2>2, <2>3, <3>1, <3>2
  <2> QED
    BY <1>t, <2>1, <2>2, <2>3, <2>4, <2>5, <2>6
<1>2. CASE ~ Full(r) /\ r.len = 0
  <2>1. query' = query /\ used' = used + 0 /\ UNCHANGED <<inserted, refused>>
    BY <1>2 DEF Add
  <2>2. Ordered'
    BY <1>t, <1>q, <1>i, <2>1 DEF Ordered
  <2>3. Single'
    BY <2>1 DEF Single, InQuery, InInserted
  <2> QED
    BY <1>2, <1>t, <2>1, <2>2, <2>3 DEF Filled, InQuery, InInserted
<1>3. CASE ~ Full(r) /\ r.len # 0
  <2>1. /\ query' = Append(query, Fitted(r, Room - used)) /\ used' = used + r.len
        /\ UNCHANGED <<inserted, refused>>
    BY <1>3 DEF Add
  <2>2. used' \in 0 .. Room
    BY <1>3, <1>t, <2>1 DEF Full
  <2>3. /\ query' \in Seq(Records) /\ DOMAIN query' = DOMAIN query \cup {Len(query) + 1}
        /\ query'[Len(query) + 1].n = r.n /\ \A i \in DOMAIN query : query'[i] = query[i]
        /\ DOMAIN query = 1 .. Len(query) /\ Len(query) \in Nat
    BY <2>1, QueryLemma
  <2>4. \A n : InQuery(n)' <=> InQuery(n) \/ n = r.n
    BY <2>3 DEF InQuery
  <2>5. \A n : InInserted(n)' <=> InInserted(n)
    BY <2>1 DEF InInserted
  <2>6. Ordered'
    <3>1. \A i \in DOMAIN query' : query'[i].n <= r.n
      BY <1>t, <1>q, <2>3 DEF Ordered
    <3>2. \A i, k \in DOMAIN query' : i < k => query'[i].n <= query'[k].n
      BY <1>t, <2>3, <3>1 DEF Ordered
    <3>3. \A i \in DOMAIN inserted : inserted[i] <= r.n
      BY <1>t, <1>i DEF Ordered
    <3>4. \A i \in DOMAIN inserted, k \in DOMAIN query' : inserted[i] <= query'[k].n
      BY <2>3, <3>3 DEF Ordered
    <3> QED
      BY <2>1, <3>1, <3>2, <3>3, <3>4 DEF Ordered
  <2>7. Single'
    <3> SUFFICES ASSUME NEW n \in 1 .. MaxEntries \ stale'
                 PROVE  /\ \A i, k \in DOMAIN query' : query'[i].n = n /\ query'[k].n = n => i = k
                        /\ \A i, k \in DOMAIN inserted' : inserted'[i] = n /\ inserted'[k] = n => i = k
                        /\ ~ (InQuery(n)' /\ InInserted(n)')
      BY DEF Single
    <3>1. n \in 1 .. MaxEntries \ stale
      OBVIOUS
    <3>2. n = r.n => ~ InQuery(n) /\ ~ InInserted(n)
      BY <1>t
    <3>3. ~ (InQuery(n)' /\ InInserted(n)')
      BY <2>4, <2>5, <3>1, <3>2 DEF Single
    <3>4. \A i, k \in DOMAIN query' : query'[i].n = n /\ query'[k].n = n => i = k
      BY <2>3, <3>1, <3>2 DEF Single, InQuery
    <3> QED
      BY <2>1, <3>1, <3>3, <3>4 DEF Single
  <2> QED
    BY <1>t, <2>1, <2>2, <2>3, <2>4, <2>5, <2>6, <2>7 DEF Filled
<1> QED
  BY <1>1, <1>2, <1>3


LEMMA StepPqInv == PqInv /\ [PqNext]_pqVars => PqInv'
<1> SUFFICES ASSUME PqInv, [PqNext]_pqVars PROVE PqInv'
  OBVIOUS
<1>0. Filled /\ Ordered /\ Accounted /\ Single
  BY DEF PqInv
<1>1. ASSUME HostBegin PROVE PqInv'
  <2>1. /\ inside' = TRUE /\ query' = <<>> /\ used' = 0 /\ ~ inside
        /\ UNCHANGED <<record, entries, due, inserted, refused, skipped, stale>>
    BY <1>1 DEF HostBegin
  <2>2. query' \in Seq(Records) /\ DOMAIN query' = {}
    BY <2>1, EmptySeq
  <2>3. Filled'
    BY <1>0, <2>1, <2>2 DEF Filled
  <2>4. Ordered'
    BY <1>0, <2>1, <2>2 DEF Ordered
  <2>5. Accounted' /\ Single'
    BY <1>0, <2>1, <2>2 DEF Accounted, Single, InQuery, InInserted
  <2> QED
    BY <2>3, <2>4, <2>5 DEF PqInv
<1>2. ASSUME HostEnd PROVE PqInv'
  <2>1. /\ inside /\ Execute(query) /\ inside' = FALSE
        /\ UNCHANGED <<query, used, record, entries, due, skipped, stale>>
    BY <1>2 DEF HostEnd
  <2>2. /\ inserted' \in Seq(0 .. MaxEntries)
        /\ refused \subseteq refused' /\ refused' \subseteq 0 .. MaxEntries
        /\ \A n : InQuery(n) \/ InInserted(n) => InInserted(n)' \/ n \in refused'
        /\ \A i, k \in DOMAIN inserted' : i < k => inserted'[i] <= inserted'[k]
        /\ \A i \in DOMAIN inserted' : inserted'[i] <= record.n
        /\ \A n \in 1 .. MaxEntries \ stale, i, k \in DOMAIN inserted' :
             inserted'[i] = n /\ inserted'[k] = n => i = k
    BY <1>0, <2>1, ExecuteLemma
  <2>3. Filled'
    BY <1>0, <2>1, <2>2 DEF Filled
  <2>4. Ordered'
    BY <1>0, <2>1, <2>2 DEF Ordered
  <2>5. Accounted'
    BY <1>0, <2>1, <2>2 DEF Accounted
  <2>6. Single'
    BY <1>0, <2>1, <2>2 DEF Single
  <2> QED
    BY <2>3, <2>4, <2>5, <2>6 DEF PqInv
<1>3. ASSUME IdleEntry PROVE PqInv'
  <2>1. /\ inside /\ entries' = entries + 1 /\ entries < MaxEntries /\ Add(record)
        /\ stale' = IF record.n = 0 THEN stale ELSE stale \cup {record.n}
        /\ UNCHANGED <<inside, record, due, skipped>>
    BY <1>3 DEF IdleEntry
  <2>2. record \in Records /\ record.n \in 0 .. MaxEntries
    BY <1>0 DEF Filled, Records
  <2>3. /\ stale \subseteq stale' /\ stale' \subseteq 0 .. MaxEntries
        /\ record.n = 0 \/ record.n \in stale'
    BY <1>0, <2>1, <2>2 DEF Filled
  <2>4. /\ used' \in 0 .. Room /\ query' \in Seq(Records) /\ inserted' \in Seq(0 .. MaxEntries)
        /\ refused \subseteq refused' /\ refused' \subseteq 0 .. MaxEntries
        /\ \A n : InQuery(n) \/ InInserted(n) => InQuery(n)' \/ InInserted(n)' \/ n \in refused'
        /\ Ordered' /\ Single'
    BY <1>0, <2>1, <2>2, <2>3, AddLemma
  <2>5. Filled'
    <3>1. entries \in 0 .. MaxEntries /\ entries' \in 0 .. MaxEntries /\ entries <= entries'
      BY <1>0, <2>1 DEF Filled
    <3>2. \A i \in DOMAIN due : due[i] \in 0 .. MaxEntries /\ due[i] <= entries
      BY <1>0, ElementOfSeq DEF Filled
    <3>3. \A i \in DOMAIN due : due[i] <= entries'
      BY <3>1, <3>2
    <3>4. record.n <= entries'
      BY <1>0, <2>2, <3>1 DEF Filled
    <3> QED
      BY <1>0, <2>1, <2>3, <2>4, <3>1, <3>3, <3>4 DEF Filled
  <2>6. Accounted'
    BY <1>0, <2>1, <2>4 DEF Accounted
  <2> QED
    BY <2>4, <2>5, <2>6 DEF PqInv
<1>4. ASSUME NEW len \in Lengths, Entry(len) PROVE PqInv'
  <2>1. /\ inside /\ entries < MaxEntries /\ entries' = entries + 1
        /\ record' = Record(entries + 1, len) /\ due' = Append(due, entries + 1)
        /\ Add(record') /\ UNCHANGED <<inside, skipped, stale>>
    BY <1>4 DEF Entry
  <2>2. entries \in 0 .. MaxEntries /\ entries' \in 1 .. MaxEntries /\ record.n \in 0 .. MaxEntries /\ record.n <= entries
    BY <1>0, <2>1 DEF Filled, Records
  <2>3. record' \in Records /\ record'.n = entries + 1 /\ record'.len > 0
    BY <2>1, <2>2 DEF Record, Records
  <2>4. ~ InQuery(entries + 1) /\ ~ InInserted(entries + 1)
    <3>1. \A i \in DOMAIN query : query[i].n <= record.n
      BY <1>0 DEF Ordered
    <3>2. \A i \in DOMAIN inserted : inserted[i] <= record.n
      BY <1>0 DEF Ordered
    <3> QED
      BY <2>2, <3>1, <3>2 DEF InQuery, InInserted
  <2>5. PICK r \in Records : r = record'
    BY <2>3
  <2>6. /\ used' \in 0 .. Room /\ query' \in Seq(Records) /\ inserted' \in Seq(0 .. MaxEntries)
        /\ refused \subseteq refused' /\ refused' \subseteq 0 .. MaxEntries
        /\ r.len > 0 => InQuery(r.n)'
        /\ \A n : InQuery(n) \/ InInserted(n) => InQuery(n)' \/ InInserted(n)' \/ n \in refused'
        /\ Ordered' /\ Single'
    <3>1. /\ inside' /\ Add(r) /\ record' = r /\ record.n <= r.n /\ stale \subseteq stale'
          /\ stale' \subseteq 0 .. MaxEntries /\ ~ InQuery(r.n) /\ ~ InInserted(r.n)
      BY <1>0, <2>1, <2>2, <2>3, <2>4, <2>5 DEF Filled
    <3> QED
      BY <1>0, <2>1, <3>1, AddLemma
  <2>7. /\ due \in Seq(1 .. MaxEntries) /\ due' \in Seq(1 .. MaxEntries)
        /\ DOMAIN due' = DOMAIN due \cup {Len(due) + 1} /\ due'[Len(due) + 1] = entries + 1
        /\ \A i \in DOMAIN due : due'[i] = due[i] /\ due[i] \in 1 .. MaxEntries
    <3>1. due \in Seq(1 .. MaxEntries)
      BY <1>0 DEF Filled
    <3>2. entries + 1 \in 1 .. MaxEntries
      BY <2>1, <2>2
    <3>3. \A i \in DOMAIN due : due[i] \in 1 .. MaxEntries
      BY <3>1, ElementOfSeq
    <3> QED
      BY <2>1, <3>1, <3>2, <3>3
  <2>8. Filled'
    <3>1. \A i \in DOMAIN due : due[i] <= entries
      BY <1>0 DEF Filled
    <3>2. \A i \in DOMAIN due' : due'[i] <= entries'
      BY <2>1, <2>2, <2>7, <3>1
    <3>3. record'.n <= entries'
      BY <2>1, <2>2, <2>3
    <3>4. inside' \in BOOLEAN /\ stale' \subseteq 0 .. MaxEntries /\ skipped' \subseteq 0 .. MaxEntries
      BY <1>0, <2>1 DEF Filled
    <3> QED
      BY <2>2, <2>3, <2>6, <2>7, <3>2, <3>3, <3>4 DEF Filled
  <2>9. Accounted'
    <3>1. \A n : n = entries + 1 => InQuery(n)'
      BY <2>3, <2>5, <2>6
    <3>2. \A i \in DOMAIN due : InInserted(due[i]) \/ due[i] \in refused \cup skipped \/ InQuery(due[i])
      BY <1>0 DEF Accounted
    <3>3. ASSUME NEW i \in DOMAIN due', NEW n, n = due'[i]
          PROVE  InInserted(n)' \/ n \in (refused \cup skipped)' \/ InQuery(n)'
      BY <2>1, <2>6, <2>7, <3>1, <3>2, <3>3
    <3> QED
      BY <2>1, <3>3 DEF Accounted, InInserted, InQuery
  <2> QED
    BY <2>6, <2>8, <2>9 DEF PqInv
<1>5. ASSUME SkipEntry PROVE PqInv'
  <2>1. /\ inside /\ entries < MaxEntries /\ entries' = entries + 1
        /\ due' = Append(due, entries + 1) /\ skipped' = skipped \cup {entries + 1}
        /\ UNCHANGED <<inside, query, used, record, inserted, refused, stale>>
    BY <1>5 DEF SkipEntry
  <2>2. entries \in 0 .. MaxEntries /\ entries' \in 1 .. MaxEntries /\ record.n \in 0 .. MaxEntries /\ record.n <= entries
    BY <1>0, <2>1 DEF Filled, Records
  <2>3. /\ due' \in Seq(1 .. MaxEntries)
        /\ DOMAIN due' = DOMAIN due \cup {Len(due) + 1} /\ due'[Len(due) + 1] = entries + 1
        /\ \A i \in DOMAIN due : due'[i] = due[i] /\ due[i] \in 1 .. MaxEntries
    <3>1. due \in Seq(1 .. MaxEntries)
      BY <1>0 DEF Filled
    <3>2. entries + 1 \in 1 .. MaxEntries
      BY <2>1, <2>2
    <3>3. \A i \in DOMAIN due : due[i] \in 1 .. MaxEntries
      BY <3>1, ElementOfSeq
    <3> QED
      BY <2>1, <3>1, <3>2, <3>3
  <2>4. Filled'
    <3>1. \A i \in DOMAIN due : due[i] <= entries
      BY <1>0 DEF Filled
    <3>2. \A i \in DOMAIN due' : due'[i] <= entries'
      BY <2>1, <2>2, <2>3, <3>1
    <3>3. record.n <= entries' /\ skipped' \subseteq 0 .. MaxEntries
      BY <1>0, <2>1, <2>2 DEF Filled
    <3> QED
      BY <1>0, <2>1, <2>2, <2>3, <3>2, <3>3 DEF Filled
  <2>5. Ordered' /\ Single'
    BY <1>0, <2>1 DEF Ordered, Single, InQuery, InInserted
  <2>6. Accounted'
    <3>1. \A n : (InQuery(n)' <=> InQuery(n)) /\ (InInserted(n)' <=> InInserted(n))
      BY <2>1 DEF InQuery, InInserted
    <3>2. \A i \in DOMAIN due : InInserted(due[i]) \/ due[i] \in refused \cup skipped \/ InQuery(due[i])
      BY <1>0 DEF Accounted
    <3>3. ASSUME NEW i \in DOMAIN due', NEW n, n = due'[i]
          PROVE  InInserted(n)' \/ n \in (refused \cup skipped)' \/ InQuery(n)'
      BY <2>1, <2>3, <3>1, <3>2, <3>3
    <3> QED
      BY <2>1, <3>3 DEF Accounted, InInserted, InQuery
  <2> QED
    BY <2>4, <2>5, <2>6 DEF PqInv
<1>6. CASE UNCHANGED pqVars
  BY <1>0, <1>6 DEF pqVars, PqInv, Filled, Ordered, Accounted, Single, InQuery, InInserted
<1> QED
  BY <1>1, <1>2, <1>3, <1>4, <1>5, <1>6 DEF PqNext

\* Where the invariant holds at the start it holds for ever: no entry, and no begin
\* or end of a host in pq_insert, leaves it.
THEOREM PqInvHolds == PqSpec => []PqInv
  BY InitPqInv, StepPqInv, PTL DEF PqSpec

\* The variables keep their types; the buffer is never filled beyond qend (pq.c 108).
THEOREM PqInsertTypeCorrect == PqSpec => []PqTypeOK
<1>1. ASSUME PqInv PROVE PqTypeOK
  <2>1. \A i \in DOMAIN query : query[i] \in Records
    BY <1>1, ElementOfSeq DEF PqInv, Filled
  <2>2. \A i \in DOMAIN query : query[i].n \in 0 .. MaxEntries
    BY <2>1 DEF Records
  <2> QED
    BY <1>1, <2>2 DEF PqInv, Filled, PqTypeOK
<1> QED
  BY <1>1, PqInvHolds, PTL

\* Statements are executed in the order their records were collected (pq.c 104-137).
THEOREM InOrderHolds == PqSpec => []InOrder
<1>1. PqInv => InOrder
  BY DEF PqInv, Ordered, InOrder
<1> QED
  BY <1>1, PqInvHolds, PTL

\* Every record gets into a statement that is executed: it is missing only when that
\* was refused or its tags do not parse, and twice only when an idle entry repeated it (pq.c 80-137).
THEOREM MissingOrTwiceHolds == PqSpec => []MissingOrTwiceOnlyIf
<1>1. ASSUME PqInv PROVE MissingOrTwiceOnlyIf
  <2> SUFFICES ASSUME ~ inside, NEW j \in DOMAIN due, NEW n, n = due[j]
               PROVE  (Times(n) = 0 => n \in refused \cup skipped) /\ (Times(n) > 1 => n \in stale)
    BY DEF MissingOrTwiceOnlyIf
  <2> DEFINE P == {i \in DOMAIN inserted : inserted[i] = n}
  <2>1. n \in 1 .. MaxEntries
    BY <1>1, ElementOfSeq DEF PqInv, Filled
  <2>2. IsFiniteSet(P)
    <3>1. DOMAIN inserted = 1 .. Len(inserted) /\ Len(inserted) \in Nat
      BY <1>1 DEF PqInv, Filled
    <3>2. IsFiniteSet(DOMAIN inserted)
      BY <3>1, FS_Interval
    <3> QED
      BY <3>2, FS_Subset
  <2>3. ASSUME Times(n) = 0 PROVE n \in refused \cup skipped
    <3>1. P = {}
      BY <2>2, <2>3, FS_EmptySet DEF Times
    <3> QED
      BY <1>1, <3>1 DEF PqInv, Accounted, InInserted
  <2>4. ASSUME n \notin stale PROVE ~ (Times(n) > 1)
    <3>1. \A i, k \in P : i = k
      BY <1>1, <2>1, <2>4 DEF PqInv, Single
    <3>2. P = {} \/ \E i : P = {i}
      BY <3>1
    <3>3. Cardinality(P) \in {0, 1}
      <4> HIDE DEF P
      <4> QED
        BY <3>2, FS_EmptySet, FS_Singleton
    <3> QED
      BY <3>3 DEF Times
  <2> QED
    BY <2>3, <2>4
<1> QED
  BY <1>1, PqInvHolds, PTL

===============================================================================
