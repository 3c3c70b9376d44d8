---------------------------- MODULE JobTagsProofs ----------------------------
(***************************************************************************)
(* Theorems about JobTags, for any nodes, qhost.py runs that overlap,      *)
(* backlog, bounds and faults.                                             *)
(*                                                                         *)
(* Position 0 is what the server holds, position i what connection i says  *)
(* of a node, or will say when it is sent as its script has seen it now.   *)
(* A stale word does no harm when a later connection that has ended speaks *)
(* of the node too (Superseded).  Clean(h, p) says so of every word from   *)
(* position p on: it holds from 0 unless h has been missed, and from the   *)
(* place of each qhost.py that connected after the last miss.  That its    *)
(* place in the queue is older than its look (connect first) carries the   *)
(* argument: what it has not seen is told behind it.                       *)
(***************************************************************************)
EXTENDS JobTags, FiniteSetTheorems, WellFoundedInduction, SequenceTheorems, TLAPS

USE BoundsAssumption, SendersAssumption, NodesAssumption

\* Connection i of q, to which q may still send.
Open(q, i) == i \in DOMAIN queue /\ queue[i].from = q /\ ~ queue[i].ended

\* What the senders keep to: an open connection is that of a dead node, or of a
\* script under way and its only one; a client speaks of its own node and knows no job.
Opened ==
  /\ \A i \in DOMAIN queue : ~ queue[i].ended =>
       queue[i].body = Nothing /\ (queue[i].from \in Qhosts => qpc[queue[i].from] # "off")
  /\ \A q \in Qhosts, i, k \in DOMAIN queue : Open(q, i) /\ Open(q, k) => i = k
Agents ==
  /\ \A i \in DOMAIN queue, h \in Nodes :
       queue[i].from = Agent /\ queue[i].body[h] # Keep => queue[i].body[h] = Idle /\ h \in Monitored
  /\ \A h \in byAgent : tag[h] = Idle
Scripts ==
  \A q \in Qhosts :
    /\ qpc[q] \in {"off", "connected"} => snap[q] = Nothing
    /\ qpc[q] = "looked" => \A h \in Nodes : snap[q][h] # Keep
    /\ qpc[q] = "off" => covers[q] = {}

\* What connection i says of h; a word that is stale; and one that is put right by
\* a later word, sent or to be sent by slurm_tagging.
Says(i, h) ==
  IF ~ queue[i].ended /\ queue[i].from \in Qhosts THEN snap[queue[i].from][h] ELSE queue[i].body[h]
Stale(i, h) ==
  IF i = 0 THEN tag[h] \notin {Unheard, running[h]} /\ h \notin byAgent
  ELSE queue[i].from # Agent /\ Says(i, h) \notin {Keep, running[h]}
Superseded(i, h) ==
  \/ stage[h] = "telling"
  \/ \E k \in DOMAIN queue : k > i /\ queue[k].ended /\ queue[k].body[h] # Keep
Clean(h, p) == \A i \in p .. Len(queue) : Stale(i, h) => Superseded(i, h)

Cleanness ==
  /\ \A h \in Nodes \ missed : Clean(h, 0)
  /\ \A q \in Qhosts : \A h \in covers[q] :
       /\ \A p \in DOMAIN queue : Open(q, p) => Clean(h, p)
       /\ (~ \E p \in DOMAIN queue : Open(q, p)) => Clean(h, 0)

Kept == TypeOK /\ Opened /\ Agents /\ Scripts
IInv == Kept /\ Cleanness

-----------------------------------------------------------------------------
LEMMA BodiesLemma ==
  /\ Nothing \in Bodies
  /\ \A h, j : h \in Nodes /\ j \in Idle .. MaxJobs =>
       About(h, j) \in Bodies /\ About(h, j)[h] = j /\ \A g \in Nodes \ {h} : About(h, j)[g] = Keep
  BY DEF Nothing, About, Bodies, Keep, Idle

LEMMA ConnLemma ==
  ASSUME NEW from \in {Script, Agent} \cup Qhosts, NEW ended \in BOOLEAN, NEW body \in Bodies
  PROVE  Conn(from, ended, body) \in Connections
  BY Zenon DEF Conn, Connections

LEMMA SendersLemma == Script # Agent /\ \A q \in Qhosts : q # Script /\ q # Agent
  BY DEF Script, Agent

\* A function on the first n positions is a sequence.
LEMMA FunctionIsSequence ==
  ASSUME NEW S, NEW n \in Nat, NEW s \in [1 .. n -> S]
  PROVE  s \in Seq(S) /\ Len(s) = n /\ DOMAIN s = 1 .. n
  OBVIOUS

\* QhostSend and QhostFails end q's connection and touch no other.
LEMMA EndedLemma ==
  ASSUME TypeOK, NEW q \in Qhosts, NEW body \in Bodies
  PROVE  /\ Ended(q, body) \in Seq(Connections) /\ Len(Ended(q, body)) = Len(queue)
         /\ DOMAIN Ended(q, body) = DOMAIN queue
         /\ \A i \in DOMAIN queue :
              Ended(q, body)[i] = IF Open(q, i) THEN Conn(q, TRUE, body) ELSE queue[i]
<1>1. queue \in Seq(Connections) /\ DOMAIN queue = 1 .. Len(queue) /\ Len(queue) \in Nat
  BY DEF TypeOK
<1>2. \A i \in DOMAIN queue :
        Ended(q, body)[i] = IF Open(q, i) THEN Conn(q, TRUE, body) ELSE queue[i]
  BY DEF Ended, Open
<1>3. Conn(q, TRUE, body) \in Connections /\ \A i \in DOMAIN queue : queue[i] \in Connections
  <2>1. Conn(q, TRUE, body) \in Connections
    BY ConnLemma
  <2> QED
    BY <1>1, <2>1, ElementOfSeq
<1>4. Ended(q, body) \in [1 .. Len(queue) -> Connections]
  <2> DEFINE entry(i) == IF queue[i].from = q /\ ~ queue[i].ended THEN Conn(q, TRUE, body) ELSE queue[i]
  <2>1. \A i \in 1 .. Len(queue) : entry(i) \in Connections
    BY <1>1, <1>3
  <2>2. Ended(q, body) = [i \in 1 .. Len(queue) |-> entry(i)]
    BY <1>1 DEF Ended
  <2> HIDE DEF entry
  <2> QED
    BY <2>1, <2>2
<1> QED
  BY <1>1, <1>2, <1>4, FunctionIsSequence

\* The connection that a dead node leaves behind.
LEMMA HungLemma ==
  \A from \in {Script, Agent} :
    LET c == Conn(from, FALSE, Nothing)
    IN  c \in Connections /\ ~ c.ended /\ c.from = from /\ c.body = Nothing
<1> SUFFICES ASSUME NEW from \in {Script, Agent}, NEW c, c = Conn(from, FALSE, Nothing)
             PROVE  c \in Connections /\ ~ c.ended /\ c.from = from /\ c.body = Nothing
  OBVIOUS
<1>1. c \in Connections
  BY BodiesLemma, ConnLemma
<1>2. c.ended = FALSE /\ c.from = from /\ c.body = Nothing
  BY DEF Conn
<1> QED
  BY <1>1, <1>2

LEMMA InitKept == Init => IInv
<1> SUFFICES ASSUME Init PROVE IInv
  OBVIOUS
<1>1. TypeOK
  <2>1. 0 \in Idle .. MaxJobs /\ Unheard \in Tags /\ 0 \in 0 .. MaxRestarts
    BY DEF Tags, Idle, Unheard
  <2>2. queue \in Seq(Connections) /\ Len(queue) <= Backlog
    BY DEF Init
  <2> QED
    BY BodiesLemma, <2>1, <2>2 DEF Init, TypeOK, Idle
<1>2. Opened /\ Agents /\ Scripts
  BY DEF Init, Opened, Agents, Scripts, Open
<1>3. Cleanness
  BY DEF Init, Cleanness, Clean, Stale
<1> QED
  BY <1>1, <1>2, <1>3 DEF IInv, Kept

\* The queue with one connection more.
LEMMA AppendLemma ==
  ASSUME TypeOK, NEW c \in Connections, queue' = Append(queue, c), Len(queue) < Backlog
  PROVE  /\ queue' \in Seq(Connections) /\ Len(queue') = Len(queue) + 1 /\ Len(queue') <= Backlog
         /\ queue' # <<>> /\ DOMAIN queue' = DOMAIN queue \cup {Len(queue) + 1}
         /\ DOMAIN queue = 1 .. Len(queue) /\ Len(queue) \in Nat
         /\ queue'[Len(queue) + 1] = c /\ \A i \in DOMAIN queue : queue'[i] = queue[i]
  BY DEF TypeOK

\* The queue without its head.
LEMMA TailLemma ==
  ASSUME TypeOK, queue # <<>>, queue' = Tail(queue)
  PROVE  /\ queue' \in Seq(Connections) /\ Len(queue') = Len(queue) - 1 /\ Len(queue') <= Backlog
         /\ DOMAIN queue' = 1 .. Len(queue) - 1 /\ DOMAIN queue = 1 .. Len(queue)
         /\ Len(queue) \in Nat \ {0} /\ Head(queue) = queue[1] /\ queue[1] \in Connections
         /\ \A i \in DOMAIN queue' : queue'[i] = queue[i + 1] /\ queue[i + 1] \in Connections
  BY DEF TypeOK
-----------------------------------------------------------------------------
LEMMA AppendKept ==
  ASSUME TypeOK, Opened, Agents, NEW c \in Connections, queue' = Append(queue, c),
         Len(queue) < Backlog, UNCHANGED <<tag, byAgent>>,
         \A q \in Qhosts : qpc[q] # "off" => qpc'[q] # "off",
         ~ c.ended => c.body = Nothing,
         ~ c.ended /\ c.from \in Qhosts => qpc[c.from] = "off" /\ qpc'[c.from] # "off",
         c.from = Agent => \A h \in Nodes : c.body[h] # Keep => c.body[h] = Idle /\ h \in Monitored
  PROVE  Opened' /\ Agents'
<1>1. /\ DOMAIN queue' = DOMAIN queue \cup {Len(queue) + 1}
      /\ queue'[Len(queue) + 1] = c /\ \A i \in DOMAIN queue : queue'[i] = queue[i]
      /\ DOMAIN queue = 1 .. Len(queue) /\ Len(queue) \in Nat
  BY AppendLemma
<1>2. ASSUME NEW i \in DOMAIN queue', ~ queue'[i].ended
      PROVE  queue'[i].body = Nothing /\ (queue'[i].from \in Qhosts => qpc'[queue'[i].from] # "off")
  BY <1>1, <1>2 DEF Opened
<1>3. ASSUME NEW q \in Qhosts, NEW i \in DOMAIN queue', NEW k \in DOMAIN queue',
             Open(q, i)', Open(q, k)'
      PROVE  i = k
  <2>1. \A j \in DOMAIN queue : Open(q, j)' => Open(q, j) /\ qpc[q] # "off"
    BY <1>1 DEF Open, Opened
  <2>2. \A j \in DOMAIN queue' \ DOMAIN queue : Open(q, j)' => qpc[q] = "off"
    BY <1>1 DEF Open
  <2>3. CASE i \in DOMAIN queue /\ k \in DOMAIN queue
    BY <1>3, <2>1, <2>3 DEF Opened
  <2>4. CASE i \notin DOMAIN queue
    <3>1. i = Len(queue) + 1 /\ qpc[q] = "off"
      BY <1>1, <1>3, <2>2, <2>4
    <3>2. k \notin DOMAIN queue
      BY <1>3, <2>1, <3>1
    <3> QED
      BY <1>1, <3>1, <3>2
  <2>5. CASE k \notin DOMAIN queue
    <3>1. k = Len(queue) + 1 /\ qpc[q] = "off"
      BY <1>1, <1>3, <2>2, <2>5
    <3>2. i \notin DOMAIN queue
      BY <1>3, <2>1, <3>1
    <3> QED
      BY <1>1, <3>1, <3>2
  <2> QED
    BY <2>3, <2>4, <2>5
<1>4. Agents'
  BY <1>1 DEF Agents
<1> QED
  BY <1>2, <1>3, <1>4 DEF Opened

LEMMA EndedKept ==
  ASSUME TypeOK, Opened, Agents, NEW q \in Qhosts, NEW body \in Bodies,
         queue' = Ended(q, body), UNCHANGED <<tag, byAgent>>,
         \A r \in Qhosts \ {q} : qpc'[r] = qpc[r]
  PROVE  Opened' /\ Agents'
<1>1. /\ DOMAIN queue' = DOMAIN queue
      /\ \A i \in DOMAIN queue :
           queue'[i] = IF Open(q, i) THEN Conn(q, TRUE, body) ELSE queue[i]
  BY EndedLemma
<1>2. Conn(q, TRUE, body).ended /\ Conn(q, TRUE, body).from = q
  BY DEF Conn
<1>3. \A i \in DOMAIN queue : ~ queue'[i].ended => queue'[i] = queue[i] /\ queue[i].from # q
  BY <1>1, <1>2 DEF Open
<1>4. \A i \in DOMAIN queue : queue'[i].from = Agent => queue'[i] = queue[i]
  BY <1>1, <1>2
<1>5. ASSUME NEW i \in DOMAIN queue', ~ queue'[i].ended
      PROVE  queue'[i].body = Nothing /\ (queue'[i].from \in Qhosts => qpc'[queue'[i].from] # "off")
  BY <1>1, <1>3, <1>5 DEF Opened
<1>6. ASSUME NEW r \in Qhosts, NEW i \in DOMAIN queue', NEW k \in DOMAIN queue',
             Open(r, i)', Open(r, k)'
      PROVE  i = k
  BY <1>1, <1>3, <1>6 DEF Opened, Open
<1>7. Agents'
  BY <1>1, <1>4 DEF Agents
<1> QED
  BY <1>5, <1>6, <1>7 DEF Opened

\* What Receive makes of the tags, and of who wrote them.
LEMMA ReceiveKept ==
  ASSUME Kept, Receive
  PROVE  TypeOK' /\ Opened' /\ Agents'
<1> DEFINE c == Head(queue)
<1>1. /\ queue # <<>> /\ queue' = Tail(queue) /\ queue[1].ended /\ busy' = FALSE
      /\ UNCHANGED <<running, last, stage, restarts, qpc, snap, missed, covers>>
  BY DEF Receive, Kept, TypeOK, slurm, qhost
<1>2. /\ Len(queue') = Len(queue) - 1 /\ DOMAIN queue' = 1 .. Len(queue) - 1
      /\ DOMAIN queue = 1 .. Len(queue) /\ Len(queue) \in Nat \ {0}
      /\ c = queue[1] /\ c \in Connections /\ queue' \in Seq(Connections) /\ Len(queue') <= Backlog
      /\ \A i \in DOMAIN queue' : queue'[i] = queue[i + 1]
  BY <1>1, TailLemma DEF Kept
<1>3. c.body \in Bodies
  BY <1>2 DEF Connections
<1>4. \A h \in Nodes : c.body[h] \in {Keep} \cup Idle .. MaxJobs
  BY <1>3 DEF Bodies
<1>5. tag' = [h \in Nodes |-> IF c.body[h] = Keep THEN tag[h] ELSE c.body[h]]
  BY DEF Receive
<1>6. tag' \in [Nodes -> Tags]
  <2>1. \A h \in Nodes : c.body[h] # Keep => c.body[h] \in Tags
    BY <1>4 DEF Tags, Idle, Unheard
  <2>2. \A h \in Nodes : tag[h] \in Tags
    BY DEF Kept, TypeOK
  <2> HIDE DEF c
  <2> QED
    BY <1>5, <2>1, <2>2
<1>7. \A h \in Nodes : h \in byAgent' <=> IF c.body[h] = Keep THEN h \in byAgent ELSE c.from = Agent
  BY DEF Receive, WrittenByAgent
<1>8. byAgent' \subseteq Monitored
  <2>1. byAgent' \subseteq Nodes
    BY DEF Receive, WrittenByAgent
  <2>2. \A h \in Nodes : c.from = Agent /\ c.body[h] # Keep => h \in Monitored
    BY <1>2 DEF Kept, Agents
  <2>3. byAgent \subseteq Monitored
    BY DEF Kept, TypeOK
  <2> HIDE DEF c
  <2> QED
    BY <1>7, <2>1, <2>2, <2>3
<1>9. TypeOK'
  BY <1>1, <1>2, <1>6, <1>8 DEF Kept, TypeOK
<1>10. Opened'
  <2>1. \A q, i : Open(q, i)' => Open(q, i + 1)
    BY <1>2 DEF Open
  <2>2. \A i \in DOMAIN queue' : i + 1 \in DOMAIN queue
    BY <1>2
  <2> HIDE DEF c
  <2> QED
    BY <1>1, <1>2, <2>1, <2>2 DEF Kept, Opened
<1>11. Agents'
  <2>1. \A h \in byAgent' : tag'[h] = Idle
    <3> SUFFICES ASSUME NEW h \in byAgent' PROVE tag'[h] = Idle
      OBVIOUS
    <3>1. h \in Nodes
      BY DEF Receive, WrittenByAgent
    <3> HIDE DEF c
    <3>2. CASE c.body[h] = Keep
      BY <1>5, <1>7, <3>1, <3>2 DEF Kept, Agents
    <3>3. CASE c.body[h] # Keep
      BY <1>2, <1>5, <1>7, <3>1, <3>3 DEF Kept, Agents
    <3> QED
      BY <3>2, <3>3
  <2>2. \A i \in DOMAIN queue' : i + 1 \in DOMAIN queue
    BY <1>2
  <2> HIDE DEF c
  <2> QED
    BY <1>2, <2>1, <2>2 DEF Kept, Agents
<1> QED
  BY <1>9, <1>10, <1>11


LEMMA KeptStep == Kept /\ [Next]_vars => Kept'
<1> SUFFICES ASSUME Kept, [Next]_vars PROVE Kept'
  OBVIOUS
<1> USE DEF server, slurm, qhost
<1>0. TypeOK /\ Opened /\ Agents /\ Scripts
  BY DEF Kept
<1>b. \A i \in DOMAIN queue : queue[i] \in Connections
  BY <1>0, ElementOfSeq DEF TypeOK
<1>1. ASSUME NEW h \in Nodes, JobStart(h) PROVE Kept'
  <2>1. TypeOK'
    BY <1>0, <1>1 DEF JobStart, TypeOK, Idle
  <2>2. UNCHANGED <<tag, byAgent, queue, qpc, snap, covers>>
    BY <1>1 DEF JobStart
  <2> QED
    BY <1>0, <2>1, <2>2 DEF Kept, Opened, Open, Agents, Scripts
<1>2. ASSUME NEW h \in Nodes, JobEnd(h) PROVE Kept'
  <2>1. TypeOK'
    BY <1>0, <1>2 DEF JobEnd, TypeOK, Idle
  <2>2. UNCHANGED <<tag, byAgent, queue, qpc, snap, covers>>
    BY <1>2 DEF JobEnd
  <2> QED
    BY <1>0, <2>1, <2>2 DEF Kept, Opened, Open, Agents, Scripts
<1>3. ASSUME NEW h \in Nodes, Tell(h) PROVE Kept'
  <2> DEFINE c == Conn(Script, TRUE, About(h, running[h]))
  <2>1. About(h, running[h]) \in Bodies
    BY <1>0, BodiesLemma DEF TypeOK
  <2>2. c \in Connections /\ c.ended /\ c.from # Agent
    <3>1. c \in Connections
      BY <2>1, ConnLemma
    <3>2. c.ended = TRUE /\ c.from = Script
      BY DEF Conn
    <3> HIDE DEF c
    <3> QED
      BY <3>1, <3>2, SendersLemma
  <2>3. /\ queue' = Append(queue, c) /\ Len(queue) < Backlog
        /\ stage' = [stage EXCEPT ![h] = "told"] /\ missed' = missed \ {h}
        /\ UNCHANGED <<running, last, tag, byAgent, busy, restarts, qpc, snap, covers>>
    BY <1>3 DEF Tell
  <2> HIDE DEF c
  <2>4. Opened' /\ Agents'
    BY <1>0, <2>2, <2>3, AppendKept
  <2>5. queue' \in Seq(Connections) /\ Len(queue') <= Backlog /\ queue' # <<>>
    BY <1>0, <2>2, <2>3, AppendLemma
  <2>6. TypeOK'
    BY <1>0, <2>3, <2>5 DEF TypeOK
  <2> QED
    BY <1>0, <2>3, <2>4, <2>6 DEF Kept, Scripts
<1>4. ASSUME NEW h \in Nodes, TellFails(h) PROVE Kept'
  <2>1. TypeOK'
    BY <1>0, <1>4 DEF TellFails, TypeOK
  <2>2. UNCHANGED <<tag, byAgent, queue, qpc, snap>> /\ \A q \in Qhosts : covers'[q] = covers[q] \ {h}
    BY <1>4 DEF TellFails
  <2> QED
    BY <1>0, <2>1, <2>2 DEF Kept, Opened, Open, Agents, Scripts
<1>5. ASSUME NEW q \in Qhosts, QhostConnect(q) PROVE Kept'
  <2> DEFINE c == Conn(q, FALSE, Nothing)
  <2>2. c \in Connections /\ ~ c.ended /\ c.from = q /\ c.body = Nothing /\ q # Agent
    <3>1. c \in Connections
      BY BodiesLemma, ConnLemma
    <3>2. c.ended = FALSE /\ c.from = q /\ c.body = Nothing
      BY DEF Conn
    <3> HIDE DEF c
    <3> QED
      BY <3>1, <3>2, SendersLemma
  <2>3. /\ queue' = Append(queue, c) /\ Len(queue) < Backlog /\ qpc[q] = "off"
        /\ qpc' = [qpc EXCEPT ![q] = "connected"] /\ covers' = [covers EXCEPT ![q] = Nodes]
        /\ UNCHANGED <<running, last, stage, tag, byAgent, busy, restarts, snap, missed>>
    BY <1>5 DEF QhostConnect, Put
  <2> HIDE DEF c
  <2>a. qpc'[q] = "connected" /\ \A r \in Qhosts \ {q} : qpc'[r] = qpc[r] /\ covers'[r] = covers[r]
    BY <1>0, <2>3 DEF TypeOK
  <2>b. \A r \in Qhosts : qpc[r] # "off" => qpc'[r] # "off"
    BY <2>a
  <2>4. Opened' /\ Agents'
    BY <1>0, <2>2, <2>3, <2>a, <2>b, AppendKept
  <2>5. queue' \in Seq(Connections) /\ Len(queue') <= Backlog /\ queue' # <<>>
    BY <1>0, <2>2, <2>3, AppendLemma
  <2>6. TypeOK'
    BY <1>0, <2>3, <2>5 DEF TypeOK
  <2> QED
    BY <1>0, <2>3, <2>4, <2>6, <2>a DEF Kept, Scripts
<1>6. ASSUME NEW q \in Qhosts, QhostLook(q) PROVE Kept'
  <2>1. /\ qpc[q] = "connected" /\ qpc' = [qpc EXCEPT ![q] = "looked"]
        /\ snap' = [snap EXCEPT ![q] = running]
        /\ UNCHANGED <<running, last, stage, tag, byAgent, busy, restarts, queue, missed, covers>>
    BY <1>6 DEF QhostLook, Put
  <2>2. running \in Bodies /\ \A h \in Nodes : running[h] # Keep
    BY <1>0 DEF TypeOK, Bodies, Keep, Idle
  <2>3. /\ qpc'[q] = "looked" /\ snap'[q] = running
        /\ \A r \in Qhosts \ {q} : qpc'[r] = qpc[r] /\ snap'[r] = snap[r]
    BY <1>0, <2>1 DEF TypeOK
  <2>4. TypeOK'
    BY <1>0, <2>1, <2>2 DEF TypeOK
  <2>5. Opened' /\ Agents'
    <3>1. \A r \in Qhosts : qpc[r] # "off" => qpc'[r] # "off"
      BY <2>3
    <3> QED
      BY <1>0, <2>1, <3>1 DEF Opened, Open, Agents
  <2> QED
    BY <1>0, <2>1, <2>2, <2>3, <2>4, <2>5 DEF Kept, Scripts
<1>7. ASSUME NEW q \in Qhosts, QhostSend(q) \/ QhostFails(q) PROVE Kept'
  <2>1. PICK body \in {snap[q], Nothing} : queue' = Ended(q, body)
    BY <1>7 DEF QhostSend, QhostFails
  <2>2. body \in Bodies
    BY <1>0, BodiesLemma DEF TypeOK
  <2>3. /\ qpc' = [qpc EXCEPT ![q] = "off"] /\ snap' = [snap EXCEPT ![q] = Nothing]
        /\ covers' = [covers EXCEPT ![q] = {}] /\ missed' \in {missed, missed \ covers[q]}
        /\ UNCHANGED <<running, last, stage, tag, byAgent, busy, restarts>>
    BY <1>7 DEF QhostSend, QhostFails, Put
  <2>4. /\ qpc'[q] = "off" /\ snap'[q] = Nothing /\ covers'[q] = {}
        /\ \A r \in Qhosts \ {q} : qpc'[r] = qpc[r] /\ snap'[r] = snap[r] /\ covers'[r] = covers[r]
    BY <1>0, <2>3 DEF TypeOK
  <2>5. /\ queue' \in Seq(Connections) /\ Len(queue') = Len(queue)
    BY <1>0, <2>1, <2>2, EndedLemma
  <2>6. busy' => queue' # <<>>
    BY <1>0, <2>3, <2>5 DEF TypeOK
  <2>7. TypeOK'
    <3>1. Len(queue') <= Backlog /\ missed' \subseteq Nodes
      BY <1>0, <2>3, <2>5 DEF TypeOK
    <3>2. /\ qpc' \in [Qhosts -> {"off", "connected", "looked", "silent"}]
          /\ snap' \in [Qhosts -> Bodies] /\ covers' \in [Qhosts -> SUBSET Nodes]
      BY <1>0, <2>3, BodiesLemma DEF TypeOK
    <3> QED
      BY <1>0, <2>3, <2>5, <2>6, <3>1, <3>2 DEF TypeOK
  <2>8. Opened' /\ Agents'
    BY <1>0, <2>1, <2>2, <2>3, <2>4, EndedKept
  <2>9. Scripts'
    BY <1>0, <2>4 DEF Scripts
  <2> QED
    BY <2>7, <2>8, <2>9 DEF Kept
<1>8. ASSUME NEW q \in Qhosts, QhostSilent(q) PROVE Kept'
  <2>1. /\ qpc[q] # "off" /\ qpc' = [qpc EXCEPT ![q] = "silent"]
        /\ UNCHANGED <<running, last, stage, tag, byAgent, busy, restarts, queue, snap, missed, covers>>
    BY <1>8 DEF QhostSilent, Put
  <2>2. qpc'[q] = "silent" /\ \A r \in Qhosts \ {q} : qpc'[r] = qpc[r]
    BY <1>0, <2>1 DEF TypeOK
  <2>3. TypeOK'
    BY <1>0, <2>1 DEF TypeOK
  <2>4. Opened' /\ Agents'
    <3>1. \A r \in Qhosts : qpc[r] # "off" => qpc'[r] # "off"
      BY <2>2
    <3> QED
      BY <1>0, <2>1, <3>1 DEF Opened, Open, Agents
  <2> QED
    BY <1>0, <2>1, <2>2, <2>3, <2>4 DEF Kept, Scripts
<1>9. ASSUME NEW h \in Monitored, AgentReport(h) PROVE Kept'
  <2> DEFINE c == Conn(Agent, TRUE, About(h, Idle))
  <2>1. /\ About(h, Idle) \in Bodies
        /\ \A g \in Nodes : About(h, Idle)[g] # Keep => g = h /\ About(h, Idle)[g] = Idle
    BY BodiesLemma DEF Idle, About, Nothing
  <2>2. /\ c \in Connections /\ c.ended
        /\ \A g \in Nodes : c.body[g] # Keep => c.body[g] = Idle /\ g \in Monitored
    <3>1. c \in Connections
      BY <2>1, ConnLemma
    <3>2. c.ended = TRUE /\ c.body = About(h, Idle)
      BY DEF Conn
    <3> HIDE DEF c
    <3> QED
      BY <2>1, <3>1, <3>2
  <2>3. /\ queue' = Append(queue, c) /\ Len(queue) < Backlog
        /\ UNCHANGED <<running, last, stage, tag, byAgent, busy, restarts, qpc, snap, missed, covers>>
    BY <1>9 DEF AgentReport
  <2> HIDE DEF c
  <2>4. Opened' /\ Agents'
    BY <1>0, <2>2, <2>3, AppendKept
  <2>5. queue' \in Seq(Connections) /\ Len(queue') <= Backlog /\ queue' # <<>>
    BY <1>0, <2>2, <2>3, AppendLemma
  <2>6. TypeOK'
    BY <1>0, <2>3, <2>5 DEF TypeOK
  <2> QED
    BY <1>0, <2>3, <2>4, <2>6 DEF Kept, Scripts
<1>10. ASSUME Accept PROVE Kept'
  <2>1. TypeOK'
    BY <1>0, <1>10 DEF Accept, TypeOK
  <2>2. UNCHANGED <<tag, byAgent, queue, qpc, snap, covers>>
    BY <1>10 DEF Accept
  <2> QED
    BY <1>0, <2>1, <2>2 DEF Kept, Opened, Open, Agents, Scripts
<1>11. ASSUME Receive PROVE Kept'
  <2>1. UNCHANGED <<qpc, snap, covers>>
    BY <1>11 DEF Receive
  <2> QED
    BY <1>0, <1>11, <2>1, ReceiveKept DEF Kept, Scripts
<1>12. ASSUME Restart PROVE Kept'
  <2>1. /\ queue' = <<>> /\ byAgent' = {} /\ busy' = FALSE /\ tag' = [h \in Nodes |-> Unheard]
        /\ restarts' = restarts + 1 /\ restarts < MaxRestarts
        /\ UNCHANGED <<running, last, stage, qpc, snap, missed, covers>>
    BY <1>12 DEF Restart
  <2>2. queue' \in Seq(Connections) /\ Len(queue') <= Backlog
    BY <2>1
  <2>3. restarts' \in 0 .. MaxRestarts /\ tag' \in [Nodes -> Tags]
    BY <1>0, <2>1 DEF TypeOK, Tags, Unheard
  <2>4. TypeOK'
    BY <1>0, <2>1, <2>2, <2>3 DEF TypeOK
  <2> QED
    BY <1>0, <2>1, <2>4 DEF Kept, Opened, Open, Agents, Scripts
<1>13. ASSUME NEW h \in Nodes, TellSilent(h) PROVE Kept'
  <2> DEFINE c == Conn(Script, FALSE, Nothing)
  <2>1. /\ queue' = Append(queue, c) /\ Len(queue) < Backlog
        /\ stage' = [stage EXCEPT ![h] = "told"] /\ missed' = missed \cup {h}
        /\ \A q \in Qhosts : covers'[q] = covers[q] \ {h}
        /\ covers' = [q \in Qhosts |-> covers[q] \ {h}]
        /\ UNCHANGED <<running, last, tag, byAgent, busy, restarts, qpc, snap>>
    BY <1>13 DEF TellSilent
  <2>2. c \in Connections /\ ~ c.ended /\ c.from = Script /\ c.body = Nothing
    BY HungLemma
  <2> HIDE DEF c
  <2>3. Opened' /\ Agents'
    BY <1>0, <2>1, <2>2, SendersLemma, AppendKept
  <2>4. queue' \in Seq(Connections) /\ Len(queue') <= Backlog /\ queue' # <<>>
    BY <1>0, <2>1, <2>2, AppendLemma
  <2>5. TypeOK'
    BY <1>0, <2>1, <2>4 DEF TypeOK
  <2> QED
    BY <1>0, <2>1, <2>3, <2>5 DEF Kept, Scripts
<1>14. ASSUME NEW h \in Monitored, AgentSilent(h) PROVE Kept'
  <2> DEFINE c == Conn(Agent, FALSE, Nothing)
  <2>1. /\ queue' = Append(queue, c) /\ Len(queue) < Backlog
        /\ UNCHANGED <<running, last, stage, tag, byAgent, busy, restarts, qpc, snap, missed, covers>>
    BY <1>14 DEF AgentSilent
  <2>2. c \in Connections /\ ~ c.ended /\ c.from = Agent /\ c.body = Nothing
    BY HungLemma
  <2>3. \A g \in Nodes : Nothing[g] = Keep
    BY DEF Nothing
  <2> HIDE DEF c
  <2>4. Opened' /\ Agents'
    BY <1>0, <2>1, <2>2, <2>3, SendersLemma, AppendKept
  <2>5. queue' \in Seq(Connections) /\ Len(queue') <= Backlog /\ queue' # <<>>
    BY <1>0, <2>1, <2>2, AppendLemma
  <2>6. TypeOK'
    BY <1>0, <2>1, <2>5 DEF TypeOK
  <2> QED
    BY <1>0, <2>1, <2>4, <2>6 DEF Kept, Scripts
<1>15. CASE UNCHANGED vars
  BY <1>0, <1>15 DEF vars, Kept, TypeOK, Opened, Open, Agents, Scripts
<1> QED
  BY <1>1, <1>2, <1>3, <1>4, <1>5, <1>6, <1>7, <1>8, <1>9, <1>10, <1>11, <1>12, <1>13, <1>14,
     <1>15 DEF Next

-----------------------------------------------------------------------------
\* A step that leaves the queue and the tags alone: h's job does not change, or
\* slurm_tagging has to tell of it; a script sees the truth or what it saw before.
LEMMA CleanSame ==
  ASSUME Kept, NEW h \in Nodes, NEW p \in Nat, Clean(h, p), UNCHANGED <<queue, tag, byAgent>>,
         stage'[h] = "telling" \/ (stage'[h] = stage[h] /\ running'[h] = running[h]),
         stage'[h] # "telling" => \A q \in Qhosts : snap'[q][h] \in {snap[q][h], running[h]}
  PROVE  Clean(h, p)'
<1>1. ASSUME NEW i \in p .. Len(queue), Stale(i, h)' PROVE Superseded(i, h)'
  <2>1. CASE stage'[h] = "telling"
    BY <2>1 DEF Superseded
  <2>2. CASE stage'[h] # "telling"
    <3>1. stage'[h] = stage[h] /\ running'[h] = running[h]
      BY <2>2
    <3>2. CASE i = 0
      <4>1. Stale(i, h)
        BY <1>1, <3>1, <3>2 DEF Stale
      <4> QED
        BY <1>1, <3>1, <4>1 DEF Clean, Superseded
    <3>3. CASE i # 0
      <4>1. i \in DOMAIN queue
        BY <3>3 DEF Kept, TypeOK
      <4>2. Stale(i, h)
        BY <1>1, <2>2, <3>1, <3>3, <4>1 DEF Stale, Says
      <4> QED
        BY <1>1, <3>1, <4>2 DEF Clean, Superseded
    <3> QED
      BY <3>2, <3>3
  <2> QED
    BY <2>1, <2>2
<1> QED
  BY <1>1 DEF Clean

\* A connection more that is not stale, and that tells when slurm_tagging has told.
LEMMA CleanAppend ==
  ASSUME Kept, NEW c \in Connections, queue' = Append(queue, c), Len(queue) < Backlog,
         NEW h \in Nodes, UNCHANGED <<running, tag, byAgent, snap>>,
         stage'[h] = stage[h] \/ (c.ended /\ c.body[h] # Keep),
         c.from = Agent \/ (IF ~ c.ended /\ c.from \in Qhosts THEN snap[c.from][h] ELSE c.body[h])
                              \in {Keep, running[h]}
  PROVE  /\ \A p \in 0 .. Len(queue) : Clean(h, p) => Clean(h, p)'
         /\ c.ended /\ c.body[h] # Keep => Clean(h, 0)'
         /\ \A p \in Nat : p = Len(queue) + 1 => Clean(h, p)'
<1>1. /\ DOMAIN queue' = DOMAIN queue \cup {Len(queue) + 1} /\ Len(queue') = Len(queue) + 1
      /\ queue'[Len(queue) + 1] = c /\ \A i \in DOMAIN queue : queue'[i] = queue[i]
      /\ DOMAIN queue = 1 .. Len(queue) /\ Len(queue) \in Nat
  BY AppendLemma DEF Kept
<1>2. ASSUME NEW i \in Nat, i = Len(queue) + 1 PROVE ~ Stale(i, h)'
  BY <1>1, <1>2 DEF Stale, Says
<1>3. ASSUME NEW i \in 0 .. Len(queue), Stale(i, h)' PROVE Stale(i, h)
  BY <1>1, <1>3 DEF Stale, Says
<1>4. ASSUME NEW i \in 0 .. Len(queue), Superseded(i, h) PROVE Superseded(i, h)'
  BY <1>1, <1>4 DEF Superseded
<1>5. ASSUME NEW i \in 0 .. Len(queue), c.ended, c.body[h] # Keep PROVE Superseded(i, h)'
  BY <1>1, <1>5 DEF Superseded
<1>6. ASSUME NEW p \in 0 .. Len(queue), Clean(h, p) PROVE Clean(h, p)'
  <2>1. \A i \in p .. Len(queue) + 1 : Stale(i, h)' => Superseded(i, h)'
    BY <1>1, <1>2, <1>3, <1>4, <1>6 DEF Clean
  <2> QED
    BY <1>1, <2>1 DEF Clean
<1>7. ASSUME c.ended, c.body[h] # Keep PROVE Clean(h, 0)'
  <2>1. \A i \in 0 .. Len(queue) + 1 : Stale(i, h)' => Superseded(i, h)'
    BY <1>1, <1>2, <1>5, <1>7
  <2> QED
    BY <1>1, <2>1 DEF Clean
<1>8. ASSUME NEW p \in Nat, p = Len(queue) + 1 PROVE Clean(h, p)'
  BY <1>1, <1>2, <1>8 DEF Clean
<1> QED
  BY <1>6, <1>7, <1>8

\* The end of q's connection, with what q has seen or with nothing.
LEMMA CleanEnded ==
  ASSUME Kept, NEW q \in Qhosts, NEW body \in Bodies, queue' = Ended(q, body),
         body \in {snap[q], Nothing}, snap' = [snap EXCEPT ![q] = Nothing],
         NEW h \in Nodes, UNCHANGED <<running, stage, tag, byAgent>>
  PROVE  /\ \A p \in Nat : Clean(h, p) => Clean(h, p)'
         /\ \A p \in DOMAIN queue : Open(q, p) /\ body[h] # Keep /\ Clean(h, p) => Clean(h, 0)'
<1>1. /\ DOMAIN queue' = DOMAIN queue /\ Len(queue') = Len(queue)
      /\ \A i \in DOMAIN queue :
           queue'[i] = IF Open(q, i) THEN Conn(q, TRUE, body) ELSE queue[i]
      /\ DOMAIN queue = 1 .. Len(queue) /\ Len(queue) \in Nat
  <2>1. TypeOK
    BY DEF Kept
  <2>2. DOMAIN queue = 1 .. Len(queue) /\ Len(queue) \in Nat
    BY <2>1 DEF TypeOK
  <2> QED
    BY <2>1, <2>2, EndedLemma
<1>2. Conn(q, TRUE, body).ended /\ Conn(q, TRUE, body).from = q /\ Conn(q, TRUE, body).body = body
  BY Zenon DEF Conn
<1>3. Nothing[h] = Keep
  BY DEF Nothing
<1>4. \A r \in Qhosts \ {q} : snap'[r] = snap[r]
  <2>1. snap \in [Qhosts -> Bodies]
    BY DEF Kept, TypeOK
  <2> QED
    BY <2>1
<1>5. ASSUME NEW i \in 0 .. Len(queue), Stale(i, h)' PROVE Stale(i, h)
  <2>1. CASE i = 0
    BY <1>5, <2>1 DEF Stale
  <2>2. CASE i # 0 /\ Open(q, i)
    <3>1. queue'[i] = Conn(q, TRUE, body) /\ queue[i].from = q /\ ~ queue[i].ended
      BY <1>1, <2>2 DEF Open
    <3>2. Says(i, h)' = body[h] /\ Says(i, h) = snap[q][h]
      BY <1>2, <3>1 DEF Says
    <3> QED
      BY <1>2, <1>3, <1>5, <2>2, <3>1, <3>2 DEF Stale
  <2>3. CASE i # 0 /\ ~ Open(q, i)
    <3>0. i \in DOMAIN queue
      BY <1>1, <2>3
    <3>1. i \in DOMAIN queue /\ queue'[i] = queue[i]
      BY <1>1, <2>3, <3>0, Zenon
    <3>2. ~ queue[i].ended => queue[i].from # q
      BY <2>3, <3>1 DEF Open
    <3>3. Says(i, h)' = Says(i, h)
      BY <1>4, <3>1, <3>2 DEF Says
    <3> QED
      BY <1>5, <2>3, <3>1, <3>3 DEF Stale
  <2> QED
    BY <2>1, <2>2, <2>3
<1>6. ASSUME NEW i \in 0 .. Len(queue), Superseded(i, h) PROVE Superseded(i, h)'
  <2>1. \A k \in DOMAIN queue : queue[k].ended => queue'[k] = queue[k]
    BY <1>1 DEF Open
  <2> QED
    BY <1>1, <1>6, <2>1 DEF Superseded
<1>7. ASSUME NEW p \in Nat, Clean(h, p) PROVE Clean(h, p)'
  <2>1. \A i \in p .. Len(queue) : i \in 0 .. Len(queue)
    BY <1>1
  <2> QED
    BY <1>1, <1>5, <1>6, <1>7, <2>1 DEF Clean
<1>8. ASSUME NEW p \in DOMAIN queue, Open(q, p), body[h] # Keep, Clean(h, p) PROVE Clean(h, 0)'
  <2>1. queue'[p].ended /\ queue'[p].body[h] # Keep
    BY <1>1, <1>2, <1>8
  <2>2. \A i \in 0 .. p - 1 : Superseded(i, h)'
    BY <1>1, <2>1 DEF Superseded
  <2>3. \A i \in p .. Len(queue) : Stale(i, h)' => Superseded(i, h)'
    BY <1>1, <1>7, <1>8 DEF Clean
  <2> QED
    BY <1>1, <2>2, <2>3 DEF Clean
<1> QED
  BY <1>7, <1>8


\* The head read: what it says goes to position 0, and the rest move up.
LEMMA CleanReceive ==
  ASSUME Kept, Receive, NEW h \in Nodes
  PROVE  /\ Clean(h, 0) => Clean(h, 0)'
         /\ \A p \in Nat \ {0} : Clean(h, p + 1) => Clean(h, p)'
<1> DEFINE c == Head(queue)
<1>1. /\ queue # <<>> /\ queue' = Tail(queue) /\ queue[1].ended
      /\ UNCHANGED <<running, stage, snap>>
  BY DEF Receive, Kept, TypeOK, slurm, qhost
<1>2. /\ Len(queue') = Len(queue) - 1 /\ DOMAIN queue' = 1 .. Len(queue) - 1
      /\ DOMAIN queue = 1 .. Len(queue) /\ Len(queue) \in Nat \ {0} /\ c = queue[1]
      /\ \A i \in DOMAIN queue' : queue'[i] = queue[i + 1]
  BY <1>1, TailLemma DEF Kept
<1>3. tag'[h] = IF c.body[h] = Keep THEN tag[h] ELSE c.body[h]
  BY DEF Receive
<1>4. h \in byAgent' <=> IF c.body[h] = Keep THEN h \in byAgent ELSE c.from = Agent
  BY DEF Receive, WrittenByAgent
<1> HIDE DEF c
<1>5. ASSUME NEW i \in 1 .. Len(queue) - 1, Stale(i, h)', NEW j \in Nat, j = i + 1
      PROVE  Stale(j, h)
  <2>1. queue'[i] = queue[j] /\ i # 0 /\ j # 0
    BY <1>2, <1>5
  <2> QED
    BY <1>1, <1>5, <2>1 DEF Stale, Says
<1>6. ASSUME NEW i \in 0 .. Len(queue) - 1, NEW j \in Nat, j = i + 1, Superseded(j, h)
      PROVE  Superseded(i, h)'
  <2>1. CASE stage[h] = "telling"
    BY <1>1, <2>1 DEF Superseded
  <2>2. CASE stage[h] # "telling"
    <3>1. PICK k \in DOMAIN queue : k > j /\ queue[k].ended /\ queue[k].body[h] # Keep
      BY <1>6, <2>2 DEF Superseded
    <3>2. /\ k - 1 \in DOMAIN queue' /\ k - 1 > i /\ queue'[k - 1] = queue[k]
      BY <1>2, <1>6, <3>1
    <3> QED
      BY <3>1, <3>2 DEF Superseded
  <2> QED
    BY <2>1, <2>2
<1>7. ASSUME Clean(h, 0), Stale(0, h)' PROVE Superseded(0, h)'
  <2>1. tag'[h] \notin {Unheard, running[h]} /\ h \notin byAgent'
    BY <1>1, <1>7 DEF Stale
  <2>2. CASE c.body[h] = Keep
    <3>1. Stale(0, h)
      BY <1>3, <1>4, <2>1, <2>2 DEF Stale
    <3>2. Superseded(0, h)
      BY <1>2, <1>7, <3>1 DEF Clean
    <3>3. Superseded(1, h)
      BY <1>2, <2>2, <3>2 DEF Superseded
    <3> QED
      BY <1>2, <1>6, <3>3
  <2>3. CASE c.body[h] # Keep
    <3>1. Stale(1, h)
      BY <1>1, <1>2, <1>3, <1>4, <2>1, <2>3 DEF Stale, Says
    <3>2. Superseded(1, h)
      BY <1>2, <1>7, <3>1 DEF Clean
    <3> QED
      BY <1>2, <1>6, <3>2
  <2> QED
    BY <2>2, <2>3
<1>8. ASSUME Clean(h, 0) PROVE Clean(h, 0)'
  <2>1. ASSUME NEW i \in 1 .. Len(queue) - 1, Stale(i, h)' PROVE Superseded(i, h)'
    <3>1. i + 1 \in Nat /\ i + 1 \in 0 .. Len(queue) /\ i \in 0 .. Len(queue) - 1
      BY <1>2
    <3>2. Stale(i + 1, h)
      BY <1>5, <2>1, <3>1
    <3>3. Superseded(i + 1, h)
      BY <1>8, <3>1, <3>2 DEF Clean
    <3> QED
      BY <1>6, <3>1, <3>3
  <2>2. \A i \in 0 .. Len(queue) - 1 : Stale(i, h)' => Superseded(i, h)'
    BY <1>2, <1>7, <1>8, <2>1
  <2> QED
    BY <1>2, <2>2 DEF Clean
<1>9. ASSUME NEW p \in Nat \ {0}, Clean(h, p + 1) PROVE Clean(h, p)'
  <2>1. ASSUME NEW i \in p .. Len(queue) - 1, Stale(i, h)' PROVE Superseded(i, h)'
    <3>1. /\ i + 1 \in Nat /\ i + 1 \in p + 1 .. Len(queue)
          /\ i \in 1 .. Len(queue) - 1 /\ i \in 0 .. Len(queue) - 1
      BY <1>2, <1>9
    <3>2. Stale(i + 1, h)
      BY <1>5, <2>1, <3>1
    <3>3. Superseded(i + 1, h)
      BY <1>9, <3>1, <3>2 DEF Clean
    <3> QED
      BY <1>6, <3>1, <3>3
  <2> QED
    BY <1>2, <2>1 DEF Clean
<1> QED
  BY <1>8, <1>9


\* What a script's place and its cover promise is carried along by each step.
LEMMA CleannessStep == Kept /\ Kept' /\ Cleanness /\ [Next]_vars => Cleanness'
<1> SUFFICES ASSUME Kept, Kept', Cleanness, [Next]_vars PROVE Cleanness'
  OBVIOUS
<1> USE DEF server, slurm, qhost
<1> DEFINE Covered(q, h) == /\ \A p \in DOMAIN queue' : Open(q, p)' => Clean(h, p)'
                            /\ (~ \E p \in DOMAIN queue' : Open(q, p)') => Clean(h, 0)'
<1>s. ASSUME \A h \in Nodes \ missed' : Clean(h, 0)',
             \A q \in Qhosts : \A h \in covers'[q] : Covered(q, h)
      PROVE  Cleanness'
  BY <1>s DEF Cleanness
<1>n. DOMAIN queue = 1 .. Len(queue) /\ Len(queue) \in Nat /\ queue \in Seq(Connections)
  BY DEF Kept, TypeOK
<1>c. \A q \in Qhosts : covers[q] \subseteq Nodes
  BY DEF Kept, TypeOK
<1>1. ASSUME UNCHANGED <<queue, tag, byAgent>>, missed \subseteq missed',
             \A q \in Qhosts : covers'[q] \subseteq covers[q],
             \A h \in Nodes, p \in Nat : Clean(h, p) => Clean(h, p)'
      PROVE  Cleanness'
  <2>1. \A q, p : Open(q, p)' <=> Open(q, p)
    BY <1>1 DEF Open
  <2>2. ASSUME NEW q \in Qhosts, NEW h \in covers'[q] PROVE Covered(q, h)
    <3>1. h \in covers[q] /\ h \in Nodes
      BY <1>1, <1>c, <2>2
    <3>2. \A p \in DOMAIN queue : p \in Nat
      BY <1>n
    <3> QED
      BY <1>1, <2>1, <3>1, <3>2 DEF Cleanness
  <2>3. \A h \in Nodes \ missed' : Clean(h, 0)'
    BY <1>1 DEF Cleanness
  <2> QED
    BY <1>s, <2>2, <2>3
<1> DEFINE Hung(c, lost) ==
      /\ c \in Connections /\ ~ c.ended /\ c.from \notin Qhosts /\ c.body = Nothing
      /\ queue' = Append(queue, c) /\ Len(queue) < Backlog
      /\ UNCHANGED <<running, tag, byAgent, snap>> /\ missed' = missed \cup lost
      /\ \A q \in Qhosts : covers'[q] = covers[q] \ lost
      /\ \A h \in Nodes \ lost : stage'[h] = stage[h]
<1>h. ASSUME NEW c, NEW lost, Hung(c, lost) PROVE Cleanness'
  <2>1. ASSUME NEW h \in Nodes \ lost, NEW p \in 0 .. Len(queue), Clean(h, p) PROVE Clean(h, p)'
    <3>1. c.body[h] = Keep
      BY <1>h DEF Nothing
    <3>2. stage'[h] = stage[h]
      BY <1>h
    <3> QED
      BY <1>h, <2>1, <3>1, <3>2, CleanAppend
  <2>2. /\ DOMAIN queue' = DOMAIN queue \cup {Len(queue) + 1}
        /\ queue'[Len(queue) + 1] = c /\ \A i \in DOMAIN queue : queue'[i] = queue[i]
    BY <1>h, AppendLemma DEF Kept
  <2>3. \A q \in Qhosts : \A p : Open(q, p)' <=> Open(q, p)
    BY <1>n, <1>h, <2>2 DEF Open
  <2>4. ASSUME NEW q \in Qhosts, NEW h \in covers'[q] PROVE Covered(q, h)
    <3>1. h \in covers[q] /\ h \in Nodes \ lost
      BY <1>c, <1>h, <2>4
    <3>2. \A p \in DOMAIN queue : p \in 0 .. Len(queue)
      BY <1>n
    <3>3. \A p \in DOMAIN queue' : Open(q, p)' => p \in DOMAIN queue
      BY <2>3 DEF Open
    <3> QED
      BY <1>n, <2>1, <2>2, <2>3, <3>1, <3>2, <3>3 DEF Cleanness
  <2>5. \A h \in Nodes \ missed' : Clean(h, 0)'
    BY <1>n, <1>h, <2>1 DEF Cleanness
  <2> QED
    BY <1>s, <2>4, <2>5
<1> HIDE DEF Hung
<1>2. ASSUME NEW g \in Nodes, JobStart(g) \/ JobEnd(g) PROVE Cleanness'
  <2>1. /\ UNCHANGED <<queue, tag, byAgent, snap, missed, covers>> /\ stage'[g] = "telling"
        /\ \A h \in Nodes \ {g} : stage'[h] = stage[h] /\ running'[h] = running[h]
    BY <1>2 DEF JobStart, JobEnd, Kept, TypeOK
  <2>2. \A h \in Nodes, p \in Nat : Clean(h, p) => Clean(h, p)'
    BY <2>1, CleanSame
  <2> QED
    BY <1>1, <2>1, <2>2
<1>3. ASSUME NEW g \in Nodes, TellFails(g) PROVE Cleanness'
  <2>1. /\ UNCHANGED <<queue, tag, byAgent, snap, running>> /\ missed' = missed \cup {g}
        /\ \A q \in Qhosts : covers'[q] = covers[q] \ {g}
        /\ \A h \in Nodes \ {g} : stage'[h] = stage[h]
    BY <1>3 DEF TellFails, Kept, TypeOK
  <2>2. \A h \in Nodes \ {g}, p \in Nat : Clean(h, p) => Clean(h, p)'
    BY <2>1, CleanSame
  <2>3. \A q, p : Open(q, p)' <=> Open(q, p)
    BY <2>1 DEF Open
  <2>4. ASSUME NEW q \in Qhosts, NEW h \in covers'[q] PROVE Covered(q, h)
    <3>1. h \in covers[q] /\ h \in Nodes \ {g}
      BY <1>c, <2>1, <2>4
    <3>2. \A p \in DOMAIN queue : p \in Nat
      BY <1>n
    <3> QED
      BY <2>1, <2>2, <2>3, <3>1, <3>2 DEF Cleanness
  <2>5. \A h \in Nodes \ missed' : Clean(h, 0)'
    BY <2>1, <2>2 DEF Cleanness
  <2> QED
    BY <1>s, <2>4, <2>5
<1>4. ASSUME NEW g \in Nodes, Tell(g) PROVE Cleanness'
  <2> DEFINE c == Conn(Script, TRUE, About(g, running[g]))
  <2>1. /\ queue' = Append(queue, c) /\ Len(queue) < Backlog /\ missed' = missed \ {g}
        /\ UNCHANGED <<running, tag, byAgent, snap, covers>>
        /\ \A h \in Nodes \ {g} : stage'[h] = stage[h]
    BY <1>4 DEF Tell, Kept, TypeOK
  <2>2. running[g] \in Idle .. MaxJobs /\ running[g] # Keep
    BY DEF Kept, TypeOK, Keep, Idle
  <2>3. c \in Connections
    BY <2>2, BodiesLemma, ConnLemma
  <2>4. c.ended = TRUE /\ c.from = Script /\ c.body = About(g, running[g])
    BY DEF Conn
  <2> HIDE DEF c
  <2>5. c.body[g] = running[g] /\ \A h \in Nodes \ {g} : c.body[h] = Keep
    BY <2>2, <2>4, BodiesLemma
  <2>6. ASSUME NEW h \in Nodes
        PROVE  /\ \A p \in 0 .. Len(queue) : Clean(h, p) => Clean(h, p)'
               /\ c.body[h] # Keep => Clean(h, 0)'
    <3>1. stage'[h] = stage[h] \/ (c.ended /\ c.body[h] # Keep)
      BY <2>1, <2>2, <2>4, <2>5
    <3>2. (IF ~ c.ended /\ c.from \in Qhosts THEN snap[c.from][h] ELSE c.body[h]) \in {Keep, running[h]}
      BY <2>4, <2>5
    <3> QED
      BY <2>1, <2>3, <2>4, <3>1, <3>2, CleanAppend
  <2>7. /\ DOMAIN queue' = DOMAIN queue \cup {Len(queue) + 1}
        /\ queue'[Len(queue) + 1] = c /\ \A i \in DOMAIN queue : queue'[i] = queue[i]
    BY <2>1, <2>3, AppendLemma DEF Kept
  <2>8. \A q, p : Open(q, p)' <=> Open(q, p)
    BY <1>n, <2>4, <2>7 DEF Open
  <2>9. ASSUME NEW q \in Qhosts, NEW h \in covers'[q] PROVE Covered(q, h)
    <3>1. h \in covers[q] /\ h \in Nodes
      BY <1>c, <2>1, <2>9
    <3>2. \A p \in DOMAIN queue : p \in 0 .. Len(queue)
      BY <1>n
    <3>3. \A p \in DOMAIN queue' : Open(q, p)' => p \in DOMAIN queue
      BY <2>8 DEF Open
    <3> QED
      BY <1>n, <2>6, <2>7, <2>8, <3>1, <3>2, <3>3 DEF Cleanness
  <2>10. ASSUME NEW h \in Nodes \ missed' PROVE Clean(h, 0)'
    <3>1. CASE h = g
      BY <2>2, <2>5, <2>6, <3>1
    <3>2. CASE h # g
      BY <1>n, <2>1, <2>6, <3>2 DEF Cleanness
    <3> QED
      BY <3>1, <3>2
  <2> QED
    BY <1>s, <2>9, <2>10
<1>5. ASSUME NEW g \in Monitored, AgentReport(g) PROVE Cleanness'
  <2> DEFINE c == Conn(Agent, TRUE, About(g, Idle))
  <2>1. /\ queue' = Append(queue, c) /\ Len(queue) < Backlog
        /\ UNCHANGED <<running, stage, tag, byAgent, snap, missed, covers>>
    BY <1>5 DEF AgentReport
  <2>2. Idle \in Idle .. MaxJobs
    BY DEF Idle
  <2>3. c \in Connections
    BY <2>2, BodiesLemma, ConnLemma
  <2>4. c.ended = TRUE /\ c.from = Agent
    BY DEF Conn
  <2> HIDE DEF c
  <2>5. ASSUME NEW h \in Nodes, NEW p \in 0 .. Len(queue), Clean(h, p) PROVE Clean(h, p)'
    BY <2>1, <2>3, <2>4, <2>5, CleanAppend
  <2>6. /\ DOMAIN queue' = DOMAIN queue \cup {Len(queue) + 1}
        /\ queue'[Len(queue) + 1] = c /\ \A i \in DOMAIN queue : queue'[i] = queue[i]
    BY <2>1, <2>3, AppendLemma DEF Kept
  <2>7. \A q, p : Open(q, p)' <=> Open(q, p)
    BY <1>n, <2>4, <2>6 DEF Open
  <2>8. ASSUME NEW q \in Qhosts, NEW h \in covers'[q] PROVE Covered(q, h)
    <3>1. h \in covers[q] /\ h \in Nodes
      BY <1>c, <2>1, <2>8
    <3>2. \A p \in DOMAIN queue : p \in 0 .. Len(queue)
      BY <1>n
    <3>3. \A p \in DOMAIN queue' : Open(q, p)' => p \in DOMAIN queue
      BY <2>7 DEF Open
    <3> QED
      BY <1>n, <2>5, <2>6, <2>7, <3>1, <3>2, <3>3 DEF Cleanness
  <2>9. \A h \in Nodes \ missed' : Clean(h, 0)'
    BY <1>n, <2>1, <2>5 DEF Cleanness
  <2> QED
    BY <1>s, <2>8, <2>9
<1>6. ASSUME NEW r \in Qhosts, QhostConnect(r) PROVE Cleanness'
  <2> DEFINE c == Conn(r, FALSE, Nothing)
  <2>1. /\ queue' = Append(queue, c) /\ Len(queue) < Backlog /\ qpc[r] = "off"
        /\ UNCHANGED <<running, stage, tag, byAgent, snap, missed>>
        /\ \A q \in Qhosts \ {r} : covers'[q] = covers[q]
        /\ covers'[r] = Nodes
    BY <1>6 DEF QhostConnect, Kept, TypeOK
  <2>2. snap[r] = Nothing
    BY <2>1 DEF Kept, Scripts
  <2>3. c \in Connections
    BY BodiesLemma, ConnLemma
  <2>4. c.ended = FALSE /\ c.from = r
    BY DEF Conn
  <2> HIDE DEF c
  <2>5. ASSUME NEW h \in Nodes
        PROVE  /\ \A p \in 0 .. Len(queue) : Clean(h, p) => Clean(h, p)'
               /\ \A p \in Nat : p = Len(queue) + 1 => Clean(h, p)'
    <3>1. (IF ~ c.ended /\ c.from \in Qhosts THEN snap[c.from][h] ELSE c.body[h]) \in {Keep, running[h]}
      BY <2>2, <2>4 DEF Nothing
    <3> QED
      BY <2>1, <2>3, <3>1, CleanAppend
  <2>6. /\ DOMAIN queue' = DOMAIN queue \cup {Len(queue) + 1}
        /\ queue'[Len(queue) + 1] = c /\ \A i \in DOMAIN queue : queue'[i] = queue[i]
    BY <2>1, <2>3, AppendLemma DEF Kept
  <2>7. \A p : ~ Open(r, p)
    BY <2>1 DEF Open, Kept, Opened
  <2>8. \A q \in Qhosts \ {r} : \A p : Open(q, p)' <=> Open(q, p)
    BY <1>n, <2>4, <2>6 DEF Open
  <2>9. \A p : Open(r, p)' <=> p = Len(queue) + 1
    BY <1>n, <2>4, <2>6, <2>7 DEF Open
  <2>10. ASSUME NEW q \in Qhosts \ {r}, NEW h \in covers'[q] PROVE Covered(q, h)
    <3>1. h \in covers[q] /\ h \in Nodes
      BY <1>c, <2>1, <2>10
    <3>2. \A p \in DOMAIN queue : p \in 0 .. Len(queue)
      BY <1>n
    <3>3. \A p \in DOMAIN queue' : Open(q, p)' => p \in DOMAIN queue
      BY <2>8 DEF Open
    <3> QED
      BY <1>n, <2>5, <2>6, <2>8, <3>1, <3>2, <3>3 DEF Cleanness
  <2>11. ASSUME NEW h \in covers'[r] PROVE Covered(r, h)
    <3>1. h \in Nodes
      BY <2>1, <2>11
    <3>2. Len(queue) + 1 \in DOMAIN queue' /\ Len(queue) + 1 \in Nat
      BY <1>n, <2>6
    <3> QED
      BY <2>5, <2>9, <3>1, <3>2
  <2>12. \A h \in Nodes \ missed' : Clean(h, 0)'
    BY <1>n, <2>1, <2>5 DEF Cleanness
  <2> QED
    BY <1>s, <2>10, <2>11, <2>12
<1>7. ASSUME NEW r \in Qhosts, QhostLook(r) PROVE Cleanness'
  <2>1. UNCHANGED <<queue, tag, byAgent, running, stage, missed, covers>>
    BY <1>7 DEF QhostLook
  <2>2. snap'[r] = running /\ \A q \in Qhosts \ {r} : snap'[q] = snap[q]
    BY <1>7 DEF QhostLook, Kept, TypeOK
  <2>3. \A h \in Nodes, p \in Nat : Clean(h, p) => Clean(h, p)'
    BY <2>1, <2>2, CleanSame
  <2> QED
    BY <1>1, <2>1, <2>3
<1>8. ASSUME NEW r \in Qhosts, QhostSend(r) \/ QhostFails(r) PROVE Cleanness'
  <2>1. PICK body \in {snap[r], Nothing} :
          /\ queue' = Ended(r, body)
          /\ \/ missed' = missed
             \/ missed' = missed \ covers[r] /\ body = snap[r] /\ qpc[r] = "looked"
    BY <1>8 DEF QhostSend, QhostFails
  <2>2. body \in Bodies
    BY <2>1, BodiesLemma DEF Kept, TypeOK
  <2>3. /\ snap' = [snap EXCEPT ![r] = Nothing] /\ covers' = [covers EXCEPT ![r] = {}]
        /\ UNCHANGED <<running, stage, tag, byAgent>>
    BY <1>8 DEF QhostSend, QhostFails
  <2>4. covers'[r] = {} /\ \A q \in Qhosts \ {r} : covers'[q] = covers[q]
    BY <2>3 DEF Kept, TypeOK
  <2>5. ASSUME NEW h \in Nodes
        PROVE  /\ \A p \in Nat : Clean(h, p) => Clean(h, p)'
               /\ \A p \in DOMAIN queue : Open(r, p) /\ body[h] # Keep /\ Clean(h, p) => Clean(h, 0)'
    BY <2>1, <2>2, <2>3, CleanEnded
  <2>6. /\ DOMAIN queue' = DOMAIN queue
        /\ \A i \in DOMAIN queue :
             queue'[i] = IF Open(r, i) THEN Conn(r, TRUE, body) ELSE queue[i]
    BY <2>1, <2>2, EndedLemma DEF Kept
  <2>7. \A q \in Qhosts \ {r} : \A p : Open(q, p)' <=> Open(q, p)
    <3>1. Conn(r, TRUE, body).from = r
      BY DEF Conn
    <3> QED
      BY <2>6, <3>1 DEF Open
  <2>8. ASSUME NEW q \in Qhosts, NEW h \in covers'[q] PROVE Covered(q, h)
    <3>1. q # r /\ h \in covers[q] /\ h \in Nodes
      BY <1>c, <2>4, <2>8
    <3>2. \A p \in DOMAIN queue : p \in Nat
      BY <1>n
    <3> QED
      BY <2>5, <2>6, <2>7, <3>1, <3>2 DEF Cleanness
  <2>9. ASSUME NEW h \in Nodes \ missed' PROVE Clean(h, 0)'
    <3>1. CASE h \notin missed
      BY <2>5, <3>1 DEF Cleanness
    <3>2. CASE h \in missed
      <4>1. h \in covers[r] /\ body = snap[r] /\ qpc[r] = "looked"
        BY <2>1, <2>9, <3>2
      <4>2. body[h] # Keep
        BY <4>1 DEF Kept, Scripts
      <4>3. CASE \E p \in DOMAIN queue : Open(r, p)
        BY <2>5, <4>1, <4>2, <4>3 DEF Cleanness
      <4>4. CASE ~ \E p \in DOMAIN queue : Open(r, p)
        BY <2>5, <4>1, <4>4 DEF Cleanness
      <4> QED
        BY <4>3, <4>4
    <3> QED
      BY <3>1, <3>2
  <2> QED
    BY <1>s, <2>8, <2>9
<1>9. ASSUME Receive PROVE Cleanness'
  <2>1. /\ UNCHANGED <<missed, covers>> /\ queue # <<>> /\ queue' = Tail(queue) /\ queue[1].ended
    BY <1>9 DEF Receive, Kept, TypeOK
  <2>2. /\ DOMAIN queue' = 1 .. Len(queue) - 1 /\ Len(queue) \in Nat \ {0}
        /\ \A i \in DOMAIN queue' : queue'[i] = queue[i + 1]
    BY <2>1, TailLemma DEF Kept
  <2>3. ASSUME NEW q \in Qhosts, NEW h \in covers'[q] PROVE Covered(q, h)
    <3>1. h \in covers[q] /\ h \in Nodes
      BY <1>c, <2>1, <2>3
    <3>2. ASSUME NEW p \in DOMAIN queue', Open(q, p)' PROVE Clean(h, p)'
      <4>1. p + 1 \in DOMAIN queue /\ Open(q, p + 1) /\ p \in Nat \ {0}
        BY <1>n, <2>2, <3>2 DEF Open
      <4>2. Clean(h, p + 1)
        BY <3>1, <4>1 DEF Cleanness
      <4> QED
        BY <1>9, <3>1, <4>1, <4>2, CleanReceive
    <3>3. ASSUME ~ \E p \in DOMAIN queue' : Open(q, p)' PROVE Clean(h, 0)'
      <4>1. ASSUME NEW k \in DOMAIN queue, Open(q, k) PROVE FALSE
        <5>1. k - 1 \in DOMAIN queue' /\ queue'[k - 1] = queue[k]
          BY <1>n, <2>1, <2>2, <4>1 DEF Open
        <5>2. \A p \in DOMAIN queue' : p = k - 1 => Open(q, p)'
          BY <4>1, <5>1 DEF Open
        <5> QED
          BY <3>3, <5>1, <5>2
      <4>2. Clean(h, 0)
        BY <3>1, <4>1 DEF Cleanness
      <4> QED
        BY <1>9, <3>1, <4>2, CleanReceive
    <3> QED
      BY <3>2, <3>3
  <2>4. \A h \in Nodes \ missed' : Clean(h, 0)'
    BY <1>9, <2>1, CleanReceive DEF Cleanness
  <2> QED
    BY <1>s, <2>3, <2>4
<1>10. ASSUME Restart PROVE Cleanness'
  <2>1. queue' = <<>> /\ tag' = [h \in Nodes |-> Unheard] /\ UNCHANGED covers
    BY <1>10 DEF Restart
  <2>2. \A h \in Nodes : Clean(h, 0)'
    BY <2>1 DEF Clean, Stale
  <2>3. DOMAIN queue' = {}
    BY <2>1
  <2>4. \A q \in Qhosts : \A h \in covers'[q] : Covered(q, h)
    BY <1>c, <2>1, <2>2, <2>3
  <2> QED
    BY <1>s, <2>2, <2>4
<1>11. ASSUME NEW g \in Nodes, TellSilent(g) PROVE Cleanness'
  <2> DEFINE c == Conn(Script, FALSE, Nothing)
  <2>1. /\ queue' = Append(queue, c) /\ Len(queue) < Backlog /\ missed' = missed \cup {g}
        /\ UNCHANGED <<running, tag, byAgent, snap>>
        /\ \A q \in Qhosts : covers'[q] = covers[q] \ {g}
        /\ \A h \in Nodes \ {g} : stage'[h] = stage[h]
    BY <1>11 DEF TellSilent, Kept, TypeOK
  <2>2. c \in Connections /\ ~ c.ended /\ c.from = Script /\ c.body = Nothing
    BY HungLemma
  <2> HIDE DEF c
  <2>3. Hung(c, {g})
    BY <2>1, <2>2, SendersLemma DEF Hung
  <2> QED
    BY <1>h, <2>3
<1>12. ASSUME NEW g \in Monitored, AgentSilent(g) PROVE Cleanness'
  <2> DEFINE c == Conn(Agent, FALSE, Nothing)
  <2>1. /\ queue' = Append(queue, c) /\ Len(queue) < Backlog
        /\ UNCHANGED <<running, stage, tag, byAgent, snap, missed, covers>>
    BY <1>12 DEF AgentSilent
  <2>2. c \in Connections /\ ~ c.ended /\ c.from = Agent /\ c.body = Nothing
    BY HungLemma
  <2> HIDE DEF c
  <2>3. Hung(c, {})
    BY <2>1, <2>2, SendersLemma DEF Hung
  <2> QED
    BY <1>h, <2>3
<1>13. ASSUME Accept \/ (\E q \in Qhosts : QhostSilent(q)) \/ UNCHANGED vars PROVE Cleanness'
  <2>1. UNCHANGED <<queue, tag, byAgent, running, stage, snap, missed, covers>>
    BY <1>13 DEF Accept, QhostSilent, vars
  <2>2. \A h \in Nodes, p \in Nat : Clean(h, p) => Clean(h, p)'
    BY <2>1, CleanSame
  <2> QED
    BY <1>1, <2>1, <2>2
<1> QED
  BY <1>2, <1>3, <1>4, <1>5, <1>6, <1>7, <1>8, <1>9, <1>10, <1>11,
     <1>12, <1>13 DEF Next

\* Of some positions one is the last.
LEMMA LastOfSome ==
  ASSUME NEW n \in Nat, NEW S, S \subseteq 1 .. n, S # {}
  PROVE  \E i \in S : \A k \in S : k <= i
<1> DEFINE above(i) == {k \in S : k > i}
           T == {above(i) : i \in S}
<1>1. IsFiniteSet(S)
  <2>1. IsFiniteSet(1 .. n)
    BY FS_Interval
  <2> QED
    BY <2>1, FS_Subset
<1>2. IsWellFoundedOn(StrictSubsetOrdering(S), SUBSET S)
  BY <1>1, FS_StrictSubsetOrderingWellFounded, FS_FiniteSubsetsOfFinite
<1>3. T \subseteq SUBSET S /\ T # {}
  OBVIOUS
<1>4. PICK x \in T : \A y \in T : ~ (<<y, x>> \in StrictSubsetOrdering(S))
  <2> HIDE DEF T
  <2> QED
    BY <1>2, <1>3, WFMin
<1>5. PICK i \in S : x = above(i)
  OBVIOUS
<1>6. ASSUME NEW k \in S, k > i PROVE FALSE
  <2>1. above(k) \in T /\ above(k) \subseteq above(i) /\ k \in above(i) \ above(k)
    <3>1. \A j \in S : j > k => j > i
      BY <1>6
    <3>2. above(k) \subseteq above(i)
      BY <3>1
    <3>3. k \in above(i) \ above(k)
      BY <1>6
    <3> QED
      BY <3>2, <3>3
  <2>2. <<above(k), above(i)>> \in StrictSubsetOrdering(S)
    <3>1. above(k) \in SUBSET S /\ above(i) \in SUBSET S /\ above(k) # above(i)
      BY <2>1
    <3> HIDE DEF above
    <3> QED
      BY <2>1, <3>1 DEF StrictSubsetOrdering
  <2> QED
    BY <1>4, <1>5, <2>1, <2>2
<1> QED
  BY <1>6

\* Where the invariant holds at the start it holds for ever: no step of SLURM, the
\* scripts, the clients or sock_rpc leaves it, nor a restart of the server.
THEOREM InvariantHolds == Spec => []IInv
<1>1. IInv /\ [Next]_vars => IInv'
  BY KeptStep, CleannessStep DEF IInv
<1> QED
  BY <1>1, InitKept, PTL DEF Spec

\* The variables keep their types: the queue its limit, and only a monitored node is
\* ever marked as written by its own client (socket_listen, lfs_utils.c).
THEOREM TypeCorrect == Spec => []TypeOK
<1>1. IInv => TypeOK
  BY DEF IInv, Kept
<1> QED
  BY <1>1, InvariantHolds, PTL

\* Tags settle on the truth (process_rpc and update_host_map in the order of the
\* connections, qhost.py 32 before 37): for any overlap of scripts, lost messages,
\* silent machines and restarts.
THEOREM TagsSettleHolds == Spec => []TagsSettle
<1>1. ASSUME IInv PROVE TagsSettle
  <2> SUFFICES ASSUME NEW h \in Nodes, stage[h] = "told", h \notin missed,
                      \A q \in Qhosts : qpc[q] = "off"
               PROVE  \/ Settling(h) \in {running[h], Unheard}
                      \/ AgentHasLastWord(h) /\ Settling(h) = Idle
    BY DEF TagsSettle
  <2>0. TypeOK /\ Opened /\ Agents /\ Clean(h, 0)
    BY <1>1 DEF IInv, Kept, Cleanness
  <2>1. DOMAIN queue = 1 .. Len(queue) /\ Len(queue) \in Nat
    BY <2>0 DEF TypeOK
  <2>2. CASE Pending(h) = {}
    <3>1. ~ Superseded(0, h)
      BY <2>2 DEF Superseded, Pending
    <3>2. ~ Stale(0, h)
      BY <2>0, <2>1, <3>1 DEF Clean
    <3> QED
      BY <2>0, <2>2, <3>2 DEF Stale, Settling, AgentHasLastWord, Agents
  <2>3. CASE Pending(h) # {}
    <3>1. \E i \in Pending(h) : \A k \in Pending(h) : k <= i
      BY <2>1, <2>3, LastOfSome DEF Pending
    <3>2. PICK i \in Pending(h) : LastPending(h) = queue[i] /\ \A k \in Pending(h) : k <= i
      BY <3>1 DEF LastPending
    <3>3. i \in DOMAIN queue /\ queue[i].ended /\ queue[i].body[h] # Keep
      BY <3>2 DEF Pending
    <3>4. ~ Superseded(i, h)
      BY <2>1, <3>2, <3>3 DEF Superseded, Pending
    <3>5. ~ Stale(i, h)
      BY <2>0, <2>1, <3>3, <3>4 DEF Clean
    <3>6. Settling(h) = queue[i].body[h] /\ (AgentHasLastWord(h) <=> queue[i].from = Agent)
      BY <2>3, <3>2 DEF Settling, AgentHasLastWord
    <3>7. queue[i].from = Agent \/ queue[i].body[h] = running[h]
      BY <2>1, <3>3, <3>5 DEF Stale, Says
    <3> QED
      BY <2>0, <3>3, <3>6, <3>7 DEF Agents
  <2> QED
    BY <2>2, <2>3
<1> QED
  BY <1>1, InvariantHolds, PTL
=============================================================================
