------------------------------- MODULE JobTags -------------------------------
(***************************************************************************)
(* Which job a compute node runs, as the aggregation server comes to know  *)
(* it.  Tag messages reach src/server/socket_server.c over TCP from:       *)
(*   - slurm_tagging, run by SLURM when a job starts and when it ends;     *)
(*   - qhost.py, run by cron: a snapshot of all jobs in one array, taken   *)
(*     after it has connected;                                             *)
(*   - pfstrase_client, where it runs on a compute node (class OSC): its   *)
(*     reports carry jid and uid "-" (lfs_utils.c, collect.c).             *)
(* The server has one thread.  It takes connections in the order they were *)
(* made and reads each to its end before it does anything else: takes the  *)
(* next, or serves its timers.                                             *)
(*                                                                         *)
(* The jobs of a node are numbered in the order they run; Idle is the      *)
(* source's "-" and Unheard its "*".                                       *)
(***************************************************************************)
EXTENDS Integers, Sequences, FiniteSets

CONSTANTS
  Nodes,       \* compute nodes that SLURM schedules
  Monitored,   \* nodes of class OSC with a pfstrase_client
  Qhosts,      \* runs of qhost.py that may overlap
  Elsewhere,   \* whether other nodes of the cluster may run jobs too
  Backlog,     \* listen backlog (10 in socket_listen)
  MaxJobs,     \* bound: jobs run on a node
  MaxRestarts, \* bound: restarts of the aggregation server
  Faults       \* which faults of senders may happen, a subset of AllFaults

\* "lost": a connect fails; "silent": a machine that has connected stops dead.
AllFaults == {"lost", "silent"}

\* The senders of a connection besides the runs of qhost.py.
Script == "slurm_tagging"
Agent  == "pfstrase_client"

ASSUME NodesAssumption  == Monitored \subseteq Nodes
ASSUME BoundsAssumption == Backlog \in Nat \ {0} /\ MaxJobs \in Nat /\ MaxRestarts \in Nat
ASSUME ElsewhereAssumption == Elsewhere \in BOOLEAN
ASSUME FaultsAssumption == Faults \subseteq AllFaults
ASSUME SendersAssumption == {Script, Agent} \cap Qhosts = {}

VARIABLES
  running,   \* the job each node really runs
  last,      \* number of the last job started on each node
  stage,     \* whether slurm_tagging still has to report the last start or end
  tag,       \* jid and uid of each node's host_map entry
  byAgent,   \* history: nodes whose tag a pfstrase_client wrote last
  queue,     \* connections made and not yet read to their end, in order
  busy,      \* sock_rpc has accepted the head of queue and is reading it
  qpc, snap, \* where each qhost.py is, and the jobs it has seen
  restarts,
  missed,    \* history: nodes whose last start or end could not be told
  covers     \* history: nodes with nothing lost since each qhost.py connected

server == <<tag, byAgent, busy, restarts>>
slurm  == <<running, last, stage>>
qhost  == <<qpc, snap>>
vars == <<slurm, server, queue, qhost, missed, covers>>

Idle    == 0
Unheard == -1
Keep    == -2    \* in a message: nothing about this node
Tags    == Unheard .. MaxJobs
Bodies  == [Nodes -> {Keep} \cup Idle .. MaxJobs]

Nothing == [h \in Nodes |-> Keep]
About(h, j) == [Nothing EXCEPT ![h] = j]

\* A connection: who made it, whether it has been closed by its sender, and the
\* text sent.  An array of entries is abstracted to what it says of each node.
\* What nc and a client have to send is fixed when they connect, and the server
\* reads nothing else before their end: they are queued as ended, unless their
\* machine stops before the end.
Conn(from, ended, body) == [from |-> from, ended |-> ended, body |-> body]

Init ==
  /\ running = [h \in Nodes |-> Idle] /\ last = [h \in Nodes |-> 0]
  /\ stage = [h \in Nodes |-> "told"]
  /\ tag = [h \in Nodes |-> Unheard] /\ byAgent = {}
  /\ queue = <<>> /\ busy = FALSE
  /\ qpc = [q \in Qhosts |-> "off"] /\ snap = [q \in Qhosts |-> Nothing]
  /\ restarts = 0
  /\ missed = {} /\ covers = [q \in Qhosts |-> {}]

-----------------------------------------------------------------------------
(* SLURM and slurm_tagging.                                                *)

JobStart(h) ==
  /\ running[h] = Idle /\ stage[h] = "told" /\ last[h] < MaxJobs
  /\ last' = [last EXCEPT ![h] = @ + 1]
  /\ running' = [running EXCEPT ![h] = last[h] + 1]
  /\ stage' = [stage EXCEPT ![h] = "telling"]
  /\ UNCHANGED <<server, queue, qhost, missed, covers>>

JobEnd(h) ==
  /\ running[h] # Idle /\ stage[h] = "told"
  /\ running' = [running EXCEPT ![h] = Idle]
  /\ stage' = [stage EXCEPT ![h] = "telling"]
  /\ UNCHANGED <<last, server, queue, qhost, missed, covers>>

\* Faulty variant: a backlog without limit.
TellUnbounded(h) ==
  /\ stage[h] = "telling"
  /\ queue' = Append(queue, Conn(Script, TRUE, About(h, running[h])))
  /\ stage' = [stage EXCEPT ![h] = "told"]
  /\ missed' = missed \ {h}
  /\ UNCHANGED <<running, last, server, qhost, covers>>

\* The prolog's or the epilog's echo into nc.
Tell(h) ==
  /\ stage[h] = "telling" /\ Len(queue) < Backlog
  /\ queue' = Append(queue, Conn(Script, TRUE, About(h, running[h])))
  /\ stage' = [stage EXCEPT ![h] = "told"]
  /\ missed' = missed \ {h}
  /\ UNCHANGED <<running, last, server, qhost, covers>>

\* nc cannot connect; nobody tries again.
TellFails(h) ==
  /\ "lost" \in Faults /\ stage[h] = "telling"
  /\ stage' = [stage EXCEPT ![h] = "told"]
  /\ missed' = missed \cup {h}
  /\ covers' = [q \in Qhosts |-> covers[q] \ {h}]
  /\ UNCHANGED <<running, last, server, queue, qhost>>

\* The node stops dead between the connect of nc and its close.
TellSilent(h) ==
  /\ "silent" \in Faults /\ stage[h] = "telling" /\ Len(queue) < Backlog
  /\ queue' = Append(queue, Conn(Script, FALSE, Nothing))
  /\ stage' = [stage EXCEPT ![h] = "told"]
  /\ missed' = missed \cup {h}
  /\ covers' = [q \in Qhosts |-> covers[q] \ {h}]
  /\ UNCHANGED <<running, last, server, qhost>>

-----------------------------------------------------------------------------
(* qhost.py.                                                               *)

Put(q, state) == qpc' = [qpc EXCEPT ![q] = state]

QhostConnect(q) ==
  /\ qpc[q] = "off" /\ Len(queue) < Backlog
  /\ queue' = Append(queue, Conn(q, FALSE, Nothing))
  /\ Put(q, "connected")
  /\ covers' = [covers EXCEPT ![q] = Nodes]
  /\ UNCHANGED <<slurm, server, snap, missed>>

SomeJob == \E h \in Nodes : running[h] # Idle

\* squeue: the running jobs; a node that has none is "-" by the sinfo list.  With
\* no job in the whole cluster the split of the empty line raises (51): that is a
\* QhostFails.
QhostLook(q) ==
  /\ qpc[q] = "connected" /\ (SomeJob \/ Elsewhere)
  /\ snap' = [snap EXCEPT ![q] = running]
  /\ Put(q, "looked")
  /\ UNCHANGED <<slurm, server, queue, missed, covers>>

\* The queue with q's connection ended, with what q has sent on it.  The
\* connection is gone when the server has been restarted meanwhile.
Ended(q, body) ==
  [i \in DOMAIN queue |->
     IF queue[i].from = q /\ ~ queue[i].ended THEN Conn(q, TRUE, body) ELSE queue[i]]

\* Faulty variant: the script connects only now, after it has looked.
QhostSendLate(q) ==
  /\ qpc[q] = "looked"
  /\ queue' = SelectSeq(queue, LAMBDA c : c.from # q \/ c.ended)
                \o SelectSeq(Ended(q, snap[q]), LAMBDA c : c.from = q /\ c.body = snap[q])
  /\ missed' = missed \ covers[q]
  /\ Put(q, "off")
  /\ snap' = [snap EXCEPT ![q] = Nothing]
  /\ covers' = [covers EXCEPT ![q] = {}]
  /\ UNCHANGED <<slurm, server>>

\* sendall, and the end of the script: it makes up for what was lost before.
QhostSend(q) ==
  /\ qpc[q] = "looked"
  /\ queue' = Ended(q, snap[q])
  /\ missed' = missed \ covers[q]
  /\ Put(q, "off")
  /\ snap' = [snap EXCEPT ![q] = Nothing]
  /\ covers' = [covers EXCEPT ![q] = {}]
  /\ UNCHANGED <<slurm, server>>

\* Faulty variant: the connection outlives the script.
QhostFailsOpen(q) ==
  /\ qpc[q] \in {"connected", "looked"}
  /\ Put(q, "off")
  /\ snap' = [snap EXCEPT ![q] = Nothing]
  /\ covers' = [covers EXCEPT ![q] = {}]
  /\ UNCHANGED <<slurm, server, queue, missed>>

\* No SLURM, output that does not split, a broken connection: the script exits
\* and its end closes the connection with nothing sent.
QhostFails(q) ==
  /\ qpc[q] \in {"connected", "looked"}
  /\ queue' = Ended(q, Nothing)
  /\ Put(q, "off")
  /\ snap' = [snap EXCEPT ![q] = Nothing]
  /\ covers' = [covers EXCEPT ![q] = {}]
  /\ UNCHANGED <<slurm, server, missed>>

\* The machine stops with the connection open: no end of it is ever received.
QhostSilent(q) ==
  /\ "silent" \in Faults /\ qpc[q] \in {"connected", "looked"}
  /\ Put(q, "silent")
  /\ UNCHANGED <<slurm, server, queue, snap, missed, covers>>

-----------------------------------------------------------------------------
\* sock_timer_cb of a pfstrase_client on a compute node.
AgentReport(h) ==
  /\ Len(queue) < Backlog
  /\ queue' = Append(queue, Conn(Agent, TRUE, About(h, Idle)))
  /\ UNCHANGED <<slurm, server, qhost, missed, covers>>

\* Its machine stops dead between connect and close, while collecting or sending.
AgentSilent(h) ==
  /\ "silent" \in Faults /\ Len(queue) < Backlog
  /\ queue' = Append(queue, Conn(Agent, FALSE, Nothing))
  /\ UNCHANGED <<slurm, server, qhost, missed, covers>>

-----------------------------------------------------------------------------
(* The aggregation server: sock_rpc in two steps.                          *)

Accept ==
  /\ ~ busy /\ queue # <<>>
  /\ busy' = TRUE
  /\ UNCHANGED <<slurm, tag, byAgent, restarts, queue, qhost, missed, covers>>

\* History: whose message about each node came last, once c has been read.
WrittenByAgent(c) ==
  {h \in Nodes : IF c.body[h] = Keep THEN h \in byAgent ELSE c.from = Agent}

\* Faulty variant: process_rpc takes a text that begins with `[' for no RPC.
ReceiveObjects ==
  /\ busy /\ Head(queue).ended
  /\ tag' = [h \in Nodes |->
       LET c == Head(queue)
       IN  IF c.from \in Qhosts \/ c.body[h] = Keep THEN tag[h] ELSE c.body[h]]
  /\ byAgent' = WrittenByAgent(Head(queue))
  /\ queue' = Tail(queue)
  /\ busy' = FALSE
  /\ UNCHANGED <<slurm, restarts, qhost, missed, covers>>

\* recv returns 0: process_rpc, update_host_map over all entries of the array.
Receive ==
  /\ busy /\ Head(queue).ended
  /\ tag' = [h \in Nodes |-> LET j == Head(queue).body[h] IN IF j = Keep THEN tag[h] ELSE j]
  /\ byAgent' = WrittenByAgent(Head(queue))
  /\ queue' = Tail(queue)
  /\ busy' = FALSE
  /\ UNCHANGED <<slurm, restarts, qhost, missed, covers>>

\* The process ends and another one starts: nothing is kept, and what was under
\* way is cut off.
Restart ==
  /\ restarts < MaxRestarts
  /\ restarts' = restarts + 1
  /\ tag' = [h \in Nodes |-> Unheard] /\ byAgent' = {} /\ queue' = <<>> /\ busy' = FALSE
  /\ UNCHANGED <<slurm, qhost, missed, covers>>

-----------------------------------------------------------------------------
Next ==
  \/ \E h \in Nodes : JobStart(h) \/ JobEnd(h) \/ Tell(h) \/ TellFails(h) \/ TellSilent(h)
  \/ \E q \in Qhosts :
       QhostConnect(q) \/ QhostLook(q) \/ QhostSend(q) \/ QhostFails(q) \/ QhostSilent(q)
  \/ \E h \in Monitored : AgentReport(h) \/ AgentSilent(h)
  \/ Accept \/ Receive \/ Restart

Spec == Init /\ [][Next]_vars

(***************************************************************************)
(* Fairness.  The server's loop accepts and receives; a started script     *)
(* goes on or fails; cron keeps starting qhost.py, a full backlog is       *)
(* retried by TCP and, as long as jobs run, qhost.py does not fail for     *)
(* ever.  Jobs need not start or end.                                      *)
(***************************************************************************)
Fairness ==
  /\ WF_vars(Accept) /\ WF_vars(Receive)
  /\ \A h \in Nodes : SF_vars(Tell(h))
  /\ \A q \in Qhosts :
       /\ WF_vars(QhostLook(q) \/ QhostFails(q))
       /\ SF_vars(QhostConnect(q)) /\ SF_vars(SomeJob /\ QhostLook(q)) /\ SF_vars(QhostSend(q))

FairSpec == Spec /\ Fairness

-----------------------------------------------------------------------------
Connections ==
  [from : {Script, Agent} \cup Qhosts, ended : BOOLEAN, body : Bodies]

\* The variables keep their types: no more connections wait than the backlog, and
\* only a monitored node is marked as written by its own client (socket_listen 64).
TypeOK ==
  /\ running \in [Nodes -> Idle .. MaxJobs] /\ last \in [Nodes -> 0 .. MaxJobs]
  /\ stage \in [Nodes -> {"told", "telling"}]
  /\ tag \in [Nodes -> Tags] /\ byAgent \subseteq Monitored
  /\ queue \in Seq(Connections) /\ Len(queue) <= Backlog
  /\ busy \in BOOLEAN /\ (busy => queue # <<>>)
  /\ qpc \in [Qhosts -> {"off", "connected", "looked", "silent"}]
  /\ snap \in [Qhosts -> Bodies]
  /\ restarts \in 0 .. MaxRestarts
  /\ missed \subseteq Nodes /\ covers \in [Qhosts -> SUBSET Nodes]

\* What the server will take a node for once it has read everything sent.
Pending(h) == {i \in DOMAIN queue : queue[i].ended /\ queue[i].body[h] # Keep}
LastPending(h) == queue[CHOOSE i \in Pending(h) : \A k \in Pending(h) : k <= i]
Settling(h) == IF Pending(h) = {} THEN tag[h] ELSE LastPending(h).body[h]

\* The last word about h is that of its own pfstrase_client, which knows no job.
AgentHasLastWord(h) ==
  IF Pending(h) = {} THEN h \in byAgent ELSE LastPending(h).from = Agent

\* Tags settle on the truth: once slurm_tagging has had its say and no qhost.py
\* is between its connect and its send, what the server holds for a node, after
\* whatever it has still to read, is the job the node runs; unless the node has
\* not been heard of, its last message could not be sent and no qhost.py has
\* begun and ended since, or its own pfstrase_client had the last word (idle).
\* Because qhost.py connects (32) before it looks (37), a start or end it did not
\* see is told behind its snapshot.
TagsSettle ==
  \A h \in Nodes :
    stage[h] = "told" /\ h \notin missed /\ (\A q \in Qhosts : qpc[q] = "off")
      => \/ Settling(h) \in {running[h], Unheard}
         \/ AgentHasLastWord(h) /\ Settling(h) = Idle

\* The sender of connection c stopped dead with it open: it never ends.
Silent(c) == ~ c.ended /\ (c.from \in Qhosts => qpc[c.from] = "silent")

\* A job that goes on running comes to be shown, whatever messages were lost and
\* however often the server was restarted, as long as cron can run qhost.py (its
\* machine has not stopped dead) and no connection of a dead node is waiting.
JobComesToBeShown ==
  \A h \in Nodes, j \in 1 .. MaxJobs :
    (running[h] = j)
      ~> \/ tag[h] = j \/ running[h] # j
         \/ \E q \in Qhosts : qpc[q] = "silent"
         \/ \E i \in DOMAIN queue : Silent(queue[i])

\* sock_rpc ends and the timers get their turn, unless the machine at the other
\* end stops dead with its connection open (recv at 91 has no timeout).  Slow,
\* failing and overlapping scripts only delay the server.
ServerKeepsServing == busy ~> (~ busy \/ Silent(Head(queue)))

=============================================================================
