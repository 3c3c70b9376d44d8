----------------------------- MODULE DaemonProofs -----------------------------
(***************************************************************************)
(* Theorems about the life of the daemons: Servers, for any number of      *)
(* server processes and readers, and PidFile, for any daemons and any      *)
(* number of files.                                                        *)
(*                                                                         *)
(* Servers: a semaphore number is given out again only when no process has *)
(* it, and a server that has left can not come back to a semaphore it has  *)
(* had: its next Begin takes the name away.  So no semaphore ever has more *)
(* tokens than there are servers (Room), and a server that has met nobody  *)
(* is the only one to have touched what its names lead to (Alone), but for *)
(* the readers, who give back what they take or lose it.                   *)
(***************************************************************************)
EXTENDS Servers, PidFile, FiniteSetTheorems, TLAPS

USE InstAssumption

N == Cardinality(Inst)
Processes == Inst \cup Readers

LEMMA IdsLemma ==
  /\ N \in Nat /\ None \notin Ids
  /\ Ids \subseteq Nat /\ IsFiniteSet(Ids)
  /\ IsFiniteSet(Processes) /\ Cardinality(Processes) < Cardinality(Ids)
  /\ Cardinality(Inst) < Cardinality(Ids)
<1> DEFINE R == Cardinality(Readers)
<1>1. N \in Nat /\ R \in Nat
  BY FS_CardinalityType DEF N
<1>2. IsFiniteSet(Ids) /\ Cardinality(Ids) = N + R + 1
  <2>1. Ids = 1 .. N + R + 1
    BY DEF Ids, N
  <2> HIDE DEF R
  <2>2. N + R + 1 \in Int /\ ~ (1 > N + R + 1) /\ (N + R + 1) - 1 + 1 = N + R + 1
    BY <1>1
  <2> QED
    BY <2>1, <2>2, FS_Interval
<1>3. IsFiniteSet(Processes) /\ Cardinality(Processes) = N + R - Cardinality(Inst \cap Readers)
  BY FS_Union DEF Processes, N
<1>4. Cardinality(Inst \cap Readers) = 0
  BY FS_EmptySet
<1>5. None \notin Ids /\ Ids \subseteq Nat
  BY DEF Ids, None
<1> HIDE DEF R
<1>6. Cardinality(Inst) = N
  BY DEF N
<1> QED
  BY <1>1, <1>2, <1>3, <1>4, <1>5, <1>6

\* There is always a number for a new object: one more than processes.
LEMMA NumberLeft ==
  ASSUME NEW P, IsFiniteSet(P), Cardinality(P) < Cardinality(Ids), NEW handle
  PROVE  \E k \in Ids : \A p \in P : handle[p] # k
<1> SUFFICES ASSUME \A k \in Ids : \E p \in P : handle[p] = k PROVE FALSE
  OBVIOUS
<1> DEFINE who == [k \in Ids |-> CHOOSE p \in P : handle[p] = k]
<1>1. who \in [Ids -> P] /\ \A k \in Ids : handle[who[k]] = k
  OBVIOUS
<1>2. \E x, y \in Ids : x # y /\ who[x] = who[y]
  <2> HIDE DEF who
  <2>1. IsFiniteSet(Ids) /\ IsFiniteSet(P) /\ who \in [Ids -> P]
    BY <1>1, IdsLemma
  <2> QED
    BY ONLY Cardinality(P) < Cardinality(Ids), <2>1, FS_PigeonHole, Zenon
<1> QED
  BY <1>1, <1>2

LEMMA UnusedSemLemma ==
  ASSUME semName = None
  PROVE  /\ UnusedSem \in Ids
         /\ \A i \in Inst : sem[i] # UnusedSem
         /\ \A r \in Readers : rsem[r] # UnusedSem
<1> DEFINE handle == [p \in Processes |-> IF p \in Inst THEN sem[p] ELSE rsem[p]]
<1>1. PICK k \in Ids : \A p \in Processes : handle[p] # k
  <2> HIDE DEF handle
  <2> QED
    BY NumberLeft, IdsLemma
<1>2. k # semName /\ (\A i \in Inst : sem[i] # k) /\ (\A r \in Readers : rsem[r] # k)
  BY <1>1, IdsLemma DEF Processes
<1> QED
  BY <1>2 DEF UnusedSem

LEMMA UnusedMemLemma ==
  ASSUME memName = None
  PROVE  UnusedMem \in Ids /\ \A i \in Inst : mem[i] # UnusedMem
<1>1. PICK k \in Ids : \A i \in Inst : mem[i] # k
  BY NumberLeft, IdsLemma
<1>2. k # memName
  BY IdsLemma
<1> QED
  BY <1>1, <1>2 DEF UnusedMem

-----------------------------------------------------------------------------
\* The types of all but the semaphores' values, whose bound is Room.
Typed ==
  /\ pc \in [Inst -> {"off", "unlinked", "opened", "mapped", "running",
                      "waiting", "copying", "hit", "stopping", "unlinking"}]
  /\ sem \in [Inst -> Ids \cup {None}] /\ mem \in [Inst -> Ids \cup {None}]
  /\ rpc \in [Readers -> {"off", "ready", "parsing"}] /\ rsem \in [Readers -> Ids \cup {None}]
  /\ semName \in Ids \cup {None} /\ memName \in Ids \cup {None}
  /\ val \in [Ids -> Nat]
  /\ port \in Inst \cup {Nobody}
  /\ armed \subseteq Inst /\ told \subseteq Inst /\ overlapped \subseteq Inst /\ lost \subseteq Ids

\* What a process has open, by where it is.
Handles ==
  /\ \A i \in Inst :
       /\ pc[i] \in {"off", "unlinked", "unlinking"} <=> sem[i] = None
       /\ pc[i] \in {"off", "unlinked", "opened", "unlinking"} <=> mem[i] = None
  /\ \A r \in Readers : rpc[r] = "off" <=> rsem[r] = None

\* Who may post to semaphore k without having waited for it, now or once it has
\* opened the name, or has taken the token it will give back.
Holders(k) == {i \in Inst : \/ sem[i] = k /\ (pc[i] = "opened" \/ Copying(i))
                            \/ semName = k /\ pc[i] = "unlinked"}
              \cup {r \in Readers : rsem[r] = k /\ rpc[r] = "parsing"}
Room == \A k \in Ids : val[k] + Cardinality(Holders(k)) <= N

IInv == Typed /\ Handles /\ Room

LEMMA SetsLemma ==
  \A k : /\ IsFiniteSet(Holders(k)) /\ Cardinality(Holders(k)) \in Nat
         /\ IsFiniteSet(Takers(k)) /\ Cardinality(Takers(k)) \in Nat
         /\ Takers(k) \subseteq Holders(k)
<1> SUFFICES ASSUME NEW k
             PROVE  /\ IsFiniteSet(Holders(k)) /\ Cardinality(Holders(k)) \in Nat
                    /\ IsFiniteSet(Takers(k)) /\ Cardinality(Takers(k)) \in Nat
                    /\ Takers(k) \subseteq Holders(k)
  OBVIOUS
<1>1. Holders(k) \in SUBSET Processes /\ Takers(k) \in SUBSET Processes
  BY DEF Holders, Takers, Processes
<1>2. IsFiniteSet(Holders(k)) /\ IsFiniteSet(Takers(k))
  BY <1>1, FS_Subset, IdsLemma
<1>3. Takers(k) \subseteq Holders(k)
  BY DEF Holders, Takers
<1> QED
  BY <1>2, <1>3, FS_CardinalityType

LEMMA InitIInv == Init => IInv
<1> SUFFICES ASSUME Init PROVE IInv
  OBVIOUS
<1>1. Typed /\ Handles
  BY IdsLemma DEF Init, Typed, Handles, Nobody
<1>2. ASSUME NEW k \in Ids PROVE val[k] + Cardinality(Holders(k)) <= N
  <2>1. val[k] = 0 /\ Holders(k) = {}
    BY <1>2, IdsLemma DEF Init, Holders, Copying
  <2> QED
    BY <2>1, FS_EmptySet, IdsLemma
<1> QED
  BY <1>1, <1>2 DEF IInv, Room

\* Where a process goes, nothing else in pc or rpc changes.
LEMMA GoLemma ==
  ASSUME Typed, NEW i \in Inst, NEW s, Go(i, s)
  PROVE  pc'[i] = s /\ \A j \in Inst \ {i} : pc'[j] = pc[j]
  BY DEF Typed, Go

LEMMA GoRdLemma ==
  ASSUME Typed, NEW r \in Readers, NEW s, GoRd(r, s)
  PROVE  rpc'[r] = s /\ \A q \in Readers \ {r} : rpc'[q] = rpc[q]
  BY DEF Typed, GoRd

\* Freeing an object takes nothing from those that somebody has.
LEMMA TokensLemma ==
  ASSUME NEW v \in [Ids -> Nat], NEW l \in SUBSET Ids, Tokens(v, l)
  PROVE  /\ val' \in [Ids -> Nat] /\ lost' \in SUBSET l
         /\ \A k \in Ids : val'[k] <= v[k]
         /\ \A k \in Ids : SemKept(k) => val'[k] = v[k] /\ (k \in l <=> k \in lost')
  BY DEF Tokens

LEMMA TypedStep == IInv /\ [Next]_vars => Typed' /\ Handles'
<1> SUFFICES ASSUME IInv, [Next]_vars PROVE Typed' /\ Handles'
  OBVIOUS
<1> USE DEF handles, names, readers
<1>0. Typed /\ Handles
  BY DEF IInv
<1>v. val \in [Ids -> Nat] /\ lost \in SUBSET Ids
  BY <1>0 DEF Typed
<1>1. ASSUME NEW i \in Inst, Begin(i) PROVE Typed' /\ Handles'
  <2>1. overlapped' \subseteq Inst
    BY <1>0, <1>1 DEF Begin, Meets, Typed
  <2>2. val' \in [Ids -> Nat] /\ lost' \subseteq Ids
    BY <1>v, <1>1, TokensLemma DEF Begin
  <2> QED
    BY <1>0, <1>1, <2>1, <2>2 DEF Begin, Go, Typed, Handles
<1>2. ASSUME NEW i \in Inst, OpenSem(i) PROVE Typed' /\ Handles'
  <2>1. PICK k \in Ids :
          /\ sem' = [sem EXCEPT ![i] = k] /\ semName' = k
          /\ val' = val \/ val' = [val EXCEPT ![k] = 0]
          /\ lost' \subseteq lost
    BY <1>0, <1>2, UnusedSemLemma DEF OpenSem, Typed
  <2>2. /\ pc[i] = "unlinked" /\ Go(i, "opened")
        /\ UNCHANGED <<mem, rpc, rsem, memName, port, armed, told, overlapped>>
    BY <1>2 DEF OpenSem
  <2> QED
    BY <1>0, <2>1, <2>2, IdsLemma DEF Go, Typed, Handles
<1>3. ASSUME NEW i \in Inst, OpenMem(i) PROVE Typed' /\ Handles'
  <2>1. PICK k \in Ids :
          /\ mem' = [mem EXCEPT ![i] = k] /\ memName' = k
          /\ pc'  = [j \in Inst |-> IF j = i THEN "mapped"
                                   ELSE IF pc[j] = "copying" /\ mem[j] = k THEN "hit" ELSE pc[j]]
    BY <1>0, <1>3, UnusedMemLemma DEF OpenMem, Typed
  <2>2. /\ pc[i] = "opened" /\ val' = [val EXCEPT ![sem[i]] = @ + 1]
        /\ UNCHANGED <<sem, rpc, rsem, semName, port, armed, told, overlapped, lost>>
    BY <1>3 DEF OpenMem
  <2>3. val' \in [Ids -> Nat]
    <3>1. sem[i] \in Ids
      BY <1>0, <2>2 DEF Typed, Handles
    <3>2. val[sem[i]] + 1 \in Nat
      BY <1>0, <3>1 DEF Typed
    <3> QED
      BY <1>0, <2>2, <3>1, <3>2 DEF Typed
  <2>4. Typed'
    BY <1>0, <2>1, <2>2, <2>3 DEF Typed
  <2>5. Handles'
    BY <1>0, <2>1, <2>2, IdsLemma DEF Typed, Handles
  <2> QED
    BY <2>4, <2>5
<1>4. ASSUME NEW i \in Inst, Listen(i) \/ FireTimer(i) \/ Reload(i) PROVE Typed' /\ Handles'
  BY <1>0, <1>4 DEF Listen, FireTimer, Reload, Go, Typed, Handles
<1>5. ASSUME NEW i \in Inst, StartCopy(i) PROVE Typed' /\ Handles'
  <2>1. sem[i] \in Ids
    BY <1>0, <1>5 DEF StartCopy, Typed, Handles
  <2>2. val' \in [Ids -> Nat]
    BY <1>0, <1>5, <2>1 DEF StartCopy, Typed
  <2> QED
    BY <1>0, <1>5, <2>2 DEF StartCopy, Go, Typed, Handles
<1>6. ASSUME NEW i \in Inst, EndCopy(i) PROVE Typed' /\ Handles'
  <2>1. sem[i] \in Ids
    BY <1>0, <1>6 DEF EndCopy, Copying, Typed, Handles
  <2>2. val' \in [Ids -> Nat]
    BY <1>0, <1>6, <2>1 DEF EndCopy, Typed
  <2> QED
    BY <1>0, <1>6, <2>2 DEF EndCopy, Copying, Go, Typed, Handles
<1>7. ASSUME NEW i \in Inst, Fault(i) \/ Crash(i) \/ Leave(i) PROVE Typed' /\ Handles'
  <2>1. /\ Gone(i) /\ UNCHANGED <<rpc, rsem, semName, told, overlapped>>
        /\ memName' \in {memName, None}
    BY <1>7 DEF Fault, Crash, Leave
  <2>2. PICK l \in SUBSET Ids : Tokens(val, l)
    <3>1. pc[i] = "hit" => sem[i] \in Ids
      BY <1>0 DEF Typed, Handles
    <3> QED
      BY <1>v, <1>7, <3>1 DEF Fault, Crash, Leave
  <2>3. val' \in [Ids -> Nat] /\ lost' \subseteq Ids
    BY <1>v, <2>2, TokensLemma
  <2> QED
    BY <1>0, <2>1, <2>3 DEF Gone, Go, Typed, Handles
<1>8. ASSUME NEW i \in Inst, Kill(i) PROVE Typed' /\ Handles'
  <2>1. val' \in [Ids -> Nat] /\ lost' \subseteq Ids
    BY <1>v, <1>8, TokensLemma DEF Kill
  <2> QED
    BY <1>0, <1>8, <2>1 DEF Kill, Go, Typed, Handles
<1>9. ASSUME NEW i \in Inst, Stop(i) PROVE Typed' /\ Handles'
  <2>1. told' \subseteq Inst
    BY <1>0, <1>9 DEF Stop, Typed
  <2> QED
    BY <1>0, <1>9, <2>1 DEF Stop, Go, Typed, Handles
<1>10. ASSUME NEW r \in Readers, ReaderOpens(r) PROVE Typed' /\ Handles'
  BY <1>0, <1>10, IdsLemma DEF ReaderOpens, GoRd, Typed, Handles
<1>11. ASSUME NEW r \in Readers, ReaderTakes(r) \/ ReaderLoads(r) PROVE Typed' /\ Handles'
  <2>1. rsem[r] \in Ids
    BY <1>0, <1>11 DEF ReaderTakes, ReaderLoads, Typed, Handles
  <2>2. val' \in [Ids -> Nat]
    BY <1>0, <1>11, <2>1 DEF ReaderTakes, ReaderLoads, Typed
  <2> QED
    BY <1>0, <1>11, <2>2 DEF ReaderTakes, ReaderLoads, GoRd, Typed, Handles
<1>12. ASSUME NEW r \in Readers, ReaderFails(r) PROVE Typed' /\ Handles'
  BY <1>0, <1>12 DEF ReaderFails, GoRd, Typed, Handles
<1>13. ASSUME NEW r \in Readers, ReaderDies(r) PROVE Typed' /\ Handles'
  <2>1. PICK l \in SUBSET Ids : Tokens(val, l)
    <3>1. rsem[r] \in Ids
      BY <1>0, <1>13 DEF ReaderDies, Typed, Handles
    <3> QED
      BY <1>v, <1>13, <3>1 DEF ReaderDies
  <2>2. val' \in [Ids -> Nat] /\ lost' \subseteq Ids
    BY <1>v, <2>1, TokensLemma
  <2> QED
    BY <1>0, <1>13, <2>2 DEF ReaderDies, GoRd, Typed, Handles
<1>14. CASE UNCHANGED vars
  BY <1>0, <1>14 DEF vars, Typed, Handles
<1> QED
  BY <1>1, <1>2, <1>3, <1>4, <1>5, <1>6, <1>7, <1>8, <1>9, <1>10, <1>11, <1>12, <1>13, <1>14
     DEF Next

\* A token comes into being with a semaphore's opener, and each process opens a
\* semaphore once at most: the name it could open it by is gone when it begins.
LEMMA RoomStep == IInv /\ [Next]_vars => Room'
<1> SUFFICES ASSUME IInv, [Next]_vars, NEW k \in Ids
             PROVE  val'[k] + Cardinality(Holders(k)') <= N
  BY DEF Room
<1> USE DEF handles, names, readers
<1>0. Typed /\ Handles /\ Typed' /\ Handles'
  BY TypedStep DEF IInv
<1> DEFINE H == Holders(k)
<1>v. val \in [Ids -> Nat] /\ lost \in SUBSET Ids
  BY <1>0 DEF Typed
<1>t. /\ val[k] \in Nat /\ val'[k] \in Nat /\ val[k] + Cardinality(H) <= N /\ N \in Nat
      /\ IsFiniteSet(H) /\ Cardinality(H) \in Nat
  BY <1>0, SetsLemma, IdsLemma DEF IInv, Room, Typed
<1>u. IsFiniteSet(H') /\ Cardinality(H') \in Nat
  <2>1. Holders(k)' \in SUBSET Processes
    BY DEF Holders, Processes
  <2> QED
    BY <2>1, FS_Subset, IdsLemma, FS_CardinalityType
<1>s. ASSUME val'[k] <= val[k], H' \subseteq H PROVE val'[k] + Cardinality(H') <= N
  <2>1. Cardinality(H') <= Cardinality(H)
    <3> HIDE DEF H
    <3> QED
      BY <1>s, <1>t, FS_Subset
  <2> HIDE DEF H
  <2> QED
    BY <1>s, <1>t, <1>u, <2>1
<1>a. ASSUME NEW p \in H, val'[k] = val[k] + 1, H' = H \ {p}
      PROVE  val'[k] + Cardinality(H') <= N
  <2>1. Cardinality(H') = Cardinality(H) - 1
    <3> HIDE DEF H
    <3> QED
      BY <1>a, <1>t, FS_RemoveElement
  <2> HIDE DEF H
  <2> QED
    BY <1>a, <1>t, <1>u, <2>1
<1>b. ASSUME NEW p, p \notin H, val'[k] = val[k] - 1, H' = H \cup {p}
      PROVE  val'[k] + Cardinality(H') <= N
  <2>1. Cardinality(H') = Cardinality(H) + 1
    <3> HIDE DEF H
    <3> QED
      BY <1>b, <1>t, FS_AddElement
  <2> HIDE DEF H
  <2> QED
    BY <1>b, <1>t, <1>u, <2>1
<1>1. ASSUME NEW i \in Inst, Begin(i) PROVE val'[k] + Cardinality(H') <= N
  <2>1. /\ sem' = sem /\ rsem' = rsem /\ rpc' = rpc /\ semName' = None /\ pc[i] = "off"
        /\ pc'[i] = "unlinked" /\ \A j \in Inst \ {i} : pc'[j] = pc[j]
    BY <1>0, <1>1, GoLemma DEF Begin
  <2>2. H' \subseteq H
    BY <2>1, IdsLemma DEF Holders, Copying
  <2>3. val'[k] <= val[k]
    BY <1>1, <1>v, TokensLemma DEF Begin
  <2> QED
    BY <1>s, <2>2, <2>3
<1>2. ASSUME NEW i \in Inst, OpenSem(i) PROVE val'[k] + Cardinality(H') <= N
  <2>1. /\ pc[i] = "unlinked" /\ pc'[i] = "opened"
        /\ \A j \in Inst \ {i} : pc'[j] = pc[j] /\ sem'[j] = sem[j]
        /\ sem'[i] = semName' /\ rsem' = rsem /\ rpc' = rpc
    BY <1>0, <1>2, GoLemma DEF OpenSem, Typed
  <2>2. CASE semName # None
    <3>1. val' = val /\ semName' = semName
      BY <1>2, <2>2 DEF OpenSem
    <3>2. H' \subseteq H
      BY <2>1, <3>1 DEF Holders, Copying
    <3> QED
      BY <1>s, <1>t, <3>1, <3>2
  <2>3. CASE semName = None
    <3>1. semName' = UnusedSem /\ val' = [val EXCEPT ![semName'] = 0]
      BY <1>2, <2>3 DEF OpenSem
    <3>2. /\ semName' \in Ids /\ \A j \in Inst : sem[j] # semName'
          /\ \A r \in Readers : rsem[r] # semName'
      BY <2>3, <3>1, UnusedSemLemma
    <3>3. CASE k = semName'
      <4>1. val'[k] = 0
        BY <1>0, <3>1, <3>2, <3>3 DEF Typed
      <4>2. Holders(k)' \in SUBSET Inst
        BY <2>1, <3>2, <3>3 DEF Holders
      <4>3. Cardinality(Holders(k)') <= N
        BY <4>2, FS_Subset DEF N
      <4> QED
        BY <1>t, <1>u, <4>1, <4>3
    <3>4. CASE k # semName'
      <4>1. val'[k] = val[k]
        BY <1>0, <3>1, <3>4 DEF Typed
      <4>2. H' \subseteq H
        BY <2>1, <3>4 DEF Holders, Copying
      <4> QED
        BY <1>s, <1>t, <4>1, <4>2
    <3> QED
      BY <3>3, <3>4
  <2> QED
    BY <2>2, <2>3
<1>3. ASSUME NEW i \in Inst, OpenMem(i) \/ EndCopy(i) PROVE val'[k] + Cardinality(H') <= N
  <2>1. /\ pc[i] = "opened" \/ Copying(i)
        /\ pc'[i] \in {"mapped", "running"}
        /\ \A j \in Inst \ {i} : pc'[j] = pc[j] \/ (pc[j] = "copying" /\ pc'[j] = "hit")
        /\ sem' = sem /\ semName' = semName /\ rsem' = rsem /\ rpc' = rpc
    BY <1>0, <1>3, GoLemma DEF OpenMem, EndCopy
  <2>2. sem[i] \in Ids
    BY <1>0, <2>1 DEF Typed, Handles, Copying
  <2>3. val' = [val EXCEPT ![sem[i]] = @ + 1]
    BY <1>3 DEF OpenMem, EndCopy
  <2>4. CASE sem[i] = k
    <3>1. val'[k] = val[k] + 1
      BY <1>0, <2>2, <2>3, <2>4 DEF Typed
    <3>2. i \in H /\ H' = H \ {i}
      BY <2>1, <2>4 DEF Holders, Copying
    <3> QED
      BY <1>a, <3>1, <3>2
  <2>5. CASE sem[i] # k
    <3>1. val'[k] = val[k]
      BY <1>0, <2>2, <2>3, <2>5 DEF Typed
    <3>2. H' \subseteq H
      BY <2>1 DEF Holders, Copying
    <3> QED
      BY <1>s, <1>t, <3>1, <3>2
  <2> QED
    BY <2>4, <2>5
<1>4. ASSUME NEW i \in Inst, StartCopy(i) PROVE val'[k] + Cardinality(H') <= N
  <2>1. /\ pc[i] = "waiting" /\ pc'[i] = "copying" /\ val[sem[i]] > 0
        /\ \A j \in Inst \ {i} : pc'[j] = pc[j]
        /\ sem' = sem /\ semName' = semName /\ val' = [val EXCEPT ![sem[i]] = @ - 1]
        /\ rsem' = rsem /\ rpc' = rpc
    BY <1>0, <1>4, GoLemma DEF StartCopy
  <2>2. sem[i] \in Ids
    BY <1>0, <2>1 DEF Typed, Handles
  <2>3. CASE sem[i] = k
    <3>1. val'[k] = val[k] - 1
      BY <1>0, <2>1, <2>2, <2>3 DEF Typed
    <3>2. i \notin H /\ H' = H \cup {i}
      BY <2>1, <2>3 DEF Holders, Copying
    <3> QED
      BY <1>b, <3>1, <3>2
  <2>4. CASE sem[i] # k
    <3>1. val'[k] = val[k]
      BY <1>0, <2>1, <2>2, <2>4 DEF Typed
    <3>2. H' \subseteq H
      BY <2>1, <2>4 DEF Holders, Copying
    <3> QED
      BY <1>s, <1>t, <3>1, <3>2
  <2> QED
    BY <2>3, <2>4
<1>5. ASSUME NEW i \in Inst, Listen(i) \/ FireTimer(i) \/ Stop(i) PROVE val'[k] + Cardinality(H') <= N
  <2>1. /\ val' = val /\ sem' = sem /\ semName' = semName
        /\ pc'[i] \in {"running", "waiting", "stopping"}
        /\ rsem' = rsem /\ rpc' = rpc /\ \A j \in Inst \ {i} : pc'[j] = pc[j]
    BY <1>0, <1>5, GoLemma DEF Listen, FireTimer, Stop
  <2>2. H' \subseteq H
    BY <2>1 DEF Holders, Copying
  <2> QED
    BY <1>s, <1>t, <2>1, <2>2
<1>6. ASSUME NEW i \in Inst, Fault(i) \/ Crash(i) \/ Kill(i) \/ Leave(i)
      PROVE  val'[k] + Cardinality(H') <= N
  <2>1. /\ semName' \in {semName, None} /\ pc'[i] \in {"off", "unlinking"}
        /\ rsem' = rsem /\ rpc' = rpc
        /\ \A j \in Inst \ {i} : pc'[j] = pc[j] /\ sem'[j] = sem[j]
    BY <1>0, <1>6, GoLemma DEF Fault, Crash, Kill, Leave, Gone, Typed
  <2>2. H' \subseteq H
    BY <2>1, IdsLemma DEF Holders, Copying
  <2>3. PICK l \in SUBSET Ids : Tokens(val, l)
    <3>1. pc[i] = "hit" => sem[i] \in Ids
      BY <1>0 DEF Typed, Handles
    <3> QED
      BY <1>v, <1>6, <3>1 DEF Fault, Crash, Kill, Leave
  <2>4. val'[k] <= val[k]
    BY <1>v, <2>3, TokensLemma
  <2> QED
    BY <1>s, <2>2, <2>4
<1>7. ASSUME NEW i \in Inst, Reload(i) PROVE val'[k] + Cardinality(H') <= N
  BY <1>s, <1>t, <1>7 DEF Reload, Holders, Copying
<1>8. ASSUME NEW r \in Readers, ReaderTakes(r) PROVE val'[k] + Cardinality(H') <= N
  <2>1. /\ rpc[r] = "ready" /\ rpc'[r] = "parsing" /\ val[rsem[r]] > 0
        /\ \A q \in Readers \ {r} : rpc'[q] = rpc[q]
        /\ sem' = sem /\ semName' = semName /\ val' = [val EXCEPT ![rsem[r]] = @ - 1]
        /\ rsem' = rsem /\ pc' = pc
    BY <1>0, <1>8, GoRdLemma DEF ReaderTakes
  <2>2. rsem[r] \in Ids
    BY <1>0, <2>1 DEF Typed, Handles
  <2>3. CASE rsem[r] = k
    <3>1. val'[k] = val[k] - 1
      BY <1>0, <2>1, <2>2, <2>3 DEF Typed
    <3>2. r \notin H /\ H' = H \cup {r}
      BY <2>1, <2>3 DEF Holders, Copying
    <3> QED
      BY <1>b, <3>1, <3>2
  <2>4. CASE rsem[r] # k
    <3>1. val'[k] = val[k]
      BY <1>0, <2>1, <2>2, <2>4 DEF Typed
    <3>2. H' \subseteq H
      BY <2>1, <2>4 DEF Holders, Copying
    <3> QED
      BY <1>s, <1>t, <3>1, <3>2
  <2> QED
    BY <2>3, <2>4
<1>9. ASSUME NEW r \in Readers, ReaderLoads(r) PROVE val'[k] + Cardinality(H') <= N
  <2>1. /\ rpc[r] = "parsing" /\ rpc'[r] = "ready"
        /\ \A q \in Readers \ {r} : rpc'[q] = rpc[q]
        /\ sem' = sem /\ semName' = semName /\ val' = [val EXCEPT ![rsem[r]] = @ + 1]
        /\ rsem' = rsem /\ pc' = pc
    BY <1>0, <1>9, GoRdLemma DEF ReaderLoads
  <2>2. rsem[r] \in Ids
    BY <1>0, <2>1 DEF Typed, Handles
  <2>3. CASE rsem[r] = k
    <3>1. val'[k] = val[k] + 1
      BY <1>0, <2>1, <2>2, <2>3 DEF Typed
    <3>2. r \in H /\ H' = H \ {r}
      BY <2>1, <2>3 DEF Holders, Copying
    <3> QED
      BY <1>a, <3>1, <3>2
  <2>4. CASE rsem[r] # k
    <3>1. val'[k] = val[k]
      BY <1>0, <2>1, <2>2, <2>4 DEF Typed
    <3>2. H' \subseteq H
      BY <2>1, <2>4 DEF Holders, Copying
    <3> QED
      BY <1>s, <1>t, <3>1, <3>2
  <2> QED
    BY <2>3, <2>4
<1>10. ASSUME NEW r \in Readers, ReaderOpens(r) \/ ReaderFails(r) \/ ReaderDies(r)
       PROVE  val'[k] + Cardinality(H') <= N
  <2>1. /\ rpc'[r] \in {"off", "ready"} /\ pc' = pc /\ sem' = sem /\ semName' = semName
        /\ \A q \in Readers \ {r} : rpc'[q] = rpc[q] /\ rsem'[q] = rsem[q]
    BY <1>0, <1>10, GoRdLemma DEF ReaderOpens, ReaderFails, ReaderDies, Typed
  <2>2. H' \subseteq H
    BY <2>1 DEF Holders, Copying
  <2>3. val'[k] <= val[k]
    <3>1. CASE val' = val
      BY <1>t, <3>1
    <3>2. CASE ReaderDies(r)
      <4>1. rsem[r] \in Ids
        BY <1>0, <3>2 DEF ReaderDies, Typed, Handles
      <4>2. PICK l \in SUBSET Ids : Tokens(val, l)
        BY <1>v, <3>2, <4>1 DEF ReaderDies
      <4> QED
        BY <1>v, <4>2, TokensLemma
    <3> QED
      BY <1>10, <3>1, <3>2 DEF ReaderOpens, ReaderFails
  <2> QED
    BY <1>s, <2>2, <2>3
<1>11. CASE UNCHANGED vars
  BY <1>s, <1>t, <1>11 DEF vars, Holders, Copying
<1> QED
  BY <1>1, <1>2, <1>3, <1>4, <1>5, <1>6, <1>7, <1>8, <1>9, <1>10, <1>11 DEF Next

\* Where the invariant holds at the start it holds for ever: no step of main, of the
\* copy in set_shm_map, of a reader or of an end of a process leaves it.
THEOREM InvariantHolds == Spec => []IInv
<1>1. IInv /\ [Next]_vars => IInv'
  BY TypedStep, RoomStep DEF IInv
<1> QED
  BY <1>1, InitIInv, PTL DEF Spec

\* The variables keep their types, and a semaphore never has more tokens than
\* there are servers, however many servers and readers start, stop and crash
\* (shmmap.c 28-64, 123-133): a post is always by somebody who opened or waited.
THEOREM TypeCorrect == Spec => []TypeOK
<1>1. ASSUME IInv PROVE TypeOK
  <2>1. \A k \in Ids : val[k] \in 0 .. Cardinality(Inst)
    <3> SUFFICES ASSUME NEW k \in Ids PROVE val[k] \in 0 .. Cardinality(Inst)
      OBVIOUS
    <3>1. val[k] \in Nat /\ val[k] + Cardinality(Holders(k)) <= N
      BY <1>1 DEF IInv, Room, Typed
    <3>2. Cardinality(Holders(k)) \in Nat /\ N \in Nat
      BY SetsLemma, IdsLemma
    <3> QED
      BY <3>1, <3>2 DEF N
  <2> QED
    BY <1>1, <2>1 DEF IInv, Typed, TypeOK
<1> QED
  BY <1>1, InvariantHolds, PTL

-----------------------------------------------------------------------------
\* Whether anybody may still come to wait for semaphore k.
Refers(k) == k = semName \/ (\E i \in Inst : sem[i] = k) \/ (\E r \in Readers : rsem[r] = k)

\* Where the first token, or one that was taken, is.
Accounted(k) ==
  \/ val[k] > 0
  \/ \E i \in Inst : sem[i] = k /\ (pc[i] = "opened" \/ Copying(i))
  \/ \E r \in Readers : rsem[r] = k /\ rpc[r] = "parsing"
  \/ k \in lost

AllAccounted == \A k \in Ids : Refers(k) => Accounted(k)

\* Each step keeps the token of every semaphore on record.
LEMMA AccountedStep == IInv /\ AllAccounted /\ [Next]_vars => AllAccounted'
<1> SUFFICES ASSUME IInv, AllAccounted, [Next]_vars, NEW k \in Ids, Refers(k)'
             PROVE  Accounted(k)'
  BY DEF AllAccounted
<1> USE DEF handles, names, readers
<1>0. Typed /\ Handles
  BY DEF IInv
<1>v. val \in [Ids -> Nat] /\ lost \in SUBSET Ids /\ val[k] \in Nat
  BY <1>0 DEF Typed
<1>k. SemKept(k)
  BY DEF Refers, SemKept
<1>1. ASSUME NEW i \in Inst, Begin(i) PROVE Accounted(k)'
  <2>1. /\ sem' = sem /\ rsem' = rsem /\ rpc' = rpc /\ semName' = None /\ pc[i] = "off"
        /\ \A j \in Inst \ {i} : pc'[j] = pc[j]
    BY <1>0, <1>1, GoLemma DEF Begin
  <2>2. val'[k] = val[k] /\ (k \in lost => k \in lost')
    BY <1>1, <1>v, <1>k, TokensLemma DEF Begin
  <2>3. Refers(k)
    BY <2>1, IdsLemma DEF Refers
  <2> QED
    BY <2>1, <2>2, <2>3 DEF AllAccounted, Accounted, Copying
<1>2. ASSUME NEW i \in Inst, OpenSem(i) PROVE Accounted(k)'
  <2>1. /\ pc[i] = "unlinked" /\ pc'[i] = "opened" /\ sem'[i] = semName'
        /\ \A j \in Inst \ {i} : pc'[j] = pc[j] /\ sem'[j] = sem[j]
        /\ rsem' = rsem /\ rpc' = rpc
    BY <1>0, <1>2, GoLemma DEF OpenSem, Typed
  <2>2. CASE k = semName'
    BY <2>1, <2>2 DEF Accounted
  <2>3. CASE k # semName'
    <3>1. val'[k] = val[k] /\ (k \in lost => k \in lost')
      BY <1>0, <1>2, <2>3 DEF OpenSem, Typed
    <3>2. Refers(k)
      BY <2>1, <2>3 DEF Refers
    <3> QED
      BY <2>1, <3>1, <3>2 DEF AllAccounted, Accounted, Copying
  <2> QED
    BY <2>2, <2>3
<1>3. ASSUME NEW i \in Inst, OpenMem(i) \/ EndCopy(i) PROVE Accounted(k)'
  <2>1. /\ pc[i] = "opened" \/ Copying(i)
        /\ \A j \in Inst \ {i} : pc'[j] = pc[j] \/ (pc[j] = "copying" /\ pc'[j] = "hit")
        /\ sem' = sem /\ semName' = semName /\ rsem' = rsem /\ rpc' = rpc /\ lost' = lost
    BY <1>0, <1>3, GoLemma DEF OpenMem, EndCopy
  <2>2. sem[i] \in Ids
    BY <1>0, <2>1 DEF Typed, Handles, Copying
  <2>3. val' = [val EXCEPT ![sem[i]] = @ + 1]
    BY <1>3 DEF OpenMem, EndCopy
  <2>4. Accounted(k)
    BY <2>1 DEF Refers, AllAccounted
  <2>5. CASE sem[i] = k
    <3>1. val'[k] > 0
      BY <1>v, <2>2, <2>3, <2>5
    <3> QED
      BY <3>1 DEF Accounted
  <2>6. CASE sem[i] # k
    <3>1. val'[k] = val[k]
      BY <1>v, <2>2, <2>3, <2>6
    <3> QED
      BY <2>1, <2>4, <2>6, <3>1 DEF Accounted, Copying
  <2> QED
    BY <2>5, <2>6
<1>4. ASSUME NEW i \in Inst, StartCopy(i) PROVE Accounted(k)'
  <2>1. /\ pc[i] = "waiting" /\ pc'[i] = "copying"
        /\ \A j \in Inst \ {i} : pc'[j] = pc[j]
        /\ sem' = sem /\ semName' = semName /\ val' = [val EXCEPT ![sem[i]] = @ - 1]
        /\ rsem' = rsem /\ rpc' = rpc /\ lost' = lost
    BY <1>0, <1>4, GoLemma DEF StartCopy
  <2>2. Accounted(k)
    BY <2>1 DEF Refers, AllAccounted
  <2>3. CASE sem[i] = k
    BY <2>1, <2>3 DEF Accounted, Copying
  <2>4. CASE sem[i] # k
    <3>1. val'[k] = val[k]
      BY <1>v, <2>1, <2>4
    <3> QED
      BY <2>1, <2>2, <3>1 DEF Accounted, Copying
  <2> QED
    BY <2>3, <2>4
<1>5. ASSUME NEW i \in Inst, Listen(i) \/ FireTimer(i) \/ Reload(i) \/ Stop(i) PROVE Accounted(k)'
  <2>1. /\ val' = val /\ lost' = lost /\ sem' = sem /\ semName' = semName
        /\ pc[i] \in {"mapped", "running"} /\ \A j \in Inst \ {i} : pc'[j] = pc[j]
        /\ rsem' = rsem /\ rpc' = rpc
    BY <1>0, <1>5, GoLemma DEF Listen, FireTimer, Reload, Stop
  <2> QED
    BY <2>1 DEF Refers, AllAccounted, Accounted, Copying
<1>6. ASSUME NEW i \in Inst, Fault(i) PROVE Accounted(k)'
  <2>1. /\ semName' = semName /\ pc[i] = "hit" /\ sem'[i] = None
        /\ rsem' = rsem /\ rpc' = rpc
        /\ \A j \in Inst \ {i} : pc'[j] = pc[j] /\ sem'[j] = sem[j]
    BY <1>0, <1>6, GoLemma DEF Fault, Gone, Typed
  <2>2. sem[i] \in Ids
    BY <1>0, <2>1 DEF Typed, Handles
  <2>3. val'[k] = val[k] /\ (k \in lost \cup {sem[i]} => k \in lost')
    BY <1>6, <1>v, <1>k, <2>2, TokensLemma DEF Fault
  <2>4. Refers(k)
    BY <2>1, IdsLemma DEF Refers
  <2> QED
    BY <2>1, <2>3, <2>4 DEF AllAccounted, Accounted, Copying
<1>7. ASSUME NEW i \in Inst, Crash(i) \/ Kill(i) \/ Leave(i) PROVE Accounted(k)'
  <2>1. /\ semName' \in {semName, None} /\ pc[i] \in {"running", "stopping", "unlinking"}
        /\ rsem' = rsem /\ rpc' = rpc /\ sem'[i] = None
        /\ \A j \in Inst \ {i} : pc'[j] = pc[j] /\ sem'[j] = sem[j]
    BY <1>0, <1>7, GoLemma DEF Crash, Kill, Leave, Gone, Typed
  <2>2. val'[k] = val[k] /\ (k \in lost => k \in lost')
    BY <1>7, <1>v, <1>k, TokensLemma DEF Crash, Kill, Leave
  <2>3. Refers(k)
    BY <2>1, IdsLemma DEF Refers
  <2> QED
    BY <2>1, <2>2, <2>3 DEF AllAccounted, Accounted, Copying
<1>8. ASSUME NEW r \in Readers, ReaderOpens(r) PROVE Accounted(k)'
  <2>1. /\ UNCHANGED <<pc, sem, semName, val, lost>> /\ rpc[r] = "off" /\ rsem'[r] = semName
        /\ \A q \in Readers \ {r} : rpc'[q] = rpc[q] /\ rsem'[q] = rsem[q]
    BY <1>0, <1>8, GoRdLemma DEF ReaderOpens, Typed
  <2>2. Refers(k)
    BY <2>1 DEF Refers
  <2> QED
    BY <2>1, <2>2 DEF AllAccounted, Accounted, Copying
<1>9. ASSUME NEW r \in Readers, ReaderTakes(r) PROVE Accounted(k)'
  <2>1. /\ rpc[r] = "ready" /\ rpc'[r] = "parsing" /\ val' = [val EXCEPT ![rsem[r]] = @ - 1]
        /\ \A q \in Readers \ {r} : rpc'[q] = rpc[q]
        /\ UNCHANGED <<pc, sem, semName, rsem, lost>>
    BY <1>0, <1>9, GoRdLemma DEF ReaderTakes
  <2>2. Accounted(k)
    BY <2>1 DEF Refers, AllAccounted
  <2>3. CASE rsem[r] = k
    BY <2>1, <2>3 DEF Accounted
  <2>4. CASE rsem[r] # k
    <3>1. val'[k] = val[k]
      BY <1>v, <2>1, <2>4
    <3> QED
      BY <2>1, <2>2, <3>1 DEF Accounted, Copying
  <2> QED
    BY <2>3, <2>4
<1>10. ASSUME NEW r \in Readers, ReaderLoads(r) PROVE Accounted(k)'
  <2>1. /\ rpc[r] = "parsing" /\ val' = [val EXCEPT ![rsem[r]] = @ + 1]
        /\ \A q \in Readers \ {r} : rpc'[q] = rpc[q]
        /\ UNCHANGED <<pc, sem, semName, rsem, lost>>
    BY <1>0, <1>10, GoRdLemma DEF ReaderLoads
  <2>2. Accounted(k)
    BY <2>1 DEF Refers, AllAccounted
  <2>3. CASE rsem[r] = k
    <3>1. val'[k] > 0
      BY <1>v, <2>1, <2>3
    <3> QED
      BY <3>1 DEF Accounted
  <2>4. CASE rsem[r] # k
    <3>1. val'[k] = val[k]
      BY <1>v, <2>1, <2>4
    <3> QED
      BY <2>1, <2>2, <2>4, <3>1 DEF Accounted, Copying
  <2> QED
    BY <2>3, <2>4
<1>11. ASSUME NEW r \in Readers, ReaderFails(r) PROVE Accounted(k)'
  <2>1. /\ rpc[r] = "parsing" /\ lost' = lost \cup {rsem[r]}
        /\ \A q \in Readers \ {r} : rpc'[q] = rpc[q]
        /\ UNCHANGED <<pc, sem, semName, rsem, val>>
    BY <1>0, <1>11, GoRdLemma DEF ReaderFails
  <2>2. Accounted(k)
    BY <2>1 DEF Refers, AllAccounted
  <2> QED
    BY <2>1, <2>2 DEF Accounted, Copying
<1>12. ASSUME NEW r \in Readers, ReaderDies(r) PROVE Accounted(k)'
  <2>1. /\ UNCHANGED <<pc, sem, semName>> /\ rpc[r] # "off" /\ rsem'[r] = None
        /\ \A q \in Readers \ {r} : rpc'[q] = rpc[q] /\ rsem'[q] = rsem[q]
    BY <1>0, <1>12, GoRdLemma DEF ReaderDies, Typed
  <2> DEFINE l == IF rpc[r] = "parsing" THEN lost \cup {rsem[r]} ELSE lost
  <2>2. l \in SUBSET Ids /\ Tokens(val, l)
    BY <1>0, <1>12, <2>1 DEF ReaderDies, Typed, Handles
  <2>3. (rpc[r] = "parsing" /\ rsem[r] = k) \/ k \in lost => k \in l
    OBVIOUS
  <2> HIDE DEF l
  <2>4. val'[k] = val[k] /\ (k \in l => k \in lost')
    BY <1>v, <1>k, <2>2, TokensLemma
  <2>5. Refers(k)
    BY <2>1, IdsLemma DEF Refers
  <2> QED
    BY <2>1, <2>3, <2>4, <2>5 DEF AllAccounted, Accounted, Copying
<1>13. CASE UNCHANGED vars
  BY <1>13 DEF vars, AllAccounted, Refers, Accounted, Copying
<1> QED
  BY <1>1, <1>2, <1>3, <1>4, <1>5, <1>6, <1>7, <1>8, <1>9, <1>10, <1>11, <1>12, <1>13 DEF Next

\* Nobody waits for ever without a cause on record, with any number of servers and
\* readers, their crashes and stops: shmmap_server_init (28-49) posts what it has
\* opened, set_shm_map what it has waited for, get_shm_map likewise unless its parse
\* fails or its process dies, and that is on record.
THEOREM TokensAccountedHolds == Spec => []TokensAccounted
<1>1. Init => AllAccounted
  BY IdsLemma DEF Init, AllAccounted, Refers
<1>2. AllAccounted => TokensAccounted
  BY DEF AllAccounted, Refers, Accounted, TokensAccounted, Takers
<1> QED
  BY <1>1, <1>2, InvariantHolds, AccountedStep, PTL DEF Spec

-----------------------------------------------------------------------------
\* Only who is running listens.
Ports == port \in {Nobody} \cup {i \in Inst : Running(i)}

\* One token, in the semaphore or with who took it last, or lost.
OneToken(k) == val[k] + Cardinality(Takers(k)) = IF k \in lost THEN 0 ELSE 1

\* What a server that has met nobody finds, at each point of main.
AloneAt(i) ==
  /\ \A j \in Inst \ {i} : ~ Up(j)
  /\ pc[i] \notin {"stopping", "unlinking"} => semName = sem[i]
  /\ pc[i] = "opened" => val[sem[i]] = 0 /\ Takers(sem[i]) = {} /\ sem[i] \notin lost
  /\ pc[i] = "mapped" \/ Running(i) => OneToken(sem[i]) /\ memName = mem[i]
  /\ Running(i) => port = i
Alone == \A i \in Inst : Up(i) /\ i \notin overlapped => AloneAt(i)

LEMMA PortsStep == Typed /\ Ports /\ [Next]_vars => Ports'
<1> SUFFICES ASSUME Typed, Ports, [Next]_vars PROVE Ports'
  OBVIOUS
<1> USE DEF handles, names, readers
<1>1. ASSUME NEW i \in Inst, Begin(i) \/ OpenSem(i) PROVE Ports'
  <2>1. /\ pc[i] \in {"off", "unlinked"} /\ port' = port
        /\ \A j \in Inst \ {i} : pc'[j] = pc[j]
    BY <1>1, GoLemma DEF Begin, OpenSem
  <2> QED
    BY <2>1 DEF Ports, Running
<1>2. ASSUME NEW i \in Inst, OpenMem(i) PROVE Ports'
  <2>1. /\ pc[i] = "opened" /\ port' = port
        /\ \A j \in Inst \ {i} : pc'[j] = pc[j] \/ (pc[j] = "copying" /\ pc'[j] = "hit")
    BY <1>2 DEF OpenMem
  <2> QED
    BY <2>1 DEF Ports, Running
<1>3. ASSUME NEW i \in Inst, Listen(i) \/ FireTimer(i) \/ StartCopy(i) \/ EndCopy(i) \/ Reload(i)
      PROVE  Ports'
  <2>1. /\ pc'[i] \in {"running", "waiting", "copying"} /\ port' \in {port, i}
        /\ \A j \in Inst \ {i} : pc'[j] = pc[j]
    BY <1>3, GoLemma DEF Listen, FireTimer, StartCopy, EndCopy, Reload
  <2> QED
    BY <2>1 DEF Ports, Running
<1>4. ASSUME NEW i \in Inst, Fault(i) \/ Crash(i) \/ Stop(i) \/ Leave(i) PROVE Ports'
  <2>1. /\ \A j \in Inst \ {i} : pc'[j] = pc[j]
        /\ port' = IF port = i THEN Nobody ELSE port
    BY <1>4, GoLemma DEF Fault, Crash, Stop, Leave, Gone
  <2> QED
    BY <2>1 DEF Ports, Running
<1>5. ASSUME NEW i \in Inst, Kill(i) PROVE Ports'
  <2>1. /\ pc[i] = "stopping" /\ port' = port /\ \A j \in Inst \ {i} : pc'[j] = pc[j]
    BY <1>5, GoLemma DEF Kill
  <2> QED
    BY <2>1 DEF Ports, Running
<1>6. ASSUME UNCHANGED <<pc, port>> PROVE Ports'
  BY <1>6 DEF Ports, Running
<1>7. ASSUME NEW r \in Readers,
             ReaderOpens(r) \/ ReaderTakes(r) \/ ReaderLoads(r) \/ ReaderFails(r) \/ ReaderDies(r)
      PROVE  Ports'
  BY <1>6, <1>7 DEF ReaderOpens, ReaderTakes, ReaderLoads, ReaderFails, ReaderDies
<1> QED
  BY <1>1, <1>2, <1>3, <1>4, <1>5, <1>6, <1>7 DEF Next, vars

\* One token stays one: it is taken and given back, or lost.
LEMMA OneTokenStep ==
  ASSUME Typed, NEW k \in Ids, val'[k] \in Nat, OneToken(k),
         \/ val'[k] = val[k] /\ Takers(k)' = Takers(k) /\ (k \in lost' <=> k \in lost)
         \/ \E p : /\ p \notin Takers(k) /\ Takers(k)' = Takers(k) \cup {p}
                   /\ val'[k] = val[k] - 1 /\ lost' = lost
         \/ \E p \in Takers(k) : /\ Takers(k)' = Takers(k) \ {p}
                                 /\ val'[k] = val[k] + 1 /\ lost' = lost
         \/ \E p \in Takers(k) : /\ Takers(k)' = Takers(k) \ {p}
                                 /\ val'[k] = val[k] /\ k \in lost'
  PROVE  OneToken(k)'
<1> DEFINE T == Takers(k)
<1>1. /\ IsFiniteSet(T) /\ Cardinality(T) \in Nat /\ val[k] \in Nat
      /\ val[k] + Cardinality(T) = IF k \in lost THEN 0 ELSE 1
  BY SetsLemma DEF Typed, OneToken
<1>2. CASE val'[k] = val[k] /\ T' = T /\ (k \in lost' <=> k \in lost)
  BY <1>2 DEF OneToken
<1>3. ASSUME NEW p, p \notin T, T' = T \cup {p}, val'[k] = val[k] - 1, lost' = lost
      PROVE  OneToken(k)'
  <2>1. Cardinality(T') = Cardinality(T) + 1
    <3> HIDE DEF T
    <3> QED
      BY <1>1, <1>3, FS_AddElement
  <2>2. val'[k] + Cardinality(T') = IF k \in lost' THEN 0 ELSE 1
    <3> HIDE DEF T
    <3> QED
      BY <1>1, <1>3, <2>1
  <2> QED
    BY <2>2 DEF OneToken
<1>4. ASSUME NEW p \in T, T' = T \ {p} PROVE Cardinality(T') = Cardinality(T) - 1
  <2> HIDE DEF T
  <2> QED
    BY <1>1, <1>4, FS_RemoveElement
<1>5. ASSUME NEW p \in T, T' = T \ {p}, val'[k] = val[k] + 1, lost' = lost
      PROVE  OneToken(k)'
  <2>1. Cardinality(T') = Cardinality(T) - 1
    BY <1>4, <1>5
  <2>2. val'[k] + Cardinality(T') = IF k \in lost' THEN 0 ELSE 1
    <3> HIDE DEF T
    <3> QED
      BY <1>1, <1>5, <2>1
  <2> QED
    BY <2>2 DEF OneToken
<1>6. ASSUME NEW p \in T, T' = T \ {p}, val'[k] = val[k], k \in lost'
      PROVE  OneToken(k)'
  <2>1. Cardinality(T') = Cardinality(T) - 1 /\ Cardinality(T') \in Nat
    <3>1. IsFiniteSet(T')
      BY <1>1, <1>6, FS_RemoveElement
    <3>2. Cardinality(T') \in Nat
      BY <3>1, FS_CardinalityType
    <3> QED
      BY <1>4, <1>6, <3>2
  <2>2. val'[k] + Cardinality(T') = 0
    <3> HIDE DEF T
    <3> QED
      BY <1>1, <1>6, <2>1
  <2> QED
    BY <1>6, <2>2 DEF OneToken
<1> QED
  BY <1>2, <1>3, <1>5, <1>6

\* What a reader does leaves a server that is alone alone, and its token accounted.
LEMMA AloneReaders ==
  ASSUME Typed, Handles, Typed', Alone, NEW a \in Inst, Up(a), a \notin overlapped, NEW r \in Readers,
         ReaderOpens(r) \/ ReaderTakes(r) \/ ReaderLoads(r) \/ ReaderFails(r) \/ ReaderDies(r)
  PROVE  AloneAt(a)'
<1> USE DEF handles, names, readers
<1>1. /\ UNCHANGED <<pc, sem, mem, semName, memName, port>> /\ AloneAt(a)
      /\ \A q \in Readers \ {r} : rpc'[q] = rpc[q] /\ rsem'[q] = rsem[q]
  BY GoRdLemma DEF ReaderOpens, ReaderTakes, ReaderLoads, ReaderFails, ReaderDies, Alone, Typed
<1> DEFINE Still(k) == val'[k] = val[k] /\ Takers(k)' = Takers(k) /\ (k \in lost' <=> k \in lost)
           Moved(k) == \/ \E p : /\ p \notin Takers(k) /\ Takers(k)' = Takers(k) \cup {p}
                                 /\ val'[k] = val[k] - 1 /\ lost' = lost
                       \/ \E p \in Takers(k) : /\ Takers(k)' = Takers(k) \ {p}
                                               /\ val'[k] = val[k] + 1 /\ lost' = lost
                       \/ \E p \in Takers(k) : /\ Takers(k)' = Takers(k) \ {p}
                                               /\ val'[k] = val[k] /\ k \in lost'
<1>2. ASSUME NEW k \in Ids, k = sem[a] PROVE Still(k) \/ (Moved(k) /\ ~ (pc[a] = "opened"))
  <2>v. val \in [Ids -> Nat] /\ val[k] \in Nat /\ lost \in SUBSET Ids
    BY <1>2 DEF Typed
  <2>0. pc[a] = "opened" => val[k] = 0 /\ Takers(k) = {} /\ k \notin lost
    BY <1>1, <1>2 DEF AloneAt
  <2>1. CASE ReaderOpens(r)
    <3>1. rpc[r] = "off" /\ rpc'[r] = "ready" /\ val' = val /\ lost' = lost
      BY <2>1, GoRdLemma DEF ReaderOpens
    <3> QED
      BY <1>1, <3>1 DEF Takers, Copying
  <2>2. CASE ReaderTakes(r)
    <3>1. /\ rpc[r] = "ready" /\ rpc'[r] = "parsing" /\ val' = [val EXCEPT ![rsem[r]] = @ - 1]
          /\ lost' = lost /\ rsem' = rsem /\ val[rsem[r]] > 0 /\ rsem[r] \in Ids
      BY <2>2, GoRdLemma DEF ReaderTakes, Typed, Handles
    <3>2. CASE rsem[r] = k
      <4>1. r \notin Takers(k) /\ Takers(k)' = Takers(k) \cup {r}
        BY <1>1, <3>1, <3>2 DEF Takers, Copying
      <4>2. val'[k] = val[k] - 1 /\ ~ (val[k] = 0)
        BY <2>v, <3>1, <3>2
      <4> QED
        BY <2>0, <3>1, <4>1, <4>2
    <3>3. CASE rsem[r] # k
      <4>1. val'[k] = val[k]
        BY <2>v, <3>1, <3>3
      <4> QED
        BY <1>1, <3>1, <3>3, <4>1 DEF Takers, Copying
    <3> QED
      BY <3>2, <3>3
  <2>3. CASE ReaderLoads(r)
    <3>1. /\ rpc[r] = "parsing" /\ rpc'[r] = "ready" /\ val' = [val EXCEPT ![rsem[r]] = @ + 1]
          /\ lost' = lost /\ rsem' = rsem /\ rsem[r] \in Ids
      BY <2>3, GoRdLemma DEF ReaderLoads, Typed, Handles
    <3>2. CASE rsem[r] = k
      <4>1. r \in Takers(k) /\ Takers(k)' = Takers(k) \ {r}
        BY <1>1, <3>1, <3>2 DEF Takers, Copying
      <4>2. val'[k] = val[k] + 1
        BY <2>v, <3>1, <3>2
      <4> QED
        BY <2>0, <3>1, <4>1, <4>2
    <3>3. CASE rsem[r] # k
      <4>1. val'[k] = val[k]
        BY <2>v, <3>1, <3>3
      <4> QED
        BY <1>1, <3>1, <3>3, <4>1 DEF Takers, Copying
    <3> QED
      BY <3>2, <3>3
  <2>4. CASE ReaderFails(r)
    <3>1. /\ rpc[r] = "parsing" /\ rpc'[r] = "ready" /\ val' = val
          /\ lost' = lost \cup {rsem[r]} /\ rsem' = rsem
      BY <2>4, GoRdLemma DEF ReaderFails
    <3>2. CASE rsem[r] = k
      <4>1. r \in Takers(k) /\ Takers(k)' = Takers(k) \ {r}
        BY <1>1, <3>1, <3>2 DEF Takers, Copying
      <4>2. val'[k] = val[k] /\ k \in lost'
        BY <3>1, <3>2
      <4> QED
        BY <2>0, <4>1, <4>2
    <3>3. CASE rsem[r] # k
      BY <1>1, <3>1, <3>3 DEF Takers, Copying
    <3> QED
      BY <3>2, <3>3
  <2>5. CASE ReaderDies(r)
    <3> DEFINE l == IF rpc[r] = "parsing" THEN lost \cup {rsem[r]} ELSE lost
    <3>1. rpc'[r] = "off" /\ l \in SUBSET Ids /\ Tokens(val, l)
      BY <2>5, GoRdLemma DEF ReaderDies, Typed, Handles
    <3>2. SemKept(k)
      BY <1>1, <1>2 DEF SemKept
    <3>3. val'[k] = val[k] /\ (k \in l <=> k \in lost')
      <4> HIDE DEF l
      <4> QED
        BY <1>2, <2>v, <3>1, <3>2, TokensLemma
    <3>4. CASE rpc[r] = "parsing" /\ rsem[r] = k
      <4>1. r \in Takers(k) /\ Takers(k)' = Takers(k) \ {r}
        BY <1>1, <3>1, <3>4 DEF Takers, Copying
      <4>2. val'[k] = val[k] /\ k \in lost'
        BY <3>3, <3>4
      <4> QED
        BY <2>0, <4>1, <4>2
    <3>5. CASE ~ (rpc[r] = "parsing" /\ rsem[r] = k)
      <4>1. Takers(k)' = Takers(k)
        BY <1>1, <3>1, <3>5 DEF Takers, Copying
      <4>2. k \in lost' <=> k \in lost
        BY <3>3, <3>5
      <4> QED
        BY <3>3, <4>1, <4>2
    <3> QED
      BY <3>4, <3>5
  <2> QED
    BY <2>1, <2>2, <2>3, <2>4, <2>5
<1>3. (pc[a] = "opened" => val[sem[a]] = 0 /\ Takers(sem[a]) = {} /\ sem[a] \notin lost)'
  <2> SUFFICES ASSUME pc[a] = "opened"
               PROVE  val'[sem[a]] = 0 /\ Takers(sem[a])' = {} /\ sem[a] \notin lost'
    BY <1>1
  <2>1. PICK k \in Ids : k = sem[a]
    BY DEF Typed, Handles
  <2>2. val'[k] = 0 /\ Takers(k)' = {} /\ k \notin lost'
    BY <1>1, <1>2, <2>1 DEF AloneAt
  <2> QED
    BY <1>1, <2>1, <2>2 DEF Takers
<1>4. (pc[a] = "mapped" \/ Running(a) => OneToken(sem[a]))'
  <2> SUFFICES ASSUME pc[a] = "mapped" \/ Running(a) PROVE OneToken(sem[a])'
    BY <1>1 DEF Running
  <2>1. PICK k \in Ids : k = sem[a]
    BY DEF Typed, Handles, Running
  <2>2. OneToken(k)
    BY <1>1, <2>1 DEF AloneAt
  <2>3. val'[k] \in Nat
    BY DEF Typed
  <2>4. Still(k) \/ Moved(k)
    BY <1>2, <2>1
  <2>5. OneToken(k)'
    BY <2>2, <2>3, <2>4, OneTokenStep
  <2> QED
    BY <1>1, <2>1, <2>5 DEF OneToken, Takers
<1> QED
  BY <1>1, <1>3, <1>4 DEF AloneAt, Up, Running

LEMMA AloneStep ==
  Typed /\ Handles /\ Typed' /\ Ports /\ Alone /\ [Next]_vars => Alone'
<1> SUFFICES ASSUME Typed, Handles, Typed', Ports, Alone, [Next]_vars,
                    NEW a \in Inst, Up(a)', a \notin overlapped'
             PROVE  AloneAt(a)'
  BY DEF Alone
<1> USE DEF handles, names, readers
<1>1. ASSUME NEW i \in Inst, Begin(i) PROVE AloneAt(a)'
  <2> DEFINE others == {j \in Inst \ {i} : Up(j)}
  <2>1. /\ pc[i] = "off" /\ pc'[i] = "unlinked" /\ \A j \in Inst \ {i} : pc'[j] = pc[j]
        /\ semName' = None /\ sem' = sem
    BY <1>1, GoLemma DEF Begin
  <2>2. overlapped' = IF others = {} THEN overlapped \ {i} ELSE overlapped \cup {i} \cup others
    BY <1>1 DEF Begin, Meets
  <2>3. others = {} /\ a = i
    BY <2>1, <2>2 DEF Up
  <2>4. sem[i] = None
    BY <2>1 DEF Handles
  <2> QED
    BY <2>1, <2>3, <2>4 DEF AloneAt, Up, Running
<1>2. ASSUME NEW i \in Inst, i # a,
             \/ OpenSem(i) \/ OpenMem(i) \/ Listen(i) \/ FireTimer(i) \/ StartCopy(i) \/ EndCopy(i)
             \/ Fault(i) \/ Reload(i) \/ Crash(i) \/ Stop(i) \/ Kill(i) \/ Leave(i)
      PROVE  AloneAt(a)'
  <2>1. Up(i) /\ overlapped' = overlapped
    BY <1>2 DEF OpenSem, OpenMem, Listen, FireTimer, StartCopy, EndCopy, Fault, Reload, Crash,
                Stop, Kill, Leave, Gone, Up, Copying
  <2>2. Up(a)
    <3>1. CASE OpenMem(i)
      BY <1>2, <3>1 DEF OpenMem, Up
    <3>2. CASE ~ OpenMem(i)
      <4>1. pc'[a] = pc[a]
        BY <1>2, <3>2, GoLemma DEF OpenSem, Listen, FireTimer, StartCopy, EndCopy, Fault, Reload,
           Crash, Stop, Kill, Leave, Gone
      <4> QED
        BY <4>1 DEF Up
    <3> QED
      BY <3>1, <3>2
  <2> QED
    BY <1>2, <2>1, <2>2 DEF Alone, AloneAt
<1>3. ASSUME overlapped' = overlapped, Up(a)
      PROVE  AloneAt(a) /\ port \in {Nobody, a}
  <2>1. AloneAt(a)
    BY <1>3 DEF Alone
  <2> QED
    BY <2>1 DEF AloneAt, Ports, Running, Up
<1>4. ASSUME OpenSem(a) PROVE AloneAt(a)'
  <2>1. /\ pc[a] = "unlinked" /\ pc'[a] = "opened" /\ \A j \in Inst \ {a} : pc'[j] = pc[j]
        /\ overlapped' = overlapped /\ mem' = mem /\ rpc' = rpc /\ rsem' = rsem
    BY <1>4, GoLemma DEF OpenSem
  <2>2. AloneAt(a) /\ semName = None
    BY <1>3, <2>1 DEF Up, AloneAt, Handles
  <2>3. PICK k \in Ids :
          /\ k = UnusedSem /\ sem' = [sem EXCEPT ![a] = k] /\ semName' = k
          /\ val' = [val EXCEPT ![k] = 0] /\ lost' = lost \ {k}
    BY <1>4, <2>2, UnusedSemLemma DEF OpenSem
  <2>4. (\A i \in Inst : sem[i] # k) /\ (\A r \in Readers : rsem[r] # k)
    BY <2>2, <2>3, UnusedSemLemma
  <2>5. val'[k] = 0 /\ k \notin lost' /\ sem'[a] = k /\ \A j \in Inst \ {a} : sem'[j] = sem[j]
    BY <2>3 DEF Typed
  <2>6. Takers(k)' = {}
    BY <2>1, <2>4, <2>5 DEF Takers, Copying
  <2>7. Takers(sem[a])' = {}
    BY <2>5, <2>6 DEF Takers
  <2> QED
    BY <2>1, <2>2, <2>3, <2>5, <2>7 DEF AloneAt, Up, Running
<1>5. ASSUME OpenMem(a) PROVE AloneAt(a)'
  <2>1. /\ pc[a] = "opened" /\ overlapped' = overlapped
        /\ UNCHANGED <<sem, rpc, rsem, semName, lost>>
    BY <1>5 DEF OpenMem
  <2>2. AloneAt(a)
    BY <1>3, <2>1 DEF Up
  <2>3. PICK m \in Ids :
          /\ mem' = [mem EXCEPT ![a] = m] /\ memName' = m
          /\ pc'  = [j \in Inst |-> IF j = a THEN "mapped"
                                   ELSE IF pc[j] = "copying" /\ mem[j] = m THEN "hit" ELSE pc[j]]
    <3> DEFINE m == IF memName = None THEN UnusedMem ELSE memName
    <3>1. m \in Ids
      BY UnusedMemLemma DEF Typed
    <3> QED
      BY <1>5, <3>1, Zenon DEF OpenMem
  <2>4. pc'[a] = "mapped" /\ \A j \in Inst \ {a} : pc'[j] = pc[j]
    BY <2>2, <2>3 DEF AloneAt, Up
  <2>5. PICK k \in Ids : k = sem[a]
    BY <2>1 DEF Typed, Handles
  <2>6. val' = [val EXCEPT ![k] = @ + 1]
    BY <1>5, <2>5 DEF OpenMem
  <2>7. val[k] = 0 /\ Takers(k) = {} /\ k \notin lost
    BY <2>1, <2>2, <2>5 DEF AloneAt
  <2>8. val'[k] = 1
    BY <2>6, <2>7 DEF Typed
  <2>9. Takers(k)' = {}
    BY <2>1, <2>4, <2>7 DEF Takers, Copying
  <2>10. OneToken(k)'
    BY <2>1, <2>7, <2>8, <2>9, FS_EmptySet DEF OneToken
  <2>11. OneToken(sem[a])'
    BY <2>1, <2>5, <2>10 DEF OneToken, Takers
  <2> QED
    BY <2>1, <2>2, <2>3, <2>4, <2>11 DEF AloneAt, Up, Running, Typed
<1>6. ASSUME Listen(a) PROVE AloneAt(a)'
  <2>1. /\ pc[a] = "mapped" /\ pc'[a] = "running" /\ \A j \in Inst \ {a} : pc'[j] = pc[j]
        /\ UNCHANGED <<sem, mem, rpc, rsem, semName, memName, val, lost, overlapped>>
        /\ port' = IF port = Nobody THEN a ELSE port
    BY <1>6, GoLemma DEF Listen
  <2>2. AloneAt(a) /\ port \in {Nobody, a}
    BY <1>3, <2>1 DEF Up
  <2>3. OneToken(sem[a])'
    <3>1. OneToken(sem[a])
      BY <2>1, <2>2 DEF AloneAt
    <3>2. Takers(sem[a])' = Takers(sem[a])
      BY <2>1 DEF Takers, Copying
    <3> QED
      BY <2>1, <3>1, <3>2 DEF OneToken
  <2> QED
    BY <2>1, <2>2, <2>3 DEF AloneAt, Up, Running
<1>7. ASSUME FireTimer(a) PROVE AloneAt(a)'
  <2>1. /\ pc[a] = "running" /\ pc'[a] = "waiting" /\ \A j \in Inst \ {a} : pc'[j] = pc[j]
        /\ UNCHANGED <<sem, mem, rpc, rsem, semName, memName, val, lost, port, overlapped>>
    BY <1>7, GoLemma DEF FireTimer
  <2>2. AloneAt(a)
    BY <1>3, <2>1 DEF Up
  <2>3. OneToken(sem[a])'
    <3>1. OneToken(sem[a])
      BY <2>1, <2>2 DEF AloneAt, Running
    <3>2. Takers(sem[a])' = Takers(sem[a])
      BY <2>1 DEF Takers, Copying
    <3> QED
      BY <2>1, <3>1, <3>2 DEF OneToken
  <2> QED
    BY <2>1, <2>2, <2>3 DEF AloneAt, Up, Running
<1>8. ASSUME StartCopy(a) PROVE AloneAt(a)'
  <2>1. /\ pc[a] = "waiting" /\ pc'[a] = "copying" /\ \A j \in Inst \ {a} : pc'[j] = pc[j]
        /\ UNCHANGED <<sem, mem, rpc, rsem, semName, memName, lost, port, overlapped>>
    BY <1>8, GoLemma DEF StartCopy
  <2>2. AloneAt(a)
    BY <1>3, <2>1 DEF Up
  <2>3. PICK k \in Ids : k = sem[a]
    BY <2>1 DEF Typed, Handles
  <2>4. val' = [val EXCEPT ![k] = @ - 1] /\ OneToken(k)
    BY <1>8, <2>1, <2>2, <2>3 DEF StartCopy, AloneAt, Running
  <2>5. val'[k] = val[k] - 1 /\ val'[k] \in Nat
    BY <2>4 DEF Typed
  <2>6. a \notin Takers(k) /\ Takers(k)' = Takers(k) \cup {a}
    BY <2>1, <2>3, InstAssumption DEF Takers, Copying
  <2>7. OneToken(k)'
    BY <2>1, <2>4, <2>5, <2>6, OneTokenStep
  <2>8. OneToken(sem[a])'
    BY <2>1, <2>3, <2>7 DEF OneToken, Takers
  <2> QED
    BY <2>1, <2>2, <2>8 DEF AloneAt, Up, Running
<1>9. ASSUME EndCopy(a) PROVE AloneAt(a)'
  <2>1. /\ Copying(a) /\ pc'[a] = "running" /\ \A j \in Inst \ {a} : pc'[j] = pc[j]
        /\ UNCHANGED <<sem, mem, rpc, rsem, semName, memName, lost, port, overlapped>>
    BY <1>9, GoLemma DEF EndCopy
  <2>2. AloneAt(a)
    BY <1>3, <2>1 DEF Up, Copying
  <2>3. PICK k \in Ids : k = sem[a]
    BY <2>1 DEF Typed, Handles, Copying
  <2>4. val' = [val EXCEPT ![k] = @ + 1] /\ OneToken(k)
    BY <1>9, <2>1, <2>2, <2>3 DEF EndCopy, AloneAt, Running, Copying
  <2>5. val'[k] = val[k] + 1 /\ val'[k] \in Nat
    BY <2>4 DEF Typed
  <2>6. a \in Takers(k) /\ Takers(k)' = Takers(k) \ {a}
    BY <2>1, <2>3, InstAssumption DEF Takers, Copying
  <2>7. OneToken(k)'
    BY <2>1, <2>4, <2>5, <2>6, OneTokenStep
  <2>8. OneToken(sem[a])'
    BY <2>1, <2>3, <2>7 DEF OneToken, Takers
  <2> QED
    BY <2>1, <2>2, <2>8 DEF AloneAt, Up, Running, Copying
<1>10. ASSUME UNCHANGED <<pc, handles, readers, names, val, port, overlapped, lost>>
       PROVE  AloneAt(a)'
  <2>1. AloneAt(a)
    BY <1>3, <1>10 DEF Up
  <2>2. OneToken(sem[a])' <=> OneToken(sem[a])
    BY <1>10 DEF OneToken, Takers, Copying
  <2>3. Takers(sem[a])' = Takers(sem[a])
    BY <1>10 DEF Takers, Copying
  <2> QED
    BY <1>10, <2>1, <2>2, <2>3 DEF AloneAt, Up, Running
<1>11. ASSUME Reload(a) PROVE AloneAt(a)'
  BY <1>10, <1>11 DEF Reload
<1>12. ASSUME Fault(a) \/ Crash(a) \/ Leave(a) PROVE FALSE
  BY <1>12, GoLemma DEF Fault, Crash, Leave, Gone, Up
<1>13. ASSUME Stop(a) PROVE AloneAt(a)'
  <2>1. /\ pc[a] = "running" /\ pc'[a] = "stopping" /\ \A j \in Inst \ {a} : pc'[j] = pc[j]
        /\ overlapped' = overlapped
    BY <1>13, GoLemma DEF Stop
  <2> QED
    BY <1>3, <2>1 DEF AloneAt, Up, Running
<1>14. ASSUME Kill(a) PROVE AloneAt(a)'
  <2>1. /\ pc[a] = "stopping" /\ pc'[a] = "unlinking" /\ \A j \in Inst \ {a} : pc'[j] = pc[j]
        /\ overlapped' = overlapped
    BY <1>14, GoLemma DEF Kill
  <2> QED
    BY <1>3, <2>1 DEF AloneAt, Up, Running
<1>15. ASSUME NEW r \in Readers,
              ReaderOpens(r) \/ ReaderTakes(r) \/ ReaderLoads(r) \/ ReaderFails(r) \/ ReaderDies(r)
       PROVE  AloneAt(a)'
  <2>1. UNCHANGED <<pc, overlapped>>
    BY <1>15 DEF ReaderOpens, ReaderTakes, ReaderLoads, ReaderFails, ReaderDies
  <2>2. Up(a) /\ a \notin overlapped
    BY <2>1 DEF Up
  <2> QED
    BY <1>15, <2>2, AloneReaders
<1>16. CASE UNCHANGED vars
  BY <1>10, <1>16 DEF vars
<1> QED
  BY <1>1, <1>2, <1>4, <1>5, <1>6, <1>7, <1>8, <1>9, <1>11, <1>12, <1>13, <1>14, <1>15, <1>16 DEF Next

\* A server that has run alone since it started serves, whatever the ones before it
\* left behind: shmmap_server_init (28-49) takes the names over and starts from a
\* semaphore of its own, socket_listen finds the port free, and no reader of an older
\* server can take its token: it is there, with who copies or parses, or a failed parse
\* or a dead process has kept it (shmmap.c 104-106, 123-133).
THEOREM AloneServesHolds == Spec => []AloneServes
<1>1. Init => Ports /\ Alone
  BY DEF Init, Ports, Alone, Up
<1>2. IInv /\ IInv' /\ Ports /\ Alone /\ [Next]_vars => (Ports /\ Alone)'
  BY PortsStep, AloneStep DEF IInv
<1>3. Alone => AloneServes
  BY DEF Alone, AloneAt, AloneServes, OneToken, Running, Up
<1> QED
  BY <1>1, <1>2, <1>3, InvariantHolds, PTL DEF Spec

-----------------------------------------------------------------------------
(***************************************************************************)
(* PidFile: the lock of a file is held by one client at work that has it   *)
(* open (Locks, Owners), so that two at work have two files.  As long as   *)
(* no stop has been asked for, by SIGINT or by the init script, nobody has *)
(* removed the name, and whatever file a client has open is the named one  *)
(* (Named): then there is no second file.                                  *)
(***************************************************************************)
USE DaemonsAssumption, BoundsAssumption DEF Daemons, Files

\* What each daemon has open, by where it is.
Locks ==
  /\ \A d \in Daemons : at[d] \in {"off", "closed"} => fd[d] = 0
  /\ \A d \in Clients :
       /\ at[d] \in {"opened", "running", "unlocked"} => fd[d] \in Files
       /\ at[d] = "running" => owner[fd[d]] = d
  /\ \A d \in Others : fd[d] = 0 /\ at[d] \in {"off", "running"}

Owners ==
  \A f \in Files : owner[f] # NoOwner =>
    owner[f] \in Clients /\ at[owner[f]] = "running" /\ fd[owner[f]] = f

\* The name still stands for every file that is open.
Named ==
  /\ name <= files
  /\ ~ StopAsked =>
       initd = "off" /\ \A d \in Clients : at[d] \notin {"unlocked", "closed"} /\ fd[d] \in {0, name}

LockInv == PidTypeOK /\ Locks /\ Owners /\ Named

LEMMA InitLockInv == PidInit => LockInv
<1> SUFFICES ASSUME PidInit PROVE LockInv
  OBVIOUS
<1>1. PidTypeOK
  BY DEF PidInit, PidTypeOK
<1>2. Locks /\ Owners
  BY DEF PidInit, Locks, Owners
<1>3. Named
  BY DEF PidInit, Named
<1> QED
  BY <1>1, <1>2, <1>3 DEF LockInv

LEMMA StepLockInv == LockInv /\ [PidNext]_pidVars => LockInv'
<1> SUFFICES ASSUME LockInv, [PidNext]_pidVars PROVE LockInv'
  OBVIOUS
<1>0. PidTypeOK /\ Locks /\ Owners /\ Named
  BY DEF LockInv
<1>g. ASSUME NEW d \in Daemons, NEW s, GoTo(d, s)
      PROVE  at'[d] = s /\ \A e \in Daemons \ {d} : at'[e] = at[e]
  BY <1>0, <1>g DEF GoTo, PidTypeOK
<1>1. ASSUME NEW d \in Clients, Open(d) PROVE LockInv'
  <2>1. PICK f \in Files : /\ fd' = [fd EXCEPT ![d] = f] /\ name' = f
                           /\ (name # 0 /\ f = name /\ files' = files)
                              \/ (name = 0 /\ f = files + 1 /\ files' = f)
    BY <1>0, <1>1 DEF Open, PidTypeOK
  <2>2. /\ at[d] = "off" /\ at'[d] = "opened" /\ \A e \in Daemons \ {d} : at'[e] = at[e]
        /\ UNCHANGED <<owner, initd, stops>> /\ at' = [at EXCEPT ![d] = "opened"]
    BY <1>1, <1>g DEF Open, GoTo
  <2>3. fd'[d] = f /\ \A e \in Daemons \ {d} : fd'[e] = fd[e]
    BY <1>0, <2>1 DEF PidTypeOK
  <2>4. PidTypeOK'
    BY <1>0, <2>1, <2>2 DEF PidTypeOK
  <2>5. Locks'
    BY <1>0, <2>2, <2>3 DEF Locks
  <2>6. Owners'
    BY <1>0, <2>2, <2>3 DEF Owners
  <2>7. Named'
    BY <1>0, <2>1, <2>2, <2>3 DEF Named, StopAsked, PidTypeOK
  <2> QED
    BY <2>4, <2>5, <2>6, <2>7 DEF LockInv
<1>2. ASSUME NEW d \in Clients, Lock(d) PROVE LockInv'
  <2>1. /\ at[d] = "opened" /\ at'[d] = "running" /\ \A e \in Daemons \ {d} : at'[e] = at[e]
        /\ UNCHANGED <<name, files, fd, initd, stops>> /\ at' = [at EXCEPT ![d] = "running"]
        /\ owner[fd[d]] = NoOwner /\ owner' = [owner EXCEPT ![fd[d]] = d]
    BY <1>2, <1>g DEF Lock, GoTo
  <2>2. fd[d] \in Files
    BY <1>0, <2>1 DEF Locks
  <2>3. owner'[fd[d]] = d /\ \A f \in Files \ {fd[d]} : owner'[f] = owner[f]
    BY <1>0, <2>1, <2>2 DEF PidTypeOK
  <2>4. PidTypeOK'
    BY <1>0, <2>1, <2>2 DEF PidTypeOK
  <2>5. Locks'
    <3>1. ASSUME NEW e \in Clients \ {d}, at[e] = "running" PROVE fd[e] # fd[d]
      BY <1>0, <2>1, <3>1 DEF Locks
    <3> QED
      BY <1>0, <2>1, <2>2, <2>3, <3>1 DEF Locks
  <2>6. Owners'
    BY <1>0, <2>1, <2>2, <2>3 DEF Owners
  <2>7. Named'
    BY <1>0, <2>1 DEF Named, StopAsked
  <2> QED
    BY <2>4, <2>5, <2>6, <2>7 DEF LockInv
<1>3. ASSUME NEW d \in Clients, Abort(d) PROVE LockInv'
  <2>1. /\ at[d] = "opened" /\ at'[d] = "off" /\ \A e \in Daemons \ {d} : at'[e] = at[e]
        /\ UNCHANGED <<name, files, owner, initd, stops>> /\ at' = [at EXCEPT ![d] = "off"]
        /\ fd' = [fd EXCEPT ![d] = 0]
    BY <1>3, <1>g DEF Abort, GoTo
  <2>2. fd'[d] = 0 /\ \A e \in Daemons \ {d} : fd'[e] = fd[e]
    BY <1>0, <2>1 DEF PidTypeOK
  <2>3. PidTypeOK'
    BY <1>0, <2>1 DEF PidTypeOK
  <2>4. Locks' /\ Owners' /\ Named'
    BY <1>0, <2>1, <2>2 DEF Locks, Owners, Named, StopAsked
  <2> QED
    BY <2>3, <2>4 DEF LockInv
<1>4. ASSUME NEW d \in Clients, Unlock(d) PROVE LockInv'
  <2>1. /\ at[d] = "running" /\ at'[d] = "unlocked" /\ \A e \in Daemons \ {d} : at'[e] = at[e]
        /\ UNCHANGED <<name, files, fd, initd>> /\ at' = [at EXCEPT ![d] = "unlocked"]
        /\ owner' = [f \in Files |-> IF f = fd[d] THEN NoOwner ELSE owner[f]]
        /\ stops' = stops \cup {d}
    BY <1>4, <1>g DEF Unlock, GoTo
  <2>2. fd[d] \in Files /\ owner[fd[d]] = d
    BY <1>0, <2>1 DEF Locks
  <2>3. PidTypeOK'
    BY <1>0, <2>1 DEF PidTypeOK
  <2>4. Locks'
    BY <1>0, <2>1, <2>2 DEF Locks
  <2>5. Owners' /\ Named'
    BY <1>0, <2>1, <2>2 DEF Owners, Named, StopAsked
  <2> QED
    BY <2>3, <2>4, <2>5 DEF LockInv
<1>5. ASSUME NEW d \in Clients, Close(d) PROVE LockInv'
  <2>1. /\ at[d] = "unlocked" /\ at'[d] = "closed" /\ \A e \in Daemons \ {d} : at'[e] = at[e]
        /\ UNCHANGED <<name, files, owner, initd, stops>> /\ at' = [at EXCEPT ![d] = "closed"]
        /\ fd' = [fd EXCEPT ![d] = 0]
    BY <1>5, <1>g DEF Close, GoTo
  <2>2. fd'[d] = 0 /\ \A e \in Daemons \ {d} : fd'[e] = fd[e]
    BY <1>0, <2>1 DEF PidTypeOK
  <2>3. PidTypeOK'
    BY <1>0, <2>1 DEF PidTypeOK
  <2>4. Locks' /\ Owners' /\ Named'
    BY <1>0, <2>1, <2>2 DEF Locks, Owners, Named, StopAsked
  <2> QED
    BY <2>3, <2>4 DEF LockInv
<1>6. ASSUME NEW d \in Clients, Unlink(d) PROVE LockInv'
  <2>1. /\ at[d] = "closed" /\ at'[d] = "off" /\ \A e \in Daemons \ {d} : at'[e] = at[e]
        /\ UNCHANGED <<files, owner, fd, initd, stops>> /\ at' = [at EXCEPT ![d] = "off"] /\ name' = 0
    BY <1>6, <1>g DEF Unlink, GoTo
  <2>2. PidTypeOK'
    BY <1>0, <2>1 DEF PidTypeOK
  <2>3. Locks' /\ Owners'
    BY <1>0, <2>1 DEF Locks, Owners
  <2>4. Named'
    BY <1>0, <2>1 DEF Named, StopAsked, PidTypeOK
  <2> QED
    BY <2>2, <2>3, <2>4 DEF LockInv
<1>7. ASSUME NEW d \in Others, StartUnlocked(d) \/ StopUnlocked(d) PROVE LockInv'
  <2>1. PICK s \in {"off", "running"} : GoTo(d, s)
    BY <1>7 DEF StartUnlocked, StopUnlocked
  <2>2. at'[d] = s /\ (\A e \in Daemons \ {d} : at'[e] = at[e]) /\ at' = [at EXCEPT ![d] = s]
    BY <1>g, <2>1 DEF GoTo
  <2>3. /\ UNCHANGED <<name, files, owner, fd, initd>> /\ stops' \in {stops, stops \cup {d}}
    BY <1>7 DEF StartUnlocked, StopUnlocked
  <2>4. PidTypeOK'
    BY <1>0, <2>2, <2>3 DEF PidTypeOK
  <2>5. Locks' /\ Owners' /\ Named'
    BY <1>0, <2>2, <2>3 DEF Locks, Owners, Named, StopAsked
  <2> QED
    BY <2>4, <2>5 DEF LockInv
<1>8. ASSUME NEW d \in Daemons, Die(d) PROVE LockInv'
  <2>1. /\ at'[d] = "off" /\ \A e \in Daemons \ {d} : at'[e] = at[e]
        /\ UNCHANGED <<name, files, initd, stops>> /\ at' = [at EXCEPT ![d] = "off"]
        /\ owner' = [f \in Files |-> IF owner[f] = d THEN NoOwner ELSE owner[f]]
        /\ fd' = [fd EXCEPT ![d] = 0]
    BY <1>8, <1>g DEF Die, GoTo
  <2>2. fd'[d] = 0 /\ \A e \in Daemons \ {d} : fd'[e] = fd[e]
    BY <1>0, <2>1 DEF PidTypeOK
  <2>3. PidTypeOK'
    BY <1>0, <2>1 DEF PidTypeOK
  <2>4. Locks'
    BY <1>0, <2>1, <2>2 DEF Locks
  <2>5. Owners' /\ Named'
    BY <1>0, <2>1, <2>2 DEF Owners, Named, StopAsked
  <2> QED
    BY <2>3, <2>4, <2>5 DEF LockInv
<1>9. CASE InitdKill
  <2>1. StopAsked' /\ PidTypeOK'
    BY <1>0, <1>9 DEF InitdKill, StopAsked, PidTypeOK
  <2> QED
    BY <1>0, <1>9, <2>1 DEF InitdKill, LockInv, Locks, Owners, Named
<1>10. CASE InitdRemove
  <2>1. StopAsked /\ StopAsked'
    BY <1>0, <1>10 DEF InitdRemove, StopAsked, Named
  <2>0. PidTypeOK'
    BY <1>0, <1>10 DEF InitdRemove, PidTypeOK
  <2>2. Locks' /\ Owners'
    BY <1>0, <1>10 DEF InitdRemove, Locks, Owners
  <2>3. Named'
    BY <1>0, <1>10, <2>1 DEF InitdRemove, Named, PidTypeOK
  <2> QED
    BY <2>0, <2>2, <2>3 DEF LockInv
<1>11. CASE UNCHANGED pidVars
  BY <1>0, <1>11 DEF pidVars, StopAsked, LockInv, PidTypeOK, Locks, Owners, Named, StopAsked
<1> QED
  BY <1>1, <1>2, <1>3, <1>4, <1>5, <1>6, <1>7, <1>8, <1>9, <1>10, <1>11 DEF PidNext

\* Where the invariant holds at the start it holds for ever: no start, stop or death
\* of a daemon leaves it.
THEOREM LockInvHolds == PidSpec => []LockInv
  BY InitLockInv, StepLockInv, PTL DEF PidSpec

\* The variables keep their types: no more files than the bound, and a pid_fd for
\* each daemon (daemonize.c, one pid_fd per process).
THEOREM PidFileTypeCorrect == PidSpec => []PidTypeOK
<1>1. LockInv => PidTypeOK
  BY DEF LockInv
<1> QED
  BY <1>1, LockInvHolds, PTL

\* What the lock on the pid file gives (daemonize.c 60-80, signal_cb_int,
\* pfstrase_initd.sh 16-20): two clients at work have locked two files, only one of
\* which has the name, and a stop has been asked for, by SIGINT or by the script.
THEOREM SecondOnlyAfterStopHolds == PidSpec => []SecondOnlyAfterStop
<1>1. ASSUME LockInv PROVE SecondOnlyAfterStop
  <2> SUFFICES ASSUME NEW d \in Clients, NEW e \in Clients,
                      at[d] = "running", at[e] = "running", d # e
               PROVE  fd[d] # fd[e] /\ (fd[d] # name \/ fd[e] # name) /\ StopAsked
    BY DEF SecondOnlyAfterStop
  <2>1. fd[d] \in Files /\ fd[e] \in Files /\ fd[d] # fd[e]
    BY <1>1 DEF LockInv, Locks
  <2> QED
    BY <1>1, <2>1 DEF LockInv, Named
<1> QED
  BY <1>1, LockInvHolds, PTL
===============================================================================
