---------------------------- MODULE ShmMapProofs ----------------------------
(***************************************************************************)
(* Theorems about ShmMap, for any set of readers, any number of server     *)
(* starts and documents, and any failures.                                 *)
(*                                                                         *)
(* TokenConserved and SemaphoreExclusion are inductive together once it is *)
(* known where the processes can be: what an open descriptor refers to,    *)
(* and that the current server's semaphore does not exist before its       *)
(* sem_open.  That is Positions.                                           *)
(*                                                                         *)
(* What the readers see needs more: which documents a memory can hold and  *)
(* which a reader can have loaded, given where the copy stands and whose   *)
(* semaphore is held.  That is Contents; ShmMap implements Board by it.    *)
(***************************************************************************)
EXTENDS ShmMap, TLAPS

Running == ServerPc \ {"down", "unlinked", "semopen"}  \* the server has fd_shm

\* Where the processes can be, and which objects can exist by then.
Positions ==
  /\ starts = 0 => spc = "down"
  /\ semName <= starts
  /\ spc \in Running => sshm # 0
  /\ \A k \in Boots : k > starts => fate[k] = "none"
  /\ spc = "unlinked" => fate[starts] = "none"
  /\ \A r \in Readers :
       /\ rpc[r] # "off" => rsem[r] # 0
       /\ rpc[r] \in {"idle", "waiting", "parsing"} => rshm[r] # 0

IInv == TypeOK /\ Positions /\ TokenConserved /\ SemaphoreExclusion

USE BoundsAssumption

LEMMA InitIInv == Init => IInv
  BY DEF Init, IInv, TypeOK, Positions, TokenConserved, SemaphoreExclusion, Held,
         ServerHolds, ReaderHolds, Boots, Images, Image, NoImage, Booting, Writing,
         ServerPc, ReaderPc, Fates, Losses, Running

LEMMA ImagesLemma ==
  /\ \A m \in Images, k \in {"unsized", "blank", "torn", "doc"} :
       [m EXCEPT !.kind = k] \in Images
  /\ \A k \in {"unsized", "blank", "torn", "doc"}, b \in 0 .. MaxStarts, n \in 0 .. MaxVer :
       Image(k, b, n) \in Images
  /\ NoImage \in Images /\ Garbage \in Images
  BY DEF Images, Image, NoImage, Garbage

\* Every step keeps the types: the value of a semaphore is never above 1 because
\* whoever posts it holds it.
LEMMA TypeStep == IInv /\ [Next]_vars => TypeOK'
<1> SUFFICES ASSUME IInv, [Next]_vars PROVE TypeOK'
  OBVIOUS
<1> USE DEF kernelVars, serverVars, readerVars
<1>0. TypeOK /\ Positions /\ TokenConserved
  BY DEF IInv
<1>a. spc # "down" => starts \in Boots
  BY <1>0 DEF TypeOK, Positions, Boots
<1>b. spc \in Running => sshm \in Boots
  BY <1>0 DEF TypeOK, Positions, Boots
<1>c. ASSUME NEW r \in Readers, rpc[r] # "off" PROVE rsem[r] \in Boots
  BY <1>0, <1>c DEF TypeOK, Positions, Boots
<1>d. ASSUME NEW r \in Readers, rpc[r] = "parsing" PROVE rshm[r] \in Boots
  BY <1>0, <1>d DEF TypeOK, Positions, Boots
<1>e. "none" \in Fates /\ "live" \in Fates /\ Losses \subseteq Fates
  BY DEF Fates
<1>f. NoImage \in Images
  BY ImagesLemma
<1>1. CASE SrvNext
  <2> USE DEF ServerPc, Booting, Writing
  <2>1. CASE SrvStart
    BY <1>0, <2>1 DEF SrvStart, TypeOK
  <2>2. CASE SrvSemOpen
    BY <1>0, <1>a, <1>e, <2>2 DEF SrvSemOpen, TypeOK
  <2>3. CASE SrvShmOpen
    <3>1. shmName' \in Boots
      BY <1>0, <1>a, <2>3 DEF SrvShmOpen, TypeOK, Boots
    <3>2. Image("unsized", starts, 0) \in Images
      BY <1>0, ImagesLemma DEF TypeOK
    <3> QED
      BY <1>0, <2>3, <3>1, <3>2 DEF SrvShmOpen, TypeOK, Boots
  <2>4. CASE SrvShmSize \/ SrvCopyBegin
    <3>1. /\ [mem[sshm] EXCEPT !.kind = "blank"] \in Images
          /\ [mem[sshm] EXCEPT !.kind = "torn"] \in Images
      BY <1>0, <1>b, <2>4, ImagesLemma DEF SrvShmSize, SrvCopyBegin, TypeOK, Running
    <3> QED
      BY <1>0, <1>b, <2>4, <3>1 DEF SrvShmSize, SrvCopyBegin, TypeOK
  <2>5. CASE SrvShmMap \/ SrvTick \/ SrvRpc \/ SrvStop \/ SrvExit
    BY <1>0, <2>5 DEF SrvShmMap, SrvTick, SrvRpc, SrvStop, SrvExit, TypeOK
  <2>6. CASE SrvInitPost \/ SrvPost
    <3>1. starts \in Boots /\ sem[starts] = 0
      BY <1>0, <1>a, <2>6
      DEF SrvInitPost, SrvPost, TypeOK, TokenConserved, Held, ServerHolds
    <3> QED
      BY <1>0, <2>6, <3>1 DEF SrvInitPost, SrvPost, TypeOK
  <2>7. CASE SrvInitFail \/ SrvKill
    <3>1. fate' \in [Boots -> Fates]
      BY <1>0, <1>e, <2>7 DEF SrvInitFail, SrvKill, TypeOK, Losses
    <3> QED
      BY <1>0, <2>7, <3>1 DEF SrvInitFail, SrvKill, TypeOK
  <2>8. CASE SrvWait
    <3>0. sem[starts] = 1
      BY <1>0, <1>a, <2>8 DEF SrvWait, TypeOK
    <3>1. sem' = [sem EXCEPT ![starts] = 0]
      BY <2>8, <3>0 DEF SrvWait
    <3>2. sem' \in [Boots -> {0, 1}]
      BY <1>0, <3>1 DEF TypeOK
    <3>3. spc' = "locked" /\ UNCHANGED <<semName, shmName, mem, starts, sshm, ver, readerVars, fate>>
      BY <2>8 DEF SrvWait
    <3> QED
      BY <1>0, <3>2, <3>3 DEF TypeOK
  <2>9. CASE SrvCopyEnd
    <3>1. Image("doc", starts, ver) \in Images
      BY <1>0, ImagesLemma DEF TypeOK
    <3> QED
      BY <1>0, <2>9, <3>1 DEF SrvCopyEnd, TypeOK
  <2> QED
    BY <1>1, <2>1, <2>2, <2>3, <2>4, <2>5, <2>6, <2>7, <2>8, <2>9 DEF SrvNext
<1>2. ASSUME NEW r \in Readers, RdNext(r) PROVE TypeOK'
  <2> USE DEF ReaderPc
  <2>1. CASE RdSemOpen(r) \/ RdShmOpen(r) \/ RdTick(r)
    BY <1>0, <2>1 DEF RdSemOpen, RdShmOpen, RdTick, TypeOK
  <2>2. CASE RdNoShm(r) \/ RdQuit(r)
    BY <1>0, <1>f, <2>2 DEF RdNoShm, RdQuit, Gone, TypeOK
  <2>3. CASE RdKill(r) \/ RdParseFail(r) \/ RdFault(r)
    <3>1. fate' \in [Boots -> Fates]
      BY <1>0, <1>e, <2>3 DEF RdKill, RdParseFail, RdFault, TypeOK, Losses
    <3> QED
      BY <1>0, <1>f, <2>3, <3>1 DEF RdKill, RdParseFail, RdFault, Gone, TypeOK
  <2>4. CASE RdWait(r)
    <3>0. sem[rsem[r]] = 1
      BY <1>0, <1>c, <2>4 DEF RdWait, TypeOK
    <3>1. sem' = [sem EXCEPT ![rsem[r]] = 0]
      BY <2>4, <3>0 DEF RdWait
    <3>3. sem' \in [Boots -> {0, 1}]
      BY <1>0, <3>1 DEF TypeOK
    <3>2. mem[rshm[r]] \in Images
      BY <1>0, <2>4 DEF RdWait, TypeOK, Positions, Boots
    <3>4. /\ rpc' = [rpc EXCEPT ![r] = "parsing"] /\ rsaw' = [rsaw EXCEPT ![r] = mem[rshm[r]]]
          /\ UNCHANGED <<semName, shmName, mem, serverVars, rsem, rshm, view, fate>>
      BY <2>4 DEF RdWait
    <3> QED
      BY <1>0, <3>2, <3>3, <3>4 DEF TypeOK
  <2>5. CASE RdLoad(r)
    <3>1. sem[rsem[r]] = 0
      BY <1>0, <1>c, <2>5 DEF RdLoad, TypeOK, TokenConserved, Held, ReaderHolds
    <3>4. sem' = [sem EXCEPT ![rsem[r]] = 1]
      BY <2>5, <3>1 DEF RdLoad
    <3>7. sem' \in [Boots -> {0, 1}]
      BY <1>0, <3>4 DEF TypeOK
    <3>2. mem[rshm[r]] \in Images
      BY <1>0, <1>d, <2>5 DEF RdLoad, TypeOK
    <3>3. MayParseTo(rsaw[r], mem[rshm[r]]) \subseteq Images
      BY <1>0, <3>2, ImagesLemma DEF MayParseTo, TypeOK
    <3>5. view' \in [Readers -> Images]
      BY <1>0, <2>5, <3>3 DEF RdLoad, TypeOK
    <3>6. /\ rpc' = [rpc EXCEPT ![r] = "idle"] /\ rsaw' = [rsaw EXCEPT ![r] = NoImage]
          /\ UNCHANGED <<semName, shmName, mem, serverVars, rsem, rshm, fate>>
      BY <2>5 DEF RdLoad
    <3> QED
      BY <1>0, <1>f, <3>7, <3>5, <3>6 DEF TypeOK
  <2> QED
    BY <1>2, <2>1, <2>2, <2>3, <2>4, <2>5 DEF RdNext
<1>3. CASE UNCHANGED vars
  BY <1>0, <1>3 DEF vars, TypeOK
<1> QED
  BY <1>1, <1>2, <1>3 DEF Next

\* Every step keeps Positions.
LEMMA PositionsStep == IInv /\ [Next]_vars => Positions'
<1> SUFFICES ASSUME IInv, [Next]_vars PROVE Positions'
  OBVIOUS
<1> USE DEF kernelVars, serverVars, readerVars
<1>0. TypeOK /\ Positions /\ TokenConserved
  BY DEF IInv
<1>a. \A k \in Boots : k > starts => fate[k] = "none"
  BY <1>0 DEF Positions
<1>1. CASE SrvNext
  <2> USE DEF ServerPc, Booting, Writing, Running
  <2>1. CASE SrvStart
    <3>1. starts' \in Boots /\ starts' > starts /\ spc' = "unlinked" /\ semName' = 0
      BY <1>0, <2>1 DEF SrvStart, TypeOK, Boots
    <3>2. fate'[starts'] = "none"
      BY <2>1, <3>1, <1>a DEF SrvStart
    <3> QED
      BY <1>0, <2>1, <3>1, <3>2 DEF SrvStart, Positions, TypeOK, Boots
  <2>2. CASE SrvSemOpen
    BY <1>0, <2>2 DEF SrvSemOpen, Positions, TypeOK, Boots
  <2>3. CASE SrvShmOpen
    BY <1>0, <2>3 DEF SrvShmOpen, Positions, TypeOK
  <2>4. CASE SrvShmSize \/ SrvShmMap \/ SrvInitPost \/ SrvRpc \/ SrvTick \/ SrvWait
    BY <1>0, <2>4 DEF SrvShmSize, SrvShmMap, SrvInitPost, SrvRpc, SrvTick, SrvWait, Positions
  <2>5. CASE SrvCopyBegin \/ SrvCopyEnd \/ SrvPost
    BY <1>0, <2>5 DEF SrvCopyBegin, SrvCopyEnd, SrvPost, Positions
  <2>6. CASE SrvStop \/ SrvExit
    BY <1>0, <2>6 DEF SrvStop, SrvExit, Positions, TypeOK
  <2>7. CASE SrvInitFail \/ SrvKill
    BY <1>0, <2>7 DEF SrvInitFail, SrvKill, ServerHolds, Positions, TypeOK, Boots
  <2> QED
    BY <1>1, <2>1, <2>2, <2>3, <2>4, <2>5, <2>6, <2>7 DEF SrvNext
<1>2. ASSUME NEW r \in Readers, RdNext(r) PROVE Positions'
  <2>1. CASE RdSemOpen(r) \/ RdShmOpen(r) \/ RdTick(r) \/ RdWait(r) \/ RdLoad(r)
    BY <1>0, <2>1
    DEF RdSemOpen, RdShmOpen, RdTick, RdWait, RdLoad, Positions, TypeOK
  <2>2. CASE RdNoShm(r) \/ RdQuit(r)
    BY <1>0, <2>2 DEF RdNoShm, RdQuit, Gone, Positions, TypeOK
  <2>3. CASE RdKill(r) \/ RdParseFail(r) \/ RdFault(r)
    <3>1. ~ (rpc[r] = "parsing") \/ (rsem[r] \in Boots /\ fate[rsem[r]] = "live")
      BY <1>0 DEF Positions, TypeOK, Boots, TokenConserved, Held, ReaderHolds
    <3>2. \A k \in Boots : fate'[k] = fate[k] \/ fate[k] = "live"
      BY <1>0, <2>3, <3>1 DEF RdKill, RdParseFail, RdFault, TypeOK
    <3>3. starts' = starts /\ spc' = spc /\ semName' = semName /\ sshm' = sshm
      BY <2>3 DEF RdKill, RdParseFail, RdFault
    <3>4. \A k \in Boots : k > starts => fate'[k] = "none"
      BY <1>a, <3>2
    <3>5. spc = "unlinked" => fate'[starts] = "none"
      BY <1>0, <3>2 DEF Positions, TypeOK, Boots
    <3>6. \A q \in Readers :
            /\ rpc'[q] # "off" => rsem'[q] # 0
            /\ rpc'[q] \in {"idle", "waiting", "parsing"} => rshm'[q] # 0
      BY <1>0, <2>3 DEF RdKill, RdParseFail, RdFault, Gone, Positions, TypeOK
    <3> QED
      BY <1>0, <3>3, <3>4, <3>5, <3>6 DEF Positions
  <2> QED
    BY <1>2, <2>1, <2>2, <2>3 DEF RdNext
<1>3. CASE UNCHANGED vars
  BY <1>0, <1>3 DEF vars, Positions
<1> QED
  BY <1>1, <1>2, <1>3 DEF Next

-----------------------------------------------------------------------------
(* The semaphores, one at a time: each step moves at most one token.       *)

\* What TokenConserved and SemaphoreExclusion say of semaphore k.
TokenOf(k) == /\ fate[k] = "live" <=> sem[k] = 1 \/ Held(k)
              /\ ~ (sem[k] = 1 /\ Held(k))
ExclusionOf(k) ==
  /\ \A r \in Readers : ~ (ServerHolds(k) /\ ReaderHolds(r, k))
  /\ \A r, q \in Readers : ReaderHolds(r, k) /\ ReaderHolds(q, k) => r = q

\* A step of the server moves the token of its own semaphore only.
LEMMA ServerTokenStep ==
  ASSUME IInv, SrvNext, NEW k \in Boots PROVE TokenOf(k)' /\ ExclusionOf(k)'
<1> USE DEF kernelVars, serverVars, readerVars, Booting, Writing
<1>0. TypeOK /\ Positions /\ TokenOf(k) /\ ExclusionOf(k)
  BY DEF IInv, TokenConserved, SemaphoreExclusion, TokenOf, ExclusionOf
<1>a. UNCHANGED <<rpc, rsem>>
  BY DEF SrvNext, SrvStart, SrvSemOpen, SrvShmOpen, SrvShmSize, SrvShmMap, SrvInitPost,
         SrvInitFail, SrvRpc, SrvTick, SrvWait, SrvCopyBegin, SrvCopyEnd, SrvPost,
         SrvStop, SrvExit, SrvKill
<1>b. \A r \in Readers : ReaderHolds(r, k)' <=> ReaderHolds(r, k)
  BY <1>a DEF ReaderHolds
<1> DEFINE RHeld == \E r \in Readers : ReaderHolds(r, k)
<1>c. RHeld' <=> RHeld
  BY <1>b
<1>d. /\ Held(k) <=> ServerHolds(k) \/ RHeld
      /\ Held(k)' <=> ServerHolds(k)' \/ RHeld'
      /\ ~ (ServerHolds(k) /\ RHeld)
  BY <1>0 DEF Held, ExclusionOf
<1>e. /\ \A r, q \in Readers : ReaderHolds(r, k)' /\ ReaderHolds(q, k)' => r = q
  BY <1>0, <1>b DEF ExclusionOf
<1> SUFFICES TokenOf(k)' /\ ~ (ServerHolds(k)' /\ RHeld')
  BY <1>b, <1>e DEF ExclusionOf
<1> HIDE DEF RHeld
\* Nothing of semaphore k changes.
<1>1. CASE /\ sem'[k] = sem[k] /\ fate'[k] = fate[k]
           /\ ServerHolds(k)' <=> ServerHolds(k)
  BY <1>0, <1>1, <1>c, <1>d DEF TokenOf
<1>2. CASE SrvStart
  BY <1>0, <1>1, <1>2 DEF SrvStart, ServerHolds, TypeOK
<1>3. CASE SrvSemOpen
  <2>1. CASE k = starts
    <3>1. ~ RHeld /\ fate[k] = "none"
      BY <1>0, <1>3, <1>d, <2>1 DEF SrvSemOpen, Positions, TokenOf
    <3>2. sem'[k] = 0 /\ fate'[k] = "live" /\ ServerHolds(k)'
      BY <1>0, <1>3, <2>1 DEF SrvSemOpen, TypeOK, ServerHolds
    <3> QED
      BY <1>c, <1>d, <3>1, <3>2 DEF TokenOf
  <2>2. CASE k # starts
    BY <1>0, <1>1, <1>3, <2>2 DEF SrvSemOpen, ServerHolds, TypeOK
  <2> QED
    BY <2>1, <2>2
<1>4. CASE \/ SrvShmOpen \/ SrvShmSize \/ SrvShmMap \/ SrvRpc \/ SrvTick
           \/ SrvCopyBegin \/ SrvCopyEnd \/ SrvStop \/ SrvExit
  BY <1>1, <1>4
  DEF SrvShmOpen, SrvShmSize, SrvShmMap, SrvRpc, SrvTick, SrvCopyBegin, SrvCopyEnd,
      SrvStop, SrvExit, ServerHolds
<1>5. CASE SrvInitPost \/ SrvPost
  <2>1. CASE k = starts
    <3>1. ServerHolds(k) /\ ~ ServerHolds(k)'
      BY <1>5, <2>1 DEF SrvInitPost, SrvPost, ServerHolds
    <3>2. sem[k] = 0 /\ fate[k] = "live"
      BY <1>0, <1>d, <3>1 DEF TokenOf, TypeOK
    <3>3. sem'[k] = 1 /\ fate'[k] = "live"
      BY <1>0, <1>5, <2>1, <3>2 DEF SrvInitPost, SrvPost, TypeOK
    <3> QED
      BY <1>c, <1>d, <3>1, <3>3 DEF TokenOf
  <2>2. CASE k # starts
    BY <1>0, <1>1, <1>5, <2>2 DEF SrvInitPost, SrvPost, ServerHolds, TypeOK
  <2> QED
    BY <2>1, <2>2
<1>6. CASE SrvWait
  <2>1. CASE k = starts
    <3>1. ~ ServerHolds(k) /\ ServerHolds(k)'
      BY <1>6, <2>1 DEF SrvWait, ServerHolds
    <3>2. sem[k] = 1 /\ fate[k] = "live" /\ ~ RHeld
      BY <1>0, <1>6, <1>d, <2>1 DEF SrvWait, TokenOf, TypeOK
    <3>3. sem'[k] = 0 /\ fate'[k] = "live"
      BY <1>0, <1>6, <2>1, <3>2 DEF SrvWait, TypeOK
    <3> QED
      BY <1>c, <1>d, <3>1, <3>2, <3>3 DEF TokenOf
  <2>2. CASE k # starts
    BY <1>0, <1>1, <1>6, <2>2 DEF SrvWait, ServerHolds, TypeOK
  <2> QED
    BY <2>1, <2>2
<1>7. CASE SrvInitFail \/ SrvKill
  <2>1. ~ ServerHolds(k)' /\ sem'[k] = sem[k]
    BY <1>7 DEF SrvInitFail, SrvKill, ServerHolds
  <2>2. CASE ServerHolds(k)
    <3>1. sem[k] # 1 /\ ~ RHeld
      BY <1>0, <1>d, <2>2 DEF TokenOf
    <3>2. fate'[k] # "live"
      BY <1>0, <1>7, <2>2 DEF SrvInitFail, SrvKill, ServerHolds, TypeOK
    <3> QED
      BY <1>c, <1>d, <2>1, <3>1, <3>2 DEF TokenOf
  <2>3. CASE ~ ServerHolds(k)
    <3>1. fate'[k] = fate[k]
      BY <1>0, <1>7, <2>3 DEF SrvInitFail, SrvKill, ServerHolds, TypeOK
    <3> QED
      BY <1>1, <2>1, <2>3, <3>1
  <2> QED
    BY <2>2, <2>3
<1> QED
  BY <1>2, <1>3, <1>4, <1>5, <1>6, <1>7 DEF SrvNext

\* A step of a reader moves the token of the semaphore it opened only.
LEMMA ReaderTokenStep ==
  ASSUME IInv, NEW r \in Readers, RdNext(r), NEW k \in Boots
  PROVE  TokenOf(k)' /\ ExclusionOf(k)'
<1> USE DEF kernelVars, serverVars, readerVars
<1>0. TypeOK /\ Positions /\ TokenOf(k) /\ ExclusionOf(k)
  BY DEF IInv, TokenConserved, SemaphoreExclusion, TokenOf, ExclusionOf
<1>a. UNCHANGED <<starts, spc>> /\ \A q \in Readers \ {r} : rpc'[q] = rpc[q] /\ rsem'[q] = rsem[q]
  BY <1>0
  DEF RdNext, RdSemOpen, RdShmOpen, RdNoShm, RdTick, RdWait, RdLoad, RdParseFail, RdFault,
      RdQuit, RdKill, Gone, TypeOK
<1>b. /\ ServerHolds(k)' <=> ServerHolds(k)
      /\ \A q \in Readers \ {r} : ReaderHolds(q, k)' <=> ReaderHolds(q, k)
  BY <1>a DEF ServerHolds, ReaderHolds
<1> DEFINE Others == ServerHolds(k) \/ \E q \in Readers \ {r} : ReaderHolds(q, k)
<1>c. Others' <=> Others
  BY <1>b
<1>d. /\ Held(k) <=> Others \/ ReaderHolds(r, k)
      /\ Held(k)' <=> Others' \/ ReaderHolds(r, k)'
      /\ ~ (Others /\ ReaderHolds(r, k))
  BY <1>0 DEF Held, ExclusionOf
<1>e. ASSUME ~ (Others' /\ ReaderHolds(r, k)') PROVE ExclusionOf(k)'
  BY <1>0, <1>b, <1>e DEF ExclusionOf
<1> SUFFICES TokenOf(k)' /\ ~ (Others' /\ ReaderHolds(r, k)')
  BY <1>e
<1> HIDE DEF Others
\* Nothing of semaphore k changes.
<1>1. CASE /\ sem'[k] = sem[k] /\ fate'[k] = fate[k]
           /\ ReaderHolds(r, k)' <=> ReaderHolds(r, k)
  BY <1>0, <1>1, <1>c, <1>d DEF TokenOf
<1>2. CASE RdSemOpen(r) \/ RdShmOpen(r) \/ RdNoShm(r) \/ RdTick(r) \/ RdQuit(r)
  BY <1>0, <1>1, <1>2
  DEF RdSemOpen, RdShmOpen, RdNoShm, RdTick, RdQuit, Gone, ReaderHolds, TypeOK
<1>3. CASE RdWait(r)
  <2>1. CASE rsem[r] = k
    <3>1. ~ ReaderHolds(r, k) /\ ReaderHolds(r, k)'
      BY <1>0, <1>3, <2>1 DEF RdWait, ReaderHolds, TypeOK
    <3>2. sem[k] = 1 /\ fate[k] = "live" /\ ~ Others
      BY <1>0, <1>3, <1>d, <2>1 DEF RdWait, TokenOf, TypeOK
    <3>3. sem'[k] = 0 /\ fate'[k] = "live"
      BY <1>0, <1>3, <2>1, <3>2 DEF RdWait, TypeOK
    <3> QED
      BY <1>c, <1>d, <3>1, <3>2, <3>3 DEF TokenOf
  <2>2. CASE rsem[r] # k
    BY <1>0, <1>1, <1>3, <2>2 DEF RdWait, ReaderHolds, TypeOK
  <2> QED
    BY <2>1, <2>2
<1>4. CASE RdLoad(r)
  <2>1. CASE rsem[r] = k
    <3>1. ReaderHolds(r, k) /\ ~ ReaderHolds(r, k)'
      BY <1>0, <1>4, <2>1 DEF RdLoad, ReaderHolds, TypeOK
    <3>2. sem[k] = 0 /\ fate[k] = "live"
      BY <1>0, <1>d, <3>1 DEF TokenOf, TypeOK
    <3>3. sem'[k] = 1 /\ fate'[k] = "live"
      BY <1>0, <1>4, <2>1, <3>2 DEF RdLoad, TypeOK
    <3> QED
      BY <1>c, <1>d, <3>1, <3>3 DEF TokenOf
  <2>2. CASE rsem[r] # k
    BY <1>0, <1>1, <1>4, <2>2 DEF RdLoad, ReaderHolds, TypeOK
  <2> QED
    BY <2>1, <2>2
<1>5. CASE RdParseFail(r) \/ RdFault(r) \/ RdKill(r)
  <2>1. ~ ReaderHolds(r, k)' /\ sem'[k] = sem[k]
    BY <1>0, <1>5 DEF RdParseFail, RdFault, RdKill, Gone, ReaderHolds, TypeOK
  <2>2. CASE ReaderHolds(r, k)
    <3>1. sem[k] # 1 /\ ~ Others
      BY <1>0, <1>d, <2>2 DEF TokenOf
    <3>2. fate'[k] # "live"
      BY <1>0, <1>5, <2>2 DEF RdParseFail, RdFault, RdKill, ReaderHolds, TypeOK
    <3> QED
      BY <1>c, <1>d, <2>1, <3>1, <3>2 DEF TokenOf
  <2>3. CASE ~ ReaderHolds(r, k)
    <3>1. fate'[k] = fate[k]
      BY <1>0, <1>5, <2>3 DEF RdParseFail, RdFault, RdKill, ReaderHolds, TypeOK
    <3> QED
      BY <1>1, <2>1, <2>3, <3>1
  <2> QED
    BY <2>2, <2>3
<1> QED
  BY <1>2, <1>3, <1>4, <1>5 DEF RdNext

LEMMA TokenStep == IInv /\ [Next]_vars => TokenConserved' /\ SemaphoreExclusion'
<1> SUFFICES ASSUME IInv, [Next]_vars PROVE TokenConserved' /\ SemaphoreExclusion'
  OBVIOUS
<1>0. TypeOK /\ Positions /\ TokenConserved /\ \A k \in Boots : TokenOf(k) /\ ExclusionOf(k)
  BY DEF IInv, TokenConserved, SemaphoreExclusion, TokenOf, ExclusionOf
<1>1. \A k \in Boots : TokenOf(k)' /\ ExclusionOf(k)'
  <2>1. CASE SrvNext
    BY <2>1, ServerTokenStep
  <2>2. CASE \E r \in Readers : RdNext(r)
    BY <2>2, ReaderTokenStep
  <2>3. CASE UNCHANGED vars
    BY <1>0, <2>3
    DEF vars, kernelVars, serverVars, readerVars, TokenOf, ExclusionOf, Held, ServerHolds,
        ReaderHolds
  <2> QED
    BY <2>1, <2>2, <2>3 DEF Next
\* A name, once given, stands for a semaphore that exists; an existing semaphore
\* is never undone.
<1> DEFINE Open == {semName} \cup {rsem[r] : r \in Readers}
<1>2. \A k \in Boots : fate[k] # "none" => fate'[k] # "none"
  <2>1. CASE SrvNext
    BY <1>0, <2>1
    DEF SrvNext, SrvStart, SrvSemOpen, SrvShmOpen, SrvShmSize, SrvShmMap, SrvInitPost,
        SrvInitFail, SrvRpc, SrvTick, SrvWait, SrvCopyBegin, SrvCopyEnd, SrvPost, SrvStop,
        SrvExit, SrvKill, readerVars, kernelVars, TypeOK
  <2>2. CASE \E r \in Readers : RdNext(r)
    BY <1>0, <2>2
    DEF RdNext, RdSemOpen, RdShmOpen, RdNoShm, RdTick, RdWait, RdLoad, RdParseFail, RdFault,
        RdQuit, RdKill, readerVars, kernelVars, TypeOK
  <2>3. CASE UNCHANGED vars
    BY <2>3 DEF vars
  <2> QED
    BY <2>1, <2>2, <2>3 DEF Next
<1>3. \A k \in Open' : k \in Open \/ k = 0 \/ (k \in Boots /\ fate'[k] # "none")
  <2>1. CASE SrvSemOpen
    BY <1>0, <2>1 DEF SrvSemOpen, readerVars, TypeOK, Positions, Boots
  <2>2. CASE SrvNext /\ ~ SrvSemOpen
    BY <1>0, <2>2
    DEF SrvNext, SrvStart, SrvShmOpen, SrvShmSize, SrvShmMap, SrvInitPost,
        SrvInitFail, SrvRpc, SrvTick, SrvWait, SrvCopyBegin, SrvCopyEnd, SrvPost, SrvStop,
        SrvExit, SrvKill, readerVars, kernelVars
  <2>3. ASSUME NEW r \in Readers, RdNext(r)
        PROVE  semName' = semName /\ \A q \in Readers : rsem'[q] \in {rsem[q], semName, 0}
    BY <1>0, <2>3
    DEF RdNext, RdSemOpen, RdShmOpen, RdNoShm, RdTick, RdWait, RdLoad, RdParseFail, RdFault,
        RdQuit, RdKill, Gone, readerVars, kernelVars, TypeOK
  <2>4. CASE \E r \in Readers : RdNext(r)
    BY <2>3, <2>4
  <2>5. CASE UNCHANGED vars
    BY <2>5 DEF vars, kernelVars, readerVars
  <2> QED
    BY <2>1, <2>2, <2>4, <2>5 DEF Next
<1>4. \A k \in Open : k # 0 => k \in Boots /\ fate[k] # "none"
  BY <1>0 DEF TokenConserved, TypeOK, Boots
<1>5. \A k \in Open' : k # 0 => fate'[k] # "none"
  BY <1>2, <1>3, <1>4
<1> QED
  BY <1>1, <1>5 DEF TokenConserved, SemaphoreExclusion, TokenOf, ExclusionOf

-----------------------------------------------------------------------------
\* Where the invariant holds at the start it holds for ever: no step of
\* shmmap_server_init, set_shm_map or get_shm_map leaves it, nor an end of a process.
THEOREM InvariantHolds == Spec => []IInv
<1>1. Init => IInv
  BY InitIInv
<1>2. IInv /\ [Next]_vars => IInv'
  BY TypeStep, PositionsStep, TokenStep DEF IInv
<1> QED
  BY <1>1, <1>2, PTL DEF Spec

\* The variables keep their types; in particular no semaphore is ever above 1,
\* whatever is killed and restarted (sem_post at shmmap.c 49, 106 and 133).
THEOREM TypeCorrect == Spec => []TypeOK
  BY InvariantHolds, PTL DEF IInv

\* Two processes are never between sem_wait and sem_post of one semaphore
\* (shmmap.c 104-106, 123-133).
THEOREM Exclusion == Spec => []SemaphoreExclusion
  BY InvariantHolds, PTL DEF IInv

\* A semaphore at 0 with nobody inside is accounted for by one of the recorded
\* losses: init failure, death inside, or the parse error of get_shm_map.
THEOREM Tokens == Spec => []TokenConserved
  BY InvariantHolds, PTL DEF IInv

-----------------------------------------------------------------------------
(***************************************************************************)
(* What the readers see.  The invariant follows the contents of a memory   *)
(* from the server that emptied it to the map of a reader: which memory a  *)
(* process has, which server's text is in it, and when it is whole.        *)
(***************************************************************************)

\* Memory m has been emptied by server k or a later one, if k's semaphore can be
\* entered at all: a token of k exists only after k's shm_open.
Fresh(m, k) ==
  fate[k] = "live" => mem[m].boot >= k \/ (k = starts /\ spc = "semopen")

\* The current server's memory, and the one the name leads to.
MemoryOfServer ==
  /\ semName \in {0, starts}
  /\ \A k \in Boots : mem[k].boot <= starts
  /\ spc # "down" => ver > 0
  /\ spc \in {"unlinked", "semopen"} => sshm = 0
  /\ sshm = 0 => /\ \A k \in Boots : starts # 0 => mem[k].boot < starts
                 /\ starts # 0 /\ fate[starts] = "live" => spc = "semopen"
  /\ sshm # 0 => /\ starts # 0 /\ shmName \in {0, sshm}
                 /\ mem[sshm].boot = starts /\ mem[sshm].n <= ver
                 /\ mem[sshm].kind = "doc" => mem[sshm].n > 0
                 /\ fate[starts] = "live" /\ spc \notin {"shmopen", "copying"}
                      => mem[sshm].kind \in {"blank", "doc"}
  /\ shmName # 0 => \A k \in Boots : Fresh(shmName, k)

\* The memory a reader has opened, what its parse began with and what it shows.
MemoryOfReader(r) ==
  /\ rsem[r] <= starts
  /\ rpc[r] = "off" => rsem[r] = 0
  /\ rpc[r] \in {"off", "semopen"} => rshm[r] = 0
  /\ rshm[r] = 0 => view[r] = NoImage
  /\ rshm[r] # 0 =>
       /\ Fresh(rshm[r], rsem[r])
       /\ rsem[r] = starts => rshm[r] = IF sshm # 0 THEN sshm ELSE shmName
       /\ view[r].kind = "doc" => Older(view[r], mem[rshm[r]])
  /\ rpc[r] = "parsing" =>
       /\ rsaw[r].boot >= rsem[r]
       /\ rsem[r] = starts => rsaw[r] = mem[rshm[r]]
       /\ Older(rsaw[r], mem[rshm[r]])
       /\ view[r].kind = "doc" => Older(view[r], rsaw[r])
  /\ view[r].kind = "torn" => rsem[r] < starts
  /\ view[r].kind = "doc" => view[r].boot >= rsem[r]

Contents == MemoryOfServer /\ \A r \in Readers : MemoryOfReader(r)

LEMMA InitContents == Init => Contents
  BY DEF Init, Contents, MemoryOfServer, MemoryOfReader, Fresh, NoImage, Image, Boots, Older

\* Text that begins to change keeps the name of the document it replaces.
LEMMA KindOnly ==
  \A m \in Images, k \in {"unsized", "blank", "torn", "doc"} :
    LET e == [m EXCEPT !.kind = k] IN e.kind = k /\ e.boot = m.boot /\ e.n = m.n
  BY DEF Images

\* A reader changes nothing of the server's, no memory and no name; of the fates
\* it can only end one that was live.
LEMMA ReaderKeeps ==
  ASSUME IInv, NEW r \in Readers, RdNext(r)
  PROVE  /\ UNCHANGED <<semName, shmName, mem, starts, spc, sshm, ver>>
         /\ \A k \in Boots : fate'[k] = "live" => fate[k] = "live"
<1>0. TypeOK /\ Positions
  BY DEF IInv
<1>1. UNCHANGED <<semName, shmName, mem, starts, spc, sshm, ver>>
  BY DEF RdNext, RdSemOpen, RdShmOpen, RdNoShm, RdTick, RdWait, RdLoad, RdParseFail, RdFault,
         RdQuit, RdKill, kernelVars, serverVars
<1>2. \/ fate' = fate
      \/ \E w \in Losses : fate' = [fate EXCEPT ![rsem[r]] = w]
  BY DEF RdNext, RdSemOpen, RdShmOpen, RdNoShm, RdTick, RdWait, RdLoad, RdParseFail, RdFault,
         RdQuit, RdKill, Losses
<1>3. "live" \notin Losses
  BY DEF Losses
<1> QED
  BY <1>0, <1>1, <1>2, <1>3 DEF TypeOK

\* Every step keeps what is known of the server's memory.
LEMMA ServerMemoryStep ==
  ASSUME IInv, IInv', MemoryOfServer, [Next]_vars
  PROVE  MemoryOfServer'
<1> USE DEF kernelVars, serverVars, readerVars
<1>0. TypeOK /\ Positions /\ MemoryOfServer
  BY DEF IInv
<1>t. /\ starts \in Nat /\ ver \in Nat /\ starts' \in Nat /\ ver' \in Nat
      /\ \A k \in Boots : mem[k].boot \in Nat /\ mem[k].n \in Nat
  BY DEF IInv, TypeOK, Images
<1>1. CASE SrvNext
  <2> USE DEF ServerPc, Booting, Writing, Running, Boots
  <2>1. CASE SrvStart
    <3>1. \A k \in Boots : mem'[k].boot < starts'
      BY <1>0, <2>1 DEF SrvStart, MemoryOfServer, TypeOK, Images
    <3>2. fate'[starts'] = "none" /\ starts' # 0 /\ sshm' = 0 /\ semName' = 0 /\ ver' > 0
      BY <1>0, <2>1 DEF SrvStart, Positions, TypeOK
    <3>3. \A k \in Boots : shmName' # 0 => Fresh(shmName, k)'
      BY <1>0, <2>1 DEF SrvStart, MemoryOfServer, Fresh
    <3>4. spc' = "unlinked" /\ \A k \in Boots : mem'[k].boot <= starts'
      BY <1>t, <2>1, <3>1 DEF SrvStart
    <3> QED
      BY <3>1, <3>2, <3>3, <3>4 DEF MemoryOfServer
  <2>2. CASE SrvSemOpen
    <3>1. \A k \in Boots : shmName' # 0 => Fresh(shmName, k)'
      BY <1>0, <2>2 DEF SrvSemOpen, MemoryOfServer, Fresh, TypeOK
    <3> QED
      BY <1>0, <2>2, <3>1 DEF SrvSemOpen, MemoryOfServer
  <2>3. CASE SrvShmOpen
    <3>1. starts \in Boots /\ sshm' \in Boots /\ shmName' = sshm'
      BY <1>0, <2>3 DEF SrvShmOpen, TypeOK, Positions
    <3>2. mem'[sshm'] = Image("unsized", starts, 0)
      BY <1>0, <2>3, <3>1 DEF SrvShmOpen, TypeOK
    <3>3. \A k \in Boots : k # sshm' => mem'[k] = mem[k]
      BY <1>0, <2>3 DEF SrvShmOpen, TypeOK
    <3>4. UNCHANGED <<starts, ver, semName, fate>> /\ spc' = "shmopen" /\ spc = "semopen"
      BY <2>3 DEF SrvShmOpen
    <3>5. \A k \in Boots : mem'[k].boot <= starts
      BY <1>0, <3>1, <3>2, <3>3 DEF MemoryOfServer, Image, TypeOK
    <3>6. \A k \in Boots : Fresh(shmName, k)'
      <4> SUFFICES ASSUME NEW k \in Boots, fate[k] = "live" PROVE starts >= k
        BY <3>1, <3>2, <3>4 DEF Fresh, Image
      <4> QED
        BY <1>0 DEF Positions, TypeOK
    <3>7. mem'[sshm'].boot = starts' /\ mem'[sshm'].n <= ver' /\ mem'[sshm'].kind # "doc"
      BY <1>0, <3>2, <3>4 DEF Image, TypeOK
    <3> QED
      BY <1>0, <3>1, <3>4, <3>5, <3>6, <3>7 DEF MemoryOfServer
  <2>4. CASE SrvShmSize \/ SrvCopyBegin
    <3>1. sshm \in Boots
      BY <1>0, <2>4 DEF SrvShmSize, SrvCopyBegin, TypeOK, Positions
    <3>a. PICK kind \in {"blank", "torn"} :
            /\ mem' = [mem EXCEPT ![sshm] = [mem[sshm] EXCEPT !.kind = kind]]
            /\ SrvShmSize <=> kind = "blank"
      BY <2>4 DEF SrvShmSize, SrvCopyBegin
    <3>b. /\ \A k \in Boots : k # sshm => mem'[k] = mem[k]
          /\ mem'[sshm] = [mem[sshm] EXCEPT !.kind = kind]
      BY <1>0, <3>1, <3>a DEF TypeOK
    <3>d. /\ mem'[sshm].kind = kind /\ mem'[sshm].boot = mem[sshm].boot
          /\ mem'[sshm].n = mem[sshm].n
      BY <1>0, <3>1, <3>b, KindOnly DEF TypeOK
    <3>2. /\ \A k \in Boots : mem'[k].boot = mem[k].boot /\ mem'[k].n = mem[k].n
          /\ mem'[sshm].kind = IF SrvShmSize THEN "blank" ELSE "torn"
      BY <3>a, <3>b, <3>d
    <3>3. /\ UNCHANGED <<starts, ver, semName, shmName, sshm, fate>>
          /\ spc \notin {"down", "semopen", "unlinked"}
          /\ spc' = IF SrvShmSize THEN "sized" ELSE "copying"
      BY <2>4 DEF SrvShmSize, SrvCopyBegin
    <3>4. \A k \in Boots : shmName' # 0 => Fresh(shmName, k)'
      BY <1>0, <3>2, <3>3 DEF MemoryOfServer, Fresh, TypeOK
    <3> QED
      BY <1>0, <2>4, <3>1, <3>2, <3>3, <3>4 DEF MemoryOfServer
  <2>5. CASE \/ SrvShmMap \/ SrvInitPost \/ SrvTick \/ SrvWait \/ SrvPost \/ SrvRpc \/ SrvStop
    <3>1. /\ UNCHANGED <<starts, shmName, sshm, mem, fate>> /\ ver' >= ver
          /\ semName' \in {semName, 0}
          /\ spc \notin {"down", "unlinked", "semopen", "shmopen", "copying"}
          /\ spc' \notin {"down", "unlinked", "semopen", "shmopen", "copying"}
      BY <1>0, <2>5
      DEF SrvShmMap, SrvInitPost, SrvTick, SrvWait, SrvPost, SrvRpc, SrvStop, TypeOK
    <3>2. \A k \in Boots : shmName' # 0 => Fresh(shmName, k)'
      BY <1>0, <3>1 DEF MemoryOfServer, Fresh
    <3>3. sshm # 0
      BY <1>0, <3>1 DEF Positions, TypeOK
    <3>6. sshm \in Boots /\ mem[sshm].n <= ver /\ ver > 0
      BY <1>0, <3>1, <3>3 DEF MemoryOfServer, TypeOK
    <3>4. mem[sshm].n <= ver'
      BY <1>t, <3>1, <3>6
    <3>5. ver' > 0
      BY <1>t, <3>1, <3>6
    <3> QED
      BY <1>0, <3>1, <3>2, <3>3, <3>4, <3>5 DEF MemoryOfServer
  <2>6. CASE SrvCopyEnd
    <3>1. sshm \in Boots
      BY <1>0, <2>6 DEF SrvCopyEnd, TypeOK, Positions
    <3>2. /\ mem'[sshm] = Image("doc", starts, ver)
          /\ \A k \in Boots : k # sshm => mem'[k] = mem[k]
      BY <1>0, <2>6, <3>1 DEF SrvCopyEnd, TypeOK
    <3>3. UNCHANGED <<starts, ver, semName, shmName, sshm, fate>> /\ spc' = "copied"
      BY <2>6 DEF SrvCopyEnd
    <3>4. \A k \in Boots : mem'[k].boot = mem[k].boot
      BY <1>0, <3>1, <3>2 DEF MemoryOfServer, Image
    <3>5. \A k \in Boots : shmName' # 0 => Fresh(shmName, k)'
      BY <1>0, <2>6, <3>3, <3>4 DEF SrvCopyEnd, MemoryOfServer, Fresh, TypeOK
    <3> QED
      BY <1>0, <2>6, <3>1, <3>2, <3>3, <3>4, <3>5 DEF SrvCopyEnd, MemoryOfServer, Image, TypeOK
  <2>7. CASE SrvExit
    BY <1>0, <2>7 DEF SrvExit, MemoryOfServer, Positions
  <2>8. CASE SrvInitFail \/ SrvKill
    <3>1. /\ UNCHANGED <<starts, ver, semName, shmName, sshm, mem>> /\ spc' = "down"
          /\ spc # "down" /\ starts \in Boots
      BY <1>0, <2>8 DEF SrvInitFail, SrvKill, Positions, TypeOK
    <3>2. \A k \in Boots : fate'[k] = "live" =>
            fate[k] = "live" /\ ~ (k = starts /\ spc \in Booting \cup Writing)
      BY <1>0, <2>8 DEF SrvInitFail, SrvKill, ServerHolds, TypeOK
    <3>3. \A k \in Boots : shmName' # 0 => Fresh(shmName, k)'
      BY <1>0, <3>1, <3>2 DEF MemoryOfServer, Fresh
    <3>4. sshm = 0 => fate'[starts] # "live"
      BY <1>0, <3>1, <3>2 DEF MemoryOfServer
    <3>5. fate'[starts] = "live" => fate[starts] = "live" /\ spc \notin {"shmopen", "copying"}
      BY <3>1, <3>2
    <3> QED
      BY <1>0, <3>1, <3>3, <3>4, <3>5 DEF MemoryOfServer
  <2> QED
    BY <1>1, <2>1, <2>2, <2>3, <2>4, <2>5, <2>6, <2>7, <2>8 DEF SrvNext
<1>2. CASE \E r \in Readers : RdNext(r)
  <2>1. /\ UNCHANGED <<semName, shmName, mem, starts, spc, sshm, ver>>
        /\ \A k \in Boots : fate'[k] = "live" => fate[k] = "live"
    BY <1>2, ReaderKeeps
  <2>2. \A k \in Boots : shmName' # 0 => Fresh(shmName, k)'
    BY <1>0, <2>1 DEF MemoryOfServer, Fresh
  <2>3. starts # 0 => starts \in Boots
    BY <1>0 DEF TypeOK, Boots
  <2> QED
    BY <1>0, <2>1, <2>2, <2>3 DEF MemoryOfServer
<1>3. CASE UNCHANGED vars
  BY <1>0, <1>3 DEF vars, MemoryOfServer, Fresh
<1> QED
  BY <1>1, <1>2, <1>3 DEF Next


LEMMA OlderTransitive ==
  ASSUME NEW a \in Images, NEW b \in Images, NEW c \in Images, Older(a, b), Older(b, c)
  PROVE  Older(a, c)
  BY DEF Older, Images

\* What a step of the server does to the memories: none goes back in time, none
\* changes while the semaphore is free, and none that was fresh ceases to be.
LEMMA ServerMoves ==
  ASSUME IInv, IInv', MemoryOfServer, SrvNext
  PROVE  /\ \A m \in Boots : Older(mem[m], mem'[m])
         /\ mem' = mem \/ ServerHolds(starts)
         /\ \A m, k \in Boots : Fresh(m, k) => Fresh(m, k)' \/ (k = starts /\ SrvShmOpen)
<1> USE DEF kernelVars, serverVars, readerVars
<1>0. TypeOK /\ Positions /\ TypeOK' /\ MemoryOfServer
  BY DEF IInv
<1>t. /\ starts \in Nat /\ ver \in Nat
      /\ \A k \in Boots : mem[k].boot \in Nat /\ mem[k].n \in Nat
  BY <1>0 DEF TypeOK, Images
<1>1. CASE SrvShmOpen
  <2>1. starts \in Boots /\ sshm' \in Boots /\ sshm = 0 /\ spc = "semopen" /\ fate' = fate
    BY <1>0, <1>1 DEF SrvShmOpen, TypeOK, Positions, Boots, MemoryOfServer
  <2>2. /\ mem'[sshm'] = Image("unsized", starts, 0)
        /\ \A k \in Boots : k # sshm' => mem'[k] = mem[k]
    BY <1>0, <1>1, <2>1 DEF SrvShmOpen, TypeOK
  <2>3. \A m \in Boots : mem[m].boot < starts
    BY <1>0, <2>1 DEF MemoryOfServer, Boots
  <2>4. \A m \in Boots : Older(mem[m], mem'[m]) /\ mem'[m].boot >= mem[m].boot
    BY <1>t, <2>2, <2>3 DEF Older, Image
  <2>5. \A m, k \in Boots : k # starts /\ Fresh(m, k) => Fresh(m, k)'
    <3> SUFFICES ASSUME NEW m \in Boots, NEW k \in Boots, k # starts, Fresh(m, k),
                        fate[k] = "live"
                 PROVE  mem'[m].boot >= k
      BY <2>1 DEF Fresh
    <3>1. mem[m].boot >= k
      BY DEF Fresh
    <3>2. mem'[m].boot \in Nat
      BY <1>0 DEF TypeOK, Images
    <3> QED
      BY <1>t, <2>4, <3>1, <3>2 DEF Boots
  <2>6. ServerHolds(starts)
    BY <2>1 DEF ServerHolds, Booting
  <2> QED
    BY <1>1, <2>4, <2>5, <2>6
<1>2. CASE SrvShmSize \/ SrvCopyBegin \/ SrvCopyEnd
  <2>1. /\ sshm \in Boots /\ UNCHANGED <<starts, fate>> /\ spc # "semopen"
        /\ mem[sshm].boot = starts /\ mem[sshm].n <= ver
    BY <1>0, <1>2
    DEF SrvShmSize, SrvCopyBegin, SrvCopyEnd, TypeOK, Positions, Boots, MemoryOfServer,
        Running, ServerPc, Booting, Writing
  <2>2. \A k \in Boots : k # sshm => mem'[k] = mem[k]
    BY <1>0, <1>2, <2>1 DEF SrvShmSize, SrvCopyBegin, SrvCopyEnd, TypeOK
  <2>3. mem'[sshm] \in { [mem[sshm] EXCEPT !.kind = "blank"],
                         [mem[sshm] EXCEPT !.kind = "torn"], Image("doc", starts, ver) }
    BY <1>0, <1>2, <2>1 DEF SrvShmSize, SrvCopyBegin, SrvCopyEnd, TypeOK
  <2>4. mem[sshm] \in Images
    BY <1>0, <2>1 DEF TypeOK
  <2>5. mem'[sshm].boot = starts /\ mem'[sshm].n \in {mem[sshm].n, ver}
    <3>1. CASE mem'[sshm] = [mem[sshm] EXCEPT !.kind = "blank"]
      BY <2>1, <2>4, <3>1, KindOnly
    <3>2. CASE mem'[sshm] = [mem[sshm] EXCEPT !.kind = "torn"]
      BY <2>1, <2>4, <3>2, KindOnly
    <3>3. CASE mem'[sshm] = Image("doc", starts, ver)
      BY <3>3 DEF Image
    <3> QED
      BY <2>3, <3>1, <3>2, <3>3
  <2>6. \A m \in Boots : Older(mem[m], mem'[m]) /\ mem'[m].boot = mem[m].boot
    BY <1>t, <2>1, <2>2, <2>5 DEF Older
  <2>7. \A m, k \in Boots : Fresh(m, k) => Fresh(m, k)'
    BY <2>1, <2>6 DEF Fresh
  <2>8. ServerHolds(starts)
    BY <1>2 DEF SrvShmSize, SrvCopyBegin, SrvCopyEnd, ServerHolds, Booting, Writing
  <2> QED
    BY <2>6, <2>7, <2>8
<1>3. CASE \/ SrvStart \/ SrvSemOpen \/ SrvShmMap \/ SrvInitPost \/ SrvInitFail \/ SrvRpc
           \/ SrvTick \/ SrvWait \/ SrvPost \/ SrvStop \/ SrvExit \/ SrvKill
  <2>1. mem' = mem
    BY <1>3 DEF SrvStart, SrvSemOpen, SrvShmMap, SrvInitPost, SrvInitFail, SrvRpc, SrvTick,
                SrvWait, SrvPost, SrvStop, SrvExit, SrvKill
  <2>2. \A m \in Boots : Older(mem[m], mem[m])
    BY <1>t DEF Older
  <2>3. ASSUME NEW k \in Boots, fate'[k] = "live"
        PROVE  \/ fate[k] = "live" /\ ~ (k = starts /\ spc = "semopen")
               \/ k = starts' /\ spc' = "semopen"
    <3>1. CASE SrvSemOpen
      BY <1>0, <2>3, <3>1 DEF SrvSemOpen, TypeOK
    <3>2. CASE SrvInitFail \/ SrvKill
      BY <1>0, <2>3, <3>2 DEF SrvInitFail, SrvKill, TypeOK, ServerHolds, Booting
    <3>3. CASE \/ SrvStart \/ SrvShmMap \/ SrvInitPost \/ SrvRpc
               \/ SrvTick \/ SrvWait \/ SrvPost \/ SrvStop \/ SrvExit
      BY <2>3, <3>3
      DEF SrvStart, SrvShmMap, SrvInitPost, SrvRpc, SrvTick, SrvWait, SrvPost, SrvStop, SrvExit
    <3> QED
      BY <1>3, <3>1, <3>2, <3>3
  <2>4. \A m, k \in Boots : Fresh(m, k) => Fresh(m, k)'
    BY <2>1, <2>3 DEF Fresh
  <2> QED
    BY <2>1, <2>2, <2>4
<1> QED
  BY <1>1, <1>2, <1>3 DEF SrvNext


\* What keeps a reader's part of Contents while that reader does not move.
LEMMA BystanderStep ==
  ASSUME IInv, IInv', MemoryOfServer, MemoryOfServer', NEW r \in Readers, MemoryOfReader(r),
         SrvNext \/ (UNCHANGED <<semName, shmName, mem, starts, spc, sshm, ver>>
                       /\ \A k \in Boots : fate'[k] = "live" => fate[k] = "live"),
         rpc'[r] = rpc[r], rsem'[r] = rsem[r], rshm'[r] = rshm[r], rsaw'[r] = rsaw[r],
         view'[r] = view[r]
  PROVE  MemoryOfReader(r)'
<1> USE DEF kernelVars, serverVars, readerVars
<1>0. /\ TypeOK /\ Positions /\ SemaphoreExclusion /\ TokenConserved
      /\ TypeOK' /\ Positions'
  BY DEF IInv
<1>t. /\ starts \in Nat /\ starts' \in Nat /\ rsem[r] \in Nat /\ view[r].boot \in Nat
      /\ rsaw[r] \in Images /\ view[r] \in Images
      /\ \A m \in Boots : mem[m] \in Images /\ mem'[m] \in Images
  BY <1>0 DEF TypeOK, Images
<1>s. rshm[r] # 0 => rshm[r] \in Boots /\ rsem[r] \in Boots
  BY <1>0 DEF TypeOK, Positions, Boots, MemoryOfReader
<1>1. CASE UNCHANGED <<semName, shmName, mem, starts, spc, sshm, ver>>
           /\ \A k \in Boots : fate'[k] = "live" => fate[k] = "live"
  <2>1. rshm[r] # 0 => Fresh(rshm[r], rsem[r])'
    BY <1>1, <1>s DEF MemoryOfReader, Fresh
  <2> QED
    BY <1>1, <2>1 DEF MemoryOfReader
<1>2. CASE SrvNext
  <2>0. /\ \A m \in Boots : Older(mem[m], mem'[m])
        /\ mem' = mem \/ ServerHolds(starts)
        /\ \A m, k \in Boots : Fresh(m, k) => Fresh(m, k)' \/ (k = starts /\ SrvShmOpen)
    BY <1>2, ServerMoves
  <2>1. starts' = starts \/ (SrvStart /\ starts' = starts + 1)
    BY <1>2 DEF SrvNext, SrvStart, SrvSemOpen, SrvShmOpen, SrvShmSize, SrvShmMap, SrvInitPost,
         SrvInitFail, SrvRpc, SrvTick, SrvWait, SrvCopyBegin, SrvCopyEnd, SrvPost, SrvStop,
         SrvExit, SrvKill
  <2>2. rsem[r] <= starts' /\ (rsem[r] = starts' => starts' = starts)
    BY <1>t, <2>1 DEF MemoryOfReader
  <2>3. rsem[r] = starts' /\ rshm[r] # 0 => rshm[r] = IF sshm' # 0 THEN sshm' ELSE shmName'
    <3> SUFFICES ASSUME rsem[r] = starts, starts' = starts, rshm[r] # 0
                 PROVE  rshm[r] = IF sshm' # 0 THEN sshm' ELSE shmName'
      BY <2>2
    <3>1. rshm[r] = IF sshm # 0 THEN sshm ELSE shmName
      BY DEF MemoryOfReader
    <3>2. CASE SrvShmOpen
      BY <1>0, <3>1, <3>2 DEF SrvShmOpen, MemoryOfServer
    <3>3. CASE SrvExit
      BY <1>0, <3>1, <3>3 DEF SrvExit, Positions, Running, ServerPc, Booting, Writing
    <3>4. CASE ~ SrvShmOpen /\ ~ SrvExit
      <4>1. ~ SrvStart
        BY <1>t DEF SrvStart
      <4>2. sshm' = sshm /\ shmName' = shmName
        BY <1>2, <3>4, <4>1
        DEF SrvNext, SrvSemOpen, SrvShmSize, SrvShmMap, SrvInitPost,
         SrvInitFail, SrvRpc, SrvTick, SrvWait, SrvCopyBegin, SrvCopyEnd, SrvPost, SrvStop,
         SrvKill
      <4> QED
        BY <3>1, <4>2
    <3> QED
      BY <3>2, <3>3, <3>4
  <2>4. rshm[r] # 0 => Fresh(rshm[r], rsem[r])'
    <3> SUFFICES ASSUME rshm[r] # 0 PROVE Fresh(rshm[r], rsem[r])'
      OBVIOUS
    <3>1. Fresh(rshm[r], rsem[r])
      BY DEF MemoryOfReader
    <3>2. CASE rsem[r] = starts /\ SrvShmOpen
      <4>1. starts' = starts /\ sshm' # 0
        BY <1>0, <3>2 DEF SrvShmOpen, TypeOK, Positions, ServerPc
      <4>2. rshm[r] = sshm' /\ mem'[sshm'].boot = starts'
        BY <2>3, <3>2, <4>1 DEF MemoryOfServer
      <4> QED
        BY <1>t, <3>2, <4>1, <4>2 DEF Fresh
    <3>3. CASE ~ (rsem[r] = starts /\ SrvShmOpen)
      <4> DEFINE m == rshm[r]
                 k == rsem[r]
      <4>1. m' = m /\ k' = k /\ m \in Boots /\ k \in Boots
        BY <1>s
      <4>2. Fresh(m, k)'
        <5>1. \A x, y \in Boots : Fresh(x, y)' = (fate'[y] = "live" =>
                 mem'[x].boot >= y \/ (y = starts' /\ spc' = "semopen"))
          BY DEF Fresh
        <5>2. fate'[k] = "live" => mem'[m].boot >= k \/ (k = starts' /\ spc' = "semopen")
          BY <2>0, <3>1, <3>3, <4>1, <5>1
        <5> QED
          BY <4>1, <5>2 DEF Fresh
      <4> QED
        BY <4>2
    <3> QED
      BY <3>2, <3>3
  <2>5. rshm[r] # 0 /\ view[r].kind = "doc" => Older(view[r], mem'[rshm[r]])
    BY <1>t, <1>s, <2>0, OlderTransitive DEF MemoryOfReader
  <2>6. ASSUME rpc[r] = "parsing"
        PROVE  /\ Older(rsaw[r], mem'[rshm[r]])
               /\ rsem[r] = starts' => rsaw[r] = mem'[rshm[r]]
    <3>1. rshm[r] \in Boots /\ rsem[r] \in Boots
      BY <1>0, <1>s, <2>6 DEF Positions
    <3>2. Older(rsaw[r], mem'[rshm[r]])
      BY <1>t, <2>0, <2>6, <3>1, OlderTransitive DEF MemoryOfReader
    <3>3. rsem[r] = starts => mem' = mem
      BY <1>0, <2>0, <2>6, <3>1 DEF SemaphoreExclusion, ReaderHolds
    <3> QED
      BY <2>2, <2>6, <3>2, <3>3 DEF MemoryOfReader
  <2>7. view[r].kind = "torn" => rsem[r] < starts'
    BY <1>t, <2>1 DEF MemoryOfReader
  <2> QED
    BY <2>2, <2>3, <2>4, <2>5, <2>6, <2>7 DEF MemoryOfReader
<1> QED
  BY <1>1, <1>2


\* A process that parses is alone with the memory of its semaphore: the server has
\* emptied that memory before, and is not at work on it.
LEMMA ParserAlone ==
  ASSUME IInv, MemoryOfServer, NEW r \in Readers, MemoryOfReader(r),
         rshm[r] # 0, rsem[r] # 0, fate[rsem[r]] = "live", ~ ServerHolds(rsem[r])
  PROVE  /\ rshm[r] \in Boots /\ mem[rshm[r]].boot >= rsem[r]
         /\ rsem[r] = starts => /\ rshm[r] = sshm
                                /\ mem[rshm[r]].kind \in {"blank", "doc"}
<1>0. TypeOK /\ Positions
  BY DEF IInv
<1>1. rshm[r] \in Boots /\ rsem[r] \in Boots
  BY <1>0 DEF TypeOK, Boots
<1>2. rsem[r] = starts => spc \notin Booting \cup Writing
  BY DEF ServerHolds
<1>3. mem[rshm[r]].boot >= rsem[r]
  BY <1>2 DEF MemoryOfReader, Fresh, Booting
<1>4. rsem[r] = starts => /\ sshm # 0 /\ rshm[r] = sshm
                          /\ mem[rshm[r]].kind \in {"blank", "doc"}
  BY <1>1, <1>2 DEF MemoryOfReader, MemoryOfServer, Boots, Booting, Writing
<1> QED
  BY <1>1, <1>3, <1>4

\* What a parse that succeeds can have made of the memory.
LEMMA Parsed ==
  ASSUME IInv, MemoryOfServer, NEW r \in Readers, MemoryOfReader(r), rpc[r] = "parsing",
         NEW i \in MayParseTo(rsaw[r], mem[rshm[r]])
  PROVE  /\ i \in Images /\ i.kind \in {"doc", "torn"}
         /\ i.kind = "torn" => rsem[r] < starts
         /\ i.kind = "doc" => /\ i.boot >= rsem[r] /\ Older(i, mem[rshm[r]])
                              /\ view[r].kind = "doc" => Older(view[r], i)
         /\ rsem[r] = starts => i = mem[sshm] /\ i.boot = starts /\ i.n > 0 /\ sshm # 0
<1>0. TypeOK /\ Positions /\ TokenConserved /\ SemaphoreExclusion
  BY DEF IInv
<1>1. rsem[r] \in Boots /\ ReaderHolds(r, rsem[r]) /\ rshm[r] # 0
  BY <1>0 DEF TypeOK, Positions, Boots, ReaderHolds
<1>2. fate[rsem[r]] = "live" /\ ~ ServerHolds(rsem[r])
  BY <1>0, <1>1 DEF TokenConserved, Held, SemaphoreExclusion
<1>3. /\ rshm[r] \in Boots /\ mem[rshm[r]].boot >= rsem[r]
      /\ rsem[r] = starts => rshm[r] = sshm /\ mem[rshm[r]].kind \in {"blank", "doc"}
  BY <1>1, <1>2, ParserAlone DEF Boots
<1>4. /\ rsaw[r] \in Images /\ mem[rshm[r]] \in Images /\ view[r] \in Images
      /\ starts \in Nat /\ rsem[r] \in Nat /\ rsem[r] <= starts
  BY <1>0, <1>3 DEF TypeOK, MemoryOfReader
<1>5. i = Garbage \/ (i \in {rsaw[r], mem[rshm[r]]} /\ i.kind = "doc")
  BY DEF MayParseTo
<1>6. i \in Images /\ i.kind \in {"doc", "torn"} /\ Garbage.kind = "torn"
  BY <1>4, <1>5, ImagesLemma DEF Garbage, Image
<1>7. Older(mem[rshm[r]], mem[rshm[r]])
  BY <1>4 DEF Older, Images
<1>8. i.kind = "doc" => /\ i.boot >= rsem[r] /\ Older(i, mem[rshm[r]])
                        /\ view[r].kind = "doc" => Older(view[r], i)
  BY <1>1, <1>3, <1>5, <1>6, <1>7 DEF MemoryOfReader
<1>9. ASSUME rsem[r] = starts
      PROVE  i = mem[sshm] /\ i.boot = starts /\ i.n > 0 /\ sshm # 0 /\ i.kind = "doc"
  <2>1. rsaw[r] = mem[rshm[r]] /\ mem[rshm[r]].kind \in {"blank", "doc"} /\ rshm[r] = sshm
    BY <1>3, <1>9 DEF MemoryOfReader
  <2>2. i = mem[sshm] /\ i.kind = "doc"
    BY <2>1, <1>5, <1>6 DEF MayParseTo
  <2>3. sshm # 0
    BY <1>1, <2>1
  <2> QED
    BY <2>2, <2>3 DEF MemoryOfServer
<1>10. i.kind = "torn" => rsem[r] < starts
  BY <1>4, <1>9
<1> QED
  BY <1>6, <1>8, <1>9, <1>10

\* A step of the reader itself.
LEMMA OwnStep ==
  ASSUME IInv, IInv', MemoryOfServer, MemoryOfServer', NEW r \in Readers, MemoryOfReader(r),
         RdNext(r)
  PROVE  MemoryOfReader(r)'
<1> USE DEF kernelVars, serverVars, readerVars
<1>0. TypeOK /\ Positions /\ TokenConserved /\ TypeOK' /\ SemaphoreExclusion
  BY DEF IInv
<1>1. /\ UNCHANGED <<semName, shmName, mem, starts, spc, sshm, ver>>
      /\ \A k \in Boots : fate'[k] = "live" => fate[k] = "live"
  BY ReaderKeeps
<1>2. CASE RdSemOpen(r)
  <2>1. /\ rsem'[r] = starts /\ rpc'[r] = "semopen" /\ rshm'[r] = rshm[r]
        /\ view'[r] = view[r] /\ rpc[r] = "off"
    BY <1>0, <1>2 DEF RdSemOpen, MemoryOfServer, TypeOK
  <2>2. rshm[r] = 0 /\ view[r] = NoImage
    BY <2>1 DEF MemoryOfReader
  <2> QED
    BY <1>0, <1>1, <2>1, <2>2 DEF MemoryOfReader, NoImage, Image, TypeOK
<1>3. CASE RdShmOpen(r)
  <2>1. /\ rsem'[r] = rsem[r] /\ rpc'[r] = "idle" /\ rshm'[r] = shmName /\ shmName \in Boots
        /\ view'[r] = view[r] /\ rpc[r] = "semopen" /\ fate' = fate
    BY <1>0, <1>3 DEF RdShmOpen, TypeOK, Boots
  <2>2. rsem[r] \in Boots /\ view[r] = NoImage
    BY <1>0, <2>1 DEF MemoryOfReader, Positions, TypeOK, Boots
  <2>3. Fresh(shmName, rsem[r])
    BY <2>1, <2>2 DEF MemoryOfServer, Boots
  <2>4. Fresh(rshm[r], rsem[r])'
    BY <1>1, <2>1, <2>3 DEF Fresh
  <2>5. shmName = IF sshm # 0 THEN sshm ELSE shmName
    BY <2>1 DEF MemoryOfServer, Boots
  <2> QED
    BY <1>1, <2>1, <2>2, <2>4, <2>5 DEF MemoryOfReader, NoImage, Image
<1>4. CASE RdNoShm(r) \/ RdFault(r) \/ RdQuit(r) \/ RdKill(r)
  <2>1. /\ rpc'[r] = "off" /\ rsem'[r] = 0 /\ rshm'[r] = 0 /\ view'[r] = NoImage
    BY <1>0, <1>4 DEF RdNoShm, RdFault, RdQuit, RdKill, Gone, TypeOK
  <2> QED
    BY <1>0, <1>1, <2>1 DEF MemoryOfReader, NoImage, Image, TypeOK
<1>5. CASE RdTick(r) \/ RdParseFail(r)
  <2>1. /\ rsem'[r] = rsem[r] /\ rshm'[r] = rshm[r] /\ view'[r] = view[r]
        /\ rpc'[r] \in {"idle", "waiting"} /\ rpc[r] \in {"idle", "parsing"}
    BY <1>0, <1>5 DEF RdTick, RdParseFail, TypeOK
  <2>2. rshm[r] # 0 /\ rsem[r] \in Boots
    BY <1>0, <2>1 DEF Positions, TypeOK, Boots
  <2>3. Fresh(rshm[r], rsem[r])'
    BY <1>1, <2>1, <2>2 DEF MemoryOfReader, Fresh
  <2> QED
    BY <1>1, <2>1, <2>2, <2>3 DEF MemoryOfReader
<1>6. CASE RdWait(r)
  <2>1. /\ rsem'[r] = rsem[r] /\ rshm'[r] = rshm[r] /\ view'[r] = view[r]
        /\ rpc'[r] = "parsing" /\ rpc[r] = "waiting" /\ fate' = fate
        /\ rsaw'[r] = mem[rshm[r]] /\ sem[rsem[r]] > 0
    BY <1>0, <1>6 DEF RdWait, TypeOK
  <2>2. rshm[r] # 0 /\ rsem[r] \in Boots
    BY <1>0, <2>1 DEF Positions, TypeOK, Boots
  <2>3. fate[rsem[r]] = "live" /\ ~ ServerHolds(rsem[r])
    BY <1>0, <2>1, <2>2 DEF TokenConserved, TypeOK, Held
  <2>4. rshm[r] \in Boots /\ mem[rshm[r]].boot >= rsem[r]
    BY <2>2, <2>3, ParserAlone DEF Boots
  <2>5. Fresh(rshm[r], rsem[r])'
    BY <1>1, <2>1, <2>2 DEF MemoryOfReader, Fresh
  <2>6. Older(mem[rshm[r]], mem[rshm[r]])
    BY <1>0, <2>4 DEF Older, Images, TypeOK
  <2> QED
    BY <1>1, <2>1, <2>2, <2>4, <2>5, <2>6 DEF MemoryOfReader
<1>7. CASE RdLoad(r)
  <2>1. PICK i \in MayParseTo(rsaw[r], mem[rshm[r]]) : view' = [view EXCEPT ![r] = i]
    BY <1>7 DEF RdLoad
  <2>2. /\ rsem'[r] = rsem[r] /\ rshm'[r] = rshm[r] /\ view'[r] = i
        /\ rpc'[r] = "idle" /\ rpc[r] = "parsing" /\ fate' = fate
    BY <1>0, <1>7, <2>1 DEF RdLoad, TypeOK
  <2>3. rshm[r] # 0 /\ rsem[r] \in Boots
    BY <1>0, <2>2 DEF Positions, TypeOK, Boots
  <2>4. Fresh(rshm[r], rsem[r])'
    BY <1>1, <2>2, <2>3 DEF MemoryOfReader, Fresh
  <2>5. /\ i.kind = "torn" => rsem[r] < starts
        /\ i.kind = "doc" => i.boot >= rsem[r] /\ Older(i, mem[rshm[r]])
    BY <2>2, Parsed
  <2> QED
    BY <1>1, <2>2, <2>3, <2>4, <2>5 DEF MemoryOfReader
<1> QED
  BY <1>2, <1>3, <1>4, <1>5, <1>6, <1>7 DEF RdNext


LEMMA ContentsStep == IInv /\ IInv' /\ Contents /\ [Next]_vars => Contents'
<1> SUFFICES ASSUME IInv, IInv', Contents, [Next]_vars PROVE Contents'
  OBVIOUS
<1>0. MemoryOfServer /\ MemoryOfServer' /\ \A r \in Readers : MemoryOfReader(r)
  BY ServerMemoryStep DEF Contents
<1>1. ASSUME NEW r \in Readers PROVE MemoryOfReader(r)'
  <2>1. CASE SrvNext
    <3>1. UNCHANGED readerVars
      BY <2>1 DEF SrvNext, SrvStart, SrvSemOpen, SrvShmOpen, SrvShmSize, SrvShmMap, SrvInitPost,
           SrvInitFail, SrvRpc, SrvTick, SrvWait, SrvCopyBegin, SrvCopyEnd, SrvPost, SrvStop,
           SrvExit, SrvKill
    <3> QED
      BY <1>0, <2>1, <3>1, BystanderStep DEF readerVars
  <2>2. CASE RdNext(r)
    BY <1>0, <2>2, OwnStep
  <2>3. ASSUME NEW q \in Readers, RdNext(q), q # r PROVE MemoryOfReader(r)'
    <3>1. /\ rpc'[r] = rpc[r] /\ rsem'[r] = rsem[r] /\ rshm'[r] = rshm[r]
          /\ rsaw'[r] = rsaw[r] /\ view'[r] = view[r]
      BY <2>3
      DEF IInv, TypeOK, RdNext, RdSemOpen, RdShmOpen, RdNoShm, RdTick, RdWait, RdLoad,
          RdParseFail, RdFault, RdQuit, RdKill, Gone, readerVars
    <3> QED
      BY <1>0, <2>3, <3>1, ReaderKeeps, BystanderStep
  <2>4. CASE UNCHANGED vars
    BY <1>0, <2>4, BystanderStep DEF vars, kernelVars, serverVars, readerVars
  <2> QED
    BY <2>1, <2>2, <2>3, <2>4 DEF Next
<1> QED
  BY <1>0, <1>1 DEF Contents

\* What the memory holds and what the readers have loaded agree with where the copy
\* stands (set_shm_map's strcpy under the semaphore, shmmap.c 104-106), for ever.
THEOREM ContentsHold == Spec => [](IInv /\ Contents)
<1>1. Init => Contents
  BY InitContents
<1>2. IInv /\ IInv' /\ Contents /\ [Next]_vars => Contents'
  BY ContentsStep
<1> QED
  BY <1>1, <1>2, InvariantHolds, PTL DEF Spec

\* A mixture of two texts, which a parser can take for a map, is only ever loaded
\* by a reader of an earlier server's semaphore (shmmap.c 104-106, 123-133).
THEOREM TornAcrossRestart == Spec => []TornOnlyAcrossRestart
<1>1. Contents => TornOnlyAcrossRestart
  BY DEF Contents, MemoryOfReader, TornOnlyAcrossRestart
<1> QED
  BY <1>1, ContentsHold, PTL

\* No reader loads a map of a server before the one whose semaphore it opened,
\* although the memory may be a crashed server's (shmmap.c 29-49).
THEOREM NothingOlder == Spec => []NothingOlderThanSemaphore
<1>1. Contents => NothingOlderThanSemaphore
  BY DEF Contents, MemoryOfReader, NothingOlderThanSemaphore
<1> QED
  BY <1>1, ContentsHold, PTL

\* What a reader shows never goes back in time: the one action that replaces a
\* map, a parse under the semaphore, takes what is in the memory, and no memory
\* goes back (shmmap.c 104-106, 123-133).
THEOREM ViewsForward == Spec => ViewMonotone
<1> DEFINE A == \A r \in Readers : view[r].kind = "doc" /\ view'[r].kind = "doc"
                                     => Older(view[r], view'[r])
<1>1. ASSUME IInv, Contents, [Next]_vars PROVE A
  <2>0. TypeOK /\ MemoryOfServer /\ \A r \in Readers : MemoryOfReader(r)
    BY <1>1 DEF IInv, Contents
  <2> SUFFICES ASSUME NEW r \in Readers, view[r].kind = "doc", view'[r].kind = "doc"
               PROVE  Older(view[r], view'[r])
    OBVIOUS
  <2>1. Older(view[r], view[r])
    BY <2>0 DEF TypeOK, Images, Older
  <2>2. CASE view'[r] = view[r]
    BY <2>1, <2>2
  <2>3. CASE view'[r] # view[r]
    <3>1. PICK q \in Readers : RdLoad(q)
      <4>1. \A q \in Readers : Gone(q) => view'[r] \in {view[r], NoImage}
        BY <2>0 DEF Gone, TypeOK
      <4>2. NoImage.kind # "doc"
        BY DEF NoImage, Image
      <4> QED
        BY <1>1, <2>3, <4>1, <4>2
        DEF Next, SrvNext, SrvStart, SrvSemOpen, SrvShmOpen, SrvShmSize, SrvShmMap, SrvInitPost,
          SrvInitFail, SrvRpc, SrvTick, SrvWait, SrvCopyBegin, SrvCopyEnd, SrvPost, SrvStop,
          SrvExit, SrvKill, RdNext, RdSemOpen, RdShmOpen, RdNoShm, RdTick, RdWait,
          RdParseFail, RdFault, RdQuit, RdKill, vars, readerVars
    <3>2. PICK i \in MayParseTo(rsaw[q], mem[rshm[q]]) : view' = [view EXCEPT ![q] = i]
      BY <3>1 DEF RdLoad
    <3>3. q = r /\ view'[r] = i
      BY <2>0, <2>3, <3>2 DEF TypeOK
    <3>4. rpc[r] = "parsing"
      BY <3>1, <3>3 DEF RdLoad
    <3> QED
      BY <1>1, <2>0, <3>2, <3>3, <3>4, Parsed
  <2> QED
    BY <2>2, <2>3
<1>2. Spec => [][A]_vars
  BY <1>1, ContentsHold, PTL DEF Spec
<1> QED
  BY <1>2 DEF ViewMonotone


-----------------------------------------------------------------------------
(***************************************************************************)
(* The board.  A start of a server is Restart, the end of a memcpy is      *)
(* Publish, a parse that succeeds is Look or LookLeftOver; opening the     *)
(* semaphore and ending attach and leave.  Everything else stutters.       *)
(***************************************************************************)
LEMMA InitBoard == Init => BoardOf!Init
  BY DEF Init, BoardOf!Init, BoardOf!Empty, Published, Shown, NoImage, Image

LEMMA ServerBoardStep ==
  ASSUME IInv, MemoryOfServer, SrvNext
  PROVE  BoardOf!Next \/ UNCHANGED BoardOf!vars
<1> USE DEF kernelVars, serverVars, readerVars
<1>0. TypeOK /\ Positions /\ UNCHANGED <<rsem, Shown>>
  BY DEF IInv, Shown, SrvNext, SrvStart, SrvSemOpen, SrvShmOpen, SrvShmSize, SrvShmMap,
         SrvInitPost, SrvInitFail, SrvRpc, SrvTick, SrvWait, SrvCopyBegin, SrvCopyEnd, SrvPost,
         SrvStop, SrvExit, SrvKill
<1>1. CASE SrvStart
  <2>1. starts < MaxStarts /\ starts' = starts + 1 /\ Published' = 0
    BY <1>1 DEF SrvStart, Published
  <2> QED
    BY <1>0, <2>1 DEF BoardOf!Next, BoardOf!Restart
<1>2. CASE SrvCopyEnd
  <2>1. sshm \in Boots /\ starts \in Boots /\ ver \in 1 .. MaxVer /\ mem[sshm].n <= ver
    BY <1>0, <1>2
    DEF SrvCopyEnd, TypeOK, Positions, Boots, Running, ServerPc, Booting, Writing,
        MemoryOfServer
  <2>2. mem'[sshm] = Image("doc", starts, ver) /\ UNCHANGED <<starts, sshm>>
    BY <1>0, <1>2, <2>1 DEF SrvCopyEnd, TypeOK
  <2>3. Published = mem[sshm].n /\ Published' = ver
    BY <2>1, <2>2 DEF Published, Image, Boots
  <2>4. mem[sshm].n \in Nat /\ starts > 0 /\ ver \in Nat
    BY <1>0, <2>1 DEF TypeOK, Images, Boots
  <2>5. ver >= mem[sshm].n
    BY <2>1, <2>4
  <2> QED
    BY <1>0, <2>1, <2>2, <2>3, <2>4, <2>5 DEF BoardOf!Next, BoardOf!Publish
<1>3. CASE SrvShmOpen
  <2>1. sshm = 0 /\ sshm' \in Boots /\ starts' = starts
    BY <1>0, <1>3 DEF SrvShmOpen, TypeOK, Positions, Boots, MemoryOfServer
  <2>2. mem'[sshm'] = Image("unsized", starts, 0)
    BY <1>0, <1>3, <2>1 DEF SrvShmOpen, TypeOK
  <2>3. Published' = Published
    BY <2>1, <2>2 DEF Published, Image, Boots
  <2> QED
    BY <1>0, <2>1, <2>3 DEF BoardOf!vars
<1>4. CASE SrvShmSize \/ SrvCopyBegin
  <2>1. sshm \in Boots /\ UNCHANGED <<starts, sshm>> /\ mem[sshm] \in Images
    BY <1>0, <1>4
    DEF SrvShmSize, SrvCopyBegin, TypeOK, Positions, Boots, Running, ServerPc, Booting, Writing
  <2>2. PICK kind \in {"blank", "torn"} : mem'[sshm] = [mem[sshm] EXCEPT !.kind = kind]
    BY <1>0, <1>4, <2>1 DEF SrvShmSize, SrvCopyBegin, TypeOK
  <2>3. mem'[sshm].n = mem[sshm].n
    BY <2>1, <2>2, KindOnly
  <2> QED
    BY <1>0, <2>1, <2>3 DEF BoardOf!vars, Published
<1>5. CASE \/ SrvSemOpen \/ SrvShmMap \/ SrvInitPost \/ SrvInitFail \/ SrvRpc
           \/ SrvTick \/ SrvWait \/ SrvPost \/ SrvStop \/ SrvExit \/ SrvKill
  BY <1>0, <1>5
  DEF SrvSemOpen, SrvShmMap, SrvInitPost, SrvInitFail, SrvRpc, SrvTick, SrvWait, SrvPost,
      SrvStop, SrvExit, SrvKill, BoardOf!vars, Published
<1> QED
  BY <1>1, <1>2, <1>3, <1>4, <1>5 DEF SrvNext

LEMMA ReaderBoardStep ==
  ASSUME IInv, Contents, NEW r \in Readers, RdNext(r)
  PROVE  BoardOf!Next \/ UNCHANGED BoardOf!vars
<1> USE DEF kernelVars, serverVars, readerVars
<1>0. /\ TypeOK /\ Positions /\ MemoryOfServer /\ MemoryOfReader(r)
      /\ starts' = starts /\ Published' = Published
  BY ReaderKeeps DEF IInv, Contents, Published
<1>1. CASE RdSemOpen(r)
  <2>1. /\ rsem[r] = 0 /\ semName = starts /\ starts # 0
        /\ rsem' = [rsem EXCEPT ![r] = starts] /\ Shown' = Shown
    BY <1>0, <1>1 DEF RdSemOpen, MemoryOfReader, MemoryOfServer, Shown
  <2>2. starts > 0
    BY <1>0, <2>1 DEF TypeOK
  <2>3. BoardOf!Attach(r)
    BY <1>0, <2>1, <2>2 DEF BoardOf!Attach
  <2> QED
    BY <2>3 DEF BoardOf!Next
<1>2. CASE RdNoShm(r) \/ RdFault(r) \/ RdQuit(r) \/ RdKill(r)
  <2>1. rsem[r] # 0 /\ Gone(r)
    BY <1>0, <1>2 DEF RdNoShm, RdFault, RdQuit, RdKill, Positions
  <2>2. Shown' = [Shown EXCEPT ![r] = BoardOf!Empty]
    BY <1>0, <2>1 DEF Gone, Shown, NoImage, Image, BoardOf!Empty, TypeOK
  <2> QED
    BY <1>0, <2>1, <2>2 DEF BoardOf!Next, BoardOf!Leave, Gone
<1>3. CASE RdShmOpen(r) \/ RdTick(r) \/ RdWait(r) \/ RdParseFail(r)
  BY <1>0, <1>3 DEF RdShmOpen, RdTick, RdWait, RdParseFail, Shown, BoardOf!vars
<1>4. CASE RdLoad(r)
  <2>1. PICK i \in MayParseTo(rsaw[r], mem[rshm[r]]) : view' = [view EXCEPT ![r] = i]
    BY <1>4 DEF RdLoad
  <2>2. rpc[r] = "parsing" /\ rsem' = rsem /\ rsem[r] # 0
    BY <1>0, <1>4 DEF RdLoad, Positions
  <2>3. Shown' = [Shown EXCEPT ![r] = [boot |-> i.boot, n |-> i.n]]
    BY <1>0, <2>1 DEF Shown, TypeOK
  <2>4. CASE rsem[r] = starts
    <3>1. i.boot = starts /\ i.n = Published /\ Published > 0
      BY <1>0, <2>1, <2>2, <2>4, Parsed DEF Published
    <3> QED
      BY <1>0, <2>2, <2>3, <2>4, <3>1 DEF BoardOf!Next, BoardOf!Look
  <2>5. CASE rsem[r] # starts
    <3>1. rsem[r] < starts
      BY <1>0, <2>5 DEF MemoryOfReader, TypeOK
    <3>2. [boot |-> i.boot, n |-> i.n] \in BoardOf!Snapshots
      BY <1>0, <2>1, <2>2, Parsed DEF Images, BoardOf!Snapshots
    <3> QED
      BY <1>0, <2>2, <2>3, <3>1, <3>2 DEF BoardOf!Next, BoardOf!LookLeftOver
  <2> QED
    BY <2>4, <2>5
<1> QED
  BY <1>1, <1>2, <1>3, <1>4 DEF RdNext

\* ShmMap implements Board: with the semaphore opened before the memory, posted
\* only after the memory is emptied, and held through copy and parse, a reader of
\* the current server sees exactly the documents this server completed, in order,
\* whatever is killed, restarted or fails to parse (shmmap.c 26-143).
THEOREM BoardImplemented == Spec => ImplementsBoard
<1>1. Init => BoardOf!Init
  BY InitBoard
<1>2. IInv /\ Contents /\ [Next]_vars => [BoardOf!Next]_(BoardOf!vars)
  <2> SUFFICES ASSUME IInv, Contents, [Next]_vars
               PROVE  BoardOf!Next \/ UNCHANGED BoardOf!vars
    OBVIOUS
  <2>1. CASE SrvNext
    BY <2>1, ServerBoardStep DEF Contents
  <2>2. CASE \E r \in Readers : RdNext(r)
    BY <2>2, ReaderBoardStep
  <2>3. CASE UNCHANGED vars
    BY <2>3 DEF vars, kernelVars, serverVars, readerVars, BoardOf!vars, Published, Shown
  <2> QED
    BY <2>1, <2>2, <2>3 DEF Next
<1> QED
  BY <1>1, <1>2, ContentsHold, PTL DEF Spec, ImplementsBoard, BoardOf!Spec


=============================================================================
