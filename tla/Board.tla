-------------------------------- MODULE Board --------------------------------
(***************************************************************************)
(* What the shared-memory map promises its readers, with no semaphore, no  *)
(* memory and no copying: a board on which the current server shows one    *)
(* complete snapshot at a time, each no older than the last.  A viewer     *)
(* that attached to the current server's board sees exactly the snapshot   *)
(* shown when it looks.  A viewer left over from an earlier server's board *)
(* is promised nothing.                                                    *)
(***************************************************************************)
EXTENDS Naturals

CONSTANTS
  Readers,     \* the viewers
  MaxStarts,   \* bound: servers, one after the other
  MaxVer       \* bound: snapshots a server shows

VARIABLES
  epoch,       \* the current server, 0 before the first
  published,   \* the snapshot on its board, 0 when it is still empty
  attached,    \* the server each viewer attached to, 0 when it is closed
  shown        \* the snapshot each viewer displays, and whose it is

vars == <<epoch, published, attached, shown>>

Snapshots == [boot : 0 .. MaxStarts, n : 0 .. MaxVer]
Empty == [boot |-> 0, n |-> 0]

Init ==
  /\ epoch = 0 /\ published = 0
  /\ attached = [r \in Readers |-> 0]
  /\ shown = [r \in Readers |-> Empty]

\* A new server takes over with an empty board.
Restart ==
  /\ epoch < MaxStarts
  /\ epoch' = epoch + 1 /\ published' = 0
  /\ UNCHANGED <<attached, shown>>

Publish ==
  /\ epoch > 0
  /\ \E n \in 1 .. MaxVer : n >= published /\ published' = n
  /\ UNCHANGED <<epoch, attached, shown>>

Attach(r) ==
  /\ attached[r] = 0 /\ epoch > 0
  /\ attached' = [attached EXCEPT ![r] = epoch]
  /\ UNCHANGED <<epoch, published, shown>>

Leave(r) ==
  /\ attached[r] # 0
  /\ attached' = [attached EXCEPT ![r] = 0]
  /\ shown' = [shown EXCEPT ![r] = Empty]
  /\ UNCHANGED <<epoch, published>>

\* The current server's viewer looks.
Look(r) ==
  /\ attached[r] = epoch /\ published > 0
  /\ shown' = [shown EXCEPT ![r] = [boot |-> epoch, n |-> published]]
  /\ UNCHANGED <<epoch, published, attached>>

\* A viewer of an earlier server looks, and may see anything.
LookLeftOver(r) ==
  /\ attached[r] # 0 /\ attached[r] < epoch
  /\ \E s \in Snapshots : shown' = [shown EXCEPT ![r] = s]
  /\ UNCHANGED <<epoch, published, attached>>

Next ==
  \/ Restart \/ Publish
  \/ \E r \in Readers : Attach(r) \/ Leave(r) \/ Look(r) \/ LookLeftOver(r)

Spec == Init /\ [][Next]_vars
=============================================================================
