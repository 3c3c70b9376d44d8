------------------------------ MODULE MC_Collect ------------------------------
(* Instances of Collect for model checking. *)
EXTENDS Collect

\* A server of both kinds, one client's exports on two of its osts, an osd; or a
\* host that mounts.
MCPlaces == {"ost0", "ost1", "osd", "mount", "conn"}
MCStatsType == [ost0 |-> "oss", ost1 |-> "oss", osd |-> "target",
                mount |-> "llite", conn |-> "osc"]
MCTarget == [ost0 |-> "OST0", ost1 |-> "OST1", osd |-> "OST0",
             mount |-> "work", conn |-> "OST0"]
MCNid == [ost0 |-> "c1", ost1 |-> "c1", osd |-> NoNid,
          mount |-> NoNid, conn |-> NoNid]
MCHosts == {{"mdt", "obdfilter"}, {"osc"}}
=============================================================================
