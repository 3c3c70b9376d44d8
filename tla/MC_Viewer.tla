------------------------------ MODULE MC_Viewer ------------------------------
(* Instances of Viewer for model checking. *)
EXTENDS Viewer, Sequences

Entry(s, u, j) == [server |-> s, fid |-> "scratch", uid |-> u, jid |-> j]

\* Two jobs of one user on a server, and another user's on a second one.
TwoAndOne ==
  <<Entry("oss0", "ann", "1"), Entry("oss0", "ann", "2"), Entry("oss1", "bob", "3")>>
=============================================================================
