---------------------------- MODULE MCRaftRestart ----------------------------
(* Processes that end and are started again. *)
EXTENDS RaftRestart, MCRaft

TwoCandidates == {<<s1, 1>>, <<s3, 1>>}
=============================================================================
