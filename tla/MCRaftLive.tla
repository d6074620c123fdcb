----------------------------- MODULE MCRaftLive -----------------------------
(* Two candidates; no symmetry and no view, for liveness. *)
EXTENDS RaftLive

CONSTANTS s1, s2, s3

Handover == {<<s1, 1>>, <<s2, 2>>}
=============================================================================
