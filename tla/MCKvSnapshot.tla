---------------------------- MODULE MCKvSnapshot ----------------------------
\* Two servers, one that may fall behind the other's snapshots.
EXTENDS KvSnapshotProps

CONSTANTS s1, s2
=============================================================================
