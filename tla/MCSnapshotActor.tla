-------------------------- MODULE MCSnapshotActor --------------------------
(* Model-checking instance of SnapshotActor.  The prefixes are "a" and "ab", *)
(* in one keyspace: a scan for "a" meets the entries of "ab".  a is a        *)
(* snapshot actor, ab a store that is put to, deleted from and purged.       *)
EXTENDS SnapshotActor, TLC

CONSTANTS a, ab

Shared == {<<ab, a>>}
Bytes == <<a, ab>>

\* The purges of ab do not meet what a has stored; what a's scans meet of ab
\* is in ScansSeeOwn.
ASSUME InstanceApart == ActorsApart /\ PurgesApart
=============================================================================
