-------------------------- MODULE MCDirectoryShards --------------------------
(* Two processes on a directory of two shards; the first runs two workers. *)
EXTENDS DirectoryShards

CONSTANTS p1, p2, r1, r2, r3

MCOwner == [r \in Readers |-> IF r = r3 THEN p2 ELSE p1]
MCFirstPid == [p \in Procs |-> IF p = p1 THEN 1 ELSE 2]
=============================================================================
