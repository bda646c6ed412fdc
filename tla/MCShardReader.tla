---------------------------- MODULE MCShardReader ----------------------------
(* Pairs of small shards that hold every kind of record. *)
EXTENDS ShardReader

Named(key, ext) == [key |-> key, ext |-> ext, kept |-> TRUE]
Ax == Named("a", "x")
AX == Named("a", "X")
Ay == Named("a", "y")
Bx == Named("b", "x")
By == Named("b", "y")
Bare == Named("a", "")
Unselected == [key |-> "b", ext |-> "x", kept |-> FALSE]

MCNames == {Ax, AX, Ay, Bx, By, Bare, Unselected}
MCLower == [e \in {"", "x", "X", "y"} |-> IF e = "X" THEN "x" ELSE e]

R(type, name) == [type |-> type, name |-> name]
Shard(records) == [opens |-> TRUE, records |-> records]
Missing == [opens |-> FALSE, records |-> <<>>]

(* Plain; interrupted runs; long names and paths; a duplicate; broken; ended. *)
MCShards ==
  {Missing, Shard(<<>>),
   Shard(<<R("file", Ax), R("file", Ay), R("file", Bx), R("file", By)>>),
   Shard(<<R("file", Bx), R("file", Bare), R("file", Unselected),
           R("file", By), R("file", Ax)>>),
   Shard(<<R("long", By), R("file", Ax), R("link", Ax), R("pax", Bx),
           R("skip", Ax), R("file", Ax)>>),
   Shard(<<R("long", Ax), R("link", Bx), R("file", By), R("pax", Ay),
           R("link", Ay), R("file", Bx)>>),
   Shard(<<R("file", Ax), R("file", AX), R("file", Ay)>>),
   Shard(<<R("file", Ax), R("bad", Ax), R("file", Ay)>>),
   Shard(<<R("file", By), R("end", Ax), R("bad", Ax)>>)}

(* Every archive of up to three of these records.  No file has both a long *)
(* name and a path.                                                       *)
MCRecords ==
  {R("file", Ax), R("file", AX), R("file", Ay), R("file", Bx), R("file", Bare),
   R("long", By), R("link", Bx), R("bad", Ax), R("end", Ax)}

MCInputs ==
  {<<s, t>> : s, t \in MCShards}
  \cup {<<Shard(records)>> : records \in UNION {[1..n -> MCRecords] : n \in 0..3}}
=============================================================================
