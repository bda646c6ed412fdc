---------------------------- MODULE MCDataLoader ----------------------------
(* Small loaders for TLC: inline and threaded, split and not, a source with *)
(* a dropped sample, one with a panic, and ones that leave a worker nothing. *)
EXTENDS DataLoader

Loader(n, source, split, repeats, limit) ==
  [workers |-> n, prefetch |-> 0, source |-> source, split |-> split,
   repeats |-> repeats, limit |-> limit]

Plain == <<"keep", "keep", "keep", "keep">>
Gappy == <<"keep", "drop", "drop", "keep", "keep">>
Short == <<"keep", "keep">>
Barren == <<"drop", "drop">>
Starved == <<"keep", "drop", "keep", "drop">>
Faulty == <<"keep", "keep", "panic", "keep">>

MCConfigs ==
  {Loader(n, source, TRUE, 1, Unbounded) :
     n \in {0, 2}, source \in {Plain, Gappy, Starved, Faulty}}
  \cup {Loader(n, source, TRUE, Unbounded, Unbounded) :
     n \in {1, 2}, source \in {Short, Starved, Barren}}
  \cup {Loader(2, Short, TRUE, 3, 2), Loader(2, Plain, TRUE, Unbounded, 1),
        Loader(2, Starved, FALSE, 1, Unbounded), Loader(2, Plain, TRUE, 0, Unbounded),
        Loader(3, Gappy, TRUE, 1, Unbounded)}
=============================================================================
