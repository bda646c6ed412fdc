--------------------------- MODULE MCAsyncPipeline ---------------------------
(* Three small shards at a time, one or two of them in flight. *)
EXTENDS AsyncPipeline

F(key, ext) == [key |-> key, ext |-> ext]
MCFiles == {F(k, e) : k \in {"a", "b"}, e \in {"x", "y", ""}}

Archive(files) == [opens |-> TRUE, files |-> files]
Missing == [opens |-> FALSE, files |-> <<>>]

(* Two samples and a bare file; a duplicate; broken off; empty. *)
MCShards ==
  {Missing, Archive(<<>>),
   Archive(<<F("a", "x"), F("a", "y"), F("b", ""), F("b", "x")>>),
   Archive(<<F("a", "x"), F("a", "x"), F("a", "y")>>),
   Archive(<<F("b", "x"), F("a", "y"), Broken>>)}

Base ==
  [shards |-> <<>>, handler |-> "continue", width |-> 1, check |-> TRUE,
   repeats |-> 1, limit |-> Unlimited]

Handlers == {"continue", "stop", "reraise"}

(* Every pair of shards, one after the other and together; three, two at a time. *)
Reads ==
  {[Base EXCEPT !.shards = <<s, t>>, !.handler = h, !.width = n] :
     s, t \in MCShards, h \in Handlers, n \in {1, 2}}
  \cup {[Base EXCEPT !.shards = <<s, t, s>>, !.handler = h, !.width = 2] :
          s, t \in MCShards, h \in {"continue", "reraise"}}

(* Epochs over small lists, some of them empty. *)
Epochs ==
  {[Base EXCEPT !.shards = s, !.width = 2, !.check = c, !.repeats = r, !.limit = n] :
     s \in {<<>>, <<Missing>>, <<Archive(<<F("a", "x")>>), Archive(<<F("b", "y")>>)>>},
     c \in BOOLEAN, r \in {0, 2, Forever}, n \in {0, 3, Unlimited}}

MCPlans == Reads \cup Epochs
=============================================================================
