----------------------------- MODULE MCPipeline -----------------------------
(* Four shards, one that cannot be opened and one that is empty, and the    *)
(* pipelines the builder can put together, by the question they raise.      *)
EXTENDS Pipeline

Shard(n) == [opens |-> TRUE, samples |-> n]
MCUrls == <<Shard(1), [opens |-> FALSE, samples |-> 1], Shard(2), Shard(0)>>
MCMixes == {<<3, 1, 4>>, <<1, 4, 3>>, <<4, 3, 1>>}

Base ==
  [world |-> 1, workers |-> 1, list |-> "fixed", nodes |-> "refuse",
   split |-> TRUE, pool |-> 1..4, window |-> 1, handler |-> "continue", check |-> TRUE,
   cached |-> FALSE, repeats |-> 1, limit |-> Unlimited, iters |-> 2]

Handlers == {"continue", "stop", "reraise"}

(* Split between processes, workers, both or neither, with every handler. *)
Splits ==
  {[Base EXCEPT !.workers = m, !.nodes = "split", !.handler = h, !.window = b] :
     m \in {1, 2}, h \in Handlers, b \in {1, 2}}
  \cup {[Base EXCEPT !.world = 2, !.workers = m, !.nodes = "split", !.handler = h,
                     !.window = 2, !.iters = 1] : m \in {1, 2}, h \in Handlers}

(* Not split although there are two processes. *)
Unsplit ==
  {[Base EXCEPT !.world = 2, !.nodes = k, !.handler = h, !.iters = 1] :
     k \in {"refuse", "all"}, h \in Handlers}

(* Mixed lists in two processes; shards drawn without end, from a pool of   *)
(* good and bad ones, and from pools in which there is nothing to hand out.  *)
Drawn ==
  {[Base EXCEPT !.world = 2, !.nodes = "split", !.list = "mixed", !.repeats = 2,
                !.iters = 1],
   [Base EXCEPT !.workers = 2, !.list = "resampled", !.repeats = Forever,
                !.limit = 2, !.iters = 1]}
  \cup {[Base EXCEPT !.list = "resampled", !.pool = pool, !.handler = h,
                     !.repeats = 2, !.limit = 2, !.iters = 1, !.check = c] :
          pool \in {{4}, {2, 4}, {1, 2, 4}}, h \in Handlers, c \in BOOLEAN}

(* Repeated runs, of two workers one of which has nothing to read. *)
Repeats ==
  {[Base EXCEPT !.workers = 2, !.repeats = r, !.limit = n, !.check = c, !.iters = 1] :
     r \in {0, 2, Forever}, n \in {3, Unlimited}, c \in BOOLEAN}

Caches ==
  {[Base EXCEPT !.cached = TRUE, !.repeats = r, !.iters = 3, !.check = c] :
     r \in {1, 2}, c \in BOOLEAN}

MCPlans == Splits \cup Unsplit \cup Drawn \cup Repeats \cup Caches

(* A mixed list and two workers, as builder_from_yaml under a DataLoader. *)
MCMixedPlans == {[Base EXCEPT !.workers = 2, !.list = "mixed", !.iters = 1]}
=============================================================================
