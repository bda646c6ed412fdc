------------------------------ MODULE Pipeline ------------------------------
(***************************************************************************)
(* The pipeline WebDataset builds and its worker threads run               *)
(* (crates/webdataset/src/dataset.rs, pipeline.rs, shardlists.rs,          *)
(* stages.rs, sources.rs): a list of shards, split between processes and   *)
(* workers and shuffled; the samples of each shard; the check for an empty *)
(* stream; a cache in memory; and the epochs that repeat all of it.  The   *)
(* workers of a process run clones of the pipeline, which share its        *)
(* stages: the generator of a mixed list and the cache.                    *)
(*                                                                         *)
(* A run is one pass through the stages (run_once); an iteration is one    *)
(* stream a worker hands out, of one run or of several.                    *)
(***************************************************************************)
EXTENDS Integers, Sequences, FiniteSets

CONSTANTS
  Urls,       (* the shards, [opens, samples]                               *)
  Mixes,      (* the lists a MultiShardSample may draw                      *)
  Plans,      (* the pipelines                                              *)
  Forever,    (* Repetitions::Forever                                       *)
  Unlimited,  (* limit: None                                                *)
  MaxTeam,    (* bound: processes, and workers of a process                 *)
  MaxItems    (* bound: items a consumer takes from an iteration            *)

Shards == DOMAIN Urls

(* world, workers: processes and the threads of each.  list: SimpleShardList,*)
(* MultiShardSample or ResampledShards.  nodes: NodeSplit.  split: whether   *)
(* SplitByWorker follows.  pool: what a ResampledShards draws from, which is *)
(* never empty.  window: the buffer of the shard shuffle, 1 for none.        *)
(* check: CheckEmpty.  cached: MemoryCache.  iters: how many times    *)
(* the consumer iterates.                                                    *)
Plan ==
  [world : 1..MaxTeam, workers : 1..MaxTeam, list : {"fixed", "mixed", "resampled"},
   nodes : {"refuse", "split", "all"}, split : BOOLEAN,
   pool : SUBSET Shards \ {{}}, window : Nat \ {0},
   handler : {"continue", "stop", "reraise"}, check : BOOLEAN, cached : BOOLEAN,
   repeats : Nat \cup {Forever}, limit : (Nat \ {0}) \cup {Unlimited},
   iters : Nat]

ASSUME PipelineAssumption ==
  /\ Urls \in Seq([opens : BOOLEAN, samples : Nat]) /\ Urls # <<>>
  /\ Mixes \subseteq Seq(Shards)
  /\ Plans \subseteq Plan
  /\ Forever \notin Nat /\ Unlimited \notin Nat
  /\ MaxTeam \in Nat /\ MaxItems \in Nat \ {0}

VARIABLES
  plan,    (* the pipeline that is run; constant                            *)
  drawn,   (* the lists the generator gives, so far as anyone has drawn; it *)
           (* is seeded alike in every process                              *)
  draws,   (* of each process, how many it has drawn                        *)
  cache,   (* of each process, MemoryCache::cached                          *)
  worker,  (* of each worker, its iteration                                 *)
  got      (* history: of each worker, the items it has handed out          *)

vars == <<plan, drawn, draws, cache, worker, got>>

Ranks == 0..(plan.world - 1)
Team(r) == {r} \X (0..(plan.workers - 1))
Workers == UNION {Team(r) : r \in Ranks}

(* pc: "none" (nothing asked for), "start" and "stage" (in run_once),        *)
(* "pull" (in next()), "between" (two calls of it), "ended" or "dropped".    *)
(* left: epochs_left.  taken: items of this iteration.  of a run: list, the  *)
(* shards to come; unread, the samples to come of the open one; done, the    *)
(* reader has stopped; produced: produced_this_epoch; source: where samples  *)
(* come from; held: Filling::collected, or what is left to replay.           *)
(* finished: history, the runs that were read to their end.                  *)
Idle ==
  [pc |-> "none", iters |-> 0, left |-> 0, taken |-> 0, runs |-> 0,
   list |-> <<>>, unread |-> <<>>, done |-> FALSE, produced |-> 0,
   source |-> "shards", held |-> <<>>, finished |-> {}]

Init ==
  /\ plan \in Plans
  /\ drawn = <<>>
  /\ draws = [r \in Ranks |-> 0]
  /\ cache = [r \in Ranks |-> <<>>]
  /\ worker = [w \in Workers |-> Idle]
  /\ got = [w \in Workers |-> <<>>]

-----------------------------------------------------------------------------
(* The consumer.  The loader joins the workers of an epoch before it starts *)
(* the next; a worker notices that it is no longer wanted between items.    *)

Iterate(r) ==
  /\ \A w \in Team(r) : /\ worker[w].pc \in {"none", "ended", "dropped"}
                        /\ worker[w].iters < plan.iters
  /\ worker' = [w \in Workers |->
       IF w \notin Team(r) THEN worker[w]
       ELSE [worker[w] EXCEPT !.pc = "start", !.iters = @ + 1,
                              !.left = plan.repeats, !.taken = 0, !.produced = 0]]
  /\ UNCHANGED <<plan, drawn, draws, cache, got>>

(* Mutant: `take` counts within a run. *)
ResumePerRun(w) ==
  /\ worker[w].pc = "between"
  /\ worker[w].taken < MaxItems
  /\ worker' = [worker EXCEPT ![w].pc =
       IF worker[w].produced = plan.limit THEN "ended" ELSE "pull"]
  /\ UNCHANGED <<plan, drawn, draws, cache, got>>

(* Take: the limit is met before anything more is pulled. *)
Resume(w) ==
  /\ worker[w].pc = "between"
  /\ worker[w].taken < MaxItems
  /\ worker' = [worker EXCEPT ![w].pc =
       IF worker[w].taken = plan.limit THEN "ended" ELSE "pull"]
  /\ UNCHANGED <<plan, drawn, draws, cache, got>>

(* Mutant: the cache is committed when the stream is dropped. *)
AbandonCommits(w) ==
  /\ worker[w].pc = "between"
  /\ worker' = [worker EXCEPT ![w].pc = "dropped"]
  /\ cache' = IF plan.cached /\ cache[w[1]] = <<>>
              THEN [cache EXCEPT ![w[1]] = <<worker[w].held>>] ELSE cache
  /\ UNCHANGED <<plan, drawn, draws, got>>

Abandon(w) ==
  /\ worker[w].pc = "between"
  /\ worker' = [worker EXCEPT ![w].pc = "dropped"]
  /\ UNCHANGED <<plan, drawn, draws, cache, got>>

-----------------------------------------------------------------------------
(* run_once: every stage's apply.                                          *)

(* skip(k).step_by(n) *)
Split(list, k, n) ==
  [i \in 1..((Len(list) - k + n - 1) \div n) |-> list[k + 1 + (i - 1) * n]]

(* SingleNodeOnly puts an Err in the place of the list. *)
Refused == 0
Refuses == plan.nodes = "refuse" /\ plan.world > 1
Opens(s) == s # Refused /\ Urls[s].opens

OfNode(list, r) ==
  IF Refuses THEN <<Refused>>
  ELSE IF plan.nodes = "split" THEN Split(list, r, plan.world) ELSE list

(* Mutant: shares overlap by one shard. *)
ShareOfAll(list, w) ==
  LET node == OfNode(list, w[1])
  IN IF plan.split /\ w[2] > 0 THEN Split(node, w[2] - 1, plan.workers) ELSE node

Share(list, w) ==
  LET node == OfNode(list, w[1])
  IN IF plan.split THEN Split(node, w[2], plan.workers) ELSE node

(* The next list of a generator that all processes seed alike. *)
Draw(r, list) ==
  /\ draws' = [draws EXCEPT ![r] = @ + 1]
  /\ drawn' = IF draws[r] < Len(drawn) THEN drawn ELSE Append(drawn, list)
  /\ list = drawn'[draws[r] + 1]

Fixed == [s \in Shards |-> s]

Started(w, share) ==
  [worker EXCEPT
     ![w].pc = "stage",
     ![w].left = IF @ = Forever THEN @ ELSE @ - 1,
     ![w].runs = @ + 1,
     ![w].list = share, ![w].unread = <<>>, ![w].done = FALSE,
     ![w].produced = 0]

Start(w) ==
  /\ worker[w].pc = "start" /\ worker[w].left # 0
  /\ \/ /\ plan.list = "fixed"
        /\ worker' = Started(w, Share(Fixed, w))
        /\ UNCHANGED <<drawn, draws>>
     \/ /\ plan.list = "mixed"
        /\ \E list \in Mixes :
             Draw(w[1], list) /\ worker' = Started(w, Share(list, w))
     \/ /\ plan.list = "resampled"
        /\ worker' = Started(w, <<>>)
        /\ UNCHANGED <<drawn, draws>>
  /\ UNCHANGED <<plan, cache, got>>

NoEpochLeft(w) ==
  /\ worker[w].pc = "start" /\ worker[w].left = 0
  /\ worker' = [worker EXCEPT ![w].pc = "ended"]
  /\ UNCHANGED <<plan, drawn, draws, cache, got>>

(* MemoryCache::apply looks at the cache once. *)
Apply(w) ==
  LET full == plan.cached /\ cache[w[1]] # <<>>
  IN /\ worker[w].pc = "stage"
     /\ worker' = [worker EXCEPT
          ![w].pc = "pull",
          ![w].source = IF full THEN "cache" ELSE "shards",
          ![w].held = IF full THEN cache[w[1]][1] ELSE <<>>]
     /\ UNCHANGED <<plan, drawn, draws, cache, got>>

-----------------------------------------------------------------------------
(* next(), down to the reader and up again.                                *)

Pulling(w, source) == worker[w].pc = "pull" /\ worker[w].source = source

Produced(state, w) ==
  [state EXCEPT ![w].pc = "between", ![w].taken = @ + 1, ![w].produced = @ + 1]

Item(w, sample) ==
  [iter |-> worker[w].iters, run |-> worker[w].runs, source |-> worker[w].source,
   sample |-> sample]
Error == <<>>

Hands(w, sample) ==
  /\ got' = [got EXCEPT ![w] = Append(@, Item(w, sample))]
  /\ UNCHANGED <<plan, drawn, draws, cache>>

TakeSample(w) ==
  /\ Pulling(w, "shards") /\ worker[w].unread # <<>>
  /\ LET sample == Head(worker[w].unread)
     IN /\ Hands(w, sample)
        /\ worker' = [Produced(worker, w) EXCEPT
             ![w].unread = Tail(@),
             ![w].held = IF plan.cached THEN Append(@, sample) ELSE @]

(* ResampledShards has no end: it draws a shard whenever one is asked for. *)
DrawShard(w) ==
  /\ plan.list = "resampled" /\ Pulling(w, "shards")
  /\ worker[w].unread = <<>> /\ ~worker[w].done /\ worker[w].list = <<>>
  /\ \E s \in plan.pool : worker' = [worker EXCEPT ![w].list = <<s>>]
  /\ UNCHANGED <<plan, drawn, draws, cache, got>>

(* The shards that may come next, each with what remains of the list: the    *)
(* shuffle holds at most `window` shards, the first of those to come.        *)
Shuffled(list) ==
  {<<list[i], [j \in 1..(Len(list) - 1) |-> list[IF j < i THEN j ELSE j + 1]]>> :
     i \in {i \in DOMAIN list : i <= plan.window}}

Upcoming(w) == IF worker[w].done THEN {} ELSE Shuffled(worker[w].list)

NextShard(w, next) ==
  /\ Pulling(w, "shards") /\ worker[w].unread = <<>>
  /\ next \in Upcoming(w)

OpenShard(w) ==
  \E next \in Upcoming(w) :
    /\ NextShard(w, next) /\ Opens(next[1])
    /\ worker' = [worker EXCEPT
         ![w].list = next[2],
         ![w].unread = [k \in 1..Urls[next[1]].samples |-> <<next[1], k>>]]
    /\ UNCHANGED <<plan, drawn, draws, cache, got>>

(* Mutant: a shard that cannot be opened is tried again. *)
OpenFailsAgain(w) ==
  \E next \in Upcoming(w) :
    /\ NextShard(w, next) /\ ~Opens(next[1])
    /\ LET on == [worker EXCEPT ![w].done = plan.handler # "continue"]
       IN IF plan.handler = "reraise"
          THEN worker' = Produced(on, w) /\ Hands(w, Error)
          ELSE worker' = on /\ UNCHANGED <<plan, drawn, draws, cache, got>>

(* A shard that cannot be opened goes by the handler: see ShardReader. *)
OpenFails(w) ==
  \E next \in Upcoming(w) :
    /\ NextShard(w, next) /\ ~Opens(next[1])
    /\ LET on == [worker EXCEPT ![w].list = next[2],
                                ![w].done = plan.handler # "continue"]
       IN IF plan.handler = "reraise"
          THEN worker' = Produced(on, w) /\ Hands(w, Error)
          ELSE worker' = on /\ UNCHANGED <<plan, drawn, draws, cache, got>>

SourceEnds(w) ==
  /\ Pulling(w, "shards") /\ worker[w].unread = <<>> /\ Upcoming(w) = {}
  /\ plan.list = "resampled" => worker[w].done

(* Mutant: an iteration that has had a sample is not empty. *)
NothingSeenYet(w) == plan.check /\ worker[w].taken = 0

(* CheckEmpty: nothing has come through in this run. *)
NothingSeen(w) == plan.check /\ worker[w].produced = 0

ReportEmpty(w) ==
  /\ SourceEnds(w) /\ NothingSeen(w)
  /\ worker' = Produced(worker, w)
  /\ Hands(w, Error)

(* Repeated: an epoch without an item is the last. *)
Over(w) == IF worker[w].produced = 0 THEN "ended" ELSE "start"

(* The end of a pass through the shards commits it, if it is the first. *)
EndRun(w) ==
  /\ SourceEnds(w) /\ ~NothingSeen(w)
  /\ cache' = IF plan.cached /\ cache[w[1]] = <<>>
              THEN [cache EXCEPT ![w[1]] = <<worker[w].held>>] ELSE cache
  /\ worker' = [worker EXCEPT ![w].pc = Over(w),
                              ![w].finished = @ \cup {worker[w].runs}]
  /\ UNCHANGED <<plan, drawn, draws, got>>

Replay(w) ==
  /\ Pulling(w, "cache") /\ worker[w].held # <<>>
  /\ Hands(w, Head(worker[w].held))
  /\ worker' = [Produced(worker, w) EXCEPT ![w].held = Tail(@)]

EndReplay(w) ==
  /\ Pulling(w, "cache") /\ worker[w].held = <<>>
  /\ worker' = [worker EXCEPT ![w].pc = Over(w),
                              ![w].finished = @ \cup {worker[w].runs}]
  /\ UNCHANGED <<plan, drawn, draws, cache, got>>

-----------------------------------------------------------------------------
Finished ==
  /\ \A w \in Workers : worker[w].pc \in {"ended", "dropped"} /\ worker[w].iters = plan.iters
  /\ UNCHANGED vars

Step(w) ==
  \/ Start(w) \/ NoEpochLeft(w) \/ Apply(w)
  \/ TakeSample(w) \/ DrawShard(w) \/ OpenShard(w) \/ OpenFails(w)
  \/ ReportEmpty(w) \/ EndRun(w) \/ Replay(w) \/ EndReplay(w)

Next ==
  \/ \E r \in Ranks : Iterate(r)
  \/ \E w \in Workers : Resume(w) \/ Abandon(w) \/ Step(w)
  \/ Finished

Spec == Init /\ [][Next]_vars

(* A shard that ends the call of next() that meets it: one with a sample, or *)
(* one that stops the reader.                                                *)
EndsCall(s) ==
  IF Opens(s) THEN Urls[s].samples > 0 ELSE plan.handler # "continue"

(* The threads are scheduled, the consumer may stop asking, and a generator  *)
(* that draws again and again does not pass over some shards for ever.       *)
Threads == (0..(MaxTeam - 1)) \X (0..(MaxTeam - 1))
FairSpec ==
  /\ Spec
  /\ \A p \in Threads :
       /\ WF_vars(p \in Workers /\ Step(p))
       /\ SF_vars(p \in Workers /\ DrawShard(p) /\ EndsCall(worker'[p].list[1]))

-----------------------------------------------------------------------------
Handed(w, n) == {k \in DOMAIN got[w] : got[w][k].run = n}
Samples(w, n) == {got[w][k].sample : k \in Handed(w, n)} \ {Error}
Errors(n) ==
  {e \in UNION {{w} \X DOMAIN got[w] : w \in Workers} :
     got[e[1]][e[2]].run = n /\ got[e[1]][e[2]].sample = Error}

Contents(list) ==
  UNION {{<<s, k>> : k \in 1..Urls[s].samples} :
           s \in {s \in {list[i] : i \in DOMAIN list} : Opens(s)}}

(* Every shard is dealt to one worker of one process. *)
Partitioned ==
  /\ plan.list # "resampled"
  /\ plan.world = 1 \/ plan.nodes = "split"
  /\ plan.workers = 1 \/ plan.split

(* What run n is to read: with one worker in every process the nth draw. *)
ListOf(n) == IF plan.list = "fixed" THEN Fixed ELSE drawn[n]

TypeOK ==
  /\ plan \in Plans
  /\ drawn \in Seq(Mixes) /\ draws \in [Ranks -> 0..Len(drawn)]
  /\ \A r \in Ranks : Len(cache[r]) <= 1
  /\ \A w \in Workers :
       LET s == worker[w]
       IN /\ s.pc \in {"none", "start", "stage", "pull", "between", "ended", "dropped"}
          /\ s.iters \in 0..plan.iters /\ s.left \in Nat \cup {Forever}
          /\ s.taken \in 0..MaxItems /\ s.runs \in Nat
          /\ s.list \in Seq(Shards \cup {Refused}) /\ s.produced \in 0..s.taken
          /\ s.source \in {"shards", "cache"} /\ s.finished \subseteq 1..s.runs
          /\ s.done \in BOOLEAN

(* "Each worker will claim a disjoint set of shards": in one pass over the *)
(* shards no sample is handed out by two workers.                          *)
SharesAreDisjoint ==
  Partitioned =>
    \A n \in 1..MaxItems, v, w \in Workers :
      v # w => Samples(v, n) \cap Samples(w, n) = {}

(* "Every sample is seen exactly once": the workers of all processes never  *)
(* hand out a sample twice in one pass, and when every worker has read its  *)
(* share to the end without an error, all samples have been handed out.     *)
EachSampleOnce ==
  /\ SharesAreDisjoint
  /\ Partitioned =>
       \A n \in 1..MaxItems :
         /\ \A w \in Workers :
              Cardinality(Samples(w, n)) =
                Cardinality({k \in Handed(w, n) : got[w][k].sample # Error})
         /\ plan.handler # "stop" /\ Errors(n) = {}
              /\ (\A w \in Workers : n \in worker[w].finished) =>
            UNION {Samples(w, n) : w \in Workers} = Contents(ListOf(n))

(* The items of run n that came from `source`, and that they are the first  *)
(* samples of a list.                                                       *)
From(items, n, source) ==
  {k \in DOMAIN items : /\ items[k].run = n /\ items[k].source = source
                        /\ items[k].sample # Error}

Begins(items, ks, list) ==
  \A k \in ks : LET i == Cardinality({j \in ks : j <= k})
                IN i <= Len(list) /\ items[k].sample = list[i]

(* The cache holds what one worker handed out in one run that it read to the *)
(* end, and never what an abandoned run had collected; a run that is         *)
(* replayed repeats it, to its end unless it is abandoned.                   *)
CacheIsAPass ==
  \A r \in Ranks : cache[r] # <<>> =>
    LET all == cache[r][1]
    IN /\ \E w \in Team(r) : \E n \in worker[w].finished :
            LET collected == From(got[w], n, "shards")
            IN Begins(got[w], collected, all) /\ Cardinality(collected) = Len(all)
       /\ \A w \in Team(r) : \A n \in 1..worker[w].runs :
            LET replayed == From(got[w], n, "cache")
            IN /\ Begins(got[w], replayed, all)
               /\ n \in worker[w].finished => Cardinality(replayed) \in {0, Len(all)}

(* with_epoch(n) gives n items, unless the source is empty; repeat(n) gives  *)
(* n runs, unless one is empty; take(n) never gives more than n.             *)
EpochLength ==
  \A w \in Workers :
    LET s == worker[w]
        items == {k \in DOMAIN got[w] : got[w][k].iter = s.iters}
    IN /\ plan.limit # Unlimited => Cardinality(items) <= plan.limit
       /\ s.pc = "ended" /\ s.produced > 0 =>
            \/ s.left = 0
            \/ plan.limit # Unlimited /\ Cardinality(items) = plan.limit

(* "Fails if the pipeline produced no samples at all": a pass over the       *)
(* shards with the check never ends without an item, in any epoch.           *)
EmptyIsReported ==
  plan.check /\ ~plan.cached =>
    \A w \in Workers : \A n \in worker[w].finished : Handed(w, n) # {}

(* ResampledShards with nothing to give: every shard it draws is passed over *)
(* inside the call, and it never runs out of them.                           *)
Hopeless ==
  plan.list = "resampled" /\ \A s \in plan.pool : ~EndsCall(s)

(* "An empty epoch would otherwise spin forever": a call of next() returns,  *)
(* however many shards are empty or cannot be opened, unless they are drawn  *)
(* without end from a pool in which all are empty, or broken under a handler *)
(* that goes on: that call does spin forever.                                *)
NextReturns ==
  \A p \in Threads :
    (p \in Workers /\ worker[p].pc \in {"start", "stage", "pull"})
      ~> (Hopeless \/ (p \in Workers /\ worker[p].pc \in {"between", "ended"}))
=============================================================================
