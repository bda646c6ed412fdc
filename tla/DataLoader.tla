------------------------------ MODULE DataLoader ------------------------------
(***************************************************************************)
(* One epoch of webdataset's DataLoader (crates/webdataset/src/loader.rs): *)
(* a pool of worker threads, each running its own copy of a pipeline, a    *)
(* bounded channel they share, and the LoaderIter that reads the channel   *)
(* and shuts the pool down when it is dropped.  The pipeline each worker   *)
(* runs is the one of pipeline.rs: a source, SplitByWorker, a stage that   *)
(* may drop a sample or panic, Repeated around them, take(limit) outside.  *)
(*                                                                         *)
(* A sample is known by its position in the source.  An Err item takes the *)
(* same path as a sample and is not told apart from one.                   *)
(***************************************************************************)
EXTENDS Integers, Sequences, FiniteSets

CONSTANTS
  MaxWorkers,  (* bound: no configuration asks for more workers          *)
  MaxSource,   (* bound: no source is longer                             *)
  Configs,     (* the loaders that are built                             *)
  Unbounded,   (* repeat_forever, and the limit of a pipeline without one *)
  MaxNext      (* bound: the samples taken of one stream that never ends  *)

(* What the stage after the splitter does with a sample. *)
Kinds == {"keep", "drop", "panic"}

Ids == 0..(MaxWorkers - 1)
Positions == 0..(MaxSource - 1)
Counter == Nat \cup {Unbounded}

Pass == [open : BOOLEAN, pos : Nat, yielded : BOOLEAN]

Config ==
  [workers : 0..MaxWorkers, prefetch : Nat, source : Seq(Kinds),
   split : BOOLEAN, repeats : Counter, limit : Counter]

ASSUME LoaderAssumption ==
  /\ MaxWorkers \in Nat \ {0}
  /\ MaxSource \in Nat \ {0}
  /\ MaxNext \in Nat
  /\ Unbounded \notin Nat
  /\ Configs \subseteq Config
  /\ \A c \in Configs : Len(c.source) <= MaxSource

VARIABLES
  config,      (* the loader this epoch belongs to; never changes         *)
  pc,          (* pc[w]: where worker w's thread is                       *)
  pass,        (* pass[w]: Repeated's current run of the stages           *)
  epochsLeft,  (* epochsLeft[w]: Repeated::epochs_left                    *)
  left,        (* left[w]: what take(limit) still allows                  *)
  held,        (* held[w]: the item the worker's loop body holds          *)
  chan,        (* the sync_channel                                        *)
  stop,        (* the shared flag                                         *)
  seen,        (* the workers to which the relaxed store is visible       *)
  panicked,    (* the workers whose pipeline panicked                     *)
  consumer,    (* where the owner of the LoaderIter is                    *)
  yields,      (* history: what each pipeline yielded before the drop     *)
  delivered    (* history: what next() returned, by worker                *)

stream == <<pass, epochsLeft, left>>
vars == <<config, pc, pass, epochsLeft, left, held, chan, stop, seen,
          panicked, consumer, yields, delivered>>

Minus1(n) == IF n = Unbounded THEN n ELSE n - 1

(* Zero or one worker runs inline, on the consumer's own thread. *)
Threaded == config.workers > 1
Streams == IF Threaded THEN 0..(config.workers - 1) ELSE {0}
PrefetchMin == IF config.prefetch = 0 THEN 1 ELSE config.prefetch
Capacity == PrefetchMin * config.workers

(* input.skip(worker).step_by(num_workers), or the whole input. *)
Splitting == config.split /\ Threaded

First(w) == IF Splitting THEN w ELSE 0
Stride == IF Splitting THEN config.workers ELSE 1

Alive == consumer \in {"idle", "waiting", "ended", "unwinding"}

(* nth is history: the entry is its worker's nth; 0 once nobody can see it. *)
Entry == [from : Ids, item : Positions, nth : Nat]
Blank == [from |-> 0, item |-> 0, nth |-> 0]

Init ==
  /\ config \in Configs
  /\ pc = [w \in Ids |-> IF w \notin Streams THEN "gone"
                         ELSE IF Threaded THEN "pull" ELSE "idle"]
  /\ pass = [w \in Ids |-> [open |-> FALSE, pos |-> 0, yielded |-> FALSE]]
  /\ epochsLeft = [w \in Ids |-> config.repeats]
  /\ left = [w \in Ids |-> config.limit]
  /\ held = [w \in Ids |-> Blank]
  /\ chan = <<>>
  /\ stop = FALSE
  /\ seen = {}
  /\ panicked = {}
  /\ consumer = "idle"
  /\ yields = [w \in Ids |-> <<>>]
  /\ delivered = [w \in Ids |-> <<>>]

-----------------------------------------------------------------------------
(* The pipeline, pulled one source element at a time.                      *)

AtKind(w, k) ==
  /\ pc[w] = "pull" /\ left[w] # 0
  /\ pass[w].open
  /\ pass[w].pos < Len(config.source)
  /\ config.source[pass[w].pos + 1] = k

(* take(0), or Repeated with no epoch left: iter() returns None. *)
Finish(w) ==
  /\ pc[w] = "pull"
  /\ left[w] = 0 \/ (~pass[w].open /\ epochsLeft[w] = 0)
  /\ pc' = [pc EXCEPT ![w] = "gone"]
  /\ UNCHANGED <<config, stream, held, chan, stop, seen, panicked, consumer,
                 yields, delivered>>

OpenPass(w) ==
  /\ pc[w] = "pull" /\ left[w] # 0
  /\ ~pass[w].open
  /\ epochsLeft[w] # 0
  /\ pass' = [pass EXCEPT ![w] =
                [open |-> TRUE, pos |-> First(w), yielded |-> FALSE]]
  /\ epochsLeft' = [epochsLeft EXCEPT ![w] = Minus1(@)]
  /\ UNCHANGED <<config, pc, left, held, chan, stop, seen, panicked, consumer,
                 yields, delivered>>

Skip(w) ==
  /\ AtKind(w, "drop")
  /\ pass' = [pass EXCEPT ![w].pos = @ + Stride]
  /\ UNCHANGED <<config, pc, epochsLeft, left, held, chan, stop, seen,
                 panicked, consumer, yields, delivered>>

Advance(w) ==
  /\ pass' = [pass EXCEPT ![w] =
                [open |-> TRUE, pos |-> @.pos + Stride, yielded |-> TRUE]]
  /\ left' = [left EXCEPT ![w] = Minus1(@)]

(* A worker's `for item in pipeline.iter()` gets its next item. *)
Yield(w) ==
  /\ Threaded
  /\ AtKind(w, "keep")
  /\ Advance(w)
  /\ pc' = [pc EXCEPT ![w] = "check"]
  /\ held' = [held EXCEPT ![w] =
       [from |-> w, item |-> pass[w].pos,
        nth |-> IF Alive THEN Len(yields[w]) + 1 ELSE 0]]
  /\ yields' = IF Alive THEN [yields EXCEPT ![w] = Append(@, pass[w].pos)]
               ELSE yields
  /\ UNCHANGED <<config, epochsLeft, chan, stop, seen, panicked, consumer,
                 delivered>>

(* The inline loader returns the item to its caller straight away. *)
YieldInline(w) ==
  /\ ~Threaded
  /\ AtKind(w, "keep")
  /\ Advance(w)
  /\ pc' = [pc EXCEPT ![w] = "idle"]
  /\ consumer' = "idle"
  /\ yields' = [yields EXCEPT ![w] = Append(@, pass[w].pos)]
  /\ delivered' = [delivered EXCEPT ![w] = Append(@, pass[w].pos)]
  /\ UNCHANGED <<config, epochsLeft, held, chan, stop, seen, panicked>>

(* Unwinding drops the worker's sender, or leaves through the caller. *)
Panic(w) ==
  /\ AtKind(w, "panic")
  /\ pc' = [pc EXCEPT ![w] = "gone"]
  /\ panicked' = panicked \cup {w}
  /\ consumer' = IF Threaded THEN consumer ELSE "unwinding"
  /\ UNCHANGED <<config, stream, held, chan, stop, seen, yields, delivered>>

(* Mutant: an empty epoch is replayed like any other. *)
ClosePassSpinning(w) ==
  /\ pc[w] = "pull" /\ left[w] # 0
  /\ pass[w].open
  /\ pass[w].pos >= Len(config.source)
  /\ pass' = [pass EXCEPT ![w].open = FALSE]
  /\ UNCHANGED <<config, pc, epochsLeft, left, held, chan, stop, seen, panicked,
                 consumer, yields, delivered>>

(* The stages ran out.  An empty epoch ends the stream. *)
ClosePass(w) ==
  /\ pc[w] = "pull" /\ left[w] # 0
  /\ pass[w].open
  /\ pass[w].pos >= Len(config.source)
  /\ pass' = [pass EXCEPT ![w].open = FALSE]
  /\ pc' = IF pass[w].yielded THEN pc ELSE [pc EXCEPT ![w] = "gone"]
  /\ UNCHANGED <<config, epochsLeft, left, held, chan, stop, seen, panicked,
                 consumer, yields, delivered>>

-----------------------------------------------------------------------------
(* The loop body of a worker thread.                                       *)

(* stop.load(): an item produced after the stop is thrown away. *)
Check(w) ==
  /\ pc[w] = "check"
  /\ \/ /\ w \in seen
        /\ pc' = [pc EXCEPT ![w] = "gone"]
        /\ held' = [held EXCEPT ![w] = Blank]
     \/ /\ w \notin seen
        /\ pc' = [pc EXCEPT ![w] = "send"]
        /\ UNCHANGED held
  /\ UNCHANGED <<config, stream, chan, stop, seen, panicked, consumer, yields,
                 delivered>>

(* Mutant: the newest item overtakes the ones already in the channel. *)
SendFirst(w) ==
  /\ pc[w] = "send"
  /\ Len(chan) < Capacity
  /\ chan' = <<held[w]>> \o chan
  /\ held' = [held EXCEPT ![w] = Blank]
  /\ pc' = [pc EXCEPT ![w] = "pull"]
  /\ UNCHANGED <<config, stream, stop, seen, panicked, consumer, yields,
                 delivered>>

(* send() blocks while the channel is full.  The receiver outlives every *)
(* worker, so it never fails.                                            *)
Send(w) ==
  /\ pc[w] = "send"
  /\ Len(chan) < Capacity
  /\ chan' = Append(chan, held[w])
  /\ held' = [held EXCEPT ![w] = Blank]
  /\ pc' = [pc EXCEPT ![w] = "pull"]
  /\ UNCHANGED <<config, stream, stop, seen, panicked, consumer, yields,
                 delivered>>

(* The store is relaxed: each worker comes to see it in its own time. *)
Observe(w) ==
  /\ stop /\ w \notin seen
  /\ seen' = seen \cup {w}
  /\ UNCHANGED <<config, pc, stream, held, chan, stop, panicked, consumer,
                 yields, delivered>>

-----------------------------------------------------------------------------
(* The consumer: LoaderIter::next, as a for loop calls it, and its Drop.   *)

AllGone == \A w \in Ids : pc[w] = "gone"

Endless == config.repeats = Unbounded /\ config.limit = Unbounded

Ask ==
  /\ consumer = "idle"
  /\ Endless => \A w \in Streams : Len(delivered[w]) < MaxNext
  /\ consumer' = "waiting"
  /\ pc' = IF Threaded THEN pc ELSE [pc EXCEPT ![0] = "pull"]
  /\ UNCHANGED <<config, stream, held, chan, stop, seen, panicked, yields,
                 delivered>>

(* Mutant: the item stays in the channel. *)
ReceiveAgain ==
  /\ consumer = "waiting"
  /\ chan # <<>>
  /\ LET e == Head(chan)
     IN delivered' = [delivered EXCEPT ![e.from] = Append(@, e.item)]
  /\ consumer' = "idle"
  /\ UNCHANGED <<config, pc, stream, held, chan, stop, seen, panicked, yields>>

Receive ==
  /\ consumer = "waiting"
  /\ chan # <<>>
  /\ chan' = Tail(chan)
  /\ LET e == Head(chan)
     IN delivered' = [delivered EXCEPT ![e.from] = Append(@, e.item)]
  /\ consumer' = "idle"
  /\ UNCHANGED <<config, pc, stream, held, stop, seen, panicked, yields>>

(* Mutant: an empty channel is taken for a closed one. *)
ReceiveNoneEarly ==
  /\ consumer = "waiting"
  /\ chan = <<>>
  /\ consumer' = "ended"
  /\ UNCHANGED <<config, pc, stream, held, chan, stop, seen, panicked, yields,
                 delivered>>

(* recv() fails once the channel is empty and every sender is dropped. *)
ReceiveNone ==
  /\ consumer = "waiting"
  /\ chan = <<>> /\ AllGone
  /\ consumer' = "ended"
  /\ UNCHANGED <<config, pc, stream, held, chan, stop, seen, panicked, yields,
                 delivered>>

(* Mutant: the workers are joined without draining the channel. *)
BeginDropNoDrain ==
  /\ consumer \in {"idle", "ended", "unwinding"}
  /\ stop' = Threaded
  /\ consumer' = IF Threaded THEN "joining" ELSE "dropped"
  /\ UNCHANGED <<config, pc, stream, held, chan, seen, panicked, yields,
                 delivered>>

BeginDrop ==
  /\ consumer \in {"idle", "ended", "unwinding"}
  /\ stop' = Threaded
  /\ consumer' = IF Threaded THEN "draining" ELSE "dropped"
  /\ UNCHANGED <<config, pc, stream, held, chan, seen, panicked, yields,
                 delivered>>

Drain ==
  /\ consumer = "draining"
  /\ \/ /\ chan # <<>>
        /\ chan' = Tail(chan)
        /\ UNCHANGED consumer
     \/ /\ chan = <<>> /\ AllGone
        /\ consumer' = "joining"
        /\ UNCHANGED chan
  /\ UNCHANGED <<config, pc, stream, held, stop, seen, panicked, yields,
                 delivered>>

Join ==
  /\ consumer = "joining"
  /\ AllGone
  /\ consumer' = "dropped"
  /\ UNCHANGED <<config, pc, stream, held, chan, stop, seen, panicked, yields,
                 delivered>>

(* Nothing is left to do once the iterator is gone. *)
Dropped ==
  /\ consumer = "dropped"
  /\ UNCHANGED vars

-----------------------------------------------------------------------------
PipelineStep(w) ==
  Finish(w) \/ OpenPass(w) \/ Skip(w) \/ Yield(w) \/ YieldInline(w)
    \/ Panic(w) \/ ClosePass(w)

WorkerStep(w) == PipelineStep(w) \/ Check(w) \/ Send(w)

ConsumerStep == Receive \/ ReceiveNone \/ Drain \/ Join

Next ==
  \/ \E w \in Ids : WorkerStep(w) \/ Observe(w)
  \/ ConsumerStep \/ Ask \/ BeginDrop \/ Dropped

Spec == Init /\ [][Next]_vars

(* Threads are scheduled, a store becomes visible, and a consumer inside   *)
(* next() or drop() runs on.  It need not ever call either.                *)
Fairness ==
  /\ \A w \in Ids : WF_vars(WorkerStep(w)) /\ WF_vars(Observe(w))
  /\ WF_vars(ConsumerStep)

FairSpec == Spec /\ Fairness

-----------------------------------------------------------------------------
TypeOK ==
  /\ config \in Configs
  /\ pc \in [Ids -> {"idle", "pull", "check", "send", "gone"}]
  /\ pass \in [Ids -> Pass]
  /\ epochsLeft \in [Ids -> Counter] /\ left \in [Ids -> Counter]
  /\ held \in [Ids -> Entry]
  /\ chan \in Seq(Entry) /\ Len(chan) <= Capacity
  /\ stop \in BOOLEAN /\ seen \subseteq Ids /\ panicked \subseteq Ids
  /\ consumer \in {"idle", "waiting", "ended", "unwinding", "draining",
                   "joining", "dropped"}
  /\ yields \in [Ids -> Seq(Positions)] /\ delivered \in [Ids -> Seq(Positions)]

(* The samples worker w is to produce in one pass over the source. *)
Share(w) ==
  {p \in 0..(Len(config.source) - 1) :
     /\ config.source[p + 1] = "keep"
     /\ Splitting => p % config.workers = w}

Below(w, p) == Cardinality({q \in Share(w) : q < p})

(* Each worker's samples reach the consumer in the order of its share of   *)
(* the source, pass after pass, with none lost, repeated or overtaken on   *)
(* the way through the channel (loader.rs, spawn and next).                *)
InOrder ==
  \A w \in Ids : \A i \in DOMAIN delivered[w] :
    LET p == delivered[w][i]
    IN p \in Share(w) /\ Below(w, p) = (i - 1) % Cardinality(Share(w))

Smaller(m, n) ==
  IF m = Unbounded THEN n ELSE IF n = Unbounded THEN m ELSE IF m < n THEN m ELSE n

Total(w) ==
  LET size == Cardinality(Share(w))
  IN IF size = 0 THEN 0
     ELSE IF config.repeats = Unbounded THEN config.limit
     ELSE Smaller(config.repeats * size, config.limit)

(* When next() returns None the epoch is complete: every worker's samples,  *)
(* all its passes and no more than its limit, have been returned.  A worker *)
(* that panicked is the exception: its loss looks like the end.             *)
EndIsComplete ==
  consumer = "ended" =>
    \A w \in Streams \ panicked : Len(delivered[w]) = Total(w)

(* Dropping the iterator part way through joins every worker, however full *)
(* the channel is and however long the pipelines would have run.           *)
DropTerminates == consumer \in {"draining", "joining"} ~> consumer = "dropped"

(* A call of next() returns, whatever the stages drop: an epoch that yields *)
(* nothing ends its stream instead of spinning (Repeated::next).            *)
NextReturns == consumer = "waiting" ~> consumer # "waiting"

(* The loader implements the abstract epoch. *)
Status ==
  CASE consumer \in {"idle", "waiting", "unwinding"} -> "open"
    [] consumer = "ended" -> "ended"
    [] OTHER -> "closed"

Abstract == INSTANCE EpochDelivery
              WITH finished <- {w \in Ids : pc[w] = "gone"}, status <- Status

(* Every worker's samples are merged without loss, duplication or reordering, *)
(* and a closed epoch returns nothing more.                                   *)
Delivery == Abstract!Spec

-----------------------------------------------------------------------------
(* The inductive invariant behind InOrder and Delivery: while the    *)
(* iterator is alive, what a worker has yielded is exactly what next() has  *)
(* returned of it, then what the channel holds of it in order, then what    *)
(* its loop body holds.                                                     *)

InTransit(w) == pc[w] \in {"check", "send"}

ChanHoldsYields ==
  \A i \in DOMAIN chan :
    LET e == chan[i]
    IN /\ Len(delivered[e.from]) < e.nth /\ e.nth <= Len(yields[e.from])
       /\ e.item = yields[e.from][e.nth]

ChanInOrder ==
  \A i, j \in DOMAIN chan :
    i < j /\ chan[i].from = chan[j].from => chan[i].nth < chan[j].nth

HeldIsNewest ==
  \A w \in Ids : InTransit(w) =>
    /\ held[w].from = w
    /\ held[w].nth = Len(yields[w]) /\ Len(delivered[w]) < held[w].nth
    /\ held[w].item = yields[w][held[w].nth]
    /\ \A i \in DOMAIN chan : chan[i].from = w => chan[i].nth < held[w].nth

NoGap ==
  \A w \in Ids : \A k \in 1..Len(yields[w]) : k > Len(delivered[w]) =>
    \/ \E i \in DOMAIN chan : chan[i].from = w /\ chan[i].nth = k
    \/ InTransit(w) /\ held[w].nth = k

Prefix ==
  \A w \in Ids :
    /\ Len(delivered[w]) <= Len(yields[w])
    /\ \A i \in 1..Len(delivered[w]) : delivered[w][i] = yields[w][i]

Modes ==
  /\ ~Threaded => /\ chan = <<>>
                  /\ \A w \in Ids \ {0} : pc[w] = "gone"
                  /\ pc[0] \in {"idle", "pull", "gone"}
                  /\ pc[0] = "pull" => consumer = "waiting"
                  /\ consumer = "idle" => pc[0] = "idle"
  /\ consumer = "ended" => chan = <<>> /\ AllGone
  /\ Alive => ~stop /\ seen = {}

Fifo ==
  /\ Alive => ChanHoldsYields /\ ChanInOrder /\ HeldIsNewest /\ NoGap
  /\ Prefix
  /\ Modes
=============================================================================
