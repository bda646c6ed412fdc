---------------------------- MODULE AsyncPipeline ----------------------------
(***************************************************************************)
(* The asynchronous pipeline (crates/webdataset/src/asynch/ and            *)
(* crates/webdataset-shard/src/asynch.rs): one task that polls a stream.   *)
(* Up to `width` shards are in flight, each a stream of its own that opens *)
(* the shard, parses it and groups its files; flatten_unordered hands out  *)
(* the samples of whichever is ready.  Around them are the check for an    *)
(* empty stream, the epochs and the limit.                                 *)
(*                                                                         *)
(* Nothing happens unless the stream is polled.  A step of a shard is what *)
(* it does once the bytes it waits for have arrived.  Archives are what    *)
(* ShardReader makes of records: the files, by the names they go by, and   *)
(* where the archive breaks off.                                           *)
(***************************************************************************)
EXTENDS Integers, Sequences, FiniteSets

CONSTANTS
  Files,      (* [key, ext]; ext is "" when there is none                   *)
  Broken,     (* a header or a payload that cannot be read                  *)
  Plans,      (* the pipelines                                              *)
  Forever,    (* Repetitions::Forever                                       *)
  Unlimited,  (* limit: None                                                *)
  MaxItems    (* bound: items a consumer takes                              *)

Shard == [opens : BOOLEAN, files : Seq(Files \cup {Broken})]

Plan ==
  [shards : Seq(Shard), handler : {"continue", "stop", "reraise"},
   width : Nat \ {0}, check : BOOLEAN, repeats : Nat \cup {Forever},
   limit : Nat \cup {Unlimited}]

ASSUME AsyncAssumption ==
  /\ Broken \notin Files
  /\ Plans \subseteq Plan
  /\ Forever \notin Nat /\ Unlimited \notin Nat
  /\ MaxItems \in Nat

VARIABLES
  plan,      (* the pipeline that is run; constant                          *)
  pc,        (* "idle", "polling", "ended" or "dropped"                     *)
  left,      (* State::epochs_left                                          *)
  epoch,     (* history: the number of the run                              *)
  produced,  (* State::produced, and NonEmpty's seen                        *)
  taken,     (* items handed out: what take() has counted                   *)
  next,      (* shards of the list that were put in flight in this run      *)
  flight,    (* of each shard in flight, its stream                         *)
  out        (* what the consumer has had                                   *)

counters == <<left, epoch>>
vars == <<plan, pc, counters, produced, taken, next, flight, out>>

(* The first run is built with the stream; one epoch fewer is left, if any. *)
Init ==
  /\ plan \in Plans
  /\ pc = "idle"
  /\ left = IF plan.repeats \in {0, Forever} THEN plan.repeats ELSE plan.repeats - 1
  /\ epoch = 1
  /\ produced = 0 /\ taken = 0
  /\ next = 0
  /\ flight = <<>>
  /\ out = <<>>

-----------------------------------------------------------------------------
(* Take: the limit is met before anything more is polled. *)
Poll ==
  /\ pc = "idle" /\ taken < MaxItems
  /\ pc' = IF taken = plan.limit THEN "ended" ELSE "polling"
  /\ UNCHANGED <<plan, counters, produced, taken, next, flight, out>>

(* The consumer drops the stream, and every shard in flight with it. *)
Drop ==
  /\ pc \in {"idle", "ended"}
  /\ pc' = "dropped"
  /\ flight' = <<>>
  /\ UNCHANGED <<plan, counters, produced, taken, next, out>>

(* What comes out of the shard in flight at position i; 0 for none. *)
Item(i, key, exts, files) ==
  [epoch |-> epoch, of |-> i, key |-> key, exts |-> exts, files |-> files]
Error(i) == Item(i, "", {}, {})

Yields(item) ==
  /\ out' = Append(out, item)
  /\ pc' = "idle"
  /\ taken' = taken + 1 /\ produced' = produced + 1
  /\ UNCHANGED <<plan, counters, next>>

Silent == UNCHANGED <<plan, pc, counters, produced, taken, next, out>>

-----------------------------------------------------------------------------
(* flatten_unordered: one more stream is put in flight if there is room.   *)

Opening == [pc |-> "opening", pos |-> 1, group |-> <<>>]

Admit ==
  /\ pc = "polling"
  /\ next < Len(plan.shards)
  /\ Cardinality(DOMAIN flight) < plan.width
  /\ next' = next + 1
  /\ flight' = [i \in DOMAIN flight \cup {next + 1} |->
                  IF i = next + 1 THEN Opening ELSE flight[i]]
  /\ UNCHANGED <<plan, pc, counters, produced, taken, out>>

(* The streams of the shards, polled in any order. *)
Polled(i, where) ==
  pc = "polling" /\ i \in DOMAIN flight /\ flight[i].pc = where

Becomes(i, where, group) ==
  flight' = [flight EXCEPT ![i] = [pc |-> where, pos |-> @.pos + 1, group |-> group]]

Opens(i) ==
  /\ Polled(i, "opening")
  /\ plan.shards[i].opens
  /\ flight' = [flight EXCEPT ![i].pc = "reading"]
  /\ Silent

(* Continue and Stop both make an empty stream of the shard. *)
OpenFails(i) ==
  /\ Polled(i, "opening")
  /\ ~plan.shards[i].opens
  /\ Becomes(i, "over", <<>>)
  /\ IF plan.handler = "reraise" THEN Yields(Error(i)) ELSE Silent

Reading(i) == Polled(i, "reading") /\ flight[i].pos <= Len(plan.shards[i].files)
Entry(i) == plan.shards[i].files[flight[i].pos]
Group(i) == flight[i].group

Starts(i) == Group(i) = <<>> \/ Group(i)[1].key # Entry(i).key
Duplicate(i) == ~Starts(i) /\ Entry(i).ext \in Group(i)[1].exts

Added(i) ==
  IF Starts(i) THEN Item(i, Entry(i).key, {Entry(i).ext}, {flight[i].pos})
  ELSE [Group(i)[1] EXCEPT !.exts = @ \cup {Entry(i).ext},
                           !.files = @ \cup {flight[i].pos}]

PushNothing(i) ==
  /\ Reading(i) /\ Entry(i) # Broken /\ Entry(i).ext = ""
  /\ Becomes(i, "reading", Group(i))
  /\ Silent

PushFile(i) ==
  /\ Reading(i) /\ Entry(i) # Broken /\ Entry(i).ext # ""
  /\ ~Duplicate(i)
  /\ Becomes(i, "reading", <<Added(i)>>)
  /\ IF Starts(i) /\ Group(i) # <<>> THEN Yields(Group(i)[1]) ELSE Silent

PushDuplicate(i) ==
  /\ Reading(i) /\ Entry(i) # Broken /\ Entry(i).ext # ""
  /\ Duplicate(i)
  /\ Becomes(i, IF plan.handler = "stop" THEN "finish" ELSE "reading", Group(i))
  /\ IF plan.handler = "reraise" THEN Yields(Error(i)) ELSE Silent

(* The archive ends with an Err; what was grouped so far comes after it. *)
Break(i) ==
  /\ Reading(i) /\ Entry(i) = Broken
  /\ Becomes(i, "finish", Group(i))
  /\ IF plan.handler = "reraise" THEN Yields(Error(i)) ELSE Silent

(* Mutant: the sample in progress is dropped at the end of its shard. *)
EndOfShardDrops(i) ==
  /\ \/ Polled(i, "reading") /\ flight[i].pos > Len(plan.shards[i].files)
     \/ Polled(i, "finish")
  /\ Becomes(i, "over", <<>>)
  /\ Silent

(* EndOfShard, or `done`: the sample in progress is complete. *)
EndOfShard(i) ==
  /\ \/ Polled(i, "reading") /\ flight[i].pos > Len(plan.shards[i].files)
     \/ Polled(i, "finish")
  /\ Becomes(i, "over", <<>>)
  /\ IF Group(i) # <<>> THEN Yields(Group(i)[1]) ELSE Silent

(* Its stream has ended and leaves room for another. *)
Close(i) ==
  /\ Polled(i, "over")
  /\ flight' = [j \in DOMAIN flight \ {i} |-> flight[j]]
  /\ Silent

-----------------------------------------------------------------------------
(* The end of a run. *)

RunEnds == pc = "polling" /\ next = Len(plan.shards) /\ DOMAIN flight = {}
NothingSeen == plan.check /\ produced = 0

ReportEmpty ==
  /\ RunEnds /\ NothingSeen
  /\ Yields(Error(0))
  /\ UNCHANGED flight

(* "An empty epoch would otherwise spin forever." *)
EndStream ==
  /\ RunEnds /\ ~NothingSeen
  /\ produced = 0 \/ left = 0
  /\ pc' = "ended"
  /\ UNCHANGED <<plan, counters, produced, taken, next, flight, out>>

(* Mutant: the next epoch starts when the list is out, not the shards. *)
NextEpochEarly ==
  /\ pc = "polling" /\ next = Len(plan.shards)
  /\ produced # 0 /\ left # 0
  /\ left' = IF left = Forever THEN Forever ELSE left - 1
  /\ epoch' = epoch + 1
  /\ produced' = 0 /\ next' = 0
  /\ UNCHANGED <<plan, pc, taken, flight, out>>

NextEpoch ==
  /\ RunEnds /\ ~NothingSeen
  /\ produced # 0 /\ left # 0
  /\ left' = IF left = Forever THEN Forever ELSE left - 1
  /\ epoch' = epoch + 1
  /\ produced' = 0 /\ next' = 0
  /\ UNCHANGED <<plan, pc, taken, flight, out>>

Dropped == pc = "dropped" /\ UNCHANGED vars

-----------------------------------------------------------------------------
ShardStep(i) ==
  \/ Opens(i) \/ OpenFails(i) \/ PushNothing(i) \/ PushFile(i)
  \/ PushDuplicate(i) \/ Break(i) \/ EndOfShard(i) \/ Close(i)

PollStep ==
  \/ Admit \/ ReportEmpty \/ EndStream \/ NextEpoch
  \/ \E i \in DOMAIN flight : ShardStep(i)

Next == Poll \/ Drop \/ PollStep \/ Dropped

Spec == Init /\ [][Next]_vars

-----------------------------------------------------------------------------
(* What the shards hold, said without the reader. *)

Readable(i) ==
  LET files == plan.shards[i].files
  IN {j \in DOMAIN files : plan.shards[i].opens /\ \A k \in 1..j : files[k] # Broken}

Keyed(i) == {j \in Readable(i) : plan.shards[i].files[j].ext # ""}

(* The keyed files around j that share its basename without interruption. *)
RunOf(i, j) ==
  {k \in Keyed(i) : \A m \in Keyed(i) :
     (j <= m /\ m <= k) \/ (k <= m /\ m <= j)
       => plan.shards[i].files[m].key = plan.shards[i].files[j].key}

Firsts(i, S) ==
  {j \in S : \A k \in S :
     k < j => plan.shards[i].files[k].ext # plan.shards[i].files[j].ext}

Samples == {n \in DOMAIN out : out[n].files # {}}

-----------------------------------------------------------------------------
TypeOK ==
  /\ plan \in Plans
  /\ pc \in {"idle", "polling", "ended", "dropped"}
  /\ left \in Nat \cup {Forever} /\ epoch \in Nat \ {0}
  /\ taken \in 0..MaxItems /\ produced \in 0..taken
  /\ next \in 0..Len(plan.shards)
  /\ DOMAIN flight \subseteq 1..next
  /\ Cardinality(DOMAIN flight) <= plan.width
  /\ \A i \in DOMAIN flight :
       /\ flight[i].pc \in {"opening", "reading", "finish", "over"}
       /\ flight[i].pos \in 1..(Len(plan.shards[i].files) + 2)
       /\ Len(flight[i].group) <= 1

(* However the shards in flight interleave, a sample is a run of files of   *)
(* one shard and, unless the handler stops, all of it.  The samples of a    *)
(* shard come in its order, each once, and all of an epoch before any of    *)
(* the next; one shard at a time, the shards come in order too.             *)
WholeRun(s) ==
  \E j \in s.files \cap Keyed(s.of) :
    /\ s.key = plan.shards[s.of].files[j].key
    /\ s.files \subseteq Firsts(s.of, RunOf(s.of, j))
    /\ plan.handler # "stop" => s.files = Firsts(s.of, RunOf(s.of, j))

InOrder(s, t) ==
  /\ s.epoch <= t.epoch
  /\ s.epoch = t.epoch =>
       /\ s.of = t.of => \A j \in s.files, k \in t.files : j < k
       /\ plan.width = 1 => s.of <= t.of

SamplesAreRuns ==
  /\ \A n \in Samples : WholeRun(out[n])
  /\ \A n, m \in Samples : n < m => InOrder(out[n], out[m])

(* When a run is over, everything that can be read of every shard has been   *)
(* handed out, unless a handler stopped it; repeat(n) is n runs unless one is *)
(* empty, and take(n) hands out no more than n items.  (And the variables    *)
(* keep their types.)                                                        *)
RunIsWhole(e) ==
  \A i \in DOMAIN plan.shards : \A j \in Keyed(i) :
    j \in Firsts(i, RunOf(i, j)) =>
      \E n \in Samples : out[n].epoch = e /\ out[n].of = i /\ j \in out[n].files

EpochsAreWhole ==
  LET complete == pc = "ended" /\ plan.limit = Unlimited
  IN /\ TypeOK
     /\ plan.handler # "stop" =>
          \A e \in 1..epoch : e < epoch \/ complete => RunIsWhole(e)
     /\ plan.limit # Unlimited => taken <= plan.limit
     /\ plan.repeats \in Nat \ {0} => epoch <= plan.repeats
     /\ complete => produced = 0 \/ epoch = plan.repeats \/ plan.repeats = 0
=============================================================================
