------------------------------ MODULE Adapters ------------------------------
(***************************************************************************)
(* The adapters of a stream of samples and the stages that combine         *)
(* datasets (crates/webdataset/src/filters.rs, stages.rs, mix.rs and, for  *)
(* the asynchronous ones, asynch/filters.rs).                              *)
(*                                                                         *)
(* A chain of adapters is pulled: a call of next() on the last asks the    *)
(* one below it, down to the datasets, and the answer climbs up again as   *)
(* far as someone lets it pass.  A step is what one adapter does when it is *)
(* asked or told something, so a chain is a small machine of calls that    *)
(* wait for each other.                                                    *)
(*                                                                         *)
(* An item is a sample, a group of samples or an Err; what a sample holds  *)
(* and what functions make of it are left out.  Select, MapSamples,        *)
(* ToTuple, ExtractKeys, MapTuple, RandomSubsample and the stages that map  *)
(* (Decode, Rename, RenameKeys, Associate) are one kind, "map": they keep  *)
(* an item, drop it or fail on it.                                         *)
(***************************************************************************)
EXTENDS Integers, Sequences, FiniteSets, SequencesExt

CONSTANTS
  Plans,     (* the chains and their datasets                              *)
  Unlimited  (* Slice: count is None                                       *)

(* A sample is named by a number; ids holds one, or those of a group. *)
Item == [ids : Seq(Nat), err : BOOLEAN]
Ok(ids) == [ids |-> ids, err |-> FALSE]
Err(ids) == [ids |-> ids, err |-> TRUE]
End == Ok(<<>>)

(* size: of a group or a buffer, or the start of a slice; every: the warm-up *)
(* of a buffer or the step of a slice.                                       *)
Stage ==
  [kind : {"map", "listed", "shuffle", "unbatch", "nonEmpty", "slice"},
   drops : SUBSET Nat, fails : SUBSET Nat, handler : {"continue", "stop", "reraise"},
   size : Nat, every : Nat \ {0}, partial : BOOLEAN, count : Nat \cup {Unlimited}]

(* weights[i] = 0: dataset i of a RandomMix is not to be drawn. *)
Plan ==
  [data : Seq(Seq(Item)), mix : {"turns", "random"}, longest : BOOLEAN,
   weights : Seq({0, 1}), chain : Seq(Stage), async : BOOLEAN]

(* Does adapter k hand out groups, that is, batches nobody has taken apart?  *)
Grouping(chain, k) ==
  \E j \in 1..k : /\ chain[j].kind = "listed"
                  /\ \A i \in (j + 1)..k : chain[i].kind # "unbatch"

(* Datasets give samples.  Groups are not listed or shuffled: a Vec is of     *)
(* another type, and a batch that is collated, itself a Sample again, is only *)
(* taken apart here.  Sizes are clamped (size.max(1), initial.clamp(1,        *)
(* bufsize)); with_weights takes a weight for every dataset.                  *)
Buildable(p) ==
  /\ Len(p.weights) = Len(p.data)
  /\ \A i \in DOMAIN p.data : \A j \in DOMAIN p.data[i] :
       p.data[i][j].err \/ Len(p.data[i][j].ids) = 1
  /\ \A k \in DOMAIN p.chain : p.chain[k].kind \in {"listed", "shuffle"} =>
       ~Grouping(p.chain, k - 1) /\ p.chain[k].size > 0
  /\ \A k \in DOMAIN p.chain : p.chain[k].kind = "shuffle" => p.chain[k].every <= p.chain[k].size

ASSUME AdaptersAssumption ==
  /\ Unlimited \notin Nat
  /\ Plans \subseteq Plan /\ \A p \in Plans : Buildable(p)

VARIABLES
  plan,     (* what is run; constant                                       *)
  mode,     (* "idle", "ask", "tell" or "ended"                            *)
  at,       (* the adapter that is asked, or that tells; 0: the datasets   *)
  answer,   (* what it tells                                               *)
  left,     (* what each dataset still has                                 *)
  weights,  (* of the datasets that are left                               *)
  turn,     (* RoundRobin: next                                            *)
  stage,    (* of each adapter: held, its group, buffer or batch; n, items *)
            (* it has had; done, that it has drained its source or stopped *)
  over,     (* history: adapters that have told the end of their stream    *)
  taken,    (* history: what the datasets gave                             *)
  out       (* what the consumer has had                                   *)

chainVars == <<plan, mode, at, answer, left, weights, turn, stage, over, taken, out>>
sources == <<left, weights, turn, taken>>

Chain == plan.chain

ChainInit ==
  /\ plan \in Plans
  /\ mode = "idle" /\ at = 0 /\ answer = End
  /\ left = plan.data /\ weights = plan.weights /\ turn = 0
  /\ stage = [k \in DOMAIN plan.chain |-> [held |-> <<>>, n |-> 0, done |-> FALSE]]
  /\ over = {}
  /\ taken = <<>> /\ out = <<>>

-----------------------------------------------------------------------------
(* Calls and answers. *)

Ask(k) == mode' = "ask" /\ at' = k /\ UNCHANGED <<answer, over, out>>

Tell(k, item) ==
  /\ mode' = "tell" /\ at' = k /\ answer' = item
  /\ over' = IF item = End THEN over \cup {k} ELSE over
  /\ UNCHANGED out

Asked(k) == mode = "ask" /\ at = k
Told(k) == mode = "tell" /\ at = k - 1

Demand ==
  /\ mode = "idle"
  /\ Ask(Len(Chain))
  /\ UNCHANGED <<plan, sources, stage>>

HandOut ==
  /\ mode = "tell" /\ at = Len(Chain)
  /\ mode' = IF answer = End THEN "ended" ELSE "idle"
  /\ out' = IF answer = End THEN out ELSE Append(out, answer)
  /\ UNCHANGED <<plan, at, answer, sources, stage, over>>

-----------------------------------------------------------------------------
(* The datasets: one, or several that are mixed. *)

(* RoundRobin takes the next in turn; RandomMix draws by weight, and what    *)
(* rounding leaves over goes to the last.                                    *)
Eligible ==
  IF plan.mix = "turns" THEN {(turn % Len(left)) + 1}
  ELSE {i \in DOMAIN left : weights[i] > 0} \cup {Len(left)}

Take ==
  /\ Asked(0) /\ left # <<>>
  /\ \E i \in Eligible :
       /\ left[i] # <<>>
       /\ left' = [left EXCEPT ![i] = Tail(@)]
       /\ turn' = IF plan.mix = "turns" THEN i ELSE turn
       /\ taken' = Append(taken, Head(left[i]))
       /\ Tell(0, Head(left[i]))
  /\ UNCHANGED <<plan, weights, stage>>

(* Mutant: the turn moves on past the dataset that took the place of the one *)
(* that is dropped.                                                          *)
DropSkipping ==
  /\ Asked(0) /\ plan.longest
  /\ \E i \in {i \in Eligible : left # <<>> /\ left[i] = <<>>} :
       /\ left' = RemoveAt(left, i)
       /\ weights' = RemoveAt(weights, i)
       /\ turn' = IF plan.mix = "turns" THEN i ELSE turn
  /\ UNCHANGED <<plan, mode, at, answer, stage, over, taken, out>>

(* "Drop the exhausted source; the others continue", unless none of them can *)
(* be drawn any more.                                                        *)
DropDataset ==
  /\ Asked(0) /\ left # <<>> /\ plan.longest
  /\ \E i \in Eligible :
       /\ left[i] = <<>>
       /\ left' = RemoveAt(left, i)
       /\ weights' = RemoveAt(weights, i)
       /\ turn' = IF plan.mix = "turns" THEN i - 1 ELSE turn
  /\ IF plan.mix = "random" /\ \A i \in DOMAIN weights' : weights'[i] = 0
     THEN Tell(0, End)
     ELSE UNCHANGED <<mode, at, answer, over, out>>
  /\ UNCHANGED <<plan, stage, taken>>

RunDry ==
  /\ Asked(0)
  /\ \/ left = <<>>
     \/ ~plan.longest /\ \E i \in Eligible : left[i] = <<>>
  /\ Tell(0, End)
  /\ UNCHANGED <<plan, sources, stage>>

-----------------------------------------------------------------------------
(* An adapter is asked. *)

Kind(k) == Chain[k].kind
Becomes(k, held, n, done) ==
  stage' = [stage EXCEPT ![k] = [held |-> held, n |-> n, done |-> done]]

(* skip(start).step_by(step): is the nth item one of the slice, and how many *)
(* of the first n are?                                                       *)
InSlice(s, n) == n > s.size /\ (n - s.size - 1) % s.every = 0
Given(s, n) == Cardinality({i \in 1..n : InSlice(s, i)})

Finished(k) ==
  CASE Kind(k) \in {"map", "listed"} -> stage[k].done
    [] Kind(k) = "nonEmpty" -> stage[k].done /\ plan.async
    [] Kind(k) = "slice" -> Given(Chain[k], stage[k].n) = Chain[k].count
    [] OTHER -> FALSE

Refuse(k) ==
  /\ Asked(k) /\ Finished(k)
  /\ Tell(k, End)
  /\ UNCHANGED <<plan, sources, stage>>

(* Unbatched: the rest of the batch. *)
Split(k) ==
  /\ Asked(k) /\ Kind(k) = "unbatch" /\ stage[k].held # <<>>
  /\ Tell(k, Ok(<<Head(stage[k].held)>>))
  /\ Becomes(k, Tail(stage[k].held), 0, FALSE)
  /\ UNCHANGED <<plan, sources>>

(* A sample is drawn from the buffer; its place does not matter. *)
Pick(k, buffer, done) ==
  \E i \in DOMAIN buffer :
    /\ Tell(k, Ok(<<buffer[i]>>))
    /\ Becomes(k, RemoveAt(buffer, i), 0, done)

Drain(k) ==
  /\ Asked(k) /\ Kind(k) = "shuffle" /\ stage[k].done
  /\ IF stage[k].held = <<>> THEN Tell(k, End) /\ UNCHANGED stage
     ELSE Pick(k, stage[k].held, TRUE)
  /\ UNCHANGED <<plan, sources>>

Forward(k) ==
  /\ Asked(k) /\ ~Finished(k)
  /\ ~(Kind(k) = "unbatch" /\ stage[k].held # <<>>)
  /\ ~(Kind(k) = "shuffle" /\ stage[k].done)
  /\ Ask(k - 1)
  /\ UNCHANGED <<plan, sources, stage>>

-----------------------------------------------------------------------------
(* An adapter is told an Err, the end, or an item. *)

(* Listed loses the group it has begun. *)
PassError(k) ==
  /\ Told(k) /\ answer.err /\ Kind(k) # "slice"
  /\ Tell(k, answer)
  /\ Becomes(k, IF Kind(k) = "listed" THEN <<>> ELSE stage[k].held,
             IF Kind(k) = "nonEmpty" THEN stage[k].n + 1 ELSE 0, stage[k].done)
  /\ UNCHANGED <<plan, sources>>

PassEnd(k) ==
  /\ Told(k) /\ answer = End
  /\ Kind(k) \in {"map", "unbatch", "slice"} \/ (Kind(k) = "nonEmpty" /\
       (stage[k].n > 0 \/ stage[k].done))
  /\ Tell(k, End)
  /\ UNCHANGED <<plan, sources, stage>>

ReportEmpty(k) ==
  /\ Told(k) /\ answer = End
  /\ Kind(k) = "nonEmpty" /\ stage[k].n = 0 /\ ~stage[k].done
  /\ Tell(k, Err(<<>>))
  /\ Becomes(k, <<>>, 0, TRUE)
  /\ UNCHANGED <<plan, sources>>

Complete(s, group) == Len(group) = s.size \/ (group # <<>> /\ s.partial)

(* Mutant: the asynchronous one forgets that its source has ended. *)
EndGroupForgetful(k) ==
  /\ Told(k) /\ answer = End /\ Kind(k) = "listed"
  /\ LET group == stage[k].held
     IN Tell(k, IF Complete(Chain[k], group) THEN Ok(group) ELSE End)
  /\ Becomes(k, <<>>, 0, FALSE)
  /\ UNCHANGED <<plan, sources>>

EndGroup(k) ==
  /\ Told(k) /\ answer = End /\ Kind(k) = "listed"
  /\ LET group == stage[k].held
     IN Tell(k, IF Complete(Chain[k], group) THEN Ok(group) ELSE End)
  /\ Becomes(k, <<>>, 0, plan.async)
  /\ UNCHANGED <<plan, sources>>

EndBuffer(k) ==
  /\ Told(k) /\ answer = End /\ Kind(k) = "shuffle"
  /\ IF stage[k].held = <<>> THEN Tell(k, End) /\ Becomes(k, <<>>, 0, TRUE)
     ELSE Pick(k, stage[k].held, TRUE)
  /\ UNCHANGED <<plan, sources>>

Sample(k) == Told(k) /\ ~answer.err /\ answer # End

(* The verdict on a group is that on its first sample. *)
Keep(k) ==
  /\ Sample(k) /\ Kind(k) = "map"
  /\ Head(answer.ids) \notin Chain[k].drops \cup Chain[k].fails
  /\ Tell(k, answer)
  /\ UNCHANGED <<plan, sources, stage>>

PassOver(k) ==
  /\ Sample(k) /\ Kind(k) = "map"
  /\ Head(answer.ids) \in Chain[k].drops
  /\ Ask(k)
  /\ UNCHANGED <<plan, sources, stage>>

Fail(k) ==
  /\ Sample(k) /\ Kind(k) = "map"
  /\ Head(answer.ids) \in Chain[k].fails \ Chain[k].drops
  /\ CASE Chain[k].handler = "continue" -> Ask(k) /\ UNCHANGED stage
       [] Chain[k].handler = "reraise" -> Tell(k, Err(answer.ids)) /\ UNCHANGED stage
       [] Chain[k].handler = "stop" -> Tell(k, End) /\ Becomes(k, <<>>, 0, TRUE)
  /\ UNCHANGED <<plan, sources>>

Group(k) ==
  /\ Sample(k) /\ Kind(k) = "listed"
  /\ LET group == stage[k].held \o answer.ids
     IN IF Len(group) = Chain[k].size
        THEN Tell(k, Ok(group)) /\ Becomes(k, <<>>, 0, FALSE)
        ELSE Ask(k - 1) /\ Becomes(k, group, 0, FALSE)
  /\ UNCHANGED <<plan, sources>>

(* n = 0 while the first sample of a call is pulled, 1 while the one that    *)
(* fills the buffer up faster is.                                            *)
Buffer(k) ==
  /\ Sample(k) /\ Kind(k) = "shuffle"
  /\ LET s == Chain[k]
         buffer == stage[k].held \o answer.ids
     IN IF stage[k].n = 0 /\ Len(buffer) < s.size
        THEN Ask(k - 1) /\ Becomes(k, buffer, 1, FALSE)
        ELSE IF Len(buffer) >= s.every THEN Pick(k, buffer, FALSE)
        ELSE Ask(k - 1) /\ Becomes(k, buffer, 0, FALSE)
  /\ UNCHANGED <<plan, sources>>

Unpack(k) ==
  /\ Sample(k) /\ Kind(k) = "unbatch"
  /\ Ask(k)
  /\ Becomes(k, answer.ids, 0, FALSE)
  /\ UNCHANGED <<plan, sources>>

Count(k) ==
  /\ Sample(k) /\ Kind(k) = "nonEmpty"
  /\ Tell(k, answer)
  /\ Becomes(k, <<>>, stage[k].n + 1, stage[k].done)
  /\ UNCHANGED <<plan, sources>>

(* The standard library's skip, step_by and take, which count Errs too. *)
SliceItem(k) ==
  /\ Told(k) /\ answer # End /\ Kind(k) = "slice"
  /\ IF InSlice(Chain[k], stage[k].n + 1) THEN Tell(k, answer) ELSE Ask(k)
  /\ Becomes(k, <<>>, stage[k].n + 1, FALSE)
  /\ UNCHANGED <<plan, sources>>

AtEnd == mode = "ended" /\ UNCHANGED chainVars

-----------------------------------------------------------------------------
Datasets == Take \/ DropDataset \/ RunDry

Adapter(k) ==
  \/ Refuse(k) \/ Split(k) \/ Drain(k) \/ Forward(k)
  \/ PassError(k) \/ PassEnd(k) \/ ReportEmpty(k) \/ EndGroup(k) \/ EndBuffer(k)
  \/ Keep(k) \/ PassOver(k) \/ Fail(k) \/ Group(k) \/ Buffer(k) \/ Unpack(k)
  \/ Count(k) \/ SliceItem(k)

ChainNext == Demand \/ HandOut \/ Datasets \/ (\E k \in DOMAIN Chain : Adapter(k)) \/ AtEnd

ChainSpec == ChainInit /\ [][ChainNext]_chainVars

-----------------------------------------------------------------------------
(* What a chain promises, said of whole sequences. *)

Least(S) == CHOOSE n \in S : \A m \in S : n <= m

(* Turns: item j of dataset i is the ith of round j.  The first dataset that *)
(* has no item when it is its turn ends the stream, unless it is to be the   *)
(* longest.                                                                  *)
Turns ==
  LET width == Len(plan.data)
      rounds == Cardinality(UNION {DOMAIN plan.data[i] : i \in 1..width}) + 1
      Data(p) == plan.data[((p - 1) % width) + 1]
      Round(p) == ((p - 1) \div width) + 1
      Missing == {p \in 1..(rounds * width) : Round(p) > Len(Data(p))}
      Whole == [p \in 1..(rounds * width) |->
                  IF p \in Missing THEN <<>> ELSE <<Data(p)[Round(p)]>>]
  IN IF width = 0 THEN <<>>
     ELSE FlattenSeq(IF plan.longest THEN Whole ELSE SubSeq(Whole, 1, Least(Missing) - 1))

Mapped(s, items) ==
  LET fails(i) == ~i.err /\ Head(i.ids) \in s.fails \ s.drops
      stop == {p \in DOMAIN items : fails(items[p]) /\ s.handler = "stop"}
      kept == SelectSeq(SubSeq(items, 1, IF stop = {} THEN Len(items) ELSE Least(stop) - 1),
                LAMBDA i : i.err \/ ~(Head(i.ids) \in s.drops \/ (fails(i) /\ s.handler # "reraise")))
  IN [p \in DOMAIN kept |-> IF fails(kept[p]) THEN Err(kept[p].ids) ELSE kept[p]]

(* A group is complete with every size-th item since the last Err. *)
Grouped(s, items) ==
  LET since(p) == p - Cardinality(1..p) + Cardinality(
                    {q \in 1..p : \A r \in q..p : ~items[r].err})
      ids(p, n) == FlattenSeq([q \in 1..n |-> items[p - n + q].ids])
      ends(p) == IF items[p].err THEN <<items[p]>>
                 ELSE IF since(p) % s.size = 0 THEN <<Ok(ids(p, s.size))>>
                 ELSE IF p = Len(items) /\ s.partial THEN <<Ok(ids(p, since(p) % s.size))>>
                 ELSE <<>>
  IN FlattenSeq([p \in DOMAIN items |-> ends(p)])

Sliced(s, items) ==
  LET from == SetToSortSeq({n \in DOMAIN items : InSlice(s, n)}, LAMBDA m, n : m < n)
      n == IF s.count = Unlimited \/ s.count > Len(from) THEN Len(from) ELSE s.count
  IN [j \in 1..n |-> items[from[j]]]

Promise(s, items) ==
  CASE s.kind = "map" -> Mapped(s, items)
    [] s.kind = "listed" -> Grouped(s, items)
    [] s.kind = "slice" -> Sliced(s, items)
    [] s.kind = "nonEmpty" -> IF items = <<>> THEN <<Err(<<>>)>> ELSE items
    [] s.kind = "unbatch" ->
         FlattenSeq([p \in DOMAIN items |->
           IF items[p].err THEN <<items[p]>>
           ELSE [j \in DOMAIN items[p].ids |-> Ok(<<items[p].ids[j]>>)]])
    [] OTHER -> items

Promised(items) == FoldLeft(LAMBDA sofar, s : Promise(s, sofar), items, Chain)

Shuffling == {k \in DOMAIN Chain : Kind(k) = "shuffle"}
Goods(items) == SelectSeq(items, LAMBDA i : ~i.err)

-----------------------------------------------------------------------------
TypeOK ==
  /\ plan \in Plans
  /\ mode \in {"idle", "ask", "tell", "ended"} /\ at \in 0..Len(Chain)
  /\ answer \in Item /\ taken \in Seq(Item) /\ out \in Seq(Item)
  /\ left \in Seq(Seq(Item)) /\ weights \in Seq({0, 1})
  /\ Len(left) = Len(weights) /\ turn \in Nat
  /\ \A k \in DOMAIN Chain :
       Kind(k) \in {"listed", "shuffle"} => Len(stage[k].held) < Chain[k].size

(* Pulled item by item, the chain hands out what its adapters promise of the *)
(* whole stream: nothing is lost, repeated or overtaken on the way, whoever  *)
(* stops, fails, skips or waits for more (each Iterator::next of filters.rs, *)
(* RoundRobin::apply).                                                       *)
Exact ==
  plan.mix = "turns" /\ Shuffling = {} =>
    /\ IsPrefix(out, Promised(Turns))
    /\ mode = "ended" => out = Promised(Turns)

(* A shuffled stream is a permutation of the one it shuffles, and no sample  *)
(* is handed out before the buffer can have held it.                         *)
Permuted ==
  plan.mix = "turns" /\ Shuffling # {} =>
    LET given == Goods(Promised(Turns))
        had == Goods(out)
    IN /\ \A n \in DOMAIN had : \E m \in DOMAIN given :
            given[m] = had[n] /\ \A k \in Shuffling : m < n + Chain[k].size
       /\ \A m, n \in DOMAIN had : m # n => had[m] # had[n]
       /\ mode = "ended" => Len(had) = Len(given)

(* Datasets that are mixed keep their own order; a mix that goes on to the   *)
(* longest leaves nothing but what can never be drawn.                       *)
Mixed ==
  plan.mix = "random" =>
    /\ \A i \in DOMAIN plan.data :
         IsPrefix(SelectSeq(taken, LAMBDA t : t \in ToSet(plan.data[i])), plan.data[i])
    /\ mode = "ended" =>
         /\ out = Promised(taken)
         /\ plan.longest =>
              \A i \in DOMAIN plan.data : plan.weights[i] > 0 =>
                ToSet(plan.data[i]) \subseteq ToSet(taken)

(* No sample is handed out twice, alone, in a group or in two of them, and   *)
(* none is made up; unless a buffer shuffles them they come in the order in  *)
(* which the datasets gave them.                                             *)
Unlike(data) ==
  \A i, j \in DOMAIN data : \A m \in DOMAIN data[i], n \in DOMAIN data[j] :
    ~data[i][m].err /\ data[i][m] = data[j][n] => i = j /\ m = n

OnceInOrder ==
  Unlike(plan.data) =>
    \A m, n \in DOMAIN out : ~out[m].err /\ ~out[n].err =>
      \A i \in DOMAIN out[m].ids, j \in DOMAIN out[n].ids :
        \E k, l \in DOMAIN taken :
          /\ taken[k] = Ok(<<out[m].ids[i]>>) /\ taken[l] = Ok(<<out[n].ids[j]>>)
          /\ k = l => m = n /\ i = j
          /\ Shuffling = {} /\ (m < n \/ (m = n /\ i < j)) => k < l

(* An adapter that drops nothing, fails on nothing and cuts nothing off, and *)
(* below which nothing makes an Err for which a group would be thrown away.  *)
Errless(k) ==
  /\ \A i \in DOMAIN plan.data : \A j \in DOMAIN plan.data[i] : ~plan.data[i][j].err
  /\ \A j \in 1..k : Kind(j) # "nonEmpty"

Lossless(k) ==
  CASE Kind(k) = "map" -> Chain[k].drops \cup Chain[k].fails = {}
    [] Kind(k) = "listed" -> Chain[k].partial /\ Errless(k - 1)
    [] Kind(k) = "slice" -> FALSE
    [] OTHER -> TRUE

(* At the end of a chain of such adapters every sample that the datasets     *)
(* gave has been handed out: no group, buffer or batch is left behind.       *)
NothingIsLost ==
  mode = "ended" /\ (\A k \in DOMAIN Chain : Lossless(k)) =>
    \A n \in DOMAIN taken : ~taken[n].err =>
      \E m \in DOMAIN out : ~out[m].err /\ \E i \in DOMAIN out[m].ids :
        taken[n] = Ok(<<out[m].ids[i]>>)

KeepsItsPromise == Exact /\ Permuted /\ Mixed /\ OnceInOrder /\ NothingIsLost

(* "Set once the source has ended, so it is never polled again": an unfold   *)
(* panics when it is polled after its end, so no asynchronous adapter asks   *)
(* another that has told the end.  (And the variables keep their types.)     *)
NeverPolledAfterEnd ==
  /\ TypeOK
  /\ plan.async /\ mode = "ask" => at \notin over \ {0}
=============================================================================
