------------------------- MODULE AsyncPipelineProofs -------------------------
(***************************************************************************)
(* Any plan: any shards, any number of them in flight, any repetition and  *)
(* limit.  However polls advance the shards in flight, samples are whole   *)
(* runs of one shard's files and epochs hand out all there is.             *)
(*                                                                         *)
(* Of each shard in flight the proof follows the place of its stream: the  *)
(* files before it have become samples of this epoch or are the sample in  *)
(* progress.  What the streams have in common is only the epoch they are   *)
(* in, and what the consumer has had.                                      *)
(***************************************************************************)
EXTENDS AsyncPipeline, FiniteSetTheorems, TLAPS

Key(i, j) == plan.shards[i].files[j].key
Ext(i, j) == plan.shards[i].files[j].ext

Outcome == [epoch : Nat, of : Nat, key : {f.key : f \in Files} \cup {""},
            exts : SUBSET {f.ext : f \in Files}, files : SUBSET Nat]
Stream == [pc : {"opening", "reading", "finish", "over"}, pos : Nat \ {0},
           group : Seq(Outcome)]

-----------------------------------------------------------------------------
(* The epochs, the limit and the items. *)
Counters ==
  /\ plan \in Plans
  /\ pc \in {"idle", "polling", "ended", "dropped"}
  /\ taken \in 0..MaxItems /\ produced \in 0..taken /\ epoch \in Nat \ {0}
  /\ pc = "polling" => taken < MaxItems
  /\ plan.limit # Unlimited =>
       taken <= plan.limit /\ (pc = "polling" => taken < plan.limit)
  /\ IF plan.repeats = Forever THEN left = Forever
     ELSE left \in Nat /\ plan.repeats = (IF plan.repeats = 0 THEN left ELSE left + epoch)
  /\ next \in 0..Len(plan.shards)
  /\ pc = "ended" /\ plan.limit = Unlimited => produced = 0 \/ left = 0

(* A stream's sample in progress is the run of the last keyed file before   *)
(* its place.                                                               *)
Last(i, l, f) == l \in Keyed(i) /\ l <= f /\ \A j \in Keyed(i) : j <= f => j <= l

InProgress(i, g, f) ==
  /\ g.of = i /\ g.files # {}
  /\ \E l \in Keyed(i) :
       /\ Last(i, l, f)
       /\ g.key = Key(i, l)
       /\ g.files = {j \in Firsts(i, RunOf(i, l)) : j <= f}
       /\ g.exts = {Ext(i, j) : j \in {k \in RunOf(i, l) : k <= f}}

Grouped(i, s) ==
  IF s.group # <<>>
  THEN s.group[1].epoch = epoch /\ InProgress(i, s.group[1], s.pos - 1)
  ELSE s.pc # "over" => \A j \in Keyed(i) : s.pos - 1 < j

Underway(i, s) ==
  /\ s \in Stream /\ Len(s.group) <= 1
  /\ s.pc = "opening" => s.pos = 1 /\ s.group = <<>>
  /\ s.pc \in {"reading", "finish"} =>
       plan.shards[i].opens /\ s.pos <= Len(plan.shards[i].files) + 1
  /\ s.pc = "reading" => \A k \in 1..(s.pos - 1) : plan.shards[i].files[k] # Broken
  /\ s.pc = "finish" => plan.handler = "stop" \/ \A j \in Keyed(i) : j <= s.pos - 1
  /\ s.pc = "over" => s.group = <<>> /\ s.pos <= Len(plan.shards[i].files) + 2
  /\ Grouped(i, s)

InFlight(i, s) == i \in DOMAIN flight /\ s = flight[i]

Slots ==
  /\ IsFiniteSet(DOMAIN flight) /\ DOMAIN flight \subseteq 1..next
  /\ Cardinality(DOMAIN flight) <= plan.width
  /\ plan.width = 1 => DOMAIN flight \subseteq {next}

Flying == Slots /\ \A i, s : InFlight(i, s) => Underway(i, s)

-----------------------------------------------------------------------------
(* What the consumer has had. *)
Returned ==
  /\ out \in Seq(Outcome)
  /\ \A n \in Samples : /\ WholeRun(out[n]) /\ out[n].epoch \in 1..epoch
                        /\ out[n].epoch = epoch => out[n].of \in 1..next
  /\ \A n, m \in Samples : n < m => InOrder(out[n], out[m])

(* Of a shard in flight, what comes before its place and before the sample *)
(* in progress.                                                             *)
Before(s, t) ==
  \A j \in t.files : /\ j < s.pos
                     /\ s.group # <<>> => \A k \in s.group[1].files : j < k

Behind(i, s) ==
  \A n \in Samples : out[n].epoch = epoch /\ out[n].of = i => Before(s, out[n])

Taken(e, i, j) == \E n \in Samples : out[n].epoch = e /\ out[n].of = i /\ j \in out[n].files

IsFirst(i, j) == j \in Keyed(i) /\ j \in Firsts(i, RunOf(i, j))
PassedBy(s, j) == s.pc # "over" => j < s.pos
HeldBy(s, j) == s.group # <<>> /\ j \in s.group[1].files

(* Every first file that a stream has passed has been handed out, or is in *)
(* the sample in progress; of a shard whose stream is closed, every one has *)
(* been handed out.                                                         *)
Settled(i, s) ==
  \A j \in Keyed(i) : IsFirst(i, j) /\ PassedBy(s, j) => Taken(epoch, i, j) \/ HeldBy(s, j)
AllTaken(e, i) == \A j \in Keyed(i) : IsFirst(i, j) => Taken(e, i, j)

Complete ==
  plan.handler # "stop" =>
    /\ \A e \in 1..(epoch - 1) : RunIsWhole(e)
    /\ pc # "dropped" => /\ \A i, s : InFlight(i, s) => Settled(i, s)
                         /\ \A i \in (1..next) \ DOMAIN flight : AllTaken(epoch, i)
    /\ pc = "ended" /\ plan.limit = Unlimited => RunIsWhole(epoch)

Delivered == Returned /\ (\A i, s : InFlight(i, s) => Behind(i, s)) /\ Complete

IInv == Counters /\ Flying /\ Delivered

-----------------------------------------------------------------------------
(* What the shards hold does not change. *)
LEMMA Reference ==
  ASSUME plan' = plan
  PROVE  /\ \A i : Readable(i)' = Readable(i) /\ Keyed(i)' = Keyed(i)
         /\ \A i, j : /\ RunOf(i, j)' = RunOf(i, j) /\ Firsts(i, j)' = Firsts(i, j)
                      /\ Key(i, j)' = Key(i, j) /\ Ext(i, j)' = Ext(i, j)
                      /\ IsFirst(i, j)' <=> IsFirst(i, j)
         /\ \A i, g, f : InProgress(i, g, f)' <=> InProgress(i, g, f)
         /\ \A s : WholeRun(s)' <=> WholeRun(s)
         /\ \A s, t : InOrder(s, t)' <=> InOrder(s, t)
<1>1. \A i : Readable(i)' = Readable(i)
  BY DEF Readable
<1>2. \A i, j : Key(i, j)' = Key(i, j) /\ Ext(i, j)' = Ext(i, j)
  BY DEF Key, Ext
<1>3. \A i : Keyed(i)' = Keyed(i)
  BY <1>1 DEF Keyed
<1>4. \A i, j : RunOf(i, j)' = RunOf(i, j) /\ Firsts(i, j)' = Firsts(i, j)
  BY <1>3 DEF RunOf, Firsts
<1>5. \A i, g, f : InProgress(i, g, f)' <=> InProgress(i, g, f)
  BY <1>2, <1>3, <1>4 DEF InProgress, Last
<1>6. \A s : WholeRun(s)' <=> WholeRun(s)
  BY <1>3, <1>4 DEF WholeRun
<1>7. \A s, t : InOrder(s, t)' <=> InOrder(s, t)
  BY DEF InOrder
<1>8. \A i, j : IsFirst(i, j)' <=> IsFirst(i, j)
  BY <1>3, <1>4 DEF IsFirst
<1> QED
  BY <1>1, <1>2, <1>3, <1>4, <1>5, <1>6, <1>7, <1>8

LEMMA PlanIs ==
  ASSUME plan \in Plans
  PROVE  /\ plan \in Plan /\ plan.shards \in Seq(Shard) /\ Len(plan.shards) \in Nat
         /\ DOMAIN plan.shards = 1..Len(plan.shards) /\ plan.width \in Nat \ {0}
         /\ plan.repeats \in Nat \cup {Forever} /\ plan.limit \in Nat \cup {Unlimited}
         /\ \A i \in 1..Len(plan.shards) :
              /\ plan.shards[i].files \in Seq(Files \cup {Broken})
              /\ Len(plan.shards[i].files) \in Nat
              /\ DOMAIN plan.shards[i].files = 1..Len(plan.shards[i].files)
              /\ Keyed(i) \subseteq Readable(i)
              /\ Readable(i) \subseteq 1..Len(plan.shards[i].files)
<1>1. plan \in Plan
  BY AsyncAssumption
<1>2. plan.shards \in Seq(Shard)
  BY <1>1 DEF Plan
<1>3. ASSUME NEW i \in 1..Len(plan.shards)
      PROVE  /\ plan.shards[i].files \in Seq(Files \cup {Broken})
             /\ Len(plan.shards[i].files) \in Nat
             /\ DOMAIN plan.shards[i].files = 1..Len(plan.shards[i].files)
  <2>1. plan.shards[i] \in Shard
    BY <1>2
  <2>2. plan.shards[i].files \in Seq(Files \cup {Broken})
    BY <2>1 DEF Shard
  <2> QED
    BY <2>2
<1>4. \A i \in 1..Len(plan.shards) :
        Keyed(i) \subseteq Readable(i) /\ Readable(i) \subseteq 1..Len(plan.shards[i].files)
  BY <1>3 DEF Keyed, Readable
<1> QED
  BY <1>1, <1>2, <1>3, <1>4 DEF Plan

-----------------------------------------------------------------------------
(* Runs of keyed files.                                                    *)
Amid(a, m, b) == (a <= m /\ m <= b) \/ (b <= m /\ m <= a)

LEMMA RunIs ==
  ASSUME NEW i, NEW j
  PROVE  RunOf(i, j) = {k \in Keyed(i) : \A m \in Keyed(i) :
                          Amid(j, m, k) => Key(i, m) = Key(i, j)}
BY DEF RunOf, Amid, Key

LEMMA RunSame ==
  ASSUME NEW i, Keyed(i) \subseteq Nat, NEW l \in Keyed(i), NEW j \in RunOf(i, l)
  PROVE  /\ j \in Keyed(i) /\ Key(i, j) = Key(i, l)
         /\ RunOf(i, j) = RunOf(i, l) /\ l \in RunOf(i, l)
<1>1. /\ j \in Keyed(i)
      /\ \A m \in Keyed(i) : Amid(l, m, j) => Key(i, m) = Key(i, l)
  BY RunIs
<1>2. Key(i, j) = Key(i, l)
  BY <1>1 DEF Amid
<1>3. \A k, m \in Keyed(i) : Amid(j, m, k) => Amid(l, m, j) \/ Amid(l, m, k)
  BY <1>1 DEF Amid
<1>4. \A k, m \in Keyed(i) : Amid(l, m, k) => Amid(l, m, j) \/ Amid(j, m, k)
  BY <1>1 DEF Amid
<1>5. RunOf(i, l) \subseteq RunOf(i, j)
  BY <1>1, <1>2, <1>3, RunIs
<1>6. RunOf(i, j) \subseteq RunOf(i, l)
  BY <1>1, <1>2, <1>4, RunIs
<1>7. l \in RunOf(i, l)
  BY RunIs DEF Amid
<1> QED
  BY <1>1, <1>2, <1>5, <1>6, <1>7

(* The file after l is of its run, or begins another. *)
LEMMA NextInRun ==
  ASSUME NEW i, Keyed(i) \subseteq Nat, NEW l \in Keyed(i), NEW n \in Keyed(i), l < n,
         \A j \in Keyed(i) : j < n => j <= l
  PROVE  IF Key(i, n) = Key(i, l)
         THEN n \in RunOf(i, l) /\ RunOf(i, n) = RunOf(i, l)
         ELSE (\A k \in RunOf(i, l) : k <= l) /\ (\A k \in RunOf(i, n) : n <= k)
<1>1. CASE Key(i, n) = Key(i, l)
  <2>1. \A m \in Keyed(i) : Amid(l, m, n) => m = l \/ m = n
    BY DEF Amid
  <2>2. n \in RunOf(i, l)
    BY <1>1, <2>1, RunIs
  <2> QED
    BY <1>1, <2>2, RunSame
<1>2. CASE Key(i, n) # Key(i, l)
  <2>1. ASSUME NEW k \in RunOf(i, l)
        PROVE  k <= l
    <3>1. k \in Keyed(i) /\ (Amid(l, n, k) => Key(i, n) = Key(i, l))
      BY RunIs
    <3> QED
      BY <1>2, <3>1 DEF Amid
  <2>2. ASSUME NEW k \in RunOf(i, n)
        PROVE  n <= k
    <3>1. k \in Keyed(i) /\ (Amid(n, l, k) => Key(i, l) = Key(i, n))
      BY RunIs
    <3> QED
      BY <1>2, <3>1 DEF Amid
  <2> QED
    BY <1>2, <2>1, <2>2
<1> QED
  BY <1>1, <1>2

(* n is the keyed file after f. *)
Follows(i, f, n) == n \in Keyed(i) /\ f < n /\ \A j \in Keyed(i) : j < n => j <= f
Begun(i, n) == Item(i, Key(i, n), {Ext(i, n)}, {n})

LEMMA Begins ==
  ASSUME NEW i, Keyed(i) \subseteq Nat, NEW f \in Nat, NEW n, Follows(i, f, n),
         \/ \A j \in Keyed(i) : f < j
         \/ \E g : InProgress(i, g, f) /\ g.key # Key(i, n)
  PROVE  InProgress(i, Begun(i, n), n)
<1>1. n \in Keyed(i) /\ n \in Nat /\ Last(i, n, n) /\ n \in RunOf(i, n)
  <2>1. n \in Keyed(i) /\ n \in Nat
    BY DEF Follows
  <2>2. n \in RunOf(i, n)
    BY <2>1, RunIs DEF Amid
  <2> QED
    BY <2>1, <2>2 DEF Last
<1>2. RunOf(i, n) \subseteq Keyed(i)
  BY DEF RunOf
<1>3. \A k \in RunOf(i, n) : n <= k
  <2>1. CASE \A j \in Keyed(i) : f < j
    BY <1>1, <1>2, <2>1 DEF Follows
  <2>2. CASE \E g : InProgress(i, g, f) /\ g.key # Key(i, n)
    <3> PICK l : Last(i, l, f) /\ Key(i, l) # Key(i, n)
      BY <2>2 DEF InProgress
    <3>1. l \in Keyed(i) /\ l < n /\ \A j \in Keyed(i) : j < n => j <= l
      BY DEF Last, Follows
    <3> QED
      BY <1>1, <3>1, NextInRun
  <2> QED
    BY <2>1, <2>2
<1>4. {k \in RunOf(i, n) : k <= n} = {n}
  BY <1>1, <1>2, <1>3
<1>5. {j \in Firsts(i, RunOf(i, n)) : j <= n} = {n}
  <2>1. n \in Firsts(i, RunOf(i, n))
    BY <1>1, <1>2, <1>3 DEF Firsts, Ext
  <2>2. Firsts(i, RunOf(i, n)) \subseteq RunOf(i, n)
    BY DEF Firsts, Ext
  <2> QED
    BY <1>1, <1>4, <2>1, <2>2
<1>6. {Ext(i, j) : j \in {k \in RunOf(i, n) : k <= n}} = {Ext(i, n)}
  BY <1>4
<1>7. /\ Begun(i, n).of = i /\ Begun(i, n).key = Key(i, n)
      /\ Begun(i, n).files = {n} /\ Begun(i, n).exts = {Ext(i, n)}
  BY DEF Begun, Item
<1> QED
  BY <1>1, <1>5, <1>6, <1>7 DEF InProgress

(* The next file is of the run in progress. *)
LEMMA RunGoesOn ==
  ASSUME NEW i, Keyed(i) \subseteq Nat, NEW f \in Nat, NEW n, Follows(i, f, n),
         NEW l, Last(i, l, f), Key(i, n) = Key(i, l)
  PROVE  /\ Last(i, n, n) /\ RunOf(i, n) = RunOf(i, l) /\ n \in RunOf(i, l)
         /\ {k \in RunOf(i, l) : k <= n} = {k \in RunOf(i, l) : k <= f} \cup {n}
         /\ \A k \in RunOf(i, l) : k < n => k <= f
<1>1. /\ l \in Keyed(i) /\ n \in Keyed(i) /\ l < n
      /\ \A j \in Keyed(i) : j < n => j <= l /\ j <= f
  BY DEF Last, Follows
<1>2. n \in RunOf(i, l) /\ RunOf(i, n) = RunOf(i, l)
  BY <1>1, NextInRun
<1>3. RunOf(i, l) \subseteq Keyed(i)
  BY DEF RunOf
<1>4. Last(i, n, n)
  BY <1>1 DEF Last
<1>5. \A k \in RunOf(i, l) : (k < n <=> k <= f) /\ (k <= n <=> k <= f \/ k = n)
  BY <1>1, <1>3 DEF Follows
<1> QED
  BY <1>2, <1>4, <1>5

LEMMA Continues ==
  ASSUME NEW i, Keyed(i) \subseteq Nat, NEW f \in Nat, NEW n, Follows(i, f, n),
         NEW g \in Outcome, InProgress(i, g, f), g.key = Key(i, n),
         Ext(i, n) \notin g.exts
  PROVE  InProgress(i, [g EXCEPT !.exts = @ \cup {Ext(i, n)},
                                 !.files = @ \cup {n}], n)
<1> DEFINE h == [g EXCEPT !.exts = @ \cup {Ext(i, n)}, !.files = @ \cup {n}]
<1>1. /\ h.of = g.of /\ h.key = g.key
      /\ h.exts = g.exts \cup {Ext(i, n)} /\ h.files = g.files \cup {n}
  BY DEF Outcome
<1> HIDE DEF h
<1> PICK l : /\ Last(i, l, f) /\ g.key = Key(i, l)
             /\ g.files = {j \in Firsts(i, RunOf(i, l)) : j <= f}
             /\ g.exts = {Ext(i, j) : j \in {k \in RunOf(i, l) : k <= f}}
  BY DEF InProgress
<1>2. /\ Last(i, n, n) /\ RunOf(i, n) = RunOf(i, l) /\ n \in RunOf(i, l)
      /\ {k \in RunOf(i, l) : k <= n} = {k \in RunOf(i, l) : k <= f} \cup {n}
      /\ \A k \in RunOf(i, l) : k < n => k <= f
  BY RunGoesOn
<1>3. h.exts = {Ext(i, j) : j \in {k \in RunOf(i, l) : k <= n}}
  BY <1>1, <1>2
<1>4. n \in Firsts(i, RunOf(i, l))
  BY <1>2 DEF Firsts, Ext
<1>5. h.files = {j \in Firsts(i, RunOf(i, l)) : j <= n}
  <2>1. Firsts(i, RunOf(i, l)) \subseteq RunOf(i, l)
    BY DEF Firsts, Ext
  <2> QED
    BY <1>1, <1>2, <1>4, <2>1
<1>6. h.of = i /\ h.files # {} /\ h.key = Key(i, n)
  BY <1>1 DEF InProgress
<1>7. InProgress(i, h, n)
  <2>1. n \in Keyed(i)
    BY DEF Follows
  <2> QED
    BY <1>2, <1>3, <1>5, <1>6, <2>1 DEF InProgress
<1> QED
  BY <1>7 DEF h

LEMMA Repeats ==
  ASSUME NEW i, Keyed(i) \subseteq Nat, NEW f \in Nat, NEW n, Follows(i, f, n),
         NEW g, InProgress(i, g, f), g.key = Key(i, n),
         Ext(i, n) \in g.exts
  PROVE  InProgress(i, g, n) /\ n \notin Firsts(i, RunOf(i, n))
<1> PICK l : /\ Last(i, l, f) /\ g.key = Key(i, l)
             /\ g.files = {j \in Firsts(i, RunOf(i, l)) : j <= f}
             /\ g.exts = {Ext(i, j) : j \in {k \in RunOf(i, l) : k <= f}}
  BY DEF InProgress
<1>1. /\ Last(i, n, n) /\ RunOf(i, n) = RunOf(i, l) /\ n \in RunOf(i, l)
      /\ {k \in RunOf(i, l) : k <= n} = {k \in RunOf(i, l) : k <= f} \cup {n}
  <2>1. Key(i, n) = Key(i, l)
    OBVIOUS
  <2> HIDE DEF Last, Follows
  <2> QED
    BY <2>1, RunGoesOn
<1>2. g.exts = {Ext(i, j) : j \in {k \in RunOf(i, l) : k <= n}}
  BY <1>1
<1>3. PICK k \in RunOf(i, l) : k <= f /\ Ext(i, k) = Ext(i, n)
  OBVIOUS
<1>4. k < n
  <2>1. RunOf(i, l) \subseteq Nat
    BY DEF RunOf
  <2> QED
    BY <1>3, <2>1 DEF Follows
<1>5. n \notin Firsts(i, RunOf(i, l))
  BY <1>3, <1>4 DEF Firsts, Ext
<1>6. Firsts(i, RunOf(i, l)) \subseteq RunOf(i, l)
  BY DEF Firsts, Ext
<1>7. g.files = {j \in Firsts(i, RunOf(i, l)) : j <= n}
  BY <1>1, <1>5, <1>6
<1>8. g.of = i /\ g.files # {}
  BY DEF InProgress
<1>9. n \in Keyed(i) /\ g.key = Key(i, n)
  BY DEF Follows
<1>10. InProgress(i, g, n)
  BY <1>1, <1>2, <1>7, <1>8, <1>9 DEF InProgress
<1> QED
  BY <1>1, <1>5, <1>10

(* What is not keyed changes nothing. *)
LEMMA PassesBy ==
  ASSUME NEW i, Keyed(i) \subseteq Nat, NEW f \in Nat, NEW n \in Nat, f <= n,
         \A j \in Keyed(i) : j <= n => j <= f, NEW g, InProgress(i, g, f)
  PROVE  InProgress(i, g, n)
<1> PICK l : /\ Last(i, l, f) /\ g.key = Key(i, l)
             /\ g.files = {j \in Firsts(i, RunOf(i, l)) : j <= f}
             /\ g.exts = {Ext(i, j) : j \in {k \in RunOf(i, l) : k <= f}}
  BY DEF InProgress
<1>1. RunOf(i, l) \subseteq Keyed(i) /\ Firsts(i, RunOf(i, l)) \subseteq RunOf(i, l)
  BY DEF RunOf, Firsts
<1>2. \A j \in Keyed(i) : j <= n <=> j <= f
  OBVIOUS
<1>3. Last(i, l, n)
  BY <1>2 DEF Last
<1>4. {k \in RunOf(i, l) : k <= n} = {k \in RunOf(i, l) : k <= f}
  BY <1>1, <1>2
<1>5. {j \in Firsts(i, RunOf(i, l)) : j <= n} = {j \in Firsts(i, RunOf(i, l)) : j <= f}
  BY <1>1, <1>2
<1>6. g.of = i /\ g.files # {}
  BY DEF InProgress
<1>7. l \in Keyed(i)
  BY DEF Last
<1> QED
  BY <1>3, <1>4, <1>5, <1>6, <1>7 DEF InProgress

(* A run that no file continues is whole; one cut short is a part of one.  *)
LEMMA Completes ==
  ASSUME NEW i, Keyed(i) \subseteq Nat, NEW f \in Nat, NEW g, InProgress(i, g, f),
         \/ plan.handler = "stop"
         \/ \A j \in Keyed(i) : j <= f
         \/ \E n : Follows(i, f, n) /\ Key(i, n) # g.key
  PROVE  WholeRun(g)
<1> PICK l : /\ Last(i, l, f) /\ g.key = Key(i, l)
             /\ g.files = {j \in Firsts(i, RunOf(i, l)) : j <= f}
  BY DEF InProgress
<1>1. PICK j : j \in g.files
  BY DEF InProgress
<1>2. Firsts(i, RunOf(i, l)) \subseteq RunOf(i, l) /\ RunOf(i, l) \subseteq Keyed(i) /\ l \in Keyed(i)
  BY DEF Firsts, RunOf, Last
<1>3. j \in Keyed(i) /\ Key(i, j) = Key(i, l) /\ RunOf(i, j) = RunOf(i, l)
  BY <1>1, <1>2, RunSame
<1>4. ASSUME plan.handler # "stop"
      PROVE  \A k \in RunOf(i, l) : k <= f
  <2>1. CASE \A k \in Keyed(i) : k <= f
    BY <1>2, <2>1
  <2>2. CASE \E n : Follows(i, f, n) /\ Key(i, n) # g.key
    <3> PICK n : Follows(i, f, n) /\ Key(i, n) # g.key
      BY <2>2
    <3>1. n \in Keyed(i) /\ l < n /\ \A k \in Keyed(i) : k < n => k <= l
      BY <1>2 DEF Last, Follows
    <3>2. \A k \in RunOf(i, l) : k <= l
      BY <1>2, <3>1, NextInRun
    <3> QED
      BY <1>2, <3>2 DEF Last
  <2> QED
    BY <1>4, <2>1, <2>2
<1>5. plan.handler # "stop" => g.files = Firsts(i, RunOf(i, l))
  BY <1>2, <1>4
<1>6. g.files \subseteq Firsts(i, RunOf(i, l)) /\ g.of = i
  BY DEF InProgress
<1> QED
  BY <1>1, <1>3, <1>5, <1>6 DEF WholeRun, Key

-----------------------------------------------------------------------------
(* The counters. *)
LEMMA StepOf ==
  ASSUME NEW i \in DOMAIN flight, ShardStep(i)
  PROVE  pc = "polling" /\ (Silent \/ \E x : Yields(x))
<1>1. CASE Opens(i) \/ PushNothing(i) \/ Close(i)
  BY <1>1 DEF Opens, PushNothing, Close, Polled, Reading
<1>2. CASE OpenFails(i) \/ Break(i) \/ PushDuplicate(i)
  BY <1>2 DEF OpenFails, Break, PushDuplicate, Polled, Reading
<1>3. CASE PushFile(i)
  BY <1>3 DEF PushFile, Polled, Reading
<1>4. CASE EndOfShard(i)
  BY <1>4 DEF EndOfShard, Polled
<1> QED
  BY <1>1, <1>2, <1>3, <1>4 DEF ShardStep

LEMMA CountersKept ==
  ASSUME Counters, [Next]_vars
  PROVE  Counters'
<1> USE AsyncAssumption
<1>0. /\ plan.repeats \in Nat \cup {Forever} /\ plan.limit \in Nat \cup {Unlimited}
      /\ Len(plan.shards) \in Nat
  BY PlanIs DEF Counters
<1>1. CASE pc = "polling" /\ \E x : Yields(x)
  BY <1>0, <1>1 DEF Counters, Yields, counters
<1>2. CASE Silent
  BY <1>2 DEF Counters, Silent, counters
<1>3. CASE Poll
  BY <1>0, <1>3 DEF Counters, Poll, counters
<1>4. CASE Drop
  BY <1>4 DEF Counters, Drop, counters
<1>5. CASE Admit
  BY <1>0, <1>5 DEF Counters, Admit, counters
<1>6. CASE ReportEmpty
  BY <1>1, <1>6 DEF ReportEmpty, RunEnds
<1>7. CASE EndStream
  BY <1>7 DEF Counters, EndStream, RunEnds, counters
<1>8. CASE NextEpoch
  <2>1. /\ plan' = plan /\ pc' = pc /\ pc = "polling" /\ taken' = taken
        /\ produced' = 0 /\ next' = 0 /\ epoch' = epoch + 1 /\ left # 0
        /\ left' = IF left = Forever THEN Forever ELSE left - 1
    BY <1>8 DEF NextEpoch, RunEnds
  <2>2. IF plan.repeats = Forever THEN left' = Forever
        ELSE left' \in Nat /\ plan.repeats = (IF plan.repeats = 0 THEN left' ELSE left' + epoch')
    BY <1>0, <2>1 DEF Counters
  <2> QED
    BY <1>0, <2>1, <2>2 DEF Counters
<1>9. CASE UNCHANGED vars
  BY <1>9 DEF Counters, vars, counters
<1>10. CASE \E i \in DOMAIN flight : ShardStep(i)
  BY <1>1, <1>2, <1>10, StepOf
<1> QED
  BY <1>3, <1>4, <1>5, <1>6, <1>7, <1>8, <1>9, <1>10 DEF Next, PollStep, Dropped

-----------------------------------------------------------------------------
(* One step of one stream: it becomes s, and x comes of it; an outcome     *)
(* without files stands for nothing.                                        *)
Hands(x) == x \in Outcome /\ (out' = Append(out, x) \/ (out' = out /\ x.files = {}))

Fits(i, x) ==
  x.files # {} =>
    /\ x.epoch = epoch /\ x.of = i /\ WholeRun(x)
    /\ \A n \in Samples : out[n].epoch = epoch /\ out[n].of = i =>
         \A j \in out[n].files, k \in x.files : j < k

Keeps(i, s, x) ==
  plan.handler # "stop" =>
    \A j \in Keyed(i) : IsFirst(i, j) /\ PassedBy(s, j) =>
      \/ HeldBy(s, j) \/ j \in x.files
      \/ PassedBy(flight[i], j) /\ ~HeldBy(flight[i], j)

Turn(i, s, x) ==
  /\ plan' = plan /\ epoch' = epoch /\ next' = next
  /\ pc = "polling" /\ pc' \in {"polling", "idle"}
  /\ flight' = [flight EXCEPT ![i] = s]
  /\ Hands(x) /\ Underway(i, s) /\ Fits(i, x)
  /\ Behind(i, s) /\ Before(s, x) /\ Keeps(i, s, x)

LEMMA Handed ==
  ASSUME out \in Seq(Outcome), NEW x, Hands(x)
  PROVE  /\ out' \in Seq(Outcome)
         /\ \A n \in Samples : n \in Samples' /\ n <= Len(out) /\ out'[n] = out[n]
         /\ \A n \in Samples' : n \in Samples \/ (n = Len(out) + 1 /\ x.files # {} /\ out'[n] = x)
         /\ x.files # {} => Len(out) + 1 \in Samples' /\ out'[Len(out) + 1] = x
<1>1. CASE out' = Append(out, x)
  <2>1. /\ Len(out) \in Nat /\ Len(out') = Len(out) + 1 /\ out' \in Seq(Outcome)
        /\ DOMAIN out = 1..Len(out) /\ DOMAIN out' = 1..(Len(out) + 1)
        /\ out'[Len(out) + 1] = x /\ \A n \in 1..Len(out) : out'[n] = out[n]
    BY <1>1 DEF Hands
  <2> QED
    BY <2>1 DEF Samples
<1>2. CASE out' = out /\ x.files = {}
  BY <1>2 DEF Samples
<1> QED
  BY <1>1, <1>2 DEF Hands

(* What has been handed out stays handed out. *)
LEMMA StaysTaken ==
  ASSUME out \in Seq(Outcome), NEW x, Hands(x), NEW e, NEW i, NEW j
  PROVE  /\ Taken(e, i, j) => Taken(e, i, j)'
         /\ x.epoch = e /\ x.of = i /\ j \in x.files => Taken(e, i, j)'
<1>1. ASSUME Taken(e, i, j)
      PROVE  Taken(e, i, j)'
  BY <1>1, Handed DEF Taken
<1>2. ASSUME x.epoch = e /\ x.of = i /\ j \in x.files
      PROVE  Taken(e, i, j)'
  BY <1>2, Handed DEF Taken
<1> QED
  BY <1>1, <1>2

LEMMA WholeIs ==
  \A e : RunIsWhole(e) <=> \A i \in DOMAIN plan.shards : AllTaken(e, i)
BY DEF RunIsWhole, AllTaken, IsFirst, Taken

LEMMA StaysWhole ==
  ASSUME out \in Seq(Outcome), NEW x, Hands(x), plan' = plan, NEW e
  PROVE  /\ \A i : AllTaken(e, i) => AllTaken(e, i)'
         /\ RunIsWhole(e) => RunIsWhole(e)'
<1>1. ASSUME NEW i, AllTaken(e, i)
      PROVE  AllTaken(e, i)'
  <2>1. Keyed(i)' = Keyed(i) /\ \A j : IsFirst(i, j)' <=> IsFirst(i, j)
    BY Reference
  <2>2. \A j : Taken(e, i, j) => Taken(e, i, j)'
    BY StaysTaken
  <2> QED
    BY <1>1, <2>1, <2>2 DEF AllTaken
<1>2. RunIsWhole(e) <=> \A i \in DOMAIN plan.shards : AllTaken(e, i)
  BY WholeIs
<1>3. RunIsWhole(e)' <=> \A i \in DOMAIN plan.shards : AllTaken(e, i)'
  BY DEF RunIsWhole, AllTaken, IsFirst, Taken
<1> QED
  BY <1>1, <1>2, <1>3

LEMMA SameUnderway ==
  ASSUME plan' = plan, epoch' = epoch
  PROVE  \A i, s : Underway(i, s)' <=> Underway(i, s)
<1>1. \A i, s : Grouped(i, s)' <=> Grouped(i, s)
  BY Reference DEF Grouped
<1>2. \A i : Keyed(i)' = Keyed(i)
  BY Reference
<1> SUFFICES ASSUME NEW i, NEW s
             PROVE  Underway(i, s)' <=> Underway(i, s)
  OBVIOUS
<1>3. Stream' = Stream
  BY DEF Stream, Outcome
<1> QED
  BY <1>1, <1>2, <1>3 DEF Underway

LEMMA SlotsTurned ==
  ASSUME IInv, NEW i \in DOMAIN flight, NEW s, NEW x, Turn(i, s, x)
  PROVE  Flying'
<1>1. /\ DOMAIN flight' = DOMAIN flight /\ flight'[i] = s
      /\ \A k \in DOMAIN flight : k # i => flight'[k] = flight[k]
  BY DEF Turn
<1>2. Slots'
  BY <1>1 DEF Turn, IInv, Flying, Slots
<1>3. ASSUME NEW k, NEW t, InFlight(k, t)'
      PROVE  Underway(k, t)'
  <2>1. Underway(k, t)
    BY <1>1, <1>3 DEF InFlight, Turn, IInv, Flying
  <2> QED
    BY <2>1, SameUnderway DEF Turn
<1> QED
  BY <1>2, <1>3 DEF Flying

LEMMA StreamsAre ==
  ASSUME IInv, NEW i \in DOMAIN flight
  PROVE  /\ i \in Nat /\ i \in 1..next /\ i \in 1..Len(plan.shards)
         /\ Underway(i, flight[i]) /\ Behind(i, flight[i])
         /\ plan.handler # "stop" /\ pc # "dropped" => Settled(i, flight[i])
<1>1. i \in 1..next /\ next \in 0..Len(plan.shards) /\ Len(plan.shards) \in Nat
  BY PlanIs DEF IInv, Flying, Slots, Counters
<1>2. InFlight(i, flight[i])
  BY DEF InFlight
<1> QED
  BY <1>1, <1>2 DEF IInv, Flying, Delivered, Complete

(* The samples of one shard at a time come in the order of the shards. *)
LEMMA ReturnedTurned ==
  ASSUME IInv, NEW i \in DOMAIN flight, NEW s, NEW x, Turn(i, s, x)
  PROVE  Returned'
<1>1. /\ out \in Seq(Outcome) /\ epoch \in Nat \ {0} /\ next \in Nat /\ i \in 1..next
      /\ plan' = plan /\ epoch' = epoch /\ next' = next
      /\ Hands(x) /\ Fits(i, x)
  BY StreamsAre, PlanIs DEF IInv, Counters, Delivered, Returned, Turn
<1>2. /\ out' \in Seq(Outcome)
      /\ \A n \in Samples : n <= Len(out) /\ out'[n] = out[n]
      /\ \A n \in Samples' : n \in Samples \/ (n = Len(out) + 1 /\ x.files # {} /\ out'[n] = x)
  BY <1>1, Handed
<1>3. \A n \in Samples : n \in Nat
  BY <1>1 DEF Samples
<1>4. \A t : WholeRun(t)' <=> WholeRun(t)
  BY <1>1, Reference
<1>5. ASSUME NEW n \in Samples'
      PROVE  /\ WholeRun(out'[n]) /\ out'[n].epoch \in 1..epoch
             /\ out'[n].epoch = epoch => out'[n].of \in 1..next
  BY <1>1, <1>2 DEF IInv, Delivered, Returned, Fits
<1>6. ASSUME NEW n \in Samples, x.files # {}
      PROVE  InOrder(out[n], x)
  <2>1. x.epoch = epoch /\ x.of = i
    BY <1>1, <1>6 DEF Fits
  <2>2. out[n].epoch \in 1..epoch /\ (out[n].epoch = epoch => out[n].of \in 1..next)
    BY DEF IInv, Delivered, Returned
  <2>3. plan.width = 1 => i = next
    BY DEF IInv, Flying, Slots
  <2>4. out[n].epoch = epoch /\ out[n].of = i => \A j \in out[n].files, k \in x.files : j < k
    BY <1>1, <1>6 DEF Fits
  <2> QED
    BY <1>1, <2>1, <2>2, <2>3, <2>4 DEF InOrder
<1>7. ASSUME NEW n \in Samples', NEW m \in Samples', n < m
      PROVE  InOrder(out'[n], out'[m])
  <2>0. Len(out) \in Nat
    BY <1>1
  <2>1. n \in Samples
    BY <1>2, <1>3, <1>7, <2>0
  <2>2. CASE m \in Samples
    BY <1>2, <1>7, <2>1, <2>2 DEF IInv, Delivered, Returned
  <2>3. CASE m = Len(out) + 1 /\ x.files # {} /\ out'[m] = x
    BY <1>2, <1>6, <2>1, <2>3
  <2> QED
    BY <1>2, <2>2, <2>3
<1> QED
  BY <1>1, <1>2, <1>4, <1>5, <1>7 DEF Returned, InOrder

LEMMA BehindTurned ==
  ASSUME IInv, NEW i \in DOMAIN flight, NEW s, NEW x, Turn(i, s, x)
  PROVE  \A k, t : InFlight(k, t)' => Behind(k, t)'
<1> SUFFICES ASSUME NEW k, NEW t, InFlight(k, t)'
             PROVE  Behind(k, t)'
  OBVIOUS
<1>1. /\ epoch' = epoch /\ Hands(x) /\ Fits(i, x) /\ Before(s, x) /\ Behind(i, s)
      /\ out \in Seq(Outcome)
  BY DEF Turn, IInv, Delivered, Returned
<1>2. /\ \A n \in Samples : out'[n] = out[n]
      /\ \A n \in Samples' : n \in Samples \/ (x.files # {} /\ out'[n] = x)
  BY <1>1, Handed
<1>3. \/ k = i /\ t = s
      \/ k # i /\ InFlight(k, t)
  BY DEF InFlight, Turn
<1>4. Behind(k, t) /\ (k = i => Before(t, x))
  BY <1>1, <1>3 DEF IInv, Delivered
<1>5. ASSUME NEW n \in Samples', out'[n].epoch = epoch, out'[n].of = k
      PROVE  Before(t, out'[n])
  <2>1. CASE n \in Samples
    BY <1>2, <1>4, <1>5, <2>1 DEF Behind
  <2>2. CASE x.files # {} /\ out'[n] = x
    BY <1>1, <1>4, <1>5, <2>2 DEF Fits
  <2> QED
    BY <1>2, <2>1, <2>2
<1> QED
  BY <1>1, <1>5 DEF Behind, Before

LEMMA CompleteTurned ==
  ASSUME IInv, NEW i \in DOMAIN flight, NEW s, NEW x, Turn(i, s, x)
  PROVE  Complete'
<1>1. /\ plan' = plan /\ epoch' = epoch /\ next' = next /\ Hands(x) /\ Fits(i, x)
      /\ out \in Seq(Outcome) /\ pc = "polling" /\ pc' \in {"polling", "idle"}
  BY DEF Turn, IInv, Delivered, Returned
<1> SUFFICES ASSUME plan.handler # "stop"
             PROVE  /\ \A e \in 1..(epoch - 1) : RunIsWhole(e)'
                    /\ \A k, t : InFlight(k, t)' => Settled(k, t)'
                    /\ \A k \in (1..next) \ DOMAIN flight' : AllTaken(epoch, k)'
  BY <1>1 DEF Complete
<1>2. Complete
  BY DEF IInv, Delivered
<1>3. DOMAIN flight' = DOMAIN flight
  BY DEF Turn
<1>4. \A e \in 1..(epoch - 1) : RunIsWhole(e)'
  BY <1>1, <1>2, StaysWhole DEF Complete
<1>5. ASSUME NEW k \in (1..next) \ DOMAIN flight
      PROVE  AllTaken(epoch, k)'
  <2> PICK e : e = epoch
    OBVIOUS
  <2>1. AllTaken(e, k)'
    BY <1>1, <1>2, <1>5, StaysWhole DEF Complete
  <2> QED
    BY <1>1, <2>1 DEF AllTaken, Taken
<1>6. ASSUME NEW k, NEW t, InFlight(k, t)'
      PROVE  Settled(k, t)'
  <2> PICK e : e = epoch
    OBVIOUS
  <2>1. \A j : /\ Taken(e, k, j) => Taken(e, k, j)'
               /\ x.epoch = e /\ x.of = k /\ j \in x.files => Taken(e, k, j)'
    BY <1>1, StaysTaken
  <2>2. Keyed(k)' = Keyed(k) /\ \A j : IsFirst(k, j)' <=> IsFirst(k, j)
    BY <1>1, Reference
  <2>3. ASSUME NEW j \in Keyed(k), IsFirst(k, j), PassedBy(t, j)
        PROVE  Taken(e, k, j)' \/ HeldBy(t, j)
    <3>1. CASE k # i
      <4>1. InFlight(k, t)
        BY <1>6, <3>1 DEF InFlight, Turn
      <4> QED
        BY <1>1, <1>2, <2>1, <2>3, <4>1 DEF Complete, Settled
    <3>2. CASE k = i
      <4>1. t = s
        BY <1>6, <3>2 DEF InFlight, Turn
      <4>2. \/ HeldBy(s, j) \/ j \in x.files
            \/ PassedBy(flight[i], j) /\ ~HeldBy(flight[i], j)
        BY <2>3, <3>2, <4>1 DEF Turn, Keeps
      <4>3. CASE j \in x.files
        BY <1>1, <2>1, <3>2, <4>3 DEF Fits
      <4>4. CASE PassedBy(flight[i], j) /\ ~HeldBy(flight[i], j)
        <5>1. Settled(i, flight[i])
          BY <1>1, StreamsAre
        <5> QED
          BY <2>1, <2>3, <3>2, <4>4, <5>1 DEF Settled
      <4> QED
        BY <4>1, <4>2, <4>3, <4>4
    <3> QED
      BY <3>1, <3>2
  <2>4. \A j : PassedBy(t, j)' <=> PassedBy(t, j)
    BY DEF PassedBy
  <2>5. \A j : HeldBy(t, j)' <=> HeldBy(t, j)
    BY DEF HeldBy
  <2>6. \A j : Taken(e, k, j)' <=> Taken(epoch, k, j)'
    BY <1>1 DEF Taken
  <2> QED
    BY <2>2, <2>3, <2>4, <2>5, <2>6 DEF Settled
<1> QED
  BY <1>3, <1>4, <1>5, <1>6

LEMMA Turned ==
  ASSUME IInv, NEW i \in DOMAIN flight, NEW s, NEW x, Turn(i, s, x)
  PROVE  Flying' /\ Delivered'
BY SlotsTurned, ReturnedTurned, BehindTurned, CompleteTurned DEF Delivered

-----------------------------------------------------------------------------
(* The shards' steps are turns. *)
LEMMA StreamIs ==
  ASSUME IInv, NEW i \in DOMAIN flight
  PROVE  LET s == flight[i]
             files == plan.shards[i].files
         IN /\ i \in 1..Len(plan.shards) /\ Len(files) \in Nat /\ DOMAIN files = 1..Len(files)
            /\ Keyed(i) \subseteq 1..Len(files) /\ Keyed(i) \subseteq Nat
            /\ s.pos \in Nat \ {0} /\ s.pos - 1 \in Nat /\ s.pos + 1 \in Nat \ {0}
            /\ s.group \in Seq(Outcome)
            /\ s.group = <<>> \/ (s.group = <<s.group[1]>> /\ s.group[1] \in Outcome)
<1> DEFINE s == flight[i]
<1>1. i \in 1..Len(plan.shards) /\ Underway(i, s)
  BY StreamsAre
<1>2. s.pos \in Nat \ {0} /\ s.group \in Seq(Outcome) /\ Len(s.group) <= 1
  BY <1>1 DEF Underway, Stream
<1>3. s.group = <<>> \/ (s.group = <<s.group[1]>> /\ s.group[1] \in Outcome)
  BY <1>2
<1>4. plan \in Plans
  BY DEF IInv, Counters
<1>5. /\ Len(plan.shards[i].files) \in Nat
      /\ DOMAIN plan.shards[i].files = 1..Len(plan.shards[i].files)
      /\ Keyed(i) \subseteq 1..Len(plan.shards[i].files)
  BY <1>1, <1>4, PlanIs
<1> QED
  BY <1>1, <1>2, <1>3, <1>5

LEMMA ErrorIs ==
  ASSUME IInv, NEW i \in Nat
  PROVE  Error(i) \in Outcome /\ Error(i).files = {}
BY DEF IInv, Counters, Error, Item, Outcome

LEMMA ItemIs ==
  ASSUME epoch \in Nat, NEW i \in Nat, NEW key \in {f.key : f \in Files} \cup {""},
         NEW exts \in SUBSET {f.ext : f \in Files}, NEW files \in SUBSET Nat
  PROVE  Item(i, key, exts, files) \in Outcome
BY DEF Item, Outcome

(* The file that is read. *)
LEMMA EntryIs ==
  ASSUME IInv, NEW i \in DOMAIN flight, Reading(i), Entry(i) # Broken
  PROVE  /\ Entry(i) \in Files /\ flight[i].pos \in Readable(i)
         /\ flight[i].pos \in Keyed(i) <=> Entry(i).ext # ""
         /\ Key(i, flight[i].pos) = Entry(i).key /\ Ext(i, flight[i].pos) = Entry(i).ext
         /\ \A k \in 1..flight[i].pos : plan.shards[i].files[k] # Broken
<1> PICK p : p = flight[i].pos
  OBVIOUS
<1>1. /\ i \in 1..Len(plan.shards) /\ p \in Nat \ {0} /\ p <= Len(plan.shards[i].files)
      /\ Len(plan.shards[i].files) \in Nat
      /\ DOMAIN plan.shards[i].files = 1..Len(plan.shards[i].files)
  BY StreamIs DEF Reading
<1>2. plan.shards[i].files \in Seq(Files \cup {Broken})
  BY <1>1, PlanIs DEF IInv, Counters
<1>3. Entry(i) = plan.shards[i].files[p] /\ p \in 1..Len(plan.shards[i].files)
  BY <1>1 DEF Entry
<1>4. Entry(i) \in Files
  BY <1>2, <1>3
<1>5. Underway(i, flight[i]) /\ flight[i].pc = "reading"
  BY StreamsAre DEF Reading, Polled
<1>6. plan.shards[i].opens /\ \A k \in 1..(p - 1) : plan.shards[i].files[k] # Broken
  BY <1>5 DEF Underway
<1>7. \A k \in 1..p : plan.shards[i].files[k] # Broken
  BY <1>1, <1>3, <1>6
<1>8. p \in Readable(i)
  BY <1>1, <1>3, <1>6, <1>7 DEF Readable
<1>9. p \in Keyed(i) <=> Entry(i).ext # ""
  BY <1>3, <1>8 DEF Keyed
<1>10. Key(i, p) = Entry(i).key /\ Ext(i, p) = Entry(i).ext
  BY <1>3 DEF Key, Ext
<1> QED
  BY <1>4, <1>7, <1>8, <1>9, <1>10

(* The sample in progress stays, and nothing is passed that matters. *)
LEMMA Goes ==
  ASSUME IInv, NEW i \in DOMAIN flight, NEW s, NEW x, x.files = {},
         s.group = flight[i].group, s.pos \in Nat, flight[i].pos <= s.pos,
         \A j \in Keyed(i) : IsFirst(i, j) /\ PassedBy(s, j) => PassedBy(flight[i], j)
  PROVE  Fits(i, x) /\ Behind(i, s) /\ Before(s, x) /\ Keeps(i, s, x)
<1>1. Fits(i, x) /\ Before(s, x)
  BY DEF Fits, Before
<1>2. Behind(i, s)
  <2> SUFFICES ASSUME NEW n \in Samples, out[n].epoch = epoch, out[n].of = i
               PROVE  Before(s, out[n])
    BY DEF Behind
  <2>1. Before(flight[i], out[n])
    BY StreamsAre DEF Behind
  <2>2. out[n].files \subseteq Nat
    <3>1. out \in Seq(Outcome) /\ n \in DOMAIN out
      BY DEF IInv, Delivered, Returned, Samples
    <3>2. out[n] \in Outcome
      BY <3>1
    <3> QED
      BY <3>2 DEF Outcome
  <2>3. flight[i].pos \in Nat
    BY StreamIs
  <2> QED
    BY <2>1, <2>2, <2>3 DEF Before
<1>3. Keeps(i, s, x)
  BY DEF Keeps, HeldBy
<1> QED
  BY <1>1, <1>2, <1>3

(* An error comes of the step, or nothing. *)
LEMMA QuietTurn ==
  ASSUME IInv, NEW i \in DOMAIN flight, NEW s, Underway(i, s),
         pc = "polling", flight' = [flight EXCEPT ![i] = s],
         Silent \/ Yields(Error(i)),
         s.group = flight[i].group, flight[i].pos <= s.pos,
         \A j \in Keyed(i) : IsFirst(i, j) /\ PassedBy(s, j) => PassedBy(flight[i], j)
  PROVE  Turn(i, s, Error(i))
<1>1. Error(i) \in Outcome /\ Error(i).files = {}
  BY StreamsAre, ErrorIs
<1>2. Hands(Error(i))
  BY <1>1 DEF Hands, Silent, Yields
<1>3. /\ plan' = plan /\ epoch' = epoch /\ next' = next
      /\ pc' \in {"polling", "idle"}
  BY DEF Silent, Yields, counters
<1>4. s.pos \in Nat
  BY DEF Underway, Stream
<1>5. Fits(i, Error(i)) /\ Behind(i, s) /\ Before(s, Error(i)) /\ Keeps(i, s, Error(i))
  BY <1>1, <1>4, Goes
<1> QED
  BY <1>2, <1>3, <1>5 DEF Turn

LEMMA OpensTurn ==
  ASSUME IInv, NEW i \in DOMAIN flight, Opens(i)
  PROVE  \E s, x : Turn(i, s, x)
<1> DEFINE s == [flight[i] EXCEPT !.pc = "reading"]
<1>1. /\ flight[i].pc = "opening" /\ plan.shards[i].opens /\ Silent /\ pc = "polling"
      /\ flight' = [flight EXCEPT ![i] = s]
  BY DEF Opens, Polled
<1>2. /\ Underway(i, flight[i]) /\ Keyed(i) \subseteq Nat
      /\ Len(plan.shards[i].files) \in Nat
  BY StreamsAre, StreamIs
<1>3. flight[i] \in Stream /\ flight[i].pos = 1 /\ flight[i].group = <<>>
  BY <1>1, <1>2 DEF Underway
<1>4. s.pc = "reading" /\ s.pos = 1 /\ s.group = <<>> /\ s \in Stream
  BY <1>3 DEF Stream
<1> HIDE DEF s
<1>5. \A j \in Keyed(i) : 0 < j
  <2>1. Keyed(i) \subseteq 1..Len(plan.shards[i].files)
    BY StreamIs
  <2> QED
    BY <1>2, <2>1
<1>6. Underway(i, s)
  BY <1>1, <1>2, <1>4, <1>5 DEF Underway, Grouped
<1>7. \A j \in Keyed(i) : PassedBy(s, j) => PassedBy(flight[i], j)
  BY <1>3, <1>4 DEF PassedBy
<1>8. Turn(i, s, Error(i))
  <2>1. s.group = flight[i].group /\ flight[i].pos <= s.pos
    BY <1>3, <1>4
  <2> QED
    BY <1>1, <1>6, <1>7, <2>1, QuietTurn
<1> QED
  BY <1>8

LEMMA OpenFailsTurn ==
  ASSUME IInv, NEW i \in DOMAIN flight, OpenFails(i)
  PROVE  \E s, x : Turn(i, s, x)
<1> DEFINE s == [pc |-> "over", pos |-> flight[i].pos + 1, group |-> <<>>]
<1>1. /\ flight[i].pc = "opening" /\ ~plan.shards[i].opens /\ (Silent \/ Yields(Error(i)))
      /\ pc = "polling" /\ flight' = [flight EXCEPT ![i] = s]
  BY DEF OpenFails, Polled, Becomes
<1>2. Underway(i, flight[i]) /\ Len(plan.shards[i].files) \in Nat
  BY StreamsAre, StreamIs
<1>3. flight[i].pos = 1 /\ flight[i].group = <<>>
  BY <1>1, <1>2 DEF Underway
<1>4. s.pc = "over" /\ s.pos = 2 /\ s.group = <<>> /\ s \in Stream
  BY <1>3 DEF Stream
<1> HIDE DEF s
<1>5. Keyed(i) = {}
  BY <1>1 DEF Keyed, Readable
<1>6. Underway(i, s)
  BY <1>2, <1>4 DEF Underway, Grouped
<1>7. Turn(i, s, Error(i))
  <2>1. s.group = flight[i].group /\ flight[i].pos <= s.pos
    BY <1>3, <1>4
  <2> QED
    BY <1>1, <1>5, <1>6, <2>1, QuietTurn
<1> QED
  BY <1>7

(* Reading on past a file that does not touch the sample in progress. *)
LEMMA ReadsOn ==
  ASSUME IInv, NEW i \in DOMAIN flight, Reading(i), NEW where,
         Silent \/ Yields(Error(i)), Becomes(i, where, Group(i)),
         where \in {"reading", "finish"},
         where = "reading" => Entry(i) # Broken,
         where = "finish" =>
           plan.handler = "stop" \/ \A j \in Keyed(i) : j <= flight[i].pos,
         ~IsFirst(i, flight[i].pos),
         Grouped(i, [pc |-> where, pos |-> flight[i].pos + 1, group |-> flight[i].group])
  PROVE  \E s, x : Turn(i, s, x)
<1> DEFINE s == [pc |-> where, pos |-> flight[i].pos + 1, group |-> flight[i].group]
<1>1. pc = "polling" /\ flight[i].pc = "reading" /\ flight' = [flight EXCEPT ![i] = s]
  BY DEF Reading, Polled, Becomes, Group
<1>2. /\ Underway(i, flight[i]) /\ Len(plan.shards[i].files) \in Nat
      /\ flight[i].pos \in Nat \ {0} /\ flight[i].pos <= Len(plan.shards[i].files)
      /\ Keyed(i) \subseteq Nat
  BY StreamsAre, StreamIs DEF Reading
<1>3. /\ s.pc = where /\ s.pos = flight[i].pos + 1 /\ s.group = flight[i].group
      /\ s \in Stream /\ s.pos - 1 = flight[i].pos
  BY <1>2 DEF Stream, Underway
<1>4. Grouped(i, s)
  OBVIOUS
<1> HIDE DEF s
<1>5. where = "reading" => \A k \in 1..flight[i].pos : plan.shards[i].files[k] # Broken
  BY EntryIs
<1>6. plan.shards[i].opens
  BY <1>1, <1>2 DEF Underway
<1>7. Len(flight[i].group) <= 1
  BY <1>2 DEF Underway
<1>8. s.pos <= Len(plan.shards[i].files) + 1
  BY <1>2, <1>3
<1>9. Underway(i, s)
  BY <1>3, <1>4, <1>5, <1>6, <1>7, <1>8 DEF Underway
<1>10. \A j \in Keyed(i) : IsFirst(i, j) /\ PassedBy(s, j) => PassedBy(flight[i], j)
  <2>1. \A j \in Keyed(i) : j < flight[i].pos + 1 => j < flight[i].pos \/ j = flight[i].pos
    BY <1>2
  <2> QED
    BY <1>1, <1>3, <2>1 DEF PassedBy
<1>11. Turn(i, s, Error(i))
  <2>1. flight[i].pos <= s.pos
    BY <1>2, <1>3
  <2> QED
    BY <1>1, <1>3, <1>9, <1>10, <2>1, QuietTurn
<1> QED
  BY <1>11

LEMMA GroupedOn ==
  ASSUME IInv, NEW i \in DOMAIN flight, Reading(i), NEW where,
         flight[i].group # <<>> => InProgress(i, flight[i].group[1], flight[i].pos),
         flight[i].group = <<>> => flight[i].pos \notin Keyed(i)
  PROVE  Grouped(i, [pc |-> where, pos |-> flight[i].pos + 1, group |-> flight[i].group])
<1> PICK p : p = flight[i].pos
  OBVIOUS
<1> DEFINE s == [pc |-> where, pos |-> p + 1, group |-> flight[i].group]
<1>1. /\ Underway(i, flight[i]) /\ p \in Nat \ {0} /\ Keyed(i) \subseteq Nat
      /\ flight[i].pc = "reading"
  BY StreamsAre, StreamIs DEF Reading, Polled
<1>2. s.pos - 1 = p /\ s.group = flight[i].group
  BY <1>1
<1> HIDE DEF s
<1>3. Grouped(i, flight[i])
  BY <1>1 DEF Underway
<1>4. ASSUME flight[i].group # <<>>
      PROVE  Grouped(i, s)
  <2>1. flight[i].group[1].epoch = epoch
    BY <1>3, <1>4 DEF Grouped
  <2>2. InProgress(i, s.group[1], s.pos - 1)
    BY <1>2, <1>4
  <2> QED
    BY <1>2, <1>4, <2>1, <2>2 DEF Grouped
<1>5. ASSUME flight[i].group = <<>>
      PROVE  Grouped(i, s)
  <2>1. \A j \in Keyed(i) : p - 1 < j
    BY <1>1, <1>3, <1>5 DEF Grouped
  <2>2. \A j \in Keyed(i) : p < j
    BY <1>1, <1>5, <2>1
  <2> QED
    <3>1. \A j \in Keyed(i) : s.pos - 1 < j
      BY <1>2, <2>2
    <3> QED
      BY <1>2, <1>5, <3>1 DEF Grouped
<1>6. Grouped(i, s)
  BY <1>4, <1>5
<1> QED
  BY <1>6 DEF s

(* The sample in progress, and what is read after it. *)
LEMMA GroupIs ==
  ASSUME IInv, NEW i \in DOMAIN flight, flight[i].group # <<>>
  PROVE  /\ flight[i].group[1].epoch = epoch
         /\ InProgress(i, flight[i].group[1], flight[i].pos - 1)
BY StreamsAre DEF Underway, Grouped

LEMMA Skipped ==
  ASSUME IInv, NEW i \in DOMAIN flight, Reading(i), flight[i].pos \notin Keyed(i)
  PROVE  flight[i].group # <<>> => InProgress(i, flight[i].group[1], flight[i].pos)
<1> SUFFICES ASSUME flight[i].group # <<>>
             PROVE  InProgress(i, flight[i].group[1], flight[i].pos)
  OBVIOUS
<1> PICK p : p = flight[i].pos
  OBVIOUS
<1> PICK g : g = flight[i].group[1]
  OBVIOUS
<1>1. /\ Keyed(i) \subseteq Nat /\ p \in Nat \ {0} /\ p - 1 \in Nat /\ p - 1 <= p
  BY StreamIs
<1>2. InProgress(i, g, p - 1)
  BY GroupIs
<1>3. \A j \in Keyed(i) : j <= p => j <= p - 1
  BY <1>1
<1>4. InProgress(i, g, p)
  BY <1>1, <1>2, <1>3, PassesBy
<1> QED
  BY <1>4

LEMMA PushNothingTurn ==
  ASSUME IInv, NEW i \in DOMAIN flight, PushNothing(i)
  PROVE  \E s, x : Turn(i, s, x)
<1>1. /\ Reading(i) /\ Entry(i) # Broken /\ Entry(i).ext = "" /\ Silent
      /\ Becomes(i, "reading", Group(i))
  BY DEF PushNothing
<1>2. flight[i].pos \notin Keyed(i)
  BY <1>1, EntryIs
<1>3. Grouped(i, [pc |-> "reading", pos |-> flight[i].pos + 1, group |-> flight[i].group])
  BY <1>1, <1>2, Skipped, GroupedOn
<1>4. ~IsFirst(i, flight[i].pos)
  BY <1>2 DEF IsFirst
<1> QED
  BY <1>1, <1>3, <1>4, ReadsOn

LEMMA BreakTurn ==
  ASSUME IInv, NEW i \in DOMAIN flight, Break(i)
  PROVE  \E s, x : Turn(i, s, x)
<1> PICK p : p = flight[i].pos
  OBVIOUS
<1>1. /\ Reading(i) /\ Entry(i) = Broken /\ (Silent \/ Yields(Error(i)))
      /\ Becomes(i, "finish", Group(i))
  BY DEF Break
<1>2. plan.shards[i].files[p] = Broken /\ p \in Nat \ {0} /\ Keyed(i) \subseteq Nat
  BY <1>1, StreamIs DEF Entry
<1>3. ASSUME NEW j \in Keyed(i)
      PROVE  j < p
  <2>1. j \in Nat /\ \A k \in 1..j : plan.shards[i].files[k] # Broken
    BY <1>2 DEF Keyed, Readable
  <2>2. p \notin 1..j
    BY <1>2, <2>1
  <2> QED
    BY <1>2, <2>1, <2>2
<1>4. p \notin Keyed(i)
  BY <1>2, <1>3
<1>5. Grouped(i, [pc |-> "finish", pos |-> flight[i].pos + 1, group |-> flight[i].group])
  BY <1>1, <1>4, Skipped, GroupedOn
<1>6. ~IsFirst(i, flight[i].pos)
  BY <1>4 DEF IsFirst
<1>7. \A j \in Keyed(i) : j <= flight[i].pos
  BY <1>2, <1>3
<1> QED
  BY <1>1, <1>5, <1>6, <1>7, ReadsOn

ReadsKeyed(i) == Reading(i) /\ Entry(i) # Broken /\ Entry(i).ext # ""

LEMMA JustBefore ==
  ASSUME NEW p \in Nat \ {0}
  PROVE  p - 1 < p /\ \A j \in Nat : j < p => j <= p - 1
OBVIOUS

(* The file that is read is the keyed one after those read. *)
LEMMA ReadFollows ==
  ASSUME IInv, NEW i \in DOMAIN flight, ReadsKeyed(i)
  PROVE  Follows(i, flight[i].pos - 1, flight[i].pos)
<1> PICK p : p = flight[i].pos
  OBVIOUS
<1>1. p \in Keyed(i) /\ p \in Nat \ {0} /\ Keyed(i) \subseteq Nat
  BY EntryIs, StreamIs DEF ReadsKeyed
<1>2. p - 1 < p /\ \A j \in Nat : j < p => j <= p - 1
  BY <1>1, JustBefore
<1>3. Follows(i, p - 1, p)
  BY <1>1, <1>2 DEF Follows
<1> QED
  BY <1>3

LEMMA PushDuplicateTurn ==
  ASSUME IInv, NEW i \in DOMAIN flight, PushDuplicate(i)
  PROVE  \E s, x : Turn(i, s, x)
<1> PICK p : p = flight[i].pos
  OBVIOUS
<1> PICK g : g = flight[i].group[1]
  OBVIOUS
<1> DEFINE where == IF plan.handler = "stop" THEN "finish" ELSE "reading"
<1>1. /\ Reading(i) /\ Entry(i) # Broken /\ Entry(i).ext # "" /\ (Silent \/ Yields(Error(i)))
      /\ Becomes(i, where, Group(i))
      /\ flight[i].group # <<>> /\ g.key = Entry(i).key /\ Entry(i).ext \in g.exts
  BY DEF PushDuplicate, Duplicate, Starts, Group
<1>2. /\ Keyed(i) \subseteq Nat /\ p - 1 \in Nat /\ Follows(i, p - 1, p)
      /\ Key(i, p) = Entry(i).key /\ Ext(i, p) = Entry(i).ext
  BY <1>1, ReadFollows, EntryIs, StreamIs DEF ReadsKeyed
<1>3. InProgress(i, g, p - 1)
  BY <1>1, GroupIs
<1>4. InProgress(i, g, p) /\ p \notin Firsts(i, RunOf(i, p))
  <2>1. g.key = Key(i, p) /\ Ext(i, p) \in g.exts
    BY <1>1, <1>2
  <2> HIDE DEF where
  <2> QED
    BY <1>2, <1>3, <2>1, Repeats
<1>5. Grouped(i, [pc |-> where, pos |-> flight[i].pos + 1, group |-> flight[i].group])
  BY <1>1, <1>4, GroupedOn
<1>6. ~IsFirst(i, flight[i].pos)
  BY <1>4 DEF IsFirst
<1> QED
  BY <1>1, <1>5, <1>6, ReadsOn

(* A file is added to the sample in progress, or begins one. *)
Grows(i, h, x) ==
  LET p == flight[i].pos
  IN /\ h \in Outcome /\ h.epoch = epoch /\ InProgress(i, h, p) /\ p \in h.files
     /\ \A j \in x.files : j < p /\ \A k \in h.files : j < k
     /\ \A n \in Samples : out[n].epoch = epoch /\ out[n].of = i =>
          \A j \in out[n].files, k \in h.files : j < k
     /\ \A j : HeldBy(flight[i], j) => j \in h.files \/ j \in x.files

LEMMA GrowsTurn ==
  ASSUME IInv, NEW i \in DOMAIN flight, ReadsKeyed(i),
         NEW h, NEW x, Grows(i, h, x),
         Becomes(i, "reading", <<h>>), Hands(x), Fits(i, x),
         UNCHANGED <<plan, epoch, next>>, pc' \in {"polling", "idle"}
  PROVE  \E s, y : Turn(i, s, y)
<1>p. PICK p : p = flight[i].pos
  OBVIOUS
<1>s. PICK s : s = [pc |-> "reading", pos |-> p + 1, group |-> <<h>>]
  OBVIOUS
<1>1. /\ pc = "polling" /\ flight[i].pc = "reading" /\ flight' = [flight EXCEPT ![i] = s]
  BY <1>p, <1>s DEF ReadsKeyed, Reading, Polled, Becomes
<1>2. /\ Underway(i, flight[i]) /\ Len(plan.shards[i].files) \in Nat
      /\ p \in Nat \ {0} /\ p <= Len(plan.shards[i].files)
      /\ Keyed(i) \subseteq Nat
  BY <1>p, StreamsAre, StreamIs DEF ReadsKeyed, Reading
<1>3. /\ s.pc = "reading" /\ s.pos = p + 1 /\ s.group = <<h>> /\ s.group[1] = h
      /\ Len(s.group) = 1 /\ s \in Stream
  <2>1. h \in Outcome
    BY DEF Grows
  <2> QED
    BY <1>2, <1>s, <2>1 DEF Stream
<1>4. Underway(i, s)
  <2>1. \A k \in 1..p : plan.shards[i].files[k] # Broken
    BY <1>p, EntryIs DEF ReadsKeyed
  <2>2. plan.shards[i].opens
    BY <1>1, <1>2 DEF Underway
  <2>3. s.pos - 1 = p /\ s.pos <= Len(plan.shards[i].files) + 1
    BY <1>2, <1>3
  <2>4. Grouped(i, s)
    BY <1>3, <1>p, <2>3 DEF Grouped, Grows
  <2> QED
    BY <1>3, <2>1, <2>2, <2>3, <2>4 DEF Underway
<1>5. Behind(i, s)
  <2> SUFFICES ASSUME NEW n \in Samples, out[n].epoch = epoch, out[n].of = i
               PROVE  Before(s, out[n])
    BY DEF Behind
  <2>1. \A j \in out[n].files : j < p
    BY <1>p, StreamsAre DEF Behind, Before
  <2>2. out[n].files \subseteq Nat
    <3>1. out \in Seq(Outcome) /\ n \in DOMAIN out
      BY DEF IInv, Delivered, Returned, Samples
    <3>2. out[n] \in Outcome
      BY <3>1
    <3> QED
      BY <3>2 DEF Outcome
  <2>3. \A j \in out[n].files : j < s.pos
    BY <1>2, <1>3, <2>1, <2>2
  <2> QED
    BY <1>3, <2>3 DEF Before, Grows
<1>6. Before(s, x)
  <2>1. x.files \subseteq Nat
    BY DEF Hands, Outcome
  <2>2. \A j \in x.files : j < s.pos
    <3>1. \A j \in x.files : j < p
      BY <1>p DEF Grows
    <3> QED
      BY <1>2, <1>3, <2>1, <3>1
  <2> QED
    BY <1>3, <2>2 DEF Before, Grows
<1>7. Keeps(i, s, x)
  <2> SUFFICES ASSUME NEW j \in Keyed(i), IsFirst(i, j), PassedBy(s, j)
               PROVE  \/ HeldBy(s, j) \/ j \in x.files
                      \/ PassedBy(flight[i], j) /\ ~HeldBy(flight[i], j)
    BY DEF Keeps
  <2>1. \A k : HeldBy(s, k) <=> k \in h.files
    BY <1>3 DEF HeldBy
  <2>2. j < p + 1
    BY <1>3 DEF PassedBy
  <2>3. j = p \/ PassedBy(flight[i], j)
    <3>1. j < p \/ j = p
      BY <1>2, <2>2
    <3> QED
      BY <1>p, <3>1 DEF PassedBy
  <2> QED
    BY <1>p, <2>1, <2>3 DEF Grows
<1>8. Turn(i, s, x)
  BY <1>1, <1>4, <1>5, <1>6, <1>7 DEF Turn
<1> QED
  BY <1>8

(* The files of the sample in progress come after those handed out. *)
LEMMA GroupFiles ==
  ASSUME IInv, NEW i \in DOMAIN flight, flight[i].group # <<>>, NEW g, g = flight[i].group[1]
  PROVE  /\ g \in Outcome /\ g.files # {} /\ g.of = i /\ g.epoch = epoch
         /\ \A j \in g.files : j \in Nat /\ j < flight[i].pos
         /\ \A n \in Samples : out[n].epoch = epoch /\ out[n].of = i =>
              \A j \in out[n].files, k \in g.files : j < k
<1>1. g \in Outcome /\ flight[i].pos \in Nat \ {0}
  BY StreamIs
<1>2. InProgress(i, g, flight[i].pos - 1) /\ g.epoch = epoch
  BY GroupIs
<1>3. g.files # {} /\ g.of = i /\ \A j \in g.files : j <= flight[i].pos - 1
  BY <1>2 DEF InProgress
<1>4. g.files \subseteq Nat
  BY <1>1 DEF Outcome
<1>5. \A j \in g.files : j < flight[i].pos
  BY <1>1, <1>3, <1>4
<1>6. Behind(i, flight[i])
  BY StreamsAre
<1>7. \A n \in Samples : out[n].epoch = epoch /\ out[n].of = i =>
        \A j \in out[n].files, k \in g.files : j < k
  BY <1>6 DEF Behind, Before
<1> QED
  BY <1>1, <1>2, <1>3, <1>4, <1>5, <1>7

(* Nothing comes of the step. *)
LEMMA QuietIs ==
  ASSUME IInv, NEW i \in DOMAIN flight, Silent, pc = "polling"
  PROVE  /\ Hands(Error(i)) /\ Error(i).files = {} /\ Fits(i, Error(i))
         /\ UNCHANGED <<plan, epoch, next>> /\ pc' \in {"polling", "idle"}
<1>1. Error(i) \in Outcome /\ Error(i).files = {}
  BY StreamsAre, ErrorIs
<1> QED
  BY <1>1 DEF Hands, Fits, Silent, counters

(* What is begun, when it is after all that was in progress. *)
LEMMA BegunIs ==
  ASSUME IInv, NEW i \in DOMAIN flight, ReadsKeyed(i)
  PROVE  LET p == flight[i].pos
             b == Begun(i, p)
         IN /\ b = Item(i, Entry(i).key, {Entry(i).ext}, {p})
            /\ b \in Outcome /\ b.epoch = epoch /\ b.files = {p}
            /\ \A n \in Samples : out[n].epoch = epoch /\ out[n].of = i =>
                 \A j \in out[n].files : j < p
<1>p. PICK p : p = flight[i].pos
  OBVIOUS
<1>1. /\ Entry(i) \in Files /\ Key(i, p) = Entry(i).key /\ Ext(i, p) = Entry(i).ext
      /\ i \in Nat /\ p \in Nat /\ epoch \in Nat
  BY <1>p, EntryIs, StreamIs, StreamsAre DEF ReadsKeyed, IInv, Counters
<1>2. Begun(i, p) = Item(i, Entry(i).key, {Entry(i).ext}, {p})
  BY <1>1 DEF Begun
<1>3. Begun(i, p) \in Outcome
  <2>1. /\ Entry(i).key \in {f.key : f \in Files} \cup {""}
        /\ {Entry(i).ext} \in SUBSET {f.ext : f \in Files} /\ {p} \in SUBSET Nat
    BY <1>1
  <2>2. Item(i, Entry(i).key, {Entry(i).ext}, {p}) \in Outcome
    BY <1>1, <2>1, ItemIs
  <2> QED
    BY <1>2, <2>2
<1>4. Begun(i, p).epoch = epoch /\ Begun(i, p).files = {p}
  BY DEF Begun, Item
<1>5. \A n \in Samples : out[n].epoch = epoch /\ out[n].of = i =>
        \A j \in out[n].files : j < p
  BY <1>p, StreamsAre DEF Behind, Before
<1> QED
  BY <1>p, <1>2, <1>3, <1>4, <1>5

LEMMA FirstFileTurn ==
  ASSUME IInv, NEW i \in DOMAIN flight, PushFile(i), flight[i].group = <<>>
  PROVE  \E s, x : Turn(i, s, x)
<1>p. PICK p : p = flight[i].pos
  OBVIOUS
<1>h. PICK h : h = Begun(i, p)
  OBVIOUS
<1>1. /\ ReadsKeyed(i) /\ Silent /\ pc = "polling" /\ flight[i].pc = "reading"
      /\ Becomes(i, "reading", <<Added(i)>>)
      /\ Added(i) = Item(i, Entry(i).key, {Entry(i).ext}, {p})
  BY <1>p DEF PushFile, Starts, Group, Added, ReadsKeyed, Reading, Polled
<1>2. /\ Added(i) = h /\ h \in Outcome /\ h.epoch = epoch /\ h.files = {p}
      /\ \A n \in Samples : out[n].epoch = epoch /\ out[n].of = i =>
           \A j \in out[n].files : j < p
  BY <1>1, <1>h, <1>p, BegunIs
<1>3. /\ Follows(i, p - 1, p) /\ Keyed(i) \subseteq Nat /\ p - 1 \in Nat
  BY <1>1, <1>p, ReadFollows, StreamIs
<1>4. \A j \in Keyed(i) : p - 1 < j
  BY <1>1, <1>p, StreamsAre DEF Underway, Grouped
<1>5. InProgress(i, h, p)
  BY <1>3, <1>4, <1>h, Begins
<1>6. /\ Hands(Error(i)) /\ Error(i).files = {} /\ Fits(i, Error(i))
      /\ UNCHANGED <<plan, epoch, next>> /\ pc' \in {"polling", "idle"}
  BY <1>1, QuietIs
<1>7. Grows(i, h, Error(i))
  BY <1>2, <1>5, <1>6, <1>p DEF Grows, HeldBy
<1> QED
  BY <1>1, <1>2, <1>6, <1>7, GrowsTurn

LEMMA SameKeyTurn ==
  ASSUME IInv, NEW i \in DOMAIN flight, PushFile(i), ~Starts(i)
  PROVE  \E s, x : Turn(i, s, x)
<1>p. PICK p : p = flight[i].pos
  OBVIOUS
<1>g. PICK g : g = flight[i].group[1]
  OBVIOUS
<1>h. PICK h : h = [g EXCEPT !.exts = @ \cup {Entry(i).ext}, !.files = @ \cup {p}]
  OBVIOUS
<1>1. /\ ReadsKeyed(i) /\ Silent /\ pc = "polling"
      /\ Becomes(i, "reading", <<Added(i)>>) /\ Added(i) = h
      /\ flight[i].group # <<>> /\ g.key = Entry(i).key /\ Entry(i).ext \notin g.exts
  BY <1>p, <1>g, <1>h
    DEF PushFile, Starts, Duplicate, Group, Added, ReadsKeyed, Reading, Polled
<1>2. /\ Entry(i) \in Files /\ Key(i, p) = Entry(i).key /\ Ext(i, p) = Entry(i).ext
      /\ Follows(i, p - 1, p) /\ Keyed(i) \subseteq Nat /\ p - 1 \in Nat /\ p \in Nat
  BY <1>1, <1>p, EntryIs, ReadFollows, StreamIs DEF ReadsKeyed
<1>3. /\ g \in Outcome /\ g.epoch = epoch
      /\ \A n \in Samples : out[n].epoch = epoch /\ out[n].of = i =>
           \A j \in out[n].files, k \in g.files : j < k
  BY <1>1, <1>g, GroupFiles
<1>4. h \in Outcome /\ h.epoch = epoch /\ h.files = g.files \cup {p}
  BY <1>2, <1>3, <1>h DEF Outcome
<1>5. InProgress(i, h, p)
  <2>1. InProgress(i, g, p - 1)
    BY <1>1, <1>g, <1>p, GroupIs
  <2>2. Ext(i, p) \notin g.exts /\ g.key = Key(i, p)
    BY <1>1, <1>2
  <2>3. h = [g EXCEPT !.exts = @ \cup {Ext(i, p)}, !.files = @ \cup {p}]
    BY <1>2, <1>h
  <2> QED
    BY <1>2, <1>3, <2>1, <2>2, <2>3, Continues
<1>6. /\ Hands(Error(i)) /\ Error(i).files = {} /\ Fits(i, Error(i))
      /\ UNCHANGED <<plan, epoch, next>> /\ pc' \in {"polling", "idle"}
  BY <1>1, QuietIs
<1>7. \A n \in Samples : out[n].epoch = epoch /\ out[n].of = i =>
        \A j \in out[n].files : j < p
  BY <1>p, StreamsAre DEF Behind, Before
<1>8. Grows(i, h, Error(i))
  <2>1. \A j : HeldBy(flight[i], j) => j \in h.files
    BY <1>4, <1>g DEF HeldBy
  <2> QED
    BY <1>3, <1>4, <1>5, <1>6, <1>7, <1>p, <2>1 DEF Grows
<1> QED
  BY <1>1, <1>6, <1>8, GrowsTurn

(* The sample in progress may be handed out: it is whole, or the handler    *)
(* stops, and it comes after the others of its shard.                       *)
LEMMA GroupFits ==
  ASSUME IInv, NEW i \in DOMAIN flight, flight[i].group # <<>>,
         \/ plan.handler = "stop"
         \/ \A j \in Keyed(i) : j <= flight[i].pos - 1
         \/ \E n : Follows(i, flight[i].pos - 1, n) /\ Key(i, n) # flight[i].group[1].key
  PROVE  Fits(i, flight[i].group[1])
<1>g. PICK g : g = flight[i].group[1]
  OBVIOUS
<1>1. /\ g.of = i /\ g.epoch = epoch
      /\ \A n \in Samples : out[n].epoch = epoch /\ out[n].of = i =>
           \A j \in out[n].files, k \in g.files : j < k
  BY <1>g, GroupFiles
<1>2. InProgress(i, g, flight[i].pos - 1) /\ Keyed(i) \subseteq Nat /\ flight[i].pos - 1 \in Nat
  BY <1>g, GroupIs, StreamIs
<1>3. WholeRun(g)
  BY <1>2, <1>g, Completes
<1>4. Fits(i, g)
  BY <1>1, <1>3 DEF Fits
<1> QED
  BY <1>4, <1>g

LEMMA OtherKeyTurn ==
  ASSUME IInv, NEW i \in DOMAIN flight, PushFile(i), Starts(i), flight[i].group # <<>>
  PROVE  \E s, x : Turn(i, s, x)
<1>p. PICK p : p = flight[i].pos
  OBVIOUS
<1>g. PICK g : g = flight[i].group[1]
  OBVIOUS
<1>h. PICK h : h = Begun(i, p)
  OBVIOUS
<1>1. /\ ReadsKeyed(i) /\ Yields(g) /\ flight[i].pc = "reading"
      /\ Becomes(i, "reading", <<Added(i)>>) /\ g.key # Entry(i).key
      /\ Added(i) = Item(i, Entry(i).key, {Entry(i).ext}, {p})
  BY <1>p, <1>g DEF PushFile, Starts, Group, Added, ReadsKeyed, Reading, Polled
<1>2. /\ Added(i) = h /\ h \in Outcome /\ h.epoch = epoch /\ h.files = {p}
      /\ \A n \in Samples : out[n].epoch = epoch /\ out[n].of = i =>
           \A j \in out[n].files : j < p
  BY <1>1, <1>h, <1>p, BegunIs
<1>3. /\ Follows(i, p - 1, p) /\ Keyed(i) \subseteq Nat /\ p - 1 \in Nat
      /\ Key(i, p) = Entry(i).key
  BY <1>1, <1>p, ReadFollows, StreamIs, EntryIs DEF ReadsKeyed
<1>4. g \in Outcome /\ \A j \in g.files : j < p
  BY <1>g, <1>p, GroupFiles
<1>5. InProgress(i, h, p)
  <2>1. InProgress(i, g, p - 1) /\ g.key # Key(i, p)
    BY <1>1, <1>3, <1>g, <1>p, GroupIs
  <2> QED
    BY <1>3, <1>h, <2>1, Begins
<1>6. Fits(i, g)
  <2>1. Follows(i, flight[i].pos - 1, p) /\ Key(i, p) # flight[i].group[1].key
    BY <1>1, <1>3, <1>g, <1>p
  <2> QED
    BY <1>g, <2>1, GroupFits
<1>7. /\ Hands(g) /\ UNCHANGED <<plan, epoch, next>> /\ pc' \in {"polling", "idle"}
  BY <1>1, <1>4 DEF Hands, Yields, counters
<1>8. Grows(i, h, g)
  <2>1. \A j : HeldBy(flight[i], j) => j \in g.files
    BY <1>g DEF HeldBy
  <2> QED
    BY <1>2, <1>4, <1>5, <1>p, <2>1 DEF Grows
<1> QED
  BY <1>1, <1>2, <1>6, <1>7, <1>8, GrowsTurn

(* The end of a shard hands out the sample in progress. *)
LEMMA EndOfShardTurn ==
  ASSUME IInv, NEW i \in DOMAIN flight, EndOfShard(i)
  PROVE  \E s, x : Turn(i, s, x)
<1>p. PICK p : p = flight[i].pos
  OBVIOUS
<1>g. PICK g : g = flight[i].group[1]
  OBVIOUS
<1>s. PICK s : s = [pc |-> "over", pos |-> p + 1, group |-> <<>>]
  OBVIOUS
<1>1. /\ pc = "polling" /\ flight' = [flight EXCEPT ![i] = s]
      /\ \/ flight[i].pc = "reading" /\ p > Len(plan.shards[i].files)
         \/ flight[i].pc = "finish"
      /\ IF flight[i].group # <<>> THEN Yields(g) ELSE Silent
  BY <1>p, <1>g, <1>s DEF EndOfShard, Polled, Becomes, Group
<1>2. /\ Underway(i, flight[i]) /\ Len(plan.shards[i].files) \in Nat
      /\ p \in Nat \ {0} /\ Keyed(i) \subseteq 1..Len(plan.shards[i].files)
  BY <1>p, StreamsAre, StreamIs
<1>3. plan.handler = "stop" \/ \A j \in Keyed(i) : j <= p - 1
  <2>1. CASE flight[i].pc = "reading" /\ p > Len(plan.shards[i].files)
    BY <1>2, <2>1
  <2>2. CASE flight[i].pc = "finish"
    BY <1>2, <1>p, <2>2 DEF Underway
  <2> QED
    BY <1>1, <2>1, <2>2
<1>4. s.pc = "over" /\ s.pos = p + 1 /\ s.group = <<>> /\ s \in Stream
  BY <1>2, <1>s DEF Stream
<1>5. Underway(i, s)
  <2>1. p <= Len(plan.shards[i].files) + 1
    BY <1>1, <1>2, <1>p DEF Underway
  <2>2. s.pos <= Len(plan.shards[i].files) + 2
    BY <1>2, <1>4, <2>1
  <2> QED
    BY <1>4, <2>2 DEF Underway, Grouped
<1>6. \A n \in Samples : out[n].epoch = epoch /\ out[n].of = i =>
        \A j \in out[n].files : j < p /\ j < s.pos
  <2> SUFFICES ASSUME NEW n \in Samples, out[n].epoch = epoch, out[n].of = i,
                      NEW j \in out[n].files
               PROVE  j < p /\ j < s.pos
    OBVIOUS
  <2>1. j < p
    BY <1>p, StreamsAre DEF Behind, Before
  <2>2. j \in Nat
    <3>1. out \in Seq(Outcome) /\ n \in DOMAIN out
      BY DEF IInv, Delivered, Returned, Samples
    <3>2. out[n] \in Outcome
      BY <3>1
    <3> QED
      BY <3>2 DEF Outcome
  <2> QED
    BY <1>2, <1>4, <2>1, <2>2
<1>7. Behind(i, s)
  BY <1>4, <1>6 DEF Behind, Before
<1>8. ASSUME plan.handler # "stop"
      PROVE  \A j \in Keyed(i) : PassedBy(flight[i], j)
  <2>1. \A j \in Keyed(i) : j < p
    BY <1>2, <1>3, <1>8
  <2> QED
    BY <1>p, <2>1 DEF PassedBy
<1>9. CASE flight[i].group # <<>>
  <2>1. g \in Outcome /\ \A j \in g.files : j \in Nat /\ j < p
    BY <1>9, <1>g, <1>p, GroupFiles
  <2>2. Fits(i, g)
    BY <1>3, <1>9, <1>g, <1>p, GroupFits
  <2>3. Hands(g) /\ UNCHANGED <<plan, epoch, next>> /\ pc' \in {"polling", "idle"}
    BY <1>1, <1>9, <2>1 DEF Hands, Yields, counters
  <2>4. Before(s, g)
    <3>1. \A j \in g.files : j < s.pos
      BY <1>2, <1>4, <2>1
    <3> QED
      BY <1>4, <3>1 DEF Before
  <2>5. Keeps(i, s, g)
    BY <1>8, <1>9, <1>g DEF Keeps, HeldBy
  <2>6. Turn(i, s, g)
    BY <1>1, <1>5, <1>7, <2>2, <2>3, <2>4, <2>5 DEF Turn
  <2> QED
    BY <2>6
<1>10. CASE flight[i].group = <<>>
  <2>1. /\ Hands(Error(i)) /\ Error(i).files = {} /\ Fits(i, Error(i))
        /\ UNCHANGED <<plan, epoch, next>> /\ pc' \in {"polling", "idle"}
    BY <1>1, <1>10, QuietIs
  <2>2. Before(s, Error(i))
    BY <2>1 DEF Before
  <2>3. Keeps(i, s, Error(i))
    BY <1>8, <1>10 DEF Keeps, HeldBy
  <2>4. Turn(i, s, Error(i))
    BY <1>1, <1>5, <1>7, <2>1, <2>2, <2>3 DEF Turn
  <2> QED
    BY <2>4
<1> QED
  BY <1>9, <1>10

LEMMA ShardTurn ==
  ASSUME IInv, NEW i \in DOMAIN flight, ShardStep(i), ~Close(i)
  PROVE  Flying' /\ Delivered'
<1>1. \E s, x : Turn(i, s, x)
  <2>1. CASE Opens(i)
    BY <2>1, OpensTurn
  <2>2. CASE OpenFails(i)
    BY <2>2, OpenFailsTurn
  <2>3. CASE PushNothing(i)
    BY <2>3, PushNothingTurn
  <2>4. CASE PushFile(i)
    <3>1. CASE flight[i].group = <<>>
      BY <2>4, <3>1, FirstFileTurn
    <3>2. CASE flight[i].group # <<>> /\ Starts(i)
      BY <2>4, <3>2, OtherKeyTurn
    <3>3. CASE ~Starts(i)
      BY <2>4, <3>3, SameKeyTurn
    <3> QED
      BY <3>1, <3>2, <3>3
  <2>5. CASE PushDuplicate(i)
    BY <2>5, PushDuplicateTurn
  <2>6. CASE Break(i)
    BY <2>6, BreakTurn
  <2>7. CASE EndOfShard(i)
    BY <2>7, EndOfShardTurn
  <2> QED
    BY <2>1, <2>2, <2>3, <2>4, <2>5, <2>6, <2>7 DEF ShardStep
<1> QED
  BY <1>1, Turned

-----------------------------------------------------------------------------
(* Steps that hand out no sample, in the same epoch. *)
LEMMA Steady ==
  ASSUME Counters, Returned, plan' = plan, epoch' = epoch, next' \in Nat, next <= next',
         NEW x, Hands(x), x.files = {}
  PROVE  /\ Returned' /\ Samples' = Samples
         /\ \A k, t : Behind(k, t) => Behind(k, t)'
         /\ \A k, t : Settled(k, t) => Settled(k, t)'
         /\ \A e, k : AllTaken(e, k) => AllTaken(e, k)'
         /\ \A e : RunIsWhole(e) => RunIsWhole(e)'
<1>0. out \in Seq(Outcome) /\ next \in Nat /\ epoch \in Nat \ {0}
  <2>1. next \in 0..Len(plan.shards) /\ Len(plan.shards) \in Nat
    BY PlanIs DEF Counters
  <2> QED
    BY <2>1 DEF Counters, Returned
<1>1. Samples' = Samples /\ (\A n \in Samples : out'[n] = out[n]) /\ out' \in Seq(Outcome)
  BY <1>0, Handed
<1>2. \A t : WholeRun(t)' <=> WholeRun(t)
  BY Reference
<1>3. \A n \in Samples' : /\ WholeRun(out'[n]) /\ out'[n].epoch \in 1..epoch
                          /\ out'[n].epoch = epoch => out'[n].of \in 1..next
  BY <1>1 DEF Returned
<1>4. \A n, m \in Samples' : n < m => InOrder(out'[n], out'[m])
  BY <1>1 DEF Returned
<1>5. Returned'
  <2>1. \A i \in 1..next : i \in 1..next'
    BY <1>0
  <2>2. \A n \in Samples' : out'[n].epoch = epoch => out'[n].of \in 1..next'
    BY <1>3, <2>1
  <2> QED
    BY <1>1, <1>2, <1>3, <1>4, <2>2 DEF Returned, InOrder
<1>6. ASSUME NEW k, NEW t, Behind(k, t)
      PROVE  Behind(k, t)'
  BY <1>1, <1>6 DEF Behind, Before
<1>7. \A e, k, j : Taken(e, k, j) => Taken(e, k, j)'
  BY <1>0, StaysTaken
<1>8. ASSUME NEW k, NEW t, Settled(k, t)
      PROVE  Settled(k, t)'
  <2>1. Keyed(k)' = Keyed(k) /\ \A j : IsFirst(k, j)' <=> IsFirst(k, j)
    BY Reference
  <2>2. \A j : Taken(epoch, k, j) => Taken(epoch, k, j)'
    BY <1>1 DEF Taken
  <2>3. \A j : (PassedBy(t, j)' <=> PassedBy(t, j)) /\ (HeldBy(t, j)' <=> HeldBy(t, j))
    BY DEF PassedBy, HeldBy
  <2> QED
    BY <1>8, <2>1, <2>2, <2>3 DEF Settled
<1>9. \A e, k : AllTaken(e, k) => AllTaken(e, k)'
  BY <1>0, StaysWhole
<1>10. \A e : RunIsWhole(e) => RunIsWhole(e)'
  BY <1>0, StaysWhole
<1> QED
  BY <1>1, <1>5, <1>6, <1>8, <1>9, <1>10

(* Everything of the shards put in flight has been handed out when none is *)
(* in flight.                                                               *)
LEMMA RunIsOver ==
  ASSUME IInv, RunEnds, plan.handler # "stop"
  PROVE  RunIsWhole(epoch)
<1>1. /\ DOMAIN flight = {} /\ next = Len(plan.shards) /\ pc = "polling"
      /\ DOMAIN plan.shards = 1..Len(plan.shards)
  BY PlanIs DEF RunEnds, IInv, Counters
<1>2. \A i \in 1..next : AllTaken(epoch, i)
  BY <1>1 DEF IInv, Delivered, Complete
<1> QED
  BY <1>1, <1>2, WholeIs

(* The streams stay where they are. *)
LEMMA StillFlies ==
  ASSUME IInv, plan' = plan, epoch' = epoch, next' = next, flight' = flight,
         NEW x, Hands(x), x.files = {}, pc # "dropped" \/ pc' = "dropped",
         pc' = "ended" /\ plan.limit = Unlimited /\ plan.handler # "stop" => RunIsWhole(epoch)
  PROVE  Flying' /\ Delivered'
<1>1. Slots'
  BY DEF IInv, Flying, Slots
<1>2. \A i, s : InFlight(i, s)' <=> InFlight(i, s)
  BY DEF InFlight
<1>3. Flying'
  BY <1>1, <1>2, SameUnderway DEF IInv, Flying
<1>4. next \in Nat /\ next <= next
  <2>1. next \in 0..Len(plan.shards) /\ Len(plan.shards) \in Nat
    BY PlanIs DEF IInv, Counters
  <2> QED
    BY <2>1
<1>5. /\ Returned'
      /\ \A k, t : Behind(k, t) => Behind(k, t)'
      /\ \A k, t : Settled(k, t) => Settled(k, t)'
      /\ \A e, k : AllTaken(e, k) => AllTaken(e, k)'
      /\ \A e : RunIsWhole(e) => RunIsWhole(e)'
  BY <1>4, Steady DEF IInv, Delivered
<1>6. Complete'
  <2> SUFFICES ASSUME plan.handler # "stop"
               PROVE  /\ \A e \in 1..(epoch - 1) : RunIsWhole(e)'
                      /\ pc' # "dropped" =>
                           /\ \A i, s : InFlight(i, s) => Settled(i, s)'
                           /\ \A i \in (1..next) \ DOMAIN flight : AllTaken(epoch, i)'
                      /\ pc' = "ended" /\ plan.limit = Unlimited => RunIsWhole(epoch)'
    BY <1>2 DEF Complete
  <2>1. Complete
    BY DEF IInv, Delivered
  <2>2. \A i : AllTaken(epoch, i) => AllTaken(epoch, i)'
    <3> PICK e : e = epoch
      OBVIOUS
    <3>1. \A i : AllTaken(e, i) => AllTaken(e, i)'
      BY <1>5
    <3> QED
      BY <3>1 DEF AllTaken, Taken
  <2>3. RunIsWhole(epoch) => RunIsWhole(epoch)'
    <3> PICK e : e = epoch
      OBVIOUS
    <3>1. RunIsWhole(e) => RunIsWhole(e)'
      BY <1>5
    <3> QED
      BY <3>1 DEF RunIsWhole
  <2> QED
    BY <1>5, <2>1, <2>2, <2>3 DEF Complete
<1> QED
  BY <1>2, <1>3, <1>5, <1>6 DEF Delivered, IInv

LEMMA NothingIs ==
  ASSUME IInv
  PROVE  /\ Error(0) \in Outcome /\ Error(0).files = {}
         /\ out' = out => Hands(Error(0))
         /\ out' = Append(out, Error(0)) => Hands(Error(0))
<1>1. Error(0) \in Outcome /\ Error(0).files = {}
  BY ErrorIs
<1> QED
  BY <1>1 DEF Hands

LEMMA StaysPut ==
  ASSUME IInv, UNCHANGED vars \/ Poll \/ ReportEmpty \/ EndStream
  PROVE  Flying' /\ Delivered'
<1>1. plan.limit \in Nat \cup {Unlimited} /\ Unlimited \notin Nat /\ taken \in Nat
  BY PlanIs, AsyncAssumption DEF IInv, Counters
<1>2. CASE UNCHANGED vars
  <2>1. /\ plan' = plan /\ epoch' = epoch /\ next' = next /\ flight' = flight
        /\ pc' = pc /\ out' = out
    BY <1>2 DEF vars, counters
  <2>2. pc = "ended" /\ plan.limit = Unlimited /\ plan.handler # "stop" => RunIsWhole(epoch)
    BY DEF IInv, Delivered, Complete
  <2> QED
    BY <2>1, <2>2, NothingIs, StillFlies
<1>3. CASE Poll
  <2>1. /\ plan' = plan /\ epoch' = epoch /\ next' = next /\ flight' = flight
        /\ pc = "idle" /\ out' = out /\ (pc' = "ended" => taken = plan.limit)
    BY <1>3 DEF Poll, counters
  <2> QED
    BY <1>1, <2>1, NothingIs, StillFlies
<1>4. CASE ReportEmpty
  <2>1. /\ plan' = plan /\ epoch' = epoch /\ next' = next /\ flight' = flight
        /\ pc = "polling" /\ pc' = "idle" /\ out' = Append(out, Error(0))
    BY <1>4 DEF ReportEmpty, RunEnds, Yields, counters
  <2> QED
    BY <2>1, NothingIs, StillFlies
<1>5. CASE EndStream
  <2>1. /\ plan' = plan /\ epoch' = epoch /\ next' = next /\ flight' = flight
        /\ pc = "polling" /\ out' = out /\ RunEnds
    BY <1>5 DEF EndStream, RunEnds, counters
  <2>2. plan.handler # "stop" => RunIsWhole(epoch)
    BY <2>1, RunIsOver
  <2> QED
    BY <2>1, <2>2, NothingIs, StillFlies
<1> QED
  BY <1>2, <1>3, <1>4, <1>5

LEMMA DropKeeps ==
  ASSUME IInv, Drop
  PROVE  Flying' /\ Delivered'
<1>1. /\ plan' = plan /\ epoch' = epoch /\ next' = next /\ flight' = <<>>
      /\ pc' = "dropped" /\ out' = out
  BY DEF Drop, counters
<1>2. DOMAIN flight' = {}
  BY <1>1
<1>3. plan.width \in Nat \ {0} /\ next \in Nat
  <2>1. next \in 0..Len(plan.shards) /\ Len(plan.shards) \in Nat
    BY PlanIs DEF IInv, Counters
  <2> QED
    BY <2>1, PlanIs DEF IInv, Counters
<1>4. Slots'
  <2>1. IsFiniteSet({}) /\ Cardinality({}) = 0
    BY FS_EmptySet
  <2>2. 0 <= plan.width
    BY <1>3
  <2> QED
    BY <1>1, <1>2, <2>1, <2>2 DEF Slots
<1>5. \A i, s : ~InFlight(i, s)'
  BY <1>2 DEF InFlight
<1>6. Returned' /\ \A e : RunIsWhole(e) => RunIsWhole(e)'
  BY <1>1, <1>3, NothingIs, Steady DEF IInv, Delivered
<1>7. Complete'
  BY <1>1, <1>6 DEF Complete, IInv, Delivered
<1> QED
  BY <1>4, <1>5, <1>6, <1>7 DEF Flying, Delivered

(* A stream that is over leaves nothing behind. *)
LEMMA CloseKeeps ==
  ASSUME IInv, NEW i \in DOMAIN flight, Close(i)
  PROVE  Flying' /\ Delivered'
<1>1. /\ plan' = plan /\ epoch' = epoch /\ next' = next /\ out' = out
      /\ pc = "polling" /\ pc' = pc /\ flight[i].pc = "over"
      /\ DOMAIN flight' = DOMAIN flight \ {i}
      /\ \A j \in DOMAIN flight \ {i} : flight'[j] = flight[j]
  BY DEF Close, Polled, Silent, counters
<1>2. next \in Nat /\ plan.width \in Nat
  <2>1. next \in 0..Len(plan.shards) /\ Len(plan.shards) \in Nat
    BY PlanIs DEF IInv, Counters
  <2> QED
    BY <2>1, PlanIs DEF IInv, Counters
<1>3. Slots'
  <2>1. Slots
    BY DEF IInv, Flying
  <2> DEFINE S == DOMAIN flight
  <2>2. IsFiniteSet(S) /\ Cardinality(S) <= plan.width /\ i \in S
    BY <2>1 DEF Slots
  <2> HIDE DEF S
  <2>3. /\ IsFiniteSet(S \ {i}) /\ Cardinality(S \ {i}) = Cardinality(S) - 1
        /\ Cardinality(S) \in Nat
    BY <2>2, FS_RemoveElement, FS_CardinalityType
  <2>4. Cardinality(S \ {i}) <= plan.width
    BY <1>2, <2>2, <2>3
  <2>5. DOMAIN flight' = S \ {i}
    BY <1>1 DEF S
  <2> QED
    BY <1>1, <2>1, <2>3, <2>4, <2>5 DEF Slots, S
<1>4. \A k, s : InFlight(k, s)' => InFlight(k, s)
  BY <1>1 DEF InFlight
<1>5. Flying'
  BY <1>1, <1>3, <1>4, SameUnderway DEF Flying, IInv
<1>6. /\ Returned'
      /\ \A k, t : Behind(k, t) => Behind(k, t)'
      /\ \A k, t : Settled(k, t) => Settled(k, t)'
      /\ \A e, k : AllTaken(e, k) => AllTaken(e, k)'
      /\ \A e : RunIsWhole(e) => RunIsWhole(e)'
  BY <1>1, <1>2, NothingIs, Steady DEF IInv, Delivered
<1>7. plan.handler # "stop" => AllTaken(epoch, i)
  <2>1. flight[i].group = <<>>
    BY <1>1, StreamsAre DEF Underway
  <2>2. plan.handler # "stop" => Settled(i, flight[i])
    BY <1>1, StreamsAre
  <2> QED
    BY <1>1, <2>1, <2>2 DEF Settled, AllTaken, PassedBy, HeldBy
<1>8. Complete'
  <2> SUFFICES ASSUME plan.handler # "stop"
               PROVE  /\ \A e \in 1..(epoch - 1) : RunIsWhole(e)'
                      /\ \A k, s : InFlight(k, s)' => Settled(k, s)'
                      /\ \A k \in (1..next) \ (DOMAIN flight \ {i}) : AllTaken(epoch, k)'
    BY <1>1 DEF Complete
  <2>1. Complete
    BY DEF IInv, Delivered
  <2>2. ASSUME NEW k \in (1..next) \ (DOMAIN flight \ {i})
        PROVE  AllTaken(epoch, k)'
    <3>e. PICK e : e = epoch
      OBVIOUS
    <3>1. AllTaken(e, k)
      BY <1>1, <1>7, <2>1, <3>e DEF Complete
    <3>2. AllTaken(e, k)'
      BY <1>6, <3>1
    <3> QED
      BY <1>1, <3>2, <3>e DEF AllTaken, Taken
  <2> QED
    BY <1>1, <1>4, <1>6, <2>1, <2>2 DEF Complete
<1> QED
  BY <1>4, <1>5, <1>6, <1>8 DEF Delivered, IInv

(* The stream put in flight is the next shard's; if there is room for one   *)
(* only, none was in flight.                                                *)
LEMMA AdmitSlots ==
  ASSUME IInv, Admit
  PROVE  Slots'
<1> DEFINE S == DOMAIN flight
<1>1. /\ plan' = plan /\ next' = next + 1 /\ DOMAIN flight' = S \cup {next + 1}
      /\ Cardinality(S) < plan.width
  BY DEF Admit
<1>2. next \in Nat /\ plan.width \in Nat \ {0}
  <2>1. next \in 0..Len(plan.shards) /\ Len(plan.shards) \in Nat
    BY PlanIs DEF IInv, Counters
  <2> QED
    BY <2>1, PlanIs DEF IInv, Counters
<1>3. IsFiniteSet(S) /\ S \subseteq 1..next
  BY DEF IInv, Flying, Slots
<1> HIDE DEF S
<1>4. next + 1 \notin S
  BY <1>2, <1>3
<1>5. /\ IsFiniteSet(S \cup {next + 1}) /\ Cardinality(S) \in Nat
      /\ Cardinality(S \cup {next + 1}) = Cardinality(S) + 1
  BY <1>3, <1>4, FS_AddElement, FS_CardinalityType
<1>6. Cardinality(S \cup {next + 1}) <= plan.width
  BY <1>1, <1>2, <1>5
<1>7. S \cup {next + 1} \subseteq 1..(next + 1)
  BY <1>2, <1>3
<1>8. plan.width = 1 => S \cup {next + 1} \subseteq {next + 1}
  <2>1. plan.width = 1 => Cardinality(S) = 0
    BY <1>1, <1>5
  <2>2. Cardinality(S) = 0 => S = {}
    BY <1>3, FS_EmptySet
  <2> QED
    BY <2>1, <2>2
<1> QED
  BY <1>1, <1>5, <1>6, <1>7, <1>8 DEF Slots

LEMMA AdmitKeeps ==
  ASSUME IInv, Admit
  PROVE  Flying' /\ Delivered'
<1>m. PICK m : m = next + 1
  OBVIOUS
<1>1. /\ plan' = plan /\ epoch' = epoch /\ next' = m /\ out' = out
      /\ pc = "polling" /\ pc' = pc /\ next < Len(plan.shards)
      /\ DOMAIN flight' = DOMAIN flight \cup {m} /\ flight'[m] = Opening
      /\ \A j \in DOMAIN flight : j # m => flight'[j] = flight[j]
  BY <1>m DEF Admit, counters
<1>2. /\ next \in Nat /\ m \in Nat /\ next < m /\ next <= m /\ m \in 1..Len(plan.shards)
      /\ m \notin 1..next /\ 1..m = (1..next) \cup {m}
  <2>1. next \in 0..Len(plan.shards) /\ Len(plan.shards) \in Nat
    BY PlanIs DEF IInv, Counters
  <2> QED
    BY <1>1, <1>m, <2>1
<1>3. \A j \in Keyed(m) : j \in Nat /\ 0 < j
  <2>1. Keyed(m) \subseteq 1..Len(plan.shards[m].files) /\ Len(plan.shards[m].files) \in Nat
    BY <1>2, PlanIs DEF IInv, Counters
  <2> QED
    BY <2>1
<1>4. Underway(m, Opening)
  <2>1. Opening \in Stream /\ Opening.pos = 1 /\ Opening.pc = "opening" /\ Opening.group = <<>>
    BY DEF Opening, Stream
  <2> QED
    BY <1>3, <2>1 DEF Underway, Grouped
<1>5. \A k, s : InFlight(k, s)' => InFlight(k, s) \/ (k = m /\ s = Opening)
  BY <1>1 DEF InFlight
<1>6. Flying'
  BY <1>1, <1>4, <1>5, AdmitSlots, SameUnderway DEF Flying, IInv
<1>7. /\ Returned' /\ Samples' = Samples
      /\ \A k, t : Behind(k, t) => Behind(k, t)'
      /\ \A k, t : Settled(k, t) => Settled(k, t)'
      /\ \A e, k : AllTaken(e, k) => AllTaken(e, k)'
      /\ \A e : RunIsWhole(e) => RunIsWhole(e)'
  BY <1>1, <1>2, NothingIs, Steady DEF IInv, Delivered
<1>8. Behind(m, Opening)
  <2>1. \A n \in Samples : out[n].epoch = epoch => out[n].of # m
    BY <1>2 DEF IInv, Delivered, Returned
  <2> QED
    BY <2>1 DEF Behind
<1>9. Settled(m, Opening)
  BY <1>3 DEF Settled, PassedBy, Opening
<1>10. Complete'
  <2> SUFFICES ASSUME plan.handler # "stop"
               PROVE  /\ \A e \in 1..(epoch - 1) : RunIsWhole(e)'
                      /\ \A k, s : InFlight(k, s)' => Settled(k, s)'
                      /\ \A k \in (1..m) \ (DOMAIN flight \cup {m}) : AllTaken(epoch, k)'
    BY <1>1 DEF Complete
  <2>1. Complete
    BY DEF IInv, Delivered
  <2>2. ASSUME NEW k \in (1..m) \ (DOMAIN flight \cup {m})
        PROVE  AllTaken(epoch, k)'
    <3>e. PICK e : e = epoch
      OBVIOUS
    <3>1. AllTaken(e, k)
      BY <1>1, <1>2, <2>1, <3>e DEF Complete
    <3>2. AllTaken(e, k)'
      BY <1>7, <3>1
    <3> QED
      BY <1>1, <3>2, <3>e DEF AllTaken, Taken
  <2>3. \A k, s : InFlight(k, s)' => Settled(k, s)
    BY <1>1, <1>5, <1>9, <2>1 DEF Complete
  <2> QED
    BY <1>7, <2>1, <2>2, <2>3 DEF Complete
<1>11. \A k, s : InFlight(k, s)' => Behind(k, s)
  BY <1>5, <1>8 DEF IInv, Delivered
<1> QED
  BY <1>6, <1>7, <1>10, <1>11 DEF Delivered

(* No stream is in flight when an epoch begins. *)
LEMMA NextEpochKeeps ==
  ASSUME IInv, NextEpoch
  PROVE  Flying' /\ Delivered'
<1>1. /\ plan' = plan /\ epoch' = epoch + 1 /\ next' = 0 /\ out' = out
      /\ pc' = "polling" /\ flight' = flight /\ DOMAIN flight = {} /\ RunEnds
  BY DEF NextEpoch, RunEnds, counters
<1>2. epoch \in Nat \ {0} /\ out \in Seq(Outcome)
  BY DEF IInv, Counters, Delivered, Returned
<1>3. Slots'
  BY <1>1 DEF Slots, IInv, Flying
<1>4. \A i, s : ~InFlight(i, s)'
  BY <1>1 DEF InFlight
<1>5. Samples' = Samples
  BY <1>1 DEF Samples
<1>6. Returned'
  <2>1. \A t : WholeRun(t)' <=> WholeRun(t)
    BY <1>1, Reference
  <2>2. ASSUME NEW n \in Samples
        PROVE  out[n].epoch \in 1..(epoch + 1) /\ out[n].epoch # epoch + 1
    <3>1. out[n].epoch \in 1..epoch
      BY DEF IInv, Delivered, Returned
    <3> QED
      BY <1>2, <3>1
  <2>3. \A n \in Samples : WholeRun(out[n])
    BY DEF IInv, Delivered, Returned
  <2>4. \A n, m \in Samples : n < m => InOrder(out[n], out[m])
    BY DEF IInv, Delivered, Returned
  <2> QED
    BY <1>1, <1>2, <1>5, <2>1, <2>2, <2>3, <2>4 DEF Returned, InOrder
<1>7. Complete'
  <2> SUFFICES ASSUME plan.handler # "stop"
               PROVE  \A e \in 1..epoch : RunIsWhole(e)'
    BY <1>1, <1>2, <1>4 DEF Complete
  <2>1. \A e \in 1..epoch : e \in 1..(epoch - 1) \/ e = epoch
    BY <1>2
  <2>2. \A e \in 1..epoch : RunIsWhole(e)
    BY <1>1, <2>1, RunIsOver DEF IInv, Delivered, Complete
  <2>3. \A e : RunIsWhole(e) => RunIsWhole(e)'
    BY <1>1, <1>2, NothingIs, StaysWhole
  <2> QED
    BY <2>2, <2>3
<1> QED
  BY <1>3, <1>4, <1>6, <1>7 DEF Flying, Delivered

-----------------------------------------------------------------------------
LEMMA Starting ==
  ASSUME Init
  PROVE  IInv
<1> USE AsyncAssumption
<1>1. /\ plan \in Plans /\ pc = "idle" /\ epoch = 1 /\ produced = 0 /\ taken = 0
      /\ next = 0 /\ flight = <<>> /\ out = <<>>
      /\ left = IF plan.repeats \in {0, Forever} THEN plan.repeats ELSE plan.repeats - 1
  BY DEF Init
<1>2. /\ plan.repeats \in Nat \cup {Forever} /\ plan.limit \in Nat \cup {Unlimited}
      /\ Len(plan.shards) \in Nat /\ plan.width \in Nat \ {0}
  BY <1>1, PlanIs
<1>3. Counters
  <2>1. IF plan.repeats = Forever THEN left = Forever
        ELSE left \in Nat /\ plan.repeats = (IF plan.repeats = 0 THEN left ELSE left + epoch)
    BY <1>1, <1>2
  <2>2. next \in 0..Len(plan.shards)
    BY <1>1, <1>2
  <2> QED
    BY <1>1, <1>2, <2>1, <2>2 DEF Counters
<1>4. DOMAIN flight = {} /\ Samples = {} /\ out \in Seq(Outcome)
  BY <1>1 DEF Samples
<1>5. Flying
  <2>1. IsFiniteSet({}) /\ Cardinality({}) = 0 /\ 0 <= plan.width
    BY <1>2, FS_EmptySet
  <2> QED
    BY <1>4, <2>1 DEF Flying, Slots, InFlight
<1>6. Delivered
  BY <1>1, <1>4 DEF Delivered, Returned, Complete, InFlight
<1> QED
  BY <1>3, <1>5, <1>6 DEF IInv

LEMMA Inductive ==
  ASSUME IInv, [Next]_vars
  PROVE  IInv'
<1>1. Counters'
  BY CountersKept DEF IInv
<1>2. CASE UNCHANGED vars \/ Poll \/ ReportEmpty \/ EndStream
  BY <1>1, <1>2, StaysPut DEF IInv
<1>3. CASE Drop
  BY <1>1, <1>3, DropKeeps DEF IInv
<1>4. CASE Admit
  BY <1>1, <1>4, AdmitKeeps DEF IInv
<1>5. CASE NextEpoch
  BY <1>1, <1>5, NextEpochKeeps DEF IInv
<1>6. ASSUME NEW i \in DOMAIN flight, ShardStep(i)
      PROVE  IInv'
  BY <1>1, <1>6, ShardTurn, CloseKeeps DEF IInv
<1> QED
  BY <1>2, <1>3, <1>4, <1>5, <1>6 DEF Next, PollStep, Dropped

LEMMA Invariant == Spec => []IInv
<1>1. Init => IInv
  BY Starting
<1>2. IInv /\ [Next]_vars => IInv'
  BY Inductive
<1> QED
  BY <1>1, <1>2, PTL DEF Spec

(* Whatever the order in which the shards in flight advance, a sample is a  *)
(* run of one shard's files, all of it unless the handler stops; a shard's  *)
(* samples come in order and each once, epoch after epoch, and the shards   *)
(* in order too if they are read one at a time.                             *)
THEOREM RunsAreWhole == Spec => []SamplesAreRuns
<1>1. IInv => SamplesAreRuns
  BY DEF IInv, Delivered, Returned, SamplesAreRuns
<1> QED
  BY <1>1, Invariant, PTL

LEMMA Typed ==
  ASSUME IInv
  PROVE  TypeOK
<1>1. /\ plan \in Plans /\ pc \in {"idle", "polling", "ended", "dropped"}
      /\ left \in Nat \cup {Forever} /\ epoch \in Nat \ {0}
      /\ taken \in 0..MaxItems /\ produced \in 0..taken /\ next \in 0..Len(plan.shards)
  BY DEF IInv, Counters
<1>2. DOMAIN flight \subseteq 1..next /\ Cardinality(DOMAIN flight) <= plan.width
  BY DEF IInv, Flying, Slots
<1>3. ASSUME NEW i \in DOMAIN flight
      PROVE  /\ flight[i].pc \in {"opening", "reading", "finish", "over"}
             /\ flight[i].pos \in 1..(Len(plan.shards[i].files) + 2)
             /\ Len(flight[i].group) <= 1
  <2>1. /\ flight[i] \in Stream /\ Len(flight[i].group) <= 1
        /\ flight[i].pos = 1 \/ flight[i].pos <= Len(plan.shards[i].files) + 2
    <3>1. Underway(i, flight[i]) /\ flight[i].pos \in Nat \ {0}
          /\ Len(plan.shards[i].files) \in Nat
      BY StreamsAre, StreamIs
    <3>2. flight[i].pc \in {"opening", "reading", "finish", "over"}
      BY <3>1 DEF Underway, Stream
    <3>3. \/ flight[i].pos = 1
          \/ flight[i].pos <= Len(plan.shards[i].files) + 1
          \/ flight[i].pos <= Len(plan.shards[i].files) + 2
      BY <3>1, <3>2 DEF Underway
    <3> QED
      BY <3>1, <3>3 DEF Underway
  <2>2. flight[i].pos \in Nat \ {0} /\ Len(plan.shards[i].files) \in Nat
    BY StreamIs
  <2>3. flight[i].pos \in 1..(Len(plan.shards[i].files) + 2)
    BY <2>1, <2>2
  <2> QED
    BY <2>1, <2>3 DEF Stream
<1> QED
  BY <1>1, <1>2, <1>3 DEF TypeOK

(* When an epoch is over, each epoch before it and, if nothing is limited,  *)
(* the last at its end, everything that can be read of every shard has been *)
(* handed out, unless a handler stops a shard; the limit and the number of  *)
(* repetitions are kept.                                                    *)
THEOREM AllIsHandedOut == Spec => []EpochsAreWhole
<1>1. ASSUME IInv
      PROVE  EpochsAreWhole
  <2>0. /\ plan.repeats \in Nat \cup {Forever} /\ Forever \notin Nat
        /\ epoch \in Nat \ {0}
    BY <1>1, PlanIs, AsyncAssumption DEF IInv, Counters
  <2>1. plan.limit # Unlimited => taken <= plan.limit
    BY <1>1 DEF IInv, Counters
  <2>2. plan.repeats \in Nat \ {0} => epoch <= plan.repeats
    BY <1>1, <2>0 DEF IInv, Counters
  <2>3. pc = "ended" /\ plan.limit = Unlimited =>
          produced = 0 \/ epoch = plan.repeats \/ plan.repeats = 0
    BY <1>1, <2>0 DEF IInv, Counters
  <2>4. ASSUME plan.handler # "stop", NEW e \in 1..epoch,
               e < epoch \/ (pc = "ended" /\ plan.limit = Unlimited)
        PROVE  RunIsWhole(e)
    <3>1. e \in 1..(epoch - 1) \/ e = epoch
      BY <2>0
    <3> QED
      BY <1>1, <2>0, <2>4, <3>1 DEF IInv, Delivered, Complete
  <2> QED
    BY <1>1, <2>1, <2>2, <2>3, <2>4, Typed DEF EpochsAreWhole
<1> QED
  BY <1>1, Invariant, PTL
=============================================================================
