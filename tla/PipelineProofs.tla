---------------------------- MODULE PipelineProofs ----------------------------
(***************************************************************************)
(* Pipelines of any number of shards, processes and workers.  Dealing a    *)
(* list out by strides, first to the processes and then to the workers of  *)
(* each, gives every shard of it to exactly one worker; a worker reads     *)
(* each shard of its share once in a run; so in an epoch every sample is   *)
(* handed out exactly once.  That is so of a fixed list, of mixed ones     *)
(* where each process has one worker, and of one that is replayed from     *)
(* the cache of a single worker.  Whatever the list, an iteration is of    *)
(* the length asked for, a pass without an item is noticed, and a cache    *)
(* is the whole pass of a worker, which runs that replay it repeat.        *)
(***************************************************************************)
EXTENDS Pipeline, FiniteSetTheorems, TLAPS

(* Division with remainder, and what decides the order of two quotients. *)
LEMMA Division ==
  ASSUME NEW a \in Nat, NEW n \in Nat \ {0}
  PROVE  /\ a \div n \in Nat /\ a % n \in 0..(n - 1)
         /\ a = n * (a \div n) + (a % n) /\ n * (a \div n) \in Nat
  OBVIOUS

LEMMA Multiples ==
  ASSUME NEW n \in Nat \ {0}, NEW a \in Int, NEW b \in Int, a < b
  PROVE  n * a \in Int /\ n * b \in Int /\ n * a + n <= n * b
<1>1. n * (b - a) >= n
  OBVIOUS
<1>2. n * (b - a) = n * b - n * a /\ n * a \in Int /\ n * b \in Int
  BY Z3
<1>3. QED
  BY <1>1, <1>2

(* Two positions in strides of n from k and from m are the same one only if *)
(* k is m, and then at the same step of it.                                 *)
LEMMA Strides ==
  ASSUME NEW n \in Nat \ {0}, NEW a \in Int, NEW b \in Int,
         NEW k \in 0..(n - 1), NEW m \in 0..(n - 1),
         n * a + k = n * b + m
  PROVE  a = b /\ k = m
<1>1. CASE a < b
  BY <1>1, Multiples
<1>2. CASE b < a
  BY <1>2, Multiples
<1>3. CASE a = b
  <2>1. n * a \in Int
    BY Z3
  <2>2. QED
    BY <1>3, <2>1
<1>4. QED
  BY <1>1, <1>2, <1>3

-----------------------------------------------------------------------------
Elements(list) == {list[i] : i \in DOMAIN list}
Distinct(list) == \A i, j \in DOMAIN list : list[i] = list[j] => i = j

(* The place in the list of what a stride takes ith. *)
Taken(k, n, i) == k + 1 + (i - 1) * n

LEMMA TakenOnce ==
  ASSUME NEW n \in Nat \ {0}, NEW k \in 0..(n - 1), NEW m \in 0..(n - 1),
         NEW i \in Nat \ {0}, NEW j \in Nat \ {0}, Taken(k, n, i) = Taken(m, n, j)
  PROVE  i = j /\ k = m
<1> DEFINE a == i - 1
           b == j - 1
<1>1. a \in Int /\ b \in Int
  OBVIOUS
<1>2. n * a \in Int /\ n * b \in Int
  BY <1>1, Z3
<1>3. k + 1 + a * n = m + 1 + b * n
  BY DEF Taken
<1>4. a * n = n * a /\ b * n = n * b
  BY <1>1, Z3
<1> HIDE DEF a, b
<1>5. n * a + k = n * b + m
  BY <1>2, <1>3, <1>4
<1>6. a = b /\ k = m
  BY <1>1, <1>5, Strides
<1>7. QED
  BY <1>6 DEF a, b

LEMMA SplitIs ==
  ASSUME NEW S, NEW list \in Seq(S), NEW n \in Nat \ {0}, NEW k \in 0..(n - 1)
  PROVE  /\ Split(list, k, n) \in Seq(S)
         /\ \A i \in DOMAIN Split(list, k, n) :
              /\ i \in Nat \ {0}
              /\ Taken(k, n, i) = n * (i - 1) + k + 1
              /\ Taken(k, n, i) \in DOMAIN list
              /\ Split(list, k, n)[i] = list[Taken(k, n, i)]
         /\ \A j \in DOMAIN list :
              (j - 1) % n = k => \E i \in DOMAIN Split(list, k, n) : Taken(k, n, i) = j
<1> DEFINE len == Len(list)
           a == len - k + n - 1
           d == a \div n
<1>1. len \in Nat /\ a \in Nat /\ DOMAIN list = 1..len
  OBVIOUS
<1>2. d \in Nat /\ a % n \in 0..(n - 1) /\ a = n * d + (a % n) /\ n * d \in Nat
  BY <1>1, Division
<1>3. Split(list, k, n) = [i \in 1..d |-> list[Taken(k, n, i)]]
  BY DEF Split, Taken
<1> HIDE DEF d
<1>4. ASSUME NEW i \in 1..d
      PROVE  /\ Taken(k, n, i) = n * (i - 1) + k + 1
             /\ Taken(k, n, i) \in 1..len
  <2>1. (i - 1) * n = n * (i - 1) /\ n * (i - 1) \in Nat
    BY Z3
  <2>2. n * (i - 1) + n <= n * d
    BY <1>2, Multiples
  <2>3. n * (i - 1) + n <= a
    BY <1>1, <1>2, <2>1, <2>2
  <2>4. QED
    BY <1>1, <2>1, <2>3 DEF Taken
<1>5. ASSUME NEW j \in 1..len, (j - 1) % n = k
      PROVE  \E i \in 1..d : Taken(k, n, i) = j
  <2> DEFINE q == (j - 1) \div n
  <2>1. q \in Nat /\ j - 1 = n * q + k /\ n * q \in Nat
    <3>1. j - 1 \in Nat
      BY <1>1
    <3>2. QED
      BY <1>5, <3>1, Division
  <2> HIDE DEF q
  <2>2. q < d
    <3>1. CASE q = d
      BY <1>1, <1>2, <2>1, <3>1
    <3>2. CASE d < q
      <4>1. n * d + n <= n * q
        BY <1>2, <2>1, <3>2, Multiples
      <4>2. QED
        BY <1>1, <1>2, <2>1, <4>1
    <3>3. QED
      BY <1>2, <2>1, <3>1, <3>2
  <2>3. q + 1 \in 1..d /\ (q + 1) - 1 = q
    BY <1>2, <2>1, <2>2
  <2>4. Taken(k, n, q + 1) = j
    BY <1>1, <1>4, <2>1, <2>3
  <2>5. QED
    BY <2>3, <2>4
<1>6. DOMAIN Split(list, k, n) = 1..d
  BY <1>3
<1>7. Split(list, k, n) \in Seq(S)
  <2>1. \A i \in 1..d : list[Taken(k, n, i)] \in S
    BY <1>1, <1>4
  <2>2. QED
    BY <1>2, <1>3, <2>1
<1>8. \A i \in 1..d : Split(list, k, n)[i] = list[Taken(k, n, i)]
  BY <1>3
<1>9. \A i \in 1..d : i \in Nat \ {0}
  BY <1>2
<1>10. QED
  BY <1>1, <1>4, <1>5, <1>6, <1>7, <1>8, <1>9

LEMMA SplitKeeps ==
  ASSUME NEW S, NEW list \in Seq(S), NEW n \in Nat \ {0}, NEW k \in 0..(n - 1)
  PROVE  /\ Elements(Split(list, k, n)) \subseteq Elements(list)
         /\ Distinct(list) => Distinct(Split(list, k, n))
<1> DEFINE split == Split(list, k, n)
<1>1. \A i \in DOMAIN split :
        /\ i \in Nat \ {0} /\ Taken(k, n, i) = n * (i - 1) + k + 1
        /\ Taken(k, n, i) \in DOMAIN list /\ split[i] = list[Taken(k, n, i)]
  BY SplitIs
<1> HIDE DEF split
<1>2. Elements(split) \subseteq Elements(list)
  BY <1>1 DEF Elements
<1>3. ASSUME Distinct(list), NEW i \in DOMAIN split, NEW j \in DOMAIN split,
             split[i] = split[j]
      PROVE  i = j
  <2>1. Taken(k, n, i) = Taken(k, n, j)
    BY <1>1, <1>3 DEF Distinct
  <2>2. QED
    BY <1>1, <2>1, TakenOnce
<1>4. QED
  BY <1>2, <1>3 DEF Distinct, split

(* "Distinct" lists are dealt out: no element to two of the n, *)
LEMMA SplitsApart ==
  ASSUME NEW S, NEW list \in Seq(S), Distinct(list), NEW n \in Nat \ {0},
         NEW k \in 0..(n - 1), NEW m \in 0..(n - 1), k # m
  PROVE  Elements(Split(list, k, n)) \cap Elements(Split(list, m, n)) = {}
<1> SUFFICES ASSUME NEW i \in DOMAIN Split(list, k, n),
                    NEW j \in DOMAIN Split(list, m, n),
                    Split(list, k, n)[i] = Split(list, m, n)[j]
             PROVE  FALSE
  BY DEF Elements
<1>1. /\ i \in Nat \ {0} /\ Taken(k, n, i) = n * (i - 1) + k + 1
      /\ Taken(k, n, i) \in DOMAIN list
      /\ Split(list, k, n)[i] = list[Taken(k, n, i)]
  BY SplitIs
<1>2. /\ j \in Nat \ {0} /\ Taken(m, n, j) = n * (j - 1) + m + 1
      /\ Taken(m, n, j) \in DOMAIN list
      /\ Split(list, m, n)[j] = list[Taken(m, n, j)]
  BY SplitIs
<1>3. Taken(k, n, i) = Taken(m, n, j)
  BY <1>1, <1>2 DEF Distinct
<1>4. QED
  BY <1>1, <1>2, <1>3, TakenOnce

(* and every element to one. *)
LEMMA SplitsCover ==
  ASSUME NEW S, NEW list \in Seq(S), NEW n \in Nat \ {0}, NEW e \in Elements(list)
  PROVE  \E k \in 0..(n - 1) : e \in Elements(Split(list, k, n))
<1>1. PICK j \in DOMAIN list : list[j] = e
  BY DEF Elements
<1>2. j - 1 \in Nat
  OBVIOUS
<1>3. PICK k \in 0..(n - 1) : (j - 1) % n = k
  BY <1>2, Division
<1>4. PICK i \in DOMAIN Split(list, k, n) : Taken(k, n, i) = j
  BY <1>3, SplitIs
<1>5. Split(list, k, n)[i] = e
  BY <1>1, <1>4, SplitIs
<1>6. QED
  BY <1>3, <1>5 DEF Elements

-----------------------------------------------------------------------------
(* What a plan says of teams and shares. *)
LEMMA PlanFacts ==
  ASSUME plan \in Plans
  PROVE  /\ plan \in Plan
         /\ plan.world \in Nat \ {0} /\ plan.workers \in Nat \ {0}
         /\ \A w \in Workers :
              /\ w[1] \in 0..(plan.world - 1) /\ w[2] \in 0..(plan.workers - 1)
              /\ w[1] \in Ranks /\ w = <<w[1], w[2]>>
         /\ \A r \in 0..(plan.world - 1), m \in 0..(plan.workers - 1) :
              <<r, m>> \in Workers
<1>1. plan \in Plan
  BY PipelineAssumption
<1>2. plan.world \in Nat \ {0} /\ plan.workers \in Nat \ {0}
  BY <1>1, PipelineAssumption DEF Plan
<1>3. QED
  BY <1>1, <1>2 DEF Workers, Team, Ranks

LEMMA ShareIs ==
  ASSUME plan \in Plans, NEW list \in Seq(Shards), NEW w \in Workers
  PROVE  /\ OfNode(list, w[1]) \in Seq(Shards \cup {Refused})
         /\ Share(list, w) \in Seq(Shards \cup {Refused})
<1>1. list \in Seq(Shards \cup {Refused})
  OBVIOUS
<1>2. OfNode(list, w[1]) \in Seq(Shards \cup {Refused})
  <2>1. <<Refused>> \in Seq(Shards \cup {Refused})
    OBVIOUS
  <2>2. Split(list, w[1], plan.world) \in Seq(Shards \cup {Refused})
    BY <1>1, PlanFacts, SplitIs
  <2>3. QED
    BY <1>1, <2>1, <2>2 DEF OfNode
<1>3. QED
  BY <1>2, PlanFacts, SplitIs DEF Share

LEMMA UrlFacts == \A s \in Shards : Urls[s].samples \in Nat
<1> DEFINE Url == [opens : BOOLEAN, samples : Nat]
<1>1. Urls \in Seq(Url)
  BY PipelineAssumption
<1> HIDE DEF Url
<1>2. \A s \in Shards : Urls[s] \in Url
  BY <1>1 DEF Shards
<1>3. QED
  BY <1>2 DEF Url

LEMMA FixedIs == Fixed \in Seq(Shards) /\ Distinct(Fixed) /\ Elements(Fixed) = Shards
<1>1. Shards = 1..Len(Urls) /\ Len(Urls) \in Nat
  BY PipelineAssumption DEF Shards
<1>2. QED
  BY <1>1 DEF Fixed, Distinct, Elements

(* No shard of a list of distinct ones is dealt to two workers, of one       *)
(* process or two.                                                           *)
LEMMA DealtApart ==
  ASSUME plan \in Plans, Partitioned, NEW list \in Seq(Shards), Distinct(list),
         NEW v \in Workers, NEW w \in Workers, v # w
  PROVE  Elements(Share(list, v)) \cap Elements(Share(list, w)) = {}
<1> USE PlanFacts
<1>1. ~Refuses
  BY DEF Partitioned, Refuses
<1>2. CASE v[1] = w[1]
  <2> DEFINE node == OfNode(list, w[1])
  <2>1. v[2] # w[2] /\ plan.split
    BY <1>2 DEF Partitioned
  <2>2. node \in Seq(Shards \cup {Refused})
    BY ShareIs
  <2>3. Distinct(node)
    BY <1>1, SplitKeeps DEF OfNode
  <2> HIDE DEF node
  <2>4. Elements(Split(node, v[2], plan.workers)) \cap
        Elements(Split(node, w[2], plan.workers)) = {}
    BY <2>1, <2>2, <2>3, SplitsApart
  <2>5. QED
    BY <1>2, <2>1, <2>4 DEF Share, node
<1>3. CASE v[1] # w[1]
  <2>1. plan.nodes = "split"
    BY <1>3 DEF Partitioned
  <2>2. \A u \in Workers : OfNode(list, u[1]) = Split(list, u[1], plan.world)
    BY <1>1, <2>1 DEF OfNode
  <2>3. Elements(OfNode(list, v[1])) \cap Elements(OfNode(list, w[1])) = {}
    BY <1>3, <2>2, SplitsApart
  <2>4. \A u \in Workers : Elements(Share(list, u)) \subseteq Elements(OfNode(list, u[1]))
    BY ShareIs, SplitKeeps DEF Share
  <2>5. QED
    BY <2>3, <2>4
<1>4. QED
  BY <1>2, <1>3

(* Nor is any dealt to a worker twice. *)
LEMMA DealtOnce ==
  ASSUME plan \in Plans, NEW list \in Seq(Shards), Distinct(list), NEW w \in Workers
  PROVE  Distinct(Share(list, w))
<1>1. /\ OfNode(list, w[1]) \in Seq(Shards \cup {Refused})
      /\ Distinct(OfNode(list, w[1]))
  <2>1. Distinct(<<Refused>>)
    BY DEF Distinct
  <2>2. QED
    BY <2>1, PlanFacts, ShareIs, SplitKeeps DEF OfNode
<1>2. QED
  BY <1>1, PlanFacts, SplitKeeps DEF Share

(* Whatever the list, splitting it between the processes and the workers of *)
(* each leaves nothing of it out: SplitByNode, then SplitByWorker.          *)
THEOREM NothingIsLeftOut ==
  ASSUME plan \in Plans, Partitioned, NEW list \in Seq(Shards), NEW s \in Elements(list)
  PROVE  \E w \in Workers : s \in Elements(Share(list, w))
<1> USE PlanFacts
<1>1. PICK r \in 0..(plan.world - 1) : s \in Elements(OfNode(list, r))
  <2>1. ~Refuses
    BY DEF Partitioned, Refuses
  <2>2. CASE plan.nodes = "split"
    BY <2>1, <2>2, SplitsCover DEF OfNode
  <2>3. CASE plan.nodes # "split"
    <3>1. 0 \in 0..(plan.world - 1)
      OBVIOUS
    <3>2. s \in Elements(OfNode(list, 0))
      BY <2>1, <2>3 DEF OfNode
    <3>3. QED
      BY <3>1, <3>2
  <2>4. QED
    BY <2>2, <2>3
<1>2. <<r, 0>> \in Workers
  OBVIOUS
<1>3. OfNode(list, r) \in Seq(Shards \cup {Refused})
  BY <1>2, ShareIs
<1>4. PICK m \in 0..(plan.workers - 1) :
        s \in Elements(IF plan.split THEN Split(OfNode(list, r), m, plan.workers)
                       ELSE OfNode(list, r))
  BY <1>1, <1>3, SplitsCover
<1>5. <<r, m>> \in Workers /\ <<r, m>>[1] = r /\ <<r, m>>[2] = m
  OBVIOUS
<1>6. QED
  BY <1>4, <1>5 DEF Share

(* No share has what is not in the list. *)
LEMMA ShareKeeps ==
  ASSUME plan \in Plans, NEW list \in Seq(Shards), NEW w \in Workers
  PROVE  Elements(Share(list, w)) \cap Shards \subseteq Elements(list)
<1>1. Elements(OfNode(list, w[1])) \subseteq Elements(list) \cup {Refused}
  <2>1. Elements(<<Refused>>) = {Refused}
    BY DEF Elements
  <2>2. QED
    BY <2>1, PlanFacts, SplitKeeps DEF OfNode
<1>2. Elements(Share(list, w)) \subseteq Elements(OfNode(list, w[1]))
  BY PlanFacts, ShareIs, SplitKeeps DEF Share
<1>3. Refused \notin Shards
  BY PipelineAssumption DEF Refused, Shards
<1>4. QED
  BY <1>1, <1>2, <1>3

-----------------------------------------------------------------------------
(* What a worker's iteration and the items it has handed out have to do with *)
(* its share of the list of that run: nothing is of another share (Kept,     *)
(* Given), nothing comes twice in a run (Fresh), nothing is missed (Whole).  *)
(* share[n] is the worker's share in its nth run.                            *)
Sample == Shards \X Nat

Iteration ==
  [pc : {"none", "start", "stage", "pull", "between", "ended", "dropped"},
   iters : Nat, left : Nat \cup {Forever}, taken : Nat, runs : Nat,
   list : Seq(Shards \cup {Refused}), unread : Seq(Sample), done : BOOLEAN,
   produced : Nat, source : {"shards", "cache"}, held : Seq(Sample),
   finished : SUBSET Nat]

Entry ==
  [iter : Nat, run : Nat, source : {"shards", "cache"}, sample : Sample \cup {Error}]

(* The samples there are to be read of a set of shards. *)
Of(share) ==
  {e \in Sample : e[1] \in share /\ Opens(e[1]) /\ e[2] \in 1..Urls[e[1]].samples}

SamplesOf(items, n) ==
  {items[k].sample : k \in {k \in DOMAIN items : items[k].run = n}} \ {Error}

Failed(items, n) == \E k \in DOMAIN items : items[k].run = n /\ items[k].sample = Error

Kept(it, share) ==
  /\ Elements(it.list) \subseteq share[it.runs]
  /\ Elements(it.unread) \subseteq Of(share[it.runs])

Given(items, share) ==
  \A i \in DOMAIN items : items[i].sample # Error => items[i].sample \in Of(share[items[i].run])

Fresh(it, items) ==
  /\ Distinct(it.list) /\ Distinct(it.unread)
  /\ \A e \in Elements(it.unread) : e[1] \notin Elements(it.list)
  /\ \A i \in DOMAIN items : items[i].run <= it.runs
  /\ \A e \in SamplesOf(items, it.runs) :
       e \notin Elements(it.unread) /\ e[1] \notin Elements(it.list)
  /\ \A i, j \in DOMAIN items :
       /\ items[i].run = items[j].run /\ items[i].sample = items[j].sample
       /\ items[i].sample # Error
       => i = j

Unfailed(items, n, handler) == handler = "continue" \/ ~Failed(items, n)

Whole(it, items, share, handler) ==
  /\ it.runs >= 1 /\ Unfailed(items, it.runs, handler) =>
       /\ ~it.done
       /\ \A e \in Of(share[it.runs]) : \/ e \in SamplesOf(items, it.runs)
                                      \/ e \in Elements(it.unread)
                                      \/ e[1] \in Elements(it.list)
  /\ \A n \in it.finished : Unfailed(items, n, handler) =>
       Of(share[n]) \subseteq SamplesOf(items, n)

Ours(it, items, share, handler) ==
  /\ Kept(it, share) /\ Given(items, share) /\ Fresh(it, items)
  /\ handler # "stop" => Whole(it, items, share, handler)

(* An item handed out adds its sample to its run, or fails it. *)
LEMMA Appended ==
  ASSUME NEW items \in Seq(Entry), NEW entry \in Entry
  PROVE  /\ Append(items, entry) \in Seq(Entry)
         /\ \A n : SamplesOf(Append(items, entry), n) = SamplesOf(items, n) \cup
                   {e \in {entry.sample} : entry.run = n /\ e # Error}
         /\ \A n : Failed(Append(items, entry), n) <=>
                   Failed(items, n) \/ (entry.run = n /\ entry.sample = Error)
<1> DEFINE more == Append(items, entry)
           k == Len(items) + 1
<1>1. /\ more \in Seq(Entry) /\ DOMAIN more = DOMAIN items \cup {k}
      /\ more[k] = entry /\ k \notin DOMAIN items
      /\ \A i \in DOMAIN items : more[i] = items[i]
  OBVIOUS
<1> HIDE DEF more, k
<1>2. \A n : SamplesOf(more, n) = SamplesOf(items, n) \cup
                {e \in {entry.sample} : entry.run = n /\ e # Error}
  BY <1>1 DEF SamplesOf
<1>3. \A n : Failed(more, n) <=>
              Failed(items, n) \/ (entry.run = n /\ entry.sample = Error)
  BY <1>1 DEF Failed
<1>4. QED
  BY <1>1, <1>2, <1>3 DEF more

(* The rest of a run's samples, its head taken. *)
LEMMA TailFacts ==
  ASSUME NEW S, NEW list \in Seq(S), list # <<>>
  PROVE  /\ Head(list) \in Elements(list) /\ Tail(list) \in Seq(S)
         /\ Elements(list) = {Head(list)} \cup Elements(Tail(list))
         /\ Distinct(list) => Distinct(Tail(list)) /\ Head(list) \notin Elements(Tail(list))
<1> DEFINE rest == Tail(list)
<1>1. /\ Head(list) = list[1] /\ 1 \in DOMAIN list /\ rest \in Seq(S)
      /\ \A i \in DOMAIN rest : /\ i \in Nat /\ i + 1 \in DOMAIN list
                              /\ rest[i] = list[i + 1] /\ i + 1 # 1
      /\ \A i \in DOMAIN list : i \in Nat /\ (i = 1 \/ i - 1 \in DOMAIN rest)
  OBVIOUS
<1>2. \A i \in DOMAIN list : i = 1 \/ (i - 1 \in DOMAIN rest /\ list[i] = rest[i - 1])
  BY <1>1
<1> HIDE DEF rest
<1>3. Head(list) \in Elements(list)
  BY <1>1 DEF Elements
<1>4. Elements(list) = {Head(list)} \cup Elements(rest)
  <2>1. ASSUME NEW e \in Elements(list) PROVE e = Head(list) \/ e \in Elements(rest)
    <3>1. PICK i \in DOMAIN list : list[i] = e
      BY DEF Elements
    <3>2. QED
      BY <1>1, <1>2, <3>1 DEF Elements
  <2>2. Elements(rest) \subseteq Elements(list)
    BY <1>1 DEF Elements
  <2>3. QED
    BY <1>3, <2>1, <2>2
<1>5. ASSUME Distinct(list) PROVE Distinct(rest) /\ Head(list) \notin Elements(rest)
  <2>1. ASSUME NEW i \in DOMAIN rest, NEW j \in DOMAIN rest, rest[i] = rest[j]
        PROVE  i = j
    <3>1. i + 1 = j + 1
      BY <1>1, <1>5, <2>1 DEF Distinct
    <3>2. QED
      BY <1>1, <3>1
  <2>2. \A i \in DOMAIN rest : rest[i] # list[1]
    BY <1>1, <1>5 DEF Distinct
  <2>3. QED
    BY <1>1, <2>1, <2>2 DEF Distinct, Elements
<1>6. QED
  BY <1>1, <1>3, <1>4, <1>5 DEF rest

-----------------------------------------------------------------------------
(* How the steps of a worker keep Ours.  Steps that read nothing: *)
LEMMA OursSame ==
  ASSUME NEW it, NEW next, NEW items, NEW share, NEW handler,
         Ours(it, items, share, handler),
         next.list = it.list, next.unread = it.unread, next.done = it.done,
         next.runs = it.runs, next.finished = it.finished
  PROVE  Ours(next, items, share, handler)
<1>1. Kept(next, share) /\ Given(items, share)
  BY DEF Ours, Kept
<1>2. Fresh(next, items)
  BY DEF Ours, Fresh
<1>3. handler # "stop" => Whole(next, items, share, handler)
  BY DEF Ours, Whole, Unfailed
<1>4. QED
  BY <1>1, <1>2, <1>3 DEF Ours

(* a run begins, with the whole share in its list; *)
LEMMA OursStarted ==
  ASSUME NEW it \in Iteration, NEW next \in Iteration, NEW items \in Seq(Entry),
         NEW share, NEW handler,
         Ours(it, items, share, handler),
         Distinct(next.list), Elements(next.list) = share[next.runs], next.unread = <<>>,
         next.done = FALSE, next.runs = it.runs + 1, next.finished = it.finished
  PROVE  Ours(next, items, share, handler)
<1>1. Elements(next.unread) = {} /\ Distinct(next.unread)
  BY DEF Elements, Distinct
<1>2. \A i \in DOMAIN items : items[i].run \in Nat /\ items[i].run < next.runs
  <2>1. \A i \in DOMAIN items : items[i].run \in Nat
    <3>1. \A i \in DOMAIN items : items[i] \in Entry
      OBVIOUS
    <3>2. QED
      BY <3>1 DEF Entry
  <2>2. \A i \in DOMAIN items : items[i].run <= it.runs
    BY DEF Ours, Fresh
  <2>3. it.runs \in Nat
    BY DEF Iteration
  <2>4. QED
    BY <2>1, <2>2, <2>3
<1>3. SamplesOf(items, next.runs) = {}
  BY <1>2 DEF SamplesOf, Iteration
<1>4. Kept(next, share) /\ Given(items, share)
  BY <1>1 DEF Ours, Kept
<1>5. Fresh(next, items)
  <2>1. \A i \in DOMAIN items : items[i].run <= next.runs
    <3>1. next.runs \in Nat
      BY DEF Iteration
    <3>2. QED
      BY <1>2, <3>1
  <2>2. QED
    BY <1>1, <1>3, <2>1 DEF Ours, Fresh
<1>6. handler # "stop" => Whole(next, items, share, handler)
  BY DEF Ours, Whole, Unfailed, Of
<1>7. QED
  BY <1>4, <1>5, <1>6 DEF Ours

(* a sample is handed out; *)
LEMMA OursHanded ==
  ASSUME NEW it \in Iteration, NEW next, NEW items \in Seq(Entry), NEW entry \in Entry,
         NEW share, NEW handler,
         Ours(it, items, share, handler), it.unread # <<>>,
         entry.run = it.runs, entry.sample = Head(it.unread),
         next.list = it.list, next.unread = Tail(it.unread),
         next.done = it.done, next.runs = it.runs, next.finished = it.finished
  PROVE  Ours(next, Append(items, entry), share, handler)
<1> DEFINE head == Head(it.unread)
           more == Append(items, entry)
<1>1. it.unread \in Seq(Sample)
  BY DEF Iteration
<1>2. /\ head \in Elements(it.unread)
      /\ Elements(it.unread) = {head} \cup Elements(next.unread)
      /\ Distinct(next.unread) /\ head \notin Elements(next.unread)
  BY <1>1, TailFacts DEF Ours, Fresh
<1>3. head \in Of(share[it.runs]) /\ head # Error /\ head[1] \notin Elements(it.list)
  BY <1>2 DEF Ours, Kept, Fresh, Of, Sample, Error
<1>4. /\ SamplesOf(more, it.runs) = SamplesOf(items, it.runs) \cup {head}
      /\ \A n : SamplesOf(items, n) \subseteq SamplesOf(more, n)
      /\ \A n : Failed(more, n) <=> Failed(items, n)
  BY <1>3, Appended
<1>5. /\ DOMAIN more = DOMAIN items \cup {Len(items) + 1}
      /\ more[Len(items) + 1] = entry
      /\ \A i \in DOMAIN items : more[i] = items[i]
  OBVIOUS
<1> HIDE DEF head, more
<1>6. Kept(next, share)
  BY <1>2 DEF Ours, Kept
<1>7. Given(more, share)
  BY <1>3, <1>5 DEF Ours, Given, head
<1>8. Fresh(next, more)
  <2>1. Distinct(next.list) /\ Distinct(next.unread)
    BY <1>2 DEF Ours, Fresh
  <2>2. \A e \in Elements(next.unread) : e[1] \notin Elements(next.list)
    BY <1>2 DEF Ours, Fresh
  <2>3. \A i \in DOMAIN more : more[i].run <= next.runs
    BY <1>5 DEF Ours, Fresh, Iteration
  <2>4. \A e \in SamplesOf(more, next.runs) :
           e \notin Elements(next.unread) /\ e[1] \notin Elements(next.list)
    BY <1>2, <1>3, <1>4 DEF Ours, Fresh
  <2>5. \A i \in DOMAIN items :
           items[i].run = it.runs /\ items[i].sample # Error => items[i].sample # head
    <3>1. \A i \in DOMAIN items :
             items[i].run = it.runs /\ items[i].sample # Error =>
               items[i].sample \in SamplesOf(items, it.runs)
      BY DEF SamplesOf
    <3>2. QED
      BY <1>2, <3>1 DEF Ours, Fresh
  <2>6. \A i, j \in DOMAIN more :
           more[i].run = more[j].run /\ more[i].sample = more[j].sample
             /\ more[i].sample # Error => i = j
    BY <1>5, <2>5 DEF Ours, Fresh, head
  <2>7. QED
    BY <2>1, <2>2, <2>3, <2>4, <2>6 DEF Fresh
<1>9. handler # "stop" => Whole(next, more, share, handler)
  BY <1>2, <1>4 DEF Ours, Whole, Unfailed
<1>10. QED
  BY <1>6, <1>7, <1>8, <1>9 DEF Ours, more

(* an error is handed out, after which the run is not whole; *)
LEMMA OursFailed ==
  ASSUME NEW it \in Iteration, NEW next, NEW items \in Seq(Entry), NEW entry \in Entry,
         NEW share, NEW handler,
         Ours(it, items, share, handler),
         entry.run = it.runs, entry.sample = Error,
         next.unread = it.unread,
         Distinct(next.list), Elements(next.list) \subseteq Elements(it.list),
         handler = "continue" => next.list = it.list /\ next.done = it.done,
         next.runs = it.runs, next.finished = it.finished
  PROVE  Ours(next, Append(items, entry), share, handler)
<1> DEFINE more == Append(items, entry)
<1>1. /\ \A n : SamplesOf(more, n) = SamplesOf(items, n)
      /\ \A n : Failed(more, n) <=> Failed(items, n) \/ n = it.runs
  <2>1. \A n : {e \in {entry.sample} : entry.run = n /\ e # Error} = {}
    OBVIOUS
  <2>2. \A n : SamplesOf(more, n) = SamplesOf(items, n) \cup
                 {e \in {entry.sample} : entry.run = n /\ e # Error}
    BY Appended
  <2>3. \A n : Failed(more, n) <=>
               Failed(items, n) \/ (entry.run = n /\ entry.sample = Error)
    BY Appended
  <2> HIDE DEF more
  <2>4. QED
    BY <2>1, <2>2, <2>3
<1>2. /\ DOMAIN more = DOMAIN items \cup {Len(items) + 1}
      /\ more[Len(items) + 1] = entry
      /\ \A i \in DOMAIN items : more[i] = items[i]
  OBVIOUS
<1> HIDE DEF more
<1>3. Kept(next, share) /\ Given(more, share)
  BY <1>2 DEF Ours, Kept, Given
<1>4. Fresh(next, more)
  <2>1. \A i \in DOMAIN more : more[i].run <= next.runs
    BY <1>2 DEF Ours, Fresh, Iteration
  <2>2. \A i, j \in DOMAIN more :
           more[i].run = more[j].run /\ more[i].sample = more[j].sample
             /\ more[i].sample # Error => i = j
    BY <1>2 DEF Ours, Fresh
  <2>3. QED
    BY <1>1, <2>1, <2>2 DEF Ours, Fresh
<1>5. handler # "stop" => Whole(next, more, share, handler)
  BY <1>1 DEF Ours, Whole, Unfailed
<1>6. QED
  BY <1>3, <1>4, <1>5 DEF Ours, more

(* a shard is opened, or one that cannot be opened is passed over; *)
LEMMA OursNextShard ==
  ASSUME NEW it \in Iteration, NEW next, NEW items, NEW share, NEW handler, NEW s,
         Ours(it, items, share, handler), it.unread = <<>>,
         next.runs = it.runs, next.finished = it.finished,
         s \in Elements(it.list), s \notin Elements(next.list), Distinct(next.list),
         Elements(it.list) = {s} \cup Elements(next.list),
         handler # "stop" => next.done = it.done,
         Distinct(next.unread), Elements(next.unread) = Of({s})
  PROVE  Ours(next, items, share, handler)
<1>1. s \in share[it.runs]
  BY DEF Ours, Kept
<1>2. Kept(next, share)
  BY <1>1 DEF Ours, Kept, Of
<1>3. \A e \in Elements(next.unread) : e[1] = s
  BY DEF Of
<1>4. Fresh(next, items)
  BY <1>3 DEF Ours, Fresh
<1>5. ASSUME handler # "stop" PROVE Whole(next, items, share, handler)
  <2>1. Elements(it.unread) = {}
    BY DEF Elements
  <2>2. \A e \in Of(share[it.runs]) : e[1] = s => e \in Elements(next.unread)
    BY DEF Of
  <2>3. QED
    BY <1>5, <2>1, <2>2 DEF Ours, Whole, Unfailed
<1>6. Given(items, share)
  BY DEF Ours
<1>7. QED
  BY <1>2, <1>4, <1>5, <1>6 DEF Ours

(* the run ends, with nothing left of the share. *)
LEMMA OursEnded ==
  ASSUME NEW it \in Iteration, NEW next, NEW items, NEW share, NEW handler,
         Ours(it, items, share, handler), it.runs >= 1,
         it.unread = <<>>, ~it.done => it.list = <<>>,
         next.list = it.list, next.unread = it.unread,
         next.done = it.done, next.runs = it.runs,
         next.finished = it.finished \cup {it.runs}
  PROVE  Ours(next, items, share, handler)
<1>1. Kept(next, share) /\ Given(items, share) /\ Fresh(next, items)
  BY DEF Ours, Kept, Fresh
<1>2. ASSUME handler # "stop" PROVE Whole(next, items, share, handler)
  <2>1. Elements(<<>>) = {}
    BY DEF Elements
  <2>2. Unfailed(items, it.runs, handler) => Of(share[it.runs]) \subseteq SamplesOf(items, it.runs)
    BY <1>2, <2>1 DEF Ours, Whole, Unfailed
  <2>3. QED
    BY <1>2, <2>2 DEF Ours, Whole, Unfailed
<1>3. QED
  BY <1>1, <1>2 DEF Ours

(* The lists of other runs do not matter; *)
LEMMA OursElsewhere ==
  ASSUME NEW it \in Iteration, NEW items \in Seq(Entry), NEW share, NEW other, NEW handler,
         Ours(it, items, share, handler), it.finished \subseteq 1..it.runs,
         \A n \in 0..it.runs : other[n] = share[n]
  PROVE  Ours(it, items, other, handler)
<1>1. it.runs \in Nat /\ it.runs \in 0..it.runs
  BY DEF Iteration
<1>2. \A i \in DOMAIN items : items[i].run \in 0..it.runs
  <2>1. \A i \in DOMAIN items : items[i] \in Entry
    OBVIOUS
  <2>2. QED
    BY <1>1, <2>1 DEF Ours, Fresh, Entry
<1>3. other[it.runs] = share[it.runs] /\ \A n \in it.finished : other[n] = share[n]
  BY <1>1
<1>4. Kept(it, other) /\ Given(items, other)
  BY <1>2, <1>3 DEF Ours, Kept, Given
<1>5. handler # "stop" => Whole(it, items, other, handler)
  BY <1>3 DEF Ours, Whole
<1>6. QED
  BY <1>4, <1>5 DEF Ours

(* and a run that is about to begin may take its samples from a cache of the *)
(* share instead.                                                            *)
LEMMA OursReplayed ==
  ASSUME NEW it \in Iteration, NEW next, NEW items, NEW share, NEW handler,
         Ours(it, items, share, handler), SamplesOf(items, it.runs) = {},
         next.list = <<>>, ~next.done, next.runs = it.runs, next.finished = it.finished,
         Distinct(next.unread), Elements(next.unread) \subseteq Of(share[it.runs]),
         handler # "stop" => Of(share[it.runs]) \subseteq Elements(next.unread)
  PROVE  Ours(next, items, share, handler)
<1>1. Distinct(<<>>) /\ Elements(<<>>) = {}
  BY DEF Distinct, Elements
<1>2. Kept(next, share) /\ Given(items, share)
  BY <1>1 DEF Ours, Kept
<1>3. Fresh(next, items)
  BY <1>1 DEF Ours, Fresh
<1>4. handler # "stop" => Whole(next, items, share, handler)
  BY DEF Ours, Whole
<1>5. QED
  BY <1>2, <1>3, <1>4 DEF Ours

-----------------------------------------------------------------------------
(* The invariant: the types of everything, how far the counters are apart,  *)
(* and, where every run reads a list of its own to hand, Ours.              *)
Typed ==
  /\ plan \in Plans
  /\ drawn \in Seq(Mixes) /\ draws \in [Ranks -> 0..Len(drawn)]
  /\ cache \in [Ranks -> Seq(Seq(Sample))] /\ \A r \in Ranks : Len(cache[r]) <= 1
  /\ worker \in [Workers -> Iteration]
  /\ got \in [Workers -> Seq(Entry)]

(* Of one worker's iteration. *)
Counted(it) ==
  /\ it.iters <= plan.iters
  /\ it.taken <= MaxItems
  /\ it.pc \in {"start", "stage", "pull"} => it.taken < MaxItems
  /\ it.pc \in {"stage", "pull", "between"} => it.runs >= 1
  /\ it.produced <= it.taken
  /\ it.finished \subseteq 1..it.runs

(* What run n reads: the nth list drawn, where a process has one worker. *)
Listed(n) ==
  IF plan.list = "fixed" THEN Fixed ELSE IF n \in 1..Len(drawn) THEN drawn[n] ELSE <<>>

Dealt(w) == [n \in Nat |-> Elements(Share(Listed(n), w))]

(* The workers of a process share the generator of mixed lists and the cache. *)
(* What is drawn names no shard twice; an error that is handed out would      *)
(* leave a gap in the cache.                                                  *)
Alone == plan.list = "mixed" /\ plan.workers = 1

Plainly ==
  \/ plan.list = "fixed" /\ ~plan.cached
  \/ Alone /\ ~plan.cached /\ \A list \in Mixes : Distinct(list)
  \/ plan.list = "fixed" /\ plan.cached /\ plan.workers = 1 /\ plan.handler # "reraise"

(* A worker that replays has nothing to come but what is left of the cache. *)
View(it) ==
  IF it.source = "cache" /\ it.pc # "stage"
  THEN [it EXCEPT !.list = <<>>, !.unread = it.held, !.done = FALSE] ELSE it

(* What is collected for the cache is what the run has handed out. *)
Collects(it, items) ==
  /\ it.pc = "stage" => \A k \in DOMAIN items : items[k].run # it.runs
  /\ plan.cached /\ it.source = "shards" /\ it.pc \in {"pull", "between"} =>
       Distinct(it.held) /\ Elements(it.held) = SamplesOf(items, it.runs)

Owns(it, items, share) == Ours(View(it), items, share, plan.handler) /\ Collects(it, items)

(* The cache of a single worker is its share. *)
Stores(w) ==
  plan.cached /\ cache[w[1]] # <<>> =>
    LET all == cache[w[1]][1]
        share == Of(Elements(Share(Fixed, w)))
    IN /\ Distinct(all) /\ Elements(all) \subseteq share
       /\ plan.handler # "stop" => share \subseteq Elements(all)

OwnShares ==
  Plainly => \A w \in Workers : Owns(worker[w], got[w], Dealt(w)) /\ Stores(w)

InStep == Alone => \A w \in Workers : draws[w[1]] = worker[w].runs

IInv ==
  /\ Typed
  /\ \A w \in Workers : Counted(worker[w])
  /\ InStep
  /\ OwnShares

LEMMA ViewIs ==
  ASSUME NEW it \in Iteration
  PROVE  /\ View(it) \in Iteration
         /\ View(it).runs = it.runs /\ View(it).finished = it.finished
         /\ it.source = "shards" \/ it.pc = "stage" => View(it) = it
         /\ it.source = "cache" /\ it.pc # "stage" =>
              View(it).list = <<>> /\ View(it).unread = it.held /\ View(it).done = FALSE
<1>1. it.held \in Seq(Sample) /\ <<>> \in Seq(Shards \cup {Refused})
  BY DEF Iteration
<1>2. QED
  BY <1>1 DEF View, Iteration

LEMMA InitInv == Init => IInv
<1> SUFFICES ASSUME Init PROVE IInv
  OBVIOUS
<1>1. plan \in Plan
  BY PipelineAssumption DEF Init
<1>2. Idle \in Iteration
  BY DEF Idle, Iteration
<1>3. Typed
  BY <1>2 DEF Init, Typed
<1>4. Counted(Idle)
  BY <1>1, PipelineAssumption DEF Idle, Counted, Plan
<1>5. \A share : Owns(Idle, <<>>, share)
  <2>1. View(Idle) = Idle
    BY DEF View, Idle
  <2>2. \A share, handler : Ours(Idle, <<>>, share, handler)
    BY DEF Idle, Ours, Kept, Given, Fresh, Whole, Elements, Distinct, SamplesOf
  <2>3. Collects(Idle, <<>>)
    BY DEF Idle, Collects
  <2>4. QED
    BY <2>1, <2>2, <2>3 DEF Owns
<1>6. \A w \in Workers : w[1] \in Ranks
  BY PlanFacts DEF Init
<1>7. InStep
  BY <1>6 DEF Init, InStep, Idle
<1>8. OwnShares
  BY <1>5, <1>6 DEF Init, OwnShares, Stores
<1>9. QED
  BY <1>3, <1>4, <1>7, <1>8 DEF Init, IInv

(* What has been drawn stays, and more may be drawn by one process. *)
Draws(w, runs) ==
  /\ drawn' \in Seq(Mixes) /\ draws' \in [Ranks -> 0..Len(drawn')]
  /\ Len(drawn) <= Len(drawn') /\ \A n \in 1..Len(drawn) : drawn'[n] = drawn[n]
  /\ \A r \in Ranks : r # w[1] => draws'[r] = draws[r]
  /\ Alone => draws'[w[1]] = runs

LEMMA DealtStays ==
  ASSUME IInv, plan' = plan, NEW v \in Workers, Plainly,
         Len(drawn) <= Len(drawn'), \A n \in 1..Len(drawn) : drawn'[n] = drawn[n],
         drawn' \in Seq(Mixes), NEW n \in 0..worker[v].runs
  PROVE  Dealt(v)'[n] = Dealt(v)[n]
<1>1. worker[v].runs \in Nat /\ n \in Nat
  BY DEF IInv, Typed, Iteration
<1>2. Listed(n)' = Listed(n)
  <2>1. CASE plan.list = "fixed"
    BY <2>1 DEF Listed
  <2>2. CASE plan.list # "fixed"
    <3>1. Alone /\ v[1] \in Ranks
      BY <2>2, PlanFacts DEF Plainly, IInv, Typed
    <3>2. draws[v[1]] = worker[v].runs /\ draws[v[1]] \in 0..Len(drawn)
      BY <3>1 DEF IInv, InStep, Typed
    <3>3. Len(drawn) \in Nat /\ Len(drawn') \in Nat
      BY DEF IInv, Typed
    <3>4. n \in 1..Len(drawn) <=> n \in 1..Len(drawn')
      BY <1>1, <3>2, <3>3
    <3>5. QED
      BY <2>2, <3>4 DEF Listed
  <2>3. QED
    BY <2>1, <2>2
<1>3. Share(Listed(n), v)' = Share(Listed(n), v)
  BY <1>2 DEF Share, OfNode, Refuses
<1>4. QED
  BY <1>1, <1>3 DEF Dealt

(* A step that concerns one worker keeps the invariant if what that worker  *)
(* becomes is as the invariant says.                                        *)
LEMMA OneWorker ==
  ASSUME IInv, NEW w \in Workers, NEW it \in Iteration, NEW items \in Seq(Entry),
         worker' = [worker EXCEPT ![w] = it], got' = [got EXCEPT ![w] = items],
         plan' = plan, Draws(w, it.runs),
         cache' \in [Ranks -> Seq(Seq(Sample))], \A r \in Ranks : Len(cache'[r]) <= 1,
         Counted(it),
         Plainly => Owns(it, items, Dealt(w)') /\ \A v \in Workers : Stores(v)'
  PROVE  IInv'
<1>1. /\ Workers' = Workers /\ Ranks' = Ranks /\ Plainly' = Plainly /\ Alone' = Alone
      /\ plan \in Plans /\ worker \in [Workers -> Iteration] /\ got \in [Workers -> Seq(Entry)]
  BY DEF Workers, Team, Ranks, Plainly, Alone, IInv, Typed
<1>2. Typed'
  BY <1>1 DEF Typed, Draws
<1>3. \A v \in Workers : Counted(worker[v])'
  BY DEF IInv, Typed, Counted
<1>4. InStep'
  <2> SUFFICES ASSUME Alone, NEW v \in Workers PROVE draws'[v[1]] = worker'[v].runs
    BY <1>1 DEF InStep
  <2>1. CASE v = w
    BY <1>1, <2>1 DEF Draws
  <2>2. CASE v # w
    <3>1. v[1] # w[1] /\ v[1] \in Ranks
      <4>1. v[2] = 0 /\ w[2] = 0 /\ v = <<v[1], v[2]>> /\ w = <<w[1], w[2]>> /\ v[1] \in Ranks
        BY <1>1, PlanFacts DEF Alone
      <4>2. QED
        BY <2>2, <4>1
    <3>2. QED
      BY <1>1, <2>2, <3>1 DEF Draws, IInv, InStep
  <2>3. QED
    BY <2>1, <2>2
<1>5. OwnShares'
  <2> SUFFICES ASSUME Plainly, NEW v \in Workers
               PROVE  Owns(worker[v], got[v], Dealt(v))' /\ Stores(v)'
    BY <1>1 DEF OwnShares
  <2>1. Owns(worker'[v], got'[v], Dealt(v)') => Owns(worker[v], got[v], Dealt(v))'
    BY DEF Owns, Collects
  <2>2. CASE v = w
    BY <1>1, <2>1, <2>2
  <2>3. CASE v # w
    <3>1. /\ worker'[v] = worker[v] /\ got'[v] = got[v]
          /\ Owns(worker[v], got[v], Dealt(v)) /\ Counted(worker[v])
          /\ worker[v] \in Iteration /\ got[v] \in Seq(Entry)
      BY <1>1, <2>3 DEF IInv, OwnShares
    <3>2. View(worker[v]) \in Iteration /\ View(worker[v]).runs = worker[v].runs
          /\ View(worker[v]).finished \subseteq 1..worker[v].runs
      BY <3>1, ViewIs DEF Counted
    <3>3. \A n \in 0..worker[v].runs : Dealt(v)'[n] = Dealt(v)[n]
      BY DealtStays DEF Draws
    <3>4. Ours(View(worker[v]), got[v], Dealt(v)', plan.handler)
      BY <3>1, <3>2, <3>3, OursElsewhere DEF Owns
    <3>5. QED
      BY <2>1, <3>1, <3>4 DEF Owns
  <2>4. QED
    BY <2>2, <2>3
<1>6. QED
  BY <1>1, <1>2, <1>3, <1>4, <1>5 DEF IInv

(* What the invariant says of one worker. *)
LEMMA WorkerFacts ==
  ASSUME IInv, NEW w \in Workers
  PROVE  /\ worker[w] \in Iteration /\ got[w] \in Seq(Entry)
         /\ Counted(worker[w])
         /\ Plainly => Owns(worker[w], got[w], Dealt(w)) /\ Stores(w)
         /\ plan \in Plan
  BY PipelineAssumption DEF IInv, Typed, OwnShares

(* Nothing is drawn, and nothing cached. *)
LEMMA NothingDrawn ==
  ASSUME IInv, NEW w \in Workers, NEW it, it.runs = worker[w].runs,
         UNCHANGED <<plan, drawn, draws>>
  PROVE  Draws(w, it.runs) /\ Dealt(w)' = Dealt(w)
<1>1. Draws(w, it.runs)
  BY DEF IInv, Typed, InStep, Draws
<1>2. QED
  BY <1>1 DEF Dealt, Listed, Share, OfNode, Refuses

LEMMA NothingStored ==
  ASSUME IInv, UNCHANGED <<plan, cache>>
  PROVE  /\ cache' \in [Ranks -> Seq(Seq(Sample))] /\ \A r \in Ranks : Len(cache'[r]) <= 1
         /\ Plainly => \A v \in Workers : Stores(v)'
<1>1. ASSUME Plainly, NEW v \in Workers PROVE Stores(v)'
  BY <1>1, WorkerFacts DEF Stores, Share, OfNode, Refuses
<1>2. QED
  BY <1>1 DEF IInv, Typed

(* A step that hands out an item, or none, and concerns nobody else. *)
LEMMA ItsItem ==
  ASSUME IInv, NEW w \in Workers, NEW it \in Iteration, NEW items \in Seq(Entry),
         worker' = [worker EXCEPT ![w] = it], got' = [got EXCEPT ![w] = items],
         UNCHANGED <<plan, drawn, draws, cache>>, it.runs = worker[w].runs,
         Counted(it), Plainly => Owns(it, items, Dealt(w))
  PROVE  IInv'
<1>1. Draws(w, it.runs) /\ Dealt(w)' = Dealt(w)
  BY NothingDrawn
<1>2. QED
  BY <1>1, NothingStored, OneWorker

(* A step that concerns nothing but a worker's own iteration. *)
LEMMA OnlyItsIteration ==
  ASSUME IInv, NEW w \in Workers, NEW it \in Iteration,
         worker' = [worker EXCEPT ![w] = it],
         UNCHANGED <<plan, drawn, draws, cache, got>>, it.runs = worker[w].runs,
         Counted(it), Plainly => Owns(it, got[w], Dealt(w))
  PROVE  IInv'
<1>1. got' = [got EXCEPT ![w] = got[w]] /\ got[w] \in Seq(Entry)
  BY DEF IInv, Typed
<1>2. QED
  BY <1>1, ItsItem

(* What a step that reads nothing leaves. *)
LEMMA OwnsSame ==
  ASSUME NEW it \in Iteration, NEW next \in Iteration, NEW items, NEW share,
         Owns(it, items, share), it.pc # "stage", next.pc # "stage",
         next.pc \in {"pull", "between"} => it.pc \in {"pull", "between"},
         next.source = it.source, next.list = it.list, next.unread = it.unread,
         next.done = it.done, next.runs = it.runs, next.finished = it.finished,
         next.held = it.held
  PROVE  Owns(next, items, share)
<1>1. Ours(View(next), items, share, plan.handler)
  <2>1. /\ View(next).list = View(it).list /\ View(next).unread = View(it).unread
        /\ View(next).done = View(it).done /\ View(next).runs = View(it).runs
        /\ View(next).finished = View(it).finished
    <3>1. it.source \in {"shards", "cache"}
      BY DEF Iteration
    <3>2. CASE it.source = "shards"
      BY <3>2, ViewIs
    <3>3. CASE it.source = "cache"
      BY <3>3, ViewIs
    <3>4. QED
      BY <3>1, <3>2, <3>3
  <2>2. QED
    BY <2>1, OursSame DEF Owns
<1>2. Collects(next, items)
  BY DEF Owns, Collects
<1>3. QED
  BY <1>1, <1>2 DEF Owns

LEMMA ResumeKeeps ==
  ASSUME IInv, NEW w \in Workers, Resume(w) \/ Abandon(w) \/ NoEpochLeft(w)
  PROVE  IInv'
<1>1. PICK where \in {"ended", "pull", "dropped"} :
        /\ worker' = [worker EXCEPT ![w].pc = where]
        /\ where = "pull" => /\ worker[w].pc = "between"
                             /\ worker[w].taken < MaxItems
        /\ UNCHANGED <<plan, drawn, draws, cache, got>>
  BY DEF Resume, Abandon, NoEpochLeft
<1> DEFINE it == [worker[w] EXCEPT !.pc = where]
<1>2. worker' = [worker EXCEPT ![w] = it]
  BY <1>1
<1>3. it \in Iteration
  BY WorkerFacts DEF Iteration
<1>4. Counted(it)
  BY <1>1, WorkerFacts DEF Iteration, Counted
<1>5. Plainly => Owns(it, got[w], Dealt(w))
  <2>1. /\ worker[w] \in Iteration /\ worker[w].pc # "stage"
        /\ it.pc \in {"pull", "between"} => worker[w].pc \in {"pull", "between"}
    BY <1>1, WorkerFacts DEF Resume, Abandon, NoEpochLeft, Iteration
  <2>2. /\ it.pc = where /\ it.source = worker[w].source /\ it.list = worker[w].list
        /\ it.unread = worker[w].unread /\ it.done = worker[w].done
        /\ it.runs = worker[w].runs /\ it.finished = worker[w].finished
        /\ it.held = worker[w].held
    BY <2>1 DEF Iteration
  <2> HIDE DEF it
  <2>3. QED
    BY <1>3, <2>1, <2>2, WorkerFacts, OwnsSame
<1>r. it.runs = worker[w].runs
  BY WorkerFacts DEF Iteration
<1> HIDE DEF it
<1>6. QED
  BY <1>1, <1>2, <1>3, <1>4, <1>5, <1>r, OnlyItsIteration

(* A list that is drawn, by whoever is the first to. *)
LEMMA DrawIs ==
  ASSUME IInv, NEW r \in Ranks, NEW list \in Mixes, Draw(r, list)
  PROVE  /\ drawn' \in Seq(Mixes) /\ draws' \in [Ranks -> 0..Len(drawn')]
         /\ Len(drawn) <= Len(drawn') /\ \A n \in 1..Len(drawn) : drawn'[n] = drawn[n]
         /\ draws' = [draws EXCEPT ![r] = @ + 1]
         /\ draws[r] + 1 \in 1..Len(drawn') /\ drawn'[draws[r] + 1] = list
<1>1. drawn \in Seq(Mixes) /\ draws \in [Ranks -> 0..Len(drawn)] /\ Len(drawn) \in Nat
  BY DEF IInv, Typed
<1>2. draws' = [draws EXCEPT ![r] = @ + 1] /\ drawn'[draws[r] + 1] = list
  BY DEF Draw
<1>3. CASE draws[r] < Len(drawn)
  <2>1. drawn' = drawn
    BY <1>3 DEF Draw
  <2>2. draws[r] + 1 \in 1..Len(drawn)
    BY <1>1, <1>3
  <2>3. QED
    BY <1>1, <1>2, <2>1, <2>2
<1>4. CASE ~(draws[r] < Len(drawn))
  <2>1. drawn' = Append(drawn, list)
    BY <1>4 DEF Draw
  <2>2. /\ Len(drawn') = Len(drawn) + 1 /\ drawn' \in Seq(Mixes)
        /\ \A n \in 1..Len(drawn) : drawn'[n] = drawn[n]
    BY <1>1, <2>1
  <2>3. draws[r] = Len(drawn)
    BY <1>1, <1>4
  <2>4. QED
    BY <1>1, <1>2, <2>2, <2>3
<1>5. QED
  BY <1>3, <1>4

LEMMA StartKeeps ==
  ASSUME IInv, NEW w \in Workers, Start(w)
  PROVE  IInv'
<1>p. /\ plan \in Plans /\ plan \in Plan /\ w[1] \in Ranks /\ worker[w] \in Iteration
      /\ got[w] \in Seq(Entry) /\ plan' = plan
  BY WorkerFacts, PlanFacts DEF IInv, Typed, Start
<1>n. PICK n \in Nat : n = worker[w].runs + 1 /\ worker[w].runs \in Nat
  BY <1>p DEF Iteration
<1>1. /\ plan \in Plans /\ plan \in Plan /\ w[1] \in Ranks /\ worker[w] \in Iteration
      /\ got[w] \in Seq(Entry) /\ worker[w].runs \in Nat /\ plan' = plan
      /\ n = worker[w].runs + 1
  BY <1>p, <1>n
<1>2. PICK share \in Seq(Shards \cup {Refused}) :
        /\ worker' = Started(w, share) /\ Draws(w, n)
        /\ Plainly => Elements(share) = Dealt(w)'[n] /\ Distinct(share)
  <2>1. CASE plan.list = "fixed" /\ worker' = Started(w, Share(Fixed, w))
              /\ UNCHANGED <<drawn, draws>>
    <3>1. Share(Fixed, w) \in Seq(Shards \cup {Refused}) /\ Distinct(Share(Fixed, w))
      BY <1>1, FixedIs, ShareIs, DealtOnce
    <3>2. Draws(w, n)
      BY <2>1 DEF Draws, Alone, IInv, Typed
    <3>3. Dealt(w)'[n] = Elements(Share(Fixed, w))
      BY <1>1, <2>1 DEF Dealt, Listed, Share, OfNode, Refuses
    <3>4. QED
      BY <2>1, <3>1, <3>2, <3>3
  <2>2. CASE plan.list = "mixed" /\ \E list \in Mixes :
              Draw(w[1], list) /\ worker' = Started(w, Share(list, w))
    <3>1. PICK list \in Mixes : Draw(w[1], list) /\ worker' = Started(w, Share(list, w))
      BY <2>2
    <3>2. list \in Seq(Shards)
      BY PipelineAssumption
    <3>3. Share(list, w) \in Seq(Shards \cup {Refused})
      BY <1>1, <3>2, ShareIs
    <3>4. /\ drawn' \in Seq(Mixes) /\ draws' \in [Ranks -> 0..Len(drawn')]
          /\ Len(drawn) <= Len(drawn') /\ \A i \in 1..Len(drawn) : drawn'[i] = drawn[i]
          /\ draws' = [draws EXCEPT ![w[1]] = @ + 1]
          /\ draws[w[1]] + 1 \in 1..Len(drawn') /\ drawn'[draws[w[1]] + 1] = list
      BY <1>1, <3>1, DrawIs
    <3>5. Alone => draws[w[1]] + 1 = n
      BY <1>1 DEF IInv, InStep
    <3>6. Draws(w, n)
      BY <1>1, <3>4, <3>5 DEF Draws, IInv, Typed
    <3>7. ASSUME Plainly PROVE Elements(Share(list, w)) = Dealt(w)'[n] /\ Distinct(Share(list, w))
      <4>1. Alone /\ Distinct(list)
        BY <2>2, <3>7 DEF Plainly
      <4>2. Listed(n)' = list
        BY <1>1, <2>2, <3>4, <3>5, <4>1 DEF Listed
      <4>3. Share(Listed(n), w)' = Share(list, w)
        BY <1>1, <4>2 DEF Share, OfNode, Refuses
      <4>4. QED
        BY <1>1, <3>2, <4>1, <4>3, DealtOnce DEF Dealt
    <3>8. QED
      BY <3>1, <3>3, <3>6, <3>7
  <2>3. CASE plan.list = "resampled" /\ worker' = Started(w, <<>>)
              /\ UNCHANGED <<drawn, draws>>
    <3>1. <<>> \in Seq(Shards \cup {Refused}) /\ ~Plainly
      BY <2>3 DEF Plainly, Alone
    <3>2. Draws(w, n)
      BY <2>3 DEF Draws, Alone, IInv, Typed
    <3>3. QED
      BY <2>3, <3>1, <3>2
  <2>4. QED
    BY <2>1, <2>2, <2>3 DEF Start
<1> DEFINE it == [worker[w] EXCEPT !.pc = "stage",
                    !.left = IF @ = Forever THEN @ ELSE @ - 1, !.runs = @ + 1,
                    !.list = share, !.unread = <<>>, !.done = FALSE, !.produced = 0]
<1>3. worker' = [worker EXCEPT ![w] = it]
  BY <1>2 DEF Started
<1>4. worker[w].pc = "start" /\ worker[w].left # 0
  BY DEF Start
<1>5. it \in Iteration
  <2>1. (IF worker[w].left = Forever THEN worker[w].left ELSE worker[w].left - 1)
          \in Nat \cup {Forever}
    <3>1. worker[w].left \in Nat \cup {Forever}
      BY <1>1 DEF Iteration
    <3>2. QED
      BY <1>4, <3>1
  <2>2. <<>> \in Seq(Sample) /\ worker[w].runs + 1 \in Nat
    BY <1>1 DEF Iteration
  <2>3. QED
    BY <1>1, <2>1, <2>2 DEF Iteration
<1>6. Counted(it)
  BY <1>1, <1>4, WorkerFacts DEF Iteration, Counted
<1>7. Plainly => Owns(it, got[w], Dealt(w)')
  <2> SUFFICES ASSUME Plainly PROVE Owns(it, got[w], Dealt(w)')
    OBVIOUS
  <2>1. /\ it.pc = "stage" /\ it.list = share /\ it.unread = <<>>
        /\ it.done = FALSE /\ it.runs = n /\ it.finished = worker[w].finished
    BY <1>1 DEF Iteration
  <2> DEFINE was == View(worker[w])
  <2>2. was \in Iteration /\ was.runs = worker[w].runs /\ was.finished = worker[w].finished
    BY <1>1, ViewIs
  <2>3. Ours(was, got[w], Dealt(w), plan.handler) /\ Counted(worker[w])
    BY WorkerFacts DEF Owns
  <2>4. \A i \in 0..worker[w].runs : Dealt(w)'[i] = Dealt(w)[i]
    BY <1>1, <1>2, DealtStays DEF Draws
  <2> HIDE DEF it, was
  <2>5. Ours(was, got[w], Dealt(w)', plan.handler)
    BY <1>1, <2>2, <2>3, <2>4, OursElsewhere DEF Counted
  <2>6. Ours(it, got[w], Dealt(w)', plan.handler)
    BY <1>1, <1>2, <1>5, <2>1, <2>2, <2>5, OursStarted
  <2>7. Collects(it, got[w])
    <3>1. \A k \in DOMAIN got[w] : got[w][k] \in Entry
      BY <1>1
    <3>2. \A k \in DOMAIN got[w] : got[w][k].run <= worker[w].runs /\ got[w][k].run \in Nat
      BY <2>2, <2>3, <3>1 DEF Ours, Fresh, Entry
    <3>3. QED
      BY <1>1, <2>1, <3>2 DEF Collects
  <2>8. QED
    BY <1>5, <2>1, <2>6, <2>7, ViewIs DEF Owns
<1>r. it.runs = n
  BY <1>1 DEF Iteration
<1> HIDE DEF it
<1>8. /\ UNCHANGED <<plan, cache, got>>
      /\ got' = [got EXCEPT ![w] = got[w]]
  BY DEF Start, IInv, Typed
<1>9. QED
  BY <1>1, <1>2, <1>3, <1>5, <1>6, <1>7, <1>8, <1>r, NothingStored, OneWorker

LEMMA ApplyKeeps ==
  ASSUME IInv, NEW w \in Workers, Apply(w)
  PROVE  IInv'
<1>1. /\ worker[w] \in Iteration /\ w[1] \in Ranks
      /\ cache[w[1]] \in Seq(Seq(Sample)) /\ worker[w].pc = "stage"
  BY WorkerFacts, PlanFacts DEF IInv, Typed, Apply
<1> DEFINE full == plan.cached /\ cache[w[1]] # <<>>
           it == [worker[w] EXCEPT !.pc = "pull",
                    !.source = IF full THEN "cache" ELSE "shards",
                    !.held = IF full THEN cache[w[1]][1] ELSE <<>>]
<1>2. worker' = [worker EXCEPT ![w] = it] /\ UNCHANGED <<plan, drawn, draws, cache, got>>
  BY DEF Apply
<1>3. (IF full THEN cache[w[1]][1] ELSE <<>>) \in Seq(Sample)
  BY <1>1
<1>4. ASSUME Plainly, full
      PROVE  LET all == cache[w[1]][1]
                 share == Of(Dealt(w)[worker[w].runs])
             IN /\ Distinct(all) /\ Elements(all) \subseteq share
                /\ plan.handler # "stop" => share \subseteq Elements(all)
  <2>1. plan.list = "fixed" /\ worker[w].runs \in Nat
    BY <1>1, <1>4 DEF Plainly, Iteration
  <2>2. Dealt(w)[worker[w].runs] = Elements(Share(Fixed, w))
    BY <2>1 DEF Dealt, Listed
  <2>3. QED
    BY <1>4, <2>2, WorkerFacts DEF Stores
<1>5. full => plan.cached /\ cache[w[1]] # <<>>
  OBVIOUS
<1> HIDE DEF full
<1>6. it \in Iteration
  BY <1>1, <1>3 DEF Iteration
<1>7. /\ it.pc = "pull" /\ it.source = IF full THEN "cache" ELSE "shards"
      /\ it.held = IF full THEN cache[w[1]][1] ELSE <<>>
      /\ it.iters = worker[w].iters /\ it.taken = worker[w].taken
      /\ it.produced = worker[w].produced /\ it.list = worker[w].list
      /\ it.unread = worker[w].unread /\ it.done = worker[w].done
      /\ it.runs = worker[w].runs /\ it.finished = worker[w].finished
  BY <1>1 DEF Iteration
<1> HIDE DEF it
<1>8. Counted(it)
  BY <1>1, <1>7, WorkerFacts DEF Counted
<1>9. Plainly => Owns(it, got[w], Dealt(w))
  <2> SUFFICES ASSUME Plainly PROVE Owns(it, got[w], Dealt(w))
    OBVIOUS
  <2>1. Ours(worker[w], got[w], Dealt(w), plan.handler)
    BY <1>1, WorkerFacts, ViewIs DEF Owns
  <2>2. SamplesOf(got[w], worker[w].runs) = {}
    BY <1>1, WorkerFacts DEF Owns, Collects, SamplesOf
  <2>3. CASE full
    <3>1. /\ View(it).list = <<>> /\ View(it).unread = cache[w[1]][1] /\ ~View(it).done
          /\ View(it).runs = worker[w].runs /\ View(it).finished = worker[w].finished
      BY <1>6, <1>7, <2>3, ViewIs
    <3>2. Ours(View(it), got[w], Dealt(w), plan.handler)
      BY <1>1, <1>4, <2>1, <2>2, <2>3, <3>1, OursReplayed
    <3>3. Collects(it, got[w])
      BY <1>7, <2>3 DEF Collects
    <3>4. QED
      BY <3>2, <3>3 DEF Owns
  <2>4. CASE ~full
    <3>1. Ours(it, got[w], Dealt(w), plan.handler) /\ View(it) = it
      BY <1>6, <1>7, <2>1, <2>4, OursSame, ViewIs
    <3>2. Distinct(<<>>) /\ Elements(<<>>) = {}
      BY DEF Distinct, Elements
    <3>3. Collects(it, got[w])
      BY <1>7, <2>2, <2>4, <3>2 DEF Collects
    <3>4. QED
      BY <3>1, <3>3 DEF Owns
  <2>5. QED
    BY <2>3, <2>4
<1>10. QED
  BY <1>2, <1>6, <1>7, <1>8, <1>9, OnlyItsIteration

(* What an item handed out adds to the history. *)
LEMMA HandsFacts ==
  ASSUME IInv, NEW w \in Workers, NEW sample \in Sample \cup {Error}, Hands(w, sample)
  PROVE  /\ Item(w, sample) \in Entry
         /\ Item(w, sample).sample = sample /\ Item(w, sample).run = worker[w].runs
         /\ Append(got[w], Item(w, sample)) \in Seq(Entry)
         /\ got' = [got EXCEPT ![w] = Append(got[w], Item(w, sample))]
         /\ UNCHANGED <<plan, drawn, draws, cache>>
<1>1. worker[w] \in Iteration /\ got[w] \in Seq(Entry)
  BY WorkerFacts
<1>2. /\ Item(w, sample) \in Entry /\ Item(w, sample).sample = sample
      /\ Item(w, sample).run = worker[w].runs
  BY <1>1 DEF Item, Entry, Iteration
<1>3. QED
  BY <1>1, <1>2 DEF Hands, IInv, Typed

(* A worker as it hands out an item. *)
Handing(w) ==
  [worker[w] EXCEPT !.pc = "between", !.taken = @ + 1, !.produced = @ + 1]

LEMMA HandingFacts ==
  ASSUME IInv, NEW w \in Workers, worker[w].pc = "pull"
  PROVE  /\ Produced(worker, w) = [worker EXCEPT ![w] = Handing(w)]
         /\ Handing(w) \in Iteration
         /\ Counted(Handing(w))
         /\ Handing(w).unread = worker[w].unread /\ Handing(w).held = worker[w].held
         /\ Handing(w).source = worker[w].source /\ Handing(w).list = worker[w].list
         /\ Handing(w).runs = worker[w].runs /\ Handing(w).done = worker[w].done
         /\ Handing(w).finished = worker[w].finished
<1>1. worker[w] \in Iteration /\ worker \in [Workers -> Iteration]
  BY DEF IInv, Typed
<1>2. worker[w].taken + 1 \in Nat /\ worker[w].produced + 1 \in Nat
  BY <1>1 DEF Iteration
<1>3. Produced(worker, w) = [worker EXCEPT ![w] = Handing(w)]
  BY <1>1 DEF Produced, Handing
<1>4. Handing(w) \in Iteration
  BY <1>1, <1>2 DEF Handing, Iteration
<1>5. /\ Handing(w).pc = "between" /\ Handing(w).taken = worker[w].taken + 1
      /\ Handing(w).produced = worker[w].produced + 1
      /\ Handing(w).iters = worker[w].iters /\ Handing(w).runs = worker[w].runs
      /\ Handing(w).finished = worker[w].finished
      /\ Handing(w).source = worker[w].source /\ Handing(w).list = worker[w].list
      /\ Handing(w).unread = worker[w].unread /\ Handing(w).held = worker[w].held
      /\ Handing(w).done = worker[w].done
  BY <1>1 DEF Handing, Iteration
<1>6. Counted(Handing(w))
  BY <1>1, <1>5, WorkerFacts, PipelineAssumption DEF Counted, Iteration
<1>7. QED
  BY <1>3, <1>4, <1>5, <1>6

LEMMA AppendFacts ==
  ASSUME NEW list \in Seq(Sample), NEW e \in Sample
  PROVE  /\ Elements(Append(list, e)) = Elements(list) \cup {e}
         /\ Distinct(list) /\ e \notin Elements(list) => Distinct(Append(list, e))
<1> DEFINE more == Append(list, e)
           k == Len(list) + 1
<1>1. /\ DOMAIN more = DOMAIN list \cup {k} /\ more[k] = e /\ k \notin DOMAIN list
      /\ \A i \in DOMAIN list : more[i] = list[i]
  OBVIOUS
<1> HIDE DEF more, k
<1>2. Elements(more) = Elements(list) \cup {e}
  BY <1>1 DEF Elements
<1>3. ASSUME Distinct(list), e \notin Elements(list) PROVE Distinct(more)
  BY <1>1, <1>3 DEF Distinct, Elements
<1>4. QED
  BY <1>2, <1>3 DEF more

LEMMA TakeSampleKeeps ==
  ASSUME IInv, NEW w \in Workers, TakeSample(w)
  PROVE  IInv'
<1>1. /\ worker[w] \in Iteration /\ worker[w].unread \in Seq(Sample)
      /\ worker[w].held \in Seq(Sample) /\ got[w] \in Seq(Entry)
      /\ worker[w].pc = "pull" /\ worker[w].unread # <<>>
  BY WorkerFacts DEF TakeSample, Pulling, Iteration
<1> DEFINE unread == worker[w].unread
           sample == Head(unread)
           held == IF plan.cached THEN Append(worker[w].held, sample) ELSE worker[w].held
           it == [Handing(w) EXCEPT !.unread = Tail(unread), !.held = held]
           items == Append(got[w], Item(w, sample))
<1>2. sample \in Sample
  BY <1>1
<1>3. Tail(unread) \in Seq(Sample) /\ held \in Seq(Sample)
  BY <1>1, <1>2
<1>4. worker' = [worker EXCEPT ![w] = it]
  <2> DEFINE produced == Produced(worker, w)
  <2>1. worker' = [produced EXCEPT
                     ![w].unread = Tail(@),
                     ![w].held = IF plan.cached THEN Append(@, sample) ELSE @]
    BY DEF TakeSample
  <2>2. /\ produced = [worker EXCEPT ![w] = Handing(w)]
        /\ Handing(w).unread = unread /\ Handing(w).held = worker[w].held
        /\ Handing(w) \in Iteration /\ worker \in [Workers -> Iteration]
    BY <1>1, HandingFacts DEF IInv, Typed
  <2> HIDE DEF produced, sample
  <2>3. QED
    BY <2>1, <2>2 DEF Iteration
<1>5. /\ Item(w, sample) \in Entry /\ items \in Seq(Entry)
      /\ Item(w, sample).run = worker[w].runs /\ Item(w, sample).sample = sample
      /\ got' = [got EXCEPT ![w] = items] /\ UNCHANGED <<plan, drawn, draws, cache>>
  <2>1. Hands(w, sample)
    BY DEF TakeSample
  <2> HIDE DEF sample
  <2>2. QED
    BY <1>2, <2>1, HandsFacts
<1> HIDE DEF held
<1>6. it \in Iteration
  <2>1. Handing(w) \in Iteration
    BY <1>1, HandingFacts
  <2>2. QED
    BY <1>3, <2>1 DEF Iteration
<1>7. Counted(it)
  BY <1>1, HandingFacts DEF Iteration, Counted
<1>8. Plainly => Owns(it, items, Dealt(w))
  <2> SUFFICES ASSUME Plainly PROVE Owns(it, items, Dealt(w))
    OBVIOUS
  <2>1. /\ it.source = worker[w].source /\ it.list = worker[w].list
        /\ it.unread = Tail(worker[w].unread) /\ it.done = worker[w].done
        /\ it.runs = worker[w].runs /\ it.finished = worker[w].finished
        /\ it.pc = "between" /\ it.held = held
    BY <1>1, HandingFacts DEF Iteration, Handing
  <2> HIDE DEF it
  <2>2. worker[w].source = "shards" /\ View(worker[w]) = worker[w] /\ View(it) = it
    BY <1>1, <1>6, <2>1, ViewIs DEF TakeSample, Pulling
  <2>3. /\ Ours(worker[w], got[w], Dealt(w), plan.handler)
        /\ Collects(worker[w], got[w])
    BY <2>2, WorkerFacts DEF Owns
  <2>4. Ours(it, items, Dealt(w), plan.handler)
    BY <1>1, <1>5, <2>1, <2>3, OursHanded
  <2>5. Collects(it, items)
    <3> SUFFICES ASSUME plan.cached
                 PROVE  Distinct(held) /\ Elements(held) = SamplesOf(items, worker[w].runs)
      BY <2>1 DEF Collects
    <3>1. held = Append(worker[w].held, sample)
      BY DEF held
    <3>2. /\ Distinct(worker[w].held)
          /\ Elements(worker[w].held) = SamplesOf(got[w], worker[w].runs)
      BY <1>1, <2>2, <2>3 DEF Collects
    <3>3. sample \in Elements(worker[w].unread)
      BY <1>1, TailFacts
    <3>4. sample \notin SamplesOf(got[w], worker[w].runs)
      BY <2>3, <3>3 DEF Ours, Fresh
    <3>5. sample # Error
      BY <1>2 DEF Sample, Error
    <3>6. SamplesOf(items, worker[w].runs) = SamplesOf(got[w], worker[w].runs) \cup {sample}
      BY <1>1, <1>5, <3>5, Appended
    <3> HIDE DEF held, sample, items
    <3>7. QED
      BY <1>1, <1>2, <3>1, <3>2, <3>4, <3>6, AppendFacts
  <2>6. QED
    BY <2>2, <2>4, <2>5 DEF Owns
<1>r. it.runs = worker[w].runs
  BY <1>1, HandingFacts DEF Iteration
<1> HIDE DEF it, items
<1>9. QED
  BY <1>4, <1>5, <1>6, <1>7, <1>8, <1>r, ItsItem

(* The shuffle takes one shard out of the list, and makes up nothing. *)
LEMMA UpcomingFacts ==
  ASSUME IInv, NEW w \in Workers, NEW next \in Upcoming(w)
  PROVE  /\ next[2] \in Seq(Shards \cup {Refused})
         /\ next[1] \in Shards \cup {Refused}
         /\ Plainly /\ worker[w].source = "shards" =>
              /\ Elements(worker[w].list) = {next[1]} \cup Elements(next[2])
              /\ Distinct(next[2]) /\ next[1] \notin Elements(next[2])
<1> DEFINE list == worker[w].list
<1>1. list \in Seq(Shards \cup {Refused}) /\ plan.window \in Nat
  BY WorkerFacts DEF Iteration, Plan
<1>2. CASE next \in Shuffled(list)
  <2>1. PICK i \in DOMAIN list :
          next = <<list[i], [j \in 1..(Len(list) - 1) |-> list[IF j < i THEN j ELSE j + 1]]>>
    BY <1>2 DEF Shuffled
  <2>2. next[1] = list[i]
        /\ next[2] = [j \in 1..(Len(list) - 1) |-> list[IF j < i THEN j ELSE j + 1]]
    BY <2>1
  <2> DEFINE place(j) == IF j < i THEN j ELSE j + 1
             rest == next[2]
  <2>3. /\ \A j \in 1..(Len(list) - 1) : place(j) \in DOMAIN list /\ place(j) # i
        /\ \A j, k \in 1..(Len(list) - 1) : place(j) = place(k) => j = k
        /\ \A k \in DOMAIN list : k # i => \E j \in 1..(Len(list) - 1) : place(j) = k
    <3>1. DOMAIN list = 1..Len(list) /\ Len(list) \in Nat /\ i \in 1..Len(list)
      BY <1>1
    <3>2. \A k \in DOMAIN list : k # i =>
            LET j == IF k < i THEN k ELSE k - 1
            IN j \in 1..(Len(list) - 1) /\ place(j) = k
      BY <3>1
    <3>3. \A j \in 1..(Len(list) - 1) : place(j) \in DOMAIN list /\ place(j) # i
      BY <3>1
    <3>4. \A j, k \in 1..(Len(list) - 1) : place(j) = place(k) => j = k
      BY <3>1
    <3>5. QED
      BY <3>2, <3>3, <3>4
  <2>4. \A k \in DOMAIN list : list[k] \in Shards \cup {Refused}
    BY <1>1
  <2>5. Len(list) - 1 \in Nat
    BY <1>1
  <2>6. /\ DOMAIN rest = 1..(Len(list) - 1)
        /\ \A j \in 1..(Len(list) - 1) : rest[j] = list[place(j)]
    BY <2>2
  <2>7. rest \in Seq(Shards \cup {Refused})
    BY <2>2, <2>3, <2>4, <2>5
  <2> HIDE DEF place, rest
  <2>8. Elements(list) = {list[i]} \cup Elements(rest)
    <3>1. ASSUME NEW e \in Elements(list) PROVE e = list[i] \/ e \in Elements(rest)
      <4>1. PICK k \in DOMAIN list : list[k] = e
        BY DEF Elements
      <4>2. CASE k # i
        <5>1. PICK j \in 1..(Len(list) - 1) : place(j) = k
          BY <2>3, <4>2
        <5>2. rest[j] = e /\ j \in DOMAIN rest
          BY <2>6, <4>1, <5>1
        <5>3. QED
          BY <5>2 DEF Elements
      <4>3. QED
        BY <4>1, <4>2
    <3>2. Elements(rest) \subseteq Elements(list)
      BY <2>3, <2>6 DEF Elements
    <3>3. QED
      BY <3>1, <3>2 DEF Elements
  <2>9. ASSUME Plainly, worker[w].source = "shards"
        PROVE  Distinct(rest) /\ list[i] \notin Elements(rest)
    <3>1. Distinct(list)
      BY <2>9, WorkerFacts, ViewIs DEF Owns, Ours, Fresh
    <3>2. ASSUME NEW j \in DOMAIN rest, NEW k \in DOMAIN rest, rest[j] = rest[k]
          PROVE  j = k
      BY <2>3, <2>6, <3>1, <3>2 DEF Distinct
    <3>3. ASSUME NEW j \in DOMAIN rest PROVE rest[j] # list[i]
      BY <2>3, <2>6, <3>1 DEF Distinct
    <3>4. QED
      BY <3>2, <3>3 DEF Distinct, Elements
  <2>10. QED
    BY <2>2, <2>4, <2>7, <2>8, <2>9 DEF rest
<1>3. QED
  BY <1>2 DEF Upcoming

(* A shard drawn without end stands in the list until it is opened. *)
LEMMA DrawShardKeeps ==
  ASSUME IInv, NEW w \in Workers, DrawShard(w)
  PROVE  IInv'
<1>1. PICK s \in plan.pool :
        /\ worker' = [worker EXCEPT ![w].list = <<s>>]
        /\ UNCHANGED <<plan, drawn, draws, cache, got>>
  BY DEF DrawShard
<1> DEFINE it == [worker[w] EXCEPT !.list = <<s>>]
<1>2. worker[w] \in Iteration /\ worker \in [Workers -> Iteration]
  BY DEF IInv, Typed
<1>3. worker' = [worker EXCEPT ![w] = it]
  BY <1>1, <1>2 DEF Iteration
<1>4. <<s>> \in Seq(Shards \cup {Refused})
  <2>1. plan.pool \in SUBSET Shards
    BY WorkerFacts DEF Plan
  <2>2. s \in Shards
    BY <2>1
  <2>3. QED
    BY <2>2
<1>5. it \in Iteration /\ it.runs = worker[w].runs
  BY <1>2, <1>4 DEF Iteration
<1>6. Counted(it)
  BY <1>2, WorkerFacts DEF Iteration, Counted
<1>7. ~Plainly
  BY DEF DrawShard, Plainly, Alone
<1> HIDE DEF it
<1>8. QED
  BY <1>1, <1>3, <1>5, <1>6, <1>7, OnlyItsIteration

LEMMA OpenShardKeeps ==
  ASSUME IInv, NEW w \in Workers, OpenShard(w)
  PROVE  IInv'
<1>1. PICK next \in Upcoming(w) :
        /\ Opens(next[1]) /\ worker[w].unread = <<>> /\ Pulling(w, "shards")
        /\ worker' = [worker EXCEPT
             ![w].list = next[2],
             ![w].unread = [k \in 1..Urls[next[1]].samples |-> <<next[1], k>>]]
        /\ UNCHANGED <<plan, drawn, draws, cache, got>>
  BY DEF OpenShard, NextShard
<1> DEFINE unread == [k \in 1..Urls[next[1]].samples |-> <<next[1], k>>]
           it == [worker[w] EXCEPT !.list = next[2], !.unread = unread]
<1>2. worker[w] \in Iteration /\ worker \in [Workers -> Iteration]
  BY DEF IInv, Typed
<1>3. worker' = [worker EXCEPT ![w] = it]
  BY <1>1, <1>2 DEF Iteration
<1>4. next[1] \in Shards /\ next[2] \in Seq(Shards \cup {Refused})
  BY <1>1, UpcomingFacts DEF Opens
<1>5. Urls[next[1]].samples \in Nat
  BY <1>4, UrlFacts
<1>6. unread \in Seq(Sample)
  BY <1>4, <1>5 DEF Sample
<1>7. Distinct(unread)
  BY DEF Distinct
<1>8. Elements(unread) = Of({next[1]})
  <2>1. Elements(unread) = {<<next[1], k>> : k \in 1..Urls[next[1]].samples}
    BY DEF Elements
  <2>2. Of({next[1]}) = {e \in Sample : e[1] = next[1] /\ e[2] \in 1..Urls[next[1]].samples}
    BY <1>1 DEF Of
  <2>3. \A k \in 1..Urls[next[1]].samples : <<next[1], k>> \in Of({next[1]})
    <3>1. \A k \in 1..Urls[next[1]].samples : <<next[1], k>> \in Sample
      BY <1>4, <1>5 DEF Sample
    <3>2. QED
      BY <2>2, <3>1
  <2>4. \A e \in Of({next[1]}) : e = <<next[1], e[2]>> /\ e[2] \in 1..Urls[next[1]].samples
    BY <2>2 DEF Sample
  <2>5. QED
    BY <2>1, <2>3, <2>4
<1> HIDE DEF unread
<1>9. it \in Iteration
  BY <1>2, <1>4, <1>6 DEF Iteration
<1>10. Counted(it)
  BY <1>2, WorkerFacts DEF Iteration, Counted
<1>11. Plainly => Owns(it, got[w], Dealt(w))
  <2> SUFFICES ASSUME Plainly PROVE Owns(it, got[w], Dealt(w))
    OBVIOUS
  <2>1. /\ it.source = worker[w].source /\ it.list = next[2] /\ it.unread = unread
        /\ it.done = worker[w].done /\ it.runs = worker[w].runs
        /\ it.finished = worker[w].finished /\ it.pc = worker[w].pc /\ it.held = worker[w].held
    BY <1>2 DEF Iteration
  <2> HIDE DEF it
  <2>2. worker[w].source = "shards" /\ worker[w].pc = "pull"
    BY <1>1 DEF Pulling
  <2>3. View(worker[w]) = worker[w] /\ View(it) = it
    BY <1>2, <1>9, <2>1, <2>2, ViewIs
  <2>4. /\ Ours(worker[w], got[w], Dealt(w), plan.handler)
        /\ Collects(worker[w], got[w])
    BY <2>3, WorkerFacts DEF Owns
  <2>5. /\ next[1] \in Elements(worker[w].list)
        /\ next[1] \notin Elements(it.list) /\ Distinct(it.list)
        /\ Elements(worker[w].list) = {next[1]} \cup Elements(it.list)
    BY <2>1, <2>2, UpcomingFacts
  <2>6. Ours(it, got[w], Dealt(w), plan.handler)
    BY <1>1, <1>2, <1>7, <1>8, <2>1, <2>4, <2>5, OursNextShard
  <2>7. Collects(it, got[w])
    BY <2>1, <2>2, <2>4 DEF Collects
  <2>8. QED
    BY <2>3, <2>6, <2>7 DEF Owns
<1>r. it.runs = worker[w].runs
  BY <1>2 DEF Iteration
<1> HIDE DEF it
<1>12. QED
  BY <1>1, <1>3, <1>9, <1>10, <1>11, <1>r, OnlyItsIteration

LEMMA OpenFailsKeeps ==
  ASSUME IInv, NEW w \in Workers, OpenFails(w)
  PROVE  IInv'
<1>1. PICK next \in Upcoming(w) : NextShard(w, next) /\ ~Opens(next[1]) /\
        LET on == [worker EXCEPT ![w].list = next[2],
                                 ![w].done = plan.handler # "continue"]
        IN IF plan.handler = "reraise"
           THEN worker' = Produced(on, w) /\ Hands(w, Error)
           ELSE worker' = on /\ UNCHANGED <<plan, drawn, draws, cache, got>>
  BY DEF OpenFails
<1> DEFINE done == plan.handler # "continue"
           one == [worker[w] EXCEPT !.list = next[2], !.done = done]
           it == [Handing(w) EXCEPT !.list = next[2], !.done = done]
<1>2. worker[w] \in Iteration /\ worker \in [Workers -> Iteration]
  BY DEF IInv, Typed
<1>3. /\ worker[w].pc = "pull" /\ worker[w].unread = <<>> /\ ~worker[w].done
      /\ worker[w].source = "shards" /\ next[2] \in Seq(Shards \cup {Refused})
  BY <1>1, UpcomingFacts DEF NextShard, Pulling, Upcoming
<1>4. ASSUME Plainly
      PROVE  /\ next[1] \in Elements(worker[w].list) /\ next[1] \notin Elements(next[2])
             /\ Elements(worker[w].list) = {next[1]} \cup Elements(next[2])
             /\ Distinct(next[2])
             /\ Ours(worker[w], got[w], Dealt(w), plan.handler)
             /\ Collects(worker[w], got[w])
  <2>1. View(worker[w]) = worker[w]
    BY <1>2, <1>3, ViewIs
  <2>2. QED
    BY <1>3, <1>4, <2>1, UpcomingFacts, WorkerFacts DEF Owns
<1>5. [worker EXCEPT ![w].list = next[2], ![w].done = done] = [worker EXCEPT ![w] = one]
  BY <1>2 DEF Iteration
<1>6. CASE plan.handler # "reraise"
  <2>1. worker' = [worker EXCEPT ![w] = one] /\ UNCHANGED <<plan, drawn, draws, cache, got>>
    BY <1>1, <1>5, <1>6
  <2>2. one \in Iteration
    BY <1>2, <1>3 DEF Iteration
  <2>3. Counted(one)
    BY <1>2, WorkerFacts DEF Iteration, Counted
  <2>4. Plainly => Owns(one, got[w], Dealt(w))
    <3> SUFFICES ASSUME Plainly PROVE Owns(one, got[w], Dealt(w))
      OBVIOUS
    <3>1. /\ one.source = "shards" /\ one.list = next[2]
          /\ one.unread = <<>> /\ one.done = done /\ one.runs = worker[w].runs
          /\ one.finished = worker[w].finished /\ one.pc = "pull" /\ one.held = worker[w].held
      BY <1>2, <1>3 DEF Iteration
    <3>2. plan.handler # "stop" => one.done = worker[w].done
      <4>1. plan.handler \in {"continue", "stop", "reraise"}
        BY WorkerFacts DEF Plan
      <4>2. worker[w].done \in BOOLEAN
        BY <1>2 DEF Iteration
      <4>3. QED
        BY <1>3, <1>6, <3>1, <4>1, <4>2
    <3>3. Distinct(<<>>) /\ Elements(<<>>) = Of({next[1]})
      BY <1>1 DEF Distinct, Elements, Of
    <3> HIDE DEF one
    <3>4. Ours(one, got[w], Dealt(w), plan.handler)
      BY <1>2, <1>3, <1>4, <3>1, <3>2, <3>3, OursNextShard
    <3>5. Collects(one, got[w])
      BY <1>3, <1>4, <3>1 DEF Collects
    <3>6. QED
      BY <2>2, <3>1, <3>4, <3>5, ViewIs DEF Owns
  <2>r. one.runs = worker[w].runs
    BY <1>2 DEF Iteration
  <2> HIDE DEF one
  <2>5. QED
    BY <2>1, <2>2, <2>3, <2>4, <2>r, OnlyItsIteration
<1>7. CASE plan.handler = "reraise"
  <2> DEFINE items == Append(got[w], Item(w, Error))
  <2>1. worker' = Produced([worker EXCEPT ![w] = one], w) /\ Hands(w, Error)
    BY <1>1, <1>5, <1>7
  <2>2. worker' = [worker EXCEPT ![w] = it]
    <3>1. [one EXCEPT !.pc = "between", !.taken = @ + 1, !.produced = @ + 1] = it
      BY <1>2 DEF Handing, Iteration
    <3> HIDE DEF one, it
    <3>2. QED
      BY <1>2, <2>1, <3>1 DEF Produced
  <2>3. it \in Iteration
    <3>1. Handing(w) \in Iteration /\ done \in BOOLEAN
      BY <1>3, HandingFacts
    <3>2. QED
      BY <1>3, <3>1 DEF Iteration
  <2>4. Counted(it)
    BY <1>3, HandingFacts DEF Iteration, Counted
  <2>5. /\ Item(w, Error) \in Entry /\ items \in Seq(Entry) /\ got[w] \in Seq(Entry)
        /\ Item(w, Error).run = worker[w].runs /\ Item(w, Error).sample = Error
        /\ got' = [got EXCEPT ![w] = items] /\ UNCHANGED <<plan, drawn, draws, cache>>
    BY <2>1, HandsFacts, WorkerFacts
  <2>6. Plainly => Owns(it, items, Dealt(w))
    <3> SUFFICES ASSUME Plainly PROVE Owns(it, items, Dealt(w))
      OBVIOUS
    <3>1. /\ it.source = "shards" /\ it.list = next[2]
          /\ it.unread = worker[w].unread /\ it.runs = worker[w].runs
          /\ it.finished = worker[w].finished /\ it.pc = "between"
      BY <1>3, HandingFacts DEF Iteration, Handing
    <3> HIDE DEF it
    <3>2. Distinct(it.list) /\ Elements(it.list) \subseteq Elements(worker[w].list)
      BY <1>4, <3>1
    <3>3. Ours(it, items, Dealt(w), plan.handler)
      BY <1>2, <1>4, <1>7, <2>5, <3>1, <3>2, OursFailed
    <3>4. Collects(it, items)
      BY <1>7, <3>1 DEF Collects, Plainly
    <3>5. QED
      BY <2>3, <3>1, <3>3, <3>4, ViewIs DEF Owns
  <2>r. it.runs = worker[w].runs
    BY <1>3, HandingFacts DEF Iteration
  <2> HIDE DEF it, items
  <2>7. QED
    BY <2>2, <2>3, <2>4, <2>5, <2>6, <2>r, ItsItem
<1>8. QED
  BY <1>6, <1>7

LEMMA ReportEmptyKeeps ==
  ASSUME IInv, NEW w \in Workers, ReportEmpty(w)
  PROVE  IInv'
<1> DEFINE items == Append(got[w], Item(w, Error))
<1>1. /\ worker[w].pc = "pull" /\ worker[w].source = "shards"
      /\ worker' = Produced(worker, w) /\ Hands(w, Error) /\ worker[w] \in Iteration
  BY WorkerFacts DEF ReportEmpty, SourceEnds, Pulling
<1>2. /\ Item(w, Error) \in Entry /\ items \in Seq(Entry) /\ got[w] \in Seq(Entry)
      /\ Item(w, Error).run = worker[w].runs /\ Item(w, Error).sample = Error
      /\ got' = [got EXCEPT ![w] = items] /\ UNCHANGED <<plan, drawn, draws, cache>>
  BY <1>1, HandsFacts, WorkerFacts
<1>3. Plainly => Owns(Handing(w), items, Dealt(w))
  <2> SUFFICES ASSUME Plainly PROVE Owns(Handing(w), items, Dealt(w))
    OBVIOUS
  <2>1. /\ View(worker[w]) = worker[w] /\ View(Handing(w)) = Handing(w)
        /\ Handing(w) \in Iteration /\ Handing(w).pc = "between"
    <3>1. Handing(w).pc = "between"
      BY <1>1 DEF Handing, Iteration
    <3>2. QED
      BY <1>1, <3>1, HandingFacts, ViewIs
  <2>2. /\ Ours(worker[w], got[w], Dealt(w), plan.handler)
        /\ Collects(worker[w], got[w])
    BY <2>1, WorkerFacts DEF Owns
  <2>3. Distinct(worker[w].list)
    BY <2>2 DEF Ours, Fresh
  <2>4. Ours(Handing(w), items, Dealt(w), plan.handler)
    BY <1>1, <1>2, <2>2, <2>3, HandingFacts, OursFailed
  <2>5. SamplesOf(items, worker[w].runs) = SamplesOf(got[w], worker[w].runs)
    <3>1. {e \in {Item(w, Error).sample} : Item(w, Error).run = worker[w].runs /\ e # Error} = {}
      BY <1>2
    <3>2. SamplesOf(items, worker[w].runs) = SamplesOf(got[w], worker[w].runs) \cup
            {e \in {Item(w, Error).sample} : Item(w, Error).run = worker[w].runs /\ e # Error}
      BY <1>2, Appended
    <3> HIDE DEF items
    <3>3. QED
      BY <3>1, <3>2
  <2>6. Collects(Handing(w), items)
    BY <1>1, <2>1, <2>2, <2>5, HandingFacts DEF Collects
  <2>7. QED
    BY <2>1, <2>4, <2>6 DEF Owns
<1> HIDE DEF items
<1>4. QED
  BY <1>1, <1>2, <1>3, HandingFacts, ItsItem

(* The end of a run, read or replayed. *)
LEMMA EndKeeps ==
  ASSUME IInv, NEW w \in Workers, EndRun(w) \/ EndReplay(w)
  PROVE  IInv'
<1>1. worker[w] \in Iteration /\ worker \in [Workers -> Iteration] /\ w[1] \in Ranks
  BY PlanFacts DEF IInv, Typed
<1> DEFINE it == [worker[w] EXCEPT !.pc = Over(w), !.finished = @ \cup {worker[w].runs}]
<1>2. /\ worker[w].pc = "pull" /\ worker' = [worker EXCEPT ![w] = it]
      /\ UNCHANGED <<plan, drawn, draws, got>>
  BY <1>1 DEF EndRun, EndReplay, SourceEnds, Pulling, Iteration
<1>3. Over(w) \in {"ended", "start"}
  BY DEF Over
<1>4. it \in Iteration
  BY <1>1, <1>3 DEF Iteration
<1>5. Counted(it)
  <2>1. Counted(worker[w])
    BY WorkerFacts
  <2>2. worker[w].runs \in 1..worker[w].runs
    BY <1>1, <1>2, <2>1 DEF Counted, Iteration
  <2>3. QED
    BY <1>1, <1>2, <1>3, <2>1, <2>2 DEF Counted, Iteration
<1>i. /\ it.source = worker[w].source /\ it.list = worker[w].list
      /\ it.unread = worker[w].unread /\ it.done = worker[w].done /\ it.held = worker[w].held
      /\ it.runs = worker[w].runs /\ it.finished = worker[w].finished \cup {worker[w].runs}
      /\ it.pc = Over(w)
  BY <1>1 DEF Iteration
<1> HIDE DEF it
<1>e. ASSUME EndRun(w), Plainly
      PROVE  /\ worker[w].source = "shards" /\ View(worker[w]) = worker[w] /\ worker[w].unread = <<>>
             /\ ~worker[w].done => worker[w].list = <<>>
  <2>1. worker[w].source = "shards" /\ worker[w].unread = <<>> /\ Upcoming(w) = {}
    BY <1>e DEF EndRun, SourceEnds, Pulling
  <2>2. ~worker[w].done => worker[w].list = <<>>
    <3> SUFFICES ASSUME ~worker[w].done, worker[w].list # <<>> PROVE FALSE
      OBVIOUS
    <3>1. Shuffled(worker[w].list) = {}
      BY <2>1 DEF Upcoming
    <3>2. 1 \in DOMAIN worker[w].list /\ 1 <= plan.window
      BY <1>1, WorkerFacts DEF Iteration, Plan
    <3>3. QED
      BY <3>1, <3>2 DEF Shuffled
  <2>3. QED
    BY <1>1, <2>1, <2>2, ViewIs
<1>6. Plainly => Owns(it, got[w], Dealt(w))
  <2> SUFFICES ASSUME Plainly PROVE Owns(it, got[w], Dealt(w))
    OBVIOUS
  <2>1. worker[w].runs >= 1 /\ Ours(View(worker[w]), got[w], Dealt(w), plan.handler)
    BY <1>2, WorkerFacts DEF Counted, Owns
  <2>2. View(worker[w]).runs = worker[w].runs /\ View(worker[w]) \in Iteration
    BY <1>1, ViewIs
  <2>3. /\ View(worker[w]).unread = <<>>
        /\ ~View(worker[w]).done => View(worker[w]).list = <<>>
        /\ View(it).list = View(worker[w]).list /\ View(it).unread = View(worker[w]).unread
        /\ View(it).done = View(worker[w]).done /\ View(it).runs = View(worker[w]).runs
        /\ View(it).finished = View(worker[w]).finished \cup {worker[w].runs}
    <3>1. CASE EndRun(w)
      BY <1>e, <1>i, <1>4, <3>1, ViewIs
    <3>2. CASE EndReplay(w)
      <4>1. worker[w].source = "cache" /\ worker[w].held = <<>> /\ it.pc # "stage"
        BY <1>3, <1>i, <3>2 DEF EndReplay, Pulling
      <4>2. QED
        BY <1>1, <1>2, <1>i, <1>4, <4>1, ViewIs
    <3>3. QED
      BY <3>1, <3>2
  <2>4. Ours(View(it), got[w], Dealt(w), plan.handler)
    BY <2>1, <2>2, <2>3, OursEnded
  <2>5. Collects(it, got[w])
    BY <1>3, <1>i DEF Collects
  <2>6. QED
    BY <2>4, <2>5 DEF Owns
<1>s. ASSUME Plainly, NEW v \in Workers PROVE Stores(v)'
  <2>1. plan' = plan /\ Share(Fixed, v)' = Share(Fixed, v) /\ v[1] \in Ranks
    BY <1>2, PlanFacts DEF Share, OfNode, Refuses, IInv, Typed
  <2>2. CASE cache'[v[1]] = cache[v[1]]
    BY <1>s, <2>1, <2>2, WorkerFacts DEF Stores
  <2>3. CASE cache'[v[1]] # cache[v[1]]
    <3>1. EndRun(w) /\ plan.cached /\ cache' = [cache EXCEPT ![w[1]] = <<worker[w].held>>]
      BY <2>3 DEF EndRun, EndReplay
    <3>2. v = w
      <4>1. plan.workers = 1 /\ v[1] = w[1]
        BY <1>s, <2>1, <2>3, <3>1 DEF Plainly, IInv, Typed
      <4>2. /\ v = <<v[1], v[2]>> /\ v[2] \in 0..(plan.workers - 1)
            /\ w = <<w[1], w[2]>> /\ w[2] \in 0..(plan.workers - 1)
        BY PlanFacts DEF IInv, Typed
      <4>3. v[2] = 0 /\ w[2] = 0
        BY <4>1, <4>2
      <4>4. QED
        BY <4>1, <4>2, <4>3
    <3>3. cache'[v[1]] = <<worker[w].held>>
      BY <1>1, <3>1, <3>2 DEF IInv, Typed
    <3> DEFINE n == worker[w].runs
               share == Of(Elements(Share(Fixed, w)))
               items == got[w]
    <3>4. /\ plan.list = "fixed" /\ plan.handler \in {"continue", "stop"} /\ n \in Nat /\ n >= 1
          /\ worker[w].pc = "pull"
      BY <1>1, <1>2, <1>s, <3>1, WorkerFacts DEF Plainly, Alone, Plan, Iteration, Counted
    <3>5. Of(Dealt(w)[n]) = share
      BY <3>4 DEF Dealt, Listed
    <3>6. /\ Ours(worker[w], items, Dealt(w), plan.handler) /\ Collects(worker[w], items)
          /\ worker[w].unread = <<>> /\ worker[w].source = "shards"
          /\ ~worker[w].done => worker[w].list = <<>>
      BY <1>e, <1>s, <3>1, WorkerFacts DEF Owns
    <3>7. Distinct(worker[w].held) /\ Elements(worker[w].held) = SamplesOf(items, n)
      BY <3>1, <3>4, <3>6 DEF Collects
    <3>8. SamplesOf(items, n) \subseteq share
      BY <3>5, <3>6 DEF Ours, Given, SamplesOf
    <3>9. plan.handler # "stop" => share \subseteq SamplesOf(items, n)
      <4>1. Elements(<<>>) = {}
        BY DEF Elements
      <4>2. plan.handler # "stop" =>
              /\ ~worker[w].done
              /\ \A e \in share : \/ e \in SamplesOf(items, n) \/ e \in Elements(worker[w].unread)
                                 \/ e[1] \in Elements(worker[w].list)
        <5> HIDE DEF share, items
        <5>1. QED
          BY <3>4, <3>5, <3>6 DEF Ours, Whole, Unfailed
      <4>3. QED
        BY <3>6, <4>1, <4>2
    <3> HIDE DEF share, items, n
    <3>10. /\ Distinct(worker[w].held) /\ Elements(worker[w].held) \subseteq share
           /\ plan.handler # "stop" => share \subseteq Elements(worker[w].held)
      BY <3>7, <3>8, <3>9
    <3>11. Stores(w)'
      BY <2>1, <3>2, <3>3, <3>10 DEF Stores, share, Of, Opens
    <3>12. QED
      BY <3>2, <3>11
  <2>4. QED
    BY <2>2, <2>3
<1>7. /\ cache' \in [Ranks -> Seq(Seq(Sample))]
      /\ \A r \in Ranks : Len(cache'[r]) <= 1
  <2>1. CASE cache' = cache
    BY <2>1 DEF IInv, Typed
  <2>2. CASE cache' = [cache EXCEPT ![w[1]] = <<worker[w].held>>]
    <3>1. <<worker[w].held>> \in Seq(Seq(Sample)) /\ Len(<<worker[w].held>>) = 1
      BY <1>1 DEF Iteration
    <3>2. QED
      BY <1>1, <2>2, <3>1 DEF IInv, Typed
  <2>3. QED
    BY <2>1, <2>2 DEF EndRun, EndReplay
<1>8. /\ got' = [got EXCEPT ![w] = got[w]] /\ got[w] \in Seq(Entry)
      /\ Draws(w, it.runs) /\ Dealt(w)' = Dealt(w)
  BY <1>2, <1>i, WorkerFacts, NothingDrawn DEF IInv, Typed
<1>9. QED
  BY <1>2, <1>4, <1>5, <1>6, <1>7, <1>8, <1>s, OneWorker

(* A sample of the cache is handed out as one of the run's own would be. *)
LEMMA ReplayKeeps ==
  ASSUME IInv, NEW w \in Workers, Replay(w)
  PROVE  IInv'
<1> DEFINE held == worker[w].held
           it == [Handing(w) EXCEPT !.held = Tail(held)]
<1>1. /\ worker[w] \in Iteration /\ worker \in [Workers -> Iteration]
      /\ worker[w].pc = "pull" /\ worker[w].source = "cache"
      /\ held \in Seq(Sample) /\ held # <<>> /\ Hands(w, Head(held))
  BY DEF IInv, Typed, Replay, Pulling, Iteration
<1>3. Head(held) \in Sample /\ Tail(held) \in Seq(Sample)
  BY <1>1
<1>4. worker' = [worker EXCEPT ![w] = it]
  <2> DEFINE produced == Produced(worker, w)
  <2>1. worker' = [produced EXCEPT ![w].held = Tail(@)]
    BY DEF Replay
  <2>2. /\ produced = [worker EXCEPT ![w] = Handing(w)]
        /\ Handing(w).held = held /\ Handing(w) \in Iteration
    BY <1>1, HandingFacts
  <2> HIDE DEF produced
  <2>3. QED
    BY <1>1, <2>1, <2>2 DEF Iteration
<1>5. it \in Iteration
  <2>1. Handing(w) \in Iteration
    BY <1>1, HandingFacts
  <2>2. QED
    BY <1>3, <2>1 DEF Iteration
<1>6. Counted(it)
  BY <1>1, HandingFacts DEF Iteration, Counted
<1> DEFINE entry == Item(w, Head(held))
           items == Append(got[w], entry)
<1>7. /\ entry \in Entry /\ entry.sample = Head(held) /\ entry.run = worker[w].runs
      /\ items \in Seq(Entry) /\ got[w] \in Seq(Entry)
      /\ got' = [got EXCEPT ![w] = items] /\ UNCHANGED <<plan, drawn, draws, cache>>
  BY <1>1, <1>3, HandsFacts, WorkerFacts
<1>8. /\ it.source = "cache" /\ it.pc = "between" /\ it.held = Tail(held)
      /\ it.runs = worker[w].runs /\ it.finished = worker[w].finished
  BY <1>1, HandingFacts DEF Iteration, Handing
<1>9. Plainly => Owns(it, items, Dealt(w))
  <2> SUFFICES ASSUME Plainly PROVE Owns(it, items, Dealt(w))
    OBVIOUS
  <2> DEFINE was == View(worker[w])
             next == View(it)
  <2>1. /\ was \in Iteration /\ was.runs = worker[w].runs /\ was.finished = worker[w].finished
        /\ was.list = <<>> /\ was.unread = held /\ was.done = FALSE
    BY <1>1, ViewIs
  <2>2. /\ next.runs = it.runs /\ next.finished = it.finished
        /\ next.list = <<>> /\ next.unread = Tail(held) /\ next.done = FALSE
    BY <1>5, <1>8, ViewIs
  <2>3. Ours(was, got[w], Dealt(w), plan.handler)
    BY WorkerFacts DEF Owns
  <2> HIDE DEF it, held, entry, was, next
  <2>4. Ours(next, items, Dealt(w), plan.handler)
    BY <1>1, <1>7, <1>8, <2>1, <2>2, <2>3, OursHanded
  <2>5. Collects(it, items)
    BY <1>8 DEF Collects
  <2>6. QED
    BY <2>4, <2>5 DEF Owns, next
<1> HIDE DEF it, held, entry, items
<1>10. QED
  BY <1>4, <1>5, <1>6, <1>7, <1>8, <1>9, ItsItem

LEMMA IterateKeeps ==
  ASSUME IInv, NEW r \in Ranks, Iterate(r)
  PROVE  IInv'
<1> DEFINE it(w) == [worker[w] EXCEPT !.pc = "start", !.iters = @ + 1,
                       !.left = plan.repeats, !.taken = 0, !.produced = 0]
<1>1. /\ worker' = [w \in Workers |-> IF w \notin Team(r) THEN worker[w] ELSE it(w)]
      /\ \A w \in Team(r) : /\ worker[w].iters < plan.iters
                            /\ worker[w].pc \in {"none", "ended", "dropped"}
      /\ UNCHANGED <<plan, drawn, draws, cache, got>>
  BY DEF Iterate
<1>2. /\ plan.repeats \in Nat \cup {Forever} /\ plan.iters \in Nat /\ plan \in Plan
  BY PipelineAssumption DEF IInv, Typed, Plan
<1>3. /\ Workers' = Workers /\ Ranks' = Ranks /\ Plainly' = Plainly /\ Alone' = Alone
      /\ \A w : Dealt(w)' = Dealt(w)
  <2>1. Workers' = Workers /\ Ranks' = Ranks /\ Plainly' = Plainly /\ Alone' = Alone
    BY <1>1 DEF Workers, Team, Ranks, Plainly, Alone
  <2>2. plan' = plan /\ drawn' = drawn
    BY <1>1
  <2>3. \A w : Dealt(w)' = Dealt(w)
    BY <2>2 DEF Dealt, Listed, Share, OfNode, Refuses
  <2>4. QED
    BY <2>1, <2>3
<1>4. ASSUME NEW w \in Workers, w \in Team(r)
      PROVE  /\ it(w) \in Iteration /\ Counted(it(w))
             /\ Plainly => Owns(it(w), got[w], Dealt(w))
             /\ it(w).runs = worker[w].runs
  <2>1. worker[w] \in Iteration /\ Counted(worker[w]) /\ worker[w].iters < plan.iters
    BY <1>1, <1>4, WorkerFacts
  <2>2. worker[w].iters + 1 \in Nat
    BY <2>1 DEF Iteration
  <2>3. it(w) \in Iteration
    BY <1>2, <2>1, <2>2 DEF Iteration
  <2>4. Counted(it(w))
    <3>1. /\ it(w).pc = "start" /\ it(w).iters = worker[w].iters + 1
          /\ it(w).taken = 0 /\ it(w).produced = 0
          /\ it(w).runs = worker[w].runs /\ it(w).finished = worker[w].finished
      BY <2>1 DEF Iteration
    <3>2. worker[w].iters \in Nat
      BY <2>1 DEF Iteration
    <3>3. worker[w].finished \subseteq 1..worker[w].runs
      BY <2>1 DEF Counted
    <3> HIDE DEF it
    <3>4. QED
      BY <1>2, <2>1, <3>1, <3>2, <3>3, PipelineAssumption DEF Counted
  <2>5. /\ it(w).source = worker[w].source /\ it(w).list = worker[w].list
        /\ it(w).unread = worker[w].unread /\ it(w).done = worker[w].done
        /\ it(w).runs = worker[w].runs /\ it(w).finished = worker[w].finished
        /\ it(w).held = worker[w].held /\ it(w).pc = "start"
    BY <2>1 DEF Iteration
  <2>6. Plainly => Owns(it(w), got[w], Dealt(w))
    <3>1. worker[w].pc # "stage"
      BY <1>1, <1>4
    <3> HIDE DEF it
    <3>2. QED
      BY <2>1, <2>3, <2>5, <3>1, WorkerFacts, OwnsSame
  <2>7. QED
    BY <2>3, <2>4, <2>5, <2>6
<1> HIDE DEF it
<1>5. Typed'
  BY <1>1, <1>3, <1>4 DEF IInv, Typed
<1>6. \A w \in Workers : Counted(worker[w])'
  <2>1. \A w \in Workers : Counted(worker'[w])
    BY <1>1, <1>4 DEF IInv
  <2>2. QED
    BY <1>1, <2>1 DEF Counted
<1>7. OwnShares'
  <2> SUFFICES ASSUME Plainly, NEW v \in Workers
               PROVE  Owns(worker[v], got[v], Dealt(v))' /\ Stores(v)'
    BY <1>3 DEF OwnShares
  <2>1. Owns(worker'[v], got[v], Dealt(v))
    BY <1>1, <1>4, WorkerFacts
  <2>2. Owns(worker[v], got[v], Dealt(v))'
    BY <1>1, <1>3, <2>1 DEF Owns, Collects
  <2>3. QED
    BY <1>1, <2>2, NothingStored
<1>8. InStep'
  <2>1. \A w \in Workers : worker'[w].runs = worker[w].runs
    BY <1>1, <1>4
  <2>2. QED
    BY <1>1, <1>3, <2>1 DEF IInv, InStep
<1>9. QED
  BY <1>3, <1>5, <1>6, <1>7, <1>8 DEF IInv

LEMMA NextInv == IInv /\ [Next]_vars => IInv'
<1> SUFFICES ASSUME IInv, [Next]_vars PROVE IInv'
  OBVIOUS
<1>1. ASSUME NEW r \in Ranks, Iterate(r) PROVE IInv'
  BY <1>1, IterateKeeps
<1>2. ASSUME NEW w \in Workers, Resume(w) \/ Abandon(w) \/ Step(w) PROVE IInv'
  BY <1>2, ResumeKeeps, StartKeeps, ApplyKeeps, TakeSampleKeeps, DrawShardKeeps,
     OpenShardKeeps, OpenFailsKeeps, ReportEmptyKeeps, EndKeeps, ReplayKeeps DEF Step
<1>3. CASE UNCHANGED vars
  <2>1. UNCHANGED <<plan, drawn, draws, cache, worker, got>>
    BY <1>3 DEF vars
  <2>2. Workers' = Workers /\ Ranks' = Ranks
    BY <2>1 DEF Workers, Team, Ranks
  <2>3. Typed' /\ \A w \in Workers : Counted(worker[w])'
    BY <2>1, <2>2 DEF IInv, Typed, Counted
  <2>4. InStep'
    BY <2>1, <2>2 DEF IInv, InStep, Alone
  <2>5. OwnShares'
    <3> SUFFICES ASSUME Plainly, NEW v \in Workers
                 PROVE  Owns(worker[v], got[v], Dealt(v))' /\ Stores(v)'
      BY <2>1, <2>2 DEF OwnShares, Plainly, Alone
    <3>1. Dealt(v)' = Dealt(v)
      BY <2>1 DEF Dealt, Listed, Share, OfNode, Refuses
    <3>2. Owns(worker[v], got[v], Dealt(v))'
      BY <2>1, <3>1, WorkerFacts DEF Owns, Collects
    <3>3. QED
      BY <2>1, <3>2, NothingStored
  <2>6. QED
    BY <2>2, <2>3, <2>4, <2>5 DEF IInv
<1>4. QED
  BY <1>1, <1>2, <1>3 DEF Next, Finished

-----------------------------------------------------------------------------
LEMMA Invariant == Spec => []IInv
  BY InitInv, NextInv, PTL DEF Spec

(* The variables keep their types, and the counters of the epochs, of the    *)
(* limit and of the emptiness check their bounds: run_once, Repeated, Take.  *)
THEOREM TypeCorrect == Spec => []TypeOK
<1>1. IInv => TypeOK
  BY DEF IInv, Typed, Counted, Iteration, TypeOK
<1>2. QED
  BY Invariant, <1>1, PTL

LEMMA ListedIs ==
  ASSUME IInv, Plainly, NEW n \in Nat, NEW w \in Workers
  PROVE  /\ Listed(n) \in Seq(Shards) /\ Distinct(Listed(n))
         /\ Dealt(w)[n] = Elements(Share(Listed(n), w))
<1>1. CASE plan.list = "fixed"
  BY <1>1, FixedIs DEF Listed, Dealt
<1>2. CASE plan.list # "fixed"
  <2>1. drawn \in Seq(Mixes) /\ \A list \in Mixes : Distinct(list)
    BY <1>2 DEF IInv, Typed, Plainly
  <2>2. n \in 1..Len(drawn) => drawn[n] \in Mixes
    BY <2>1
  <2>3. <<>> \in Seq(Shards) /\ Distinct(<<>>)
    BY DEF Distinct
  <2>4. QED
    BY <1>2, <2>1, <2>2, <2>3, PipelineAssumption DEF Listed, Dealt
<1>3. QED
  BY <1>1, <1>2

(* "Each worker will claim a disjoint set of shards". *)
LEMMA Disjoint ==
  ASSUME IInv, Plainly
  PROVE  SharesAreDisjoint
<1> SUFFICES ASSUME Partitioned,
                    NEW n \in 1..MaxItems, NEW v \in Workers, NEW w \in Workers,
                    v # w, NEW sample \in Samples(v, n) \cap Samples(w, n)
             PROVE  FALSE
  BY DEF SharesAreDisjoint
<1>1. /\ sample # Error /\ n \in Nat
      /\ \E k \in DOMAIN got[v] : got[v][k].sample = sample /\ got[v][k].run = n
      /\ \E k \in DOMAIN got[w] : got[w][k].sample = sample /\ got[w][k].run = n
  BY PipelineAssumption DEF Samples, Handed
<1>2. sample \in Of(Dealt(v)[n]) /\ sample \in Of(Dealt(w)[n])
  BY <1>1, WorkerFacts DEF Owns, Ours, Given
<1>3. sample[1] \in Dealt(v)[n] /\ sample[1] \in Dealt(w)[n]
  BY <1>2 DEF Of
<1>4. Dealt(v)[n] \cap Dealt(w)[n] = {}
  <2>1. /\ Listed(n) \in Seq(Shards) /\ Distinct(Listed(n))
        /\ Dealt(v)[n] = Elements(Share(Listed(n), v))
        /\ Dealt(w)[n] = Elements(Share(Listed(n), w))
    BY <1>1, ListedIs
  <2>2. plan \in Plans
    BY DEF IInv, Typed
  <2>3. QED
    BY <2>1, <2>2, DealtApart
<1>5. QED
  BY <1>3, <1>4

LEMMA NothingTwice ==
  ASSUME IInv, Plainly, NEW w \in Workers, NEW n
  PROVE  Cardinality(Samples(w, n)) =
           Cardinality({k \in Handed(w, n) : got[w][k].sample # Error})
<1> DEFINE H == {k \in Handed(w, n) : got[w][k].sample # Error}
           f == [k \in H |-> got[w][k].sample]
<1>1. IsFiniteSet(H)
  <2>1. got[w] \in Seq(Entry)
    BY WorkerFacts
  <2>2. H \subseteq 1..Len(got[w]) /\ Len(got[w]) \in Nat
    BY <2>1 DEF Handed
  <2>3. IsFiniteSet(1..Len(got[w]))
    BY <2>2, FS_Interval
  <2>4. QED
    BY <2>2, <2>3, FS_Subset
<1>2. f \in Surjection(H, Samples(w, n))
  BY DEF Surjection, Samples, Handed
<1>3. \A j, k \in H : f[j] = f[k] => j = k
  BY WorkerFacts DEF Owns, Ours, Fresh, Handed
<1>4. f \in Injection(H, Samples(w, n))
  BY <1>2, <1>3 DEF Surjection, Injection, IsInjective
<1> HIDE DEF H, f
<1>5. Cardinality(Samples(w, n)) = Cardinality(H)
  BY <1>1, <1>2, <1>4, FS_Surjection
<1>6. QED
  BY <1>5 DEF H

LEMMA ContentsIs ==
  ASSUME NEW list \in Seq(Shards)
  PROVE  Contents(list) = Of(Elements(list))
<1>1. Contents(list) =
        UNION {{<<s, k>> : k \in 1..Urls[s].samples} : s \in {s \in Elements(list) : Opens(s)}}
  BY DEF Contents, Elements
<1>2. Elements(list) \subseteq Shards
  BY DEF Elements
<1>3. ASSUME NEW s \in Elements(list), Opens(s), NEW k \in 1..Urls[s].samples
      PROVE  <<s, k>> \in Of(Elements(list))
  <2>1. <<s, k>> \in Sample
    BY <1>2, UrlFacts DEF Sample
  <2>2. QED
    BY <1>3, <2>1 DEF Of
<1>4. ASSUME NEW e \in Of(Elements(list))
      PROVE  /\ e[1] \in Elements(list) /\ Opens(e[1]) /\ e[2] \in 1..Urls[e[1]].samples
             /\ e = <<e[1], e[2]>>
  BY DEF Of, Sample
<1>5. QED
  BY <1>1, <1>3, <1>4

LEMMA NothingMissed ==
  ASSUME IInv, Plainly, Partitioned, plan.handler # "stop", NEW n \in Nat, Errors(n) = {},
         \A w \in Workers : n \in worker[w].finished
  PROVE  UNION {Samples(w, n) : w \in Workers} = Contents(ListOf(n))
<1> DEFINE all == Elements(Listed(n))
<1>1. \A w \in Workers : Samples(w, n) = SamplesOf(got[w], n)
  BY DEF Samples, Handed, SamplesOf
<1>2. Contents(ListOf(n)) = Of(all)
  <2>1. ListOf(n) = Listed(n)
    <3>1. CASE plan.list = "fixed"
      BY <3>1 DEF ListOf, Listed
    <3>2. CASE plan.list # "fixed"
      <4>1. PICK w \in Workers : TRUE
        <5>1. 0 \in 0..(plan.world - 1) /\ 0 \in 0..(plan.workers - 1)
          BY PlanFacts DEF IInv, Typed
        <5>2. QED
          BY <5>1, PlanFacts DEF IInv, Typed
      <4>2. n \in 1..worker[w].runs /\ worker[w].runs \in Nat
        BY WorkerFacts DEF Counted, Iteration
      <4>3. worker[w].runs \in 0..Len(drawn)
        BY <3>2, PlanFacts DEF Plainly, IInv, InStep, Typed
      <4>4. n \in 1..Len(drawn)
        BY <4>2, <4>3
      <4>5. QED
        BY <3>2, <4>4 DEF ListOf, Listed
    <3>3. QED
      BY <3>1, <3>2
  <2>2. PICK w \in Workers : TRUE
    <3>1. 0 \in 0..(plan.world - 1) /\ 0 \in 0..(plan.workers - 1)
      BY PlanFacts DEF IInv, Typed
    <3>2. QED
      BY <3>1, PlanFacts DEF IInv, Typed
  <2>3. QED
    BY <2>1, <2>2, ListedIs, ContentsIs
<1> HIDE DEF all
<1>3. ASSUME NEW w \in Workers, NEW e \in Samples(w, n) PROVE e \in Of(all)
  <2>1. \E k \in DOMAIN got[w] : e = got[w][k].sample /\ e # Error /\ got[w][k].run = n
    BY <1>3 DEF Samples, Handed
  <2>2. e \in Of(Dealt(w)[n])
    BY <2>1, WorkerFacts DEF Owns, Ours, Given
  <2>3. Elements(Share(Listed(n), w)) \cap Shards \subseteq all
    BY ListedIs, ShareKeeps DEF all, IInv, Typed
  <2>4. e \in Of(Elements(Share(Listed(n), w)))
    BY <2>2, ListedIs
  <2>5. QED
    BY <2>3, <2>4 DEF Of, Sample
<1>4. ASSUME NEW e \in Of(all) PROVE \E w \in Workers : e \in Samples(w, n)
  <2>1. PICK w \in Workers : e[1] \in Dealt(w)[n]
    <3>1. PICK v \in Workers : TRUE
      <4>1. 0 \in 0..(plan.world - 1) /\ 0 \in 0..(plan.workers - 1)
        BY PlanFacts DEF IInv, Typed
      <4>2. QED
        BY <4>1, PlanFacts DEF IInv, Typed
    <3>2. e[1] \in Elements(Listed(n)) /\ Listed(n) \in Seq(Shards)
      BY <1>4, <3>1, ListedIs DEF Of, all
    <3>3. PICK w \in Workers : e[1] \in Elements(Share(Listed(n), w))
      BY <3>2, NothingIsLeftOut DEF IInv, Typed
    <3>4. QED
      BY <3>3, ListedIs
  <2>2. e \in Of(Dealt(w)[n])
    BY <1>4, <2>1 DEF Of
  <2>3. ~Failed(got[w], n)
    <3> SUFFICES ASSUME NEW k \in DOMAIN got[w],
                        got[w][k].run = n, got[w][k].sample = Error
                 PROVE  FALSE
      BY DEF Failed
    <3>1. <<w, k>> \in UNION {{v} \X DOMAIN got[v] : v \in Workers}
      OBVIOUS
    <3>2. <<w, k>> \in Errors(n)
      BY <3>1 DEF Errors
    <3>3. QED
      BY <3>2
  <2>4. /\ Ours(View(worker[w]), got[w], Dealt(w), plan.handler)
        /\ n \in View(worker[w]).finished
    BY WorkerFacts, ViewIs DEF Owns
  <2>5. Of(Dealt(w)[n]) \subseteq SamplesOf(got[w], n)
    BY <2>3, <2>4 DEF Ours, Whole, Unfailed
  <2>6. QED
    BY <1>1, <2>2, <2>5
<1>5. QED
  BY <1>2, <1>3, <1>4

(* "Every sample is seen exactly once": no two workers, of one process or    *)
(* two, ever hand out the same sample in a pass, none hands one out twice,   *)
(* and when all have read their shares to the end without an error nothing   *)
(* is missing; in every epoch, whatever the shuffle's buffer, the limit and  *)
(* the repetitions (SplitByNode, SplitByWorker, run_once).  That is so of a   *)
(* fixed list, of mixed ones where each process has one worker, and of one   *)
(* that is replayed from the cache of a single worker.                       *)
THEOREM EachIsReadOnce == Spec => [](Plainly => EachSampleOnce)
<1>1. IInv => (Plainly => EachSampleOnce)
  <2> SUFFICES ASSUME IInv, Plainly PROVE EachSampleOnce
    OBVIOUS
  <2>1. 1..MaxItems \subseteq Nat
    OBVIOUS
  <2>2. QED
    BY <2>1, Disjoint, NothingTwice, NothingMissed DEF EachSampleOnce
<1>2. QED
  BY Invariant, <1>1, PTL

-----------------------------------------------------------------------------
(* Epochs, limits and the check for an empty stream, for any list, cached or *)
(* not.  What an iteration counts are the items it has handed out.           *)
Running == {"start", "stage", "pull"}

OfIteration(items, i) == {k \in DOMAIN items : items[k].iter = i}
InRun(items, n) == \E k \in DOMAIN items : items[k].run = n

Limited(it) ==
  plan.limit # Unlimited =>
    it.taken <= plan.limit /\ (it.pc \in Running => it.taken < plan.limit)

Stopped(it) ==
  it.pc = "ended" /\ it.produced > 0 =>
    it.left = 0 \/ (plan.limit # Unlimited /\ it.taken = plan.limit)

Tallied(it, items) ==
  /\ \A k \in DOMAIN items : items[k].iter <= it.iters
  /\ Cardinality(OfIteration(items, it.iters)) = it.taken
  /\ it.produced > 0 => InRun(items, it.runs)
  /\ ~plan.cached => it.source = "shards"
  /\ plan.check /\ ~plan.cached => \A n \in it.finished : InRun(items, n)

Pace(it, items) == Limited(it) /\ Stopped(it) /\ Tallied(it, items)

At(w, it, items) == w \in Workers /\ it = worker[w] /\ items = got[w]
Paced == \A w, it, items : At(w, it, items) => Pace(it, items)

LEMMA PacedIs ==
  ASSUME IInv, Paced, NEW w \in Workers
  PROVE  Pace(worker[w], got[w])
<1>1. At(w, worker[w], got[w])
  BY DEF At
<1>2. QED
  BY <1>1 DEF Paced

(* A step of one worker. *)
Others(w) ==
  /\ plan' = plan
  /\ \A v \in Workers : v # w => worker'[v] = worker[v] /\ got'[v] = got[v]

LEMMA PacedByOne ==
  ASSUME Paced, NEW w \in Workers, Others(w), NEW it, NEW items,
         it = worker'[w], items = got'[w], Pace(it, items)
  PROVE  Paced'
<1>1. plan' = plan /\ Workers' = Workers
  BY DEF Others, Workers, Team, Ranks
<1>2. ASSUME NEW v, NEW a, NEW b, At(v, a, b)'
      PROVE  Pace(a, b)'
  <2>1. Pace(a, b)
    BY <1>1, <1>2 DEF Others, Paced, At
  <2>2. QED
    BY <1>1, <2>1 DEF Pace, Limited, Stopped, Tallied, Running, OfIteration, InRun
<1>3. QED
  BY <1>2 DEF Paced

(* It hands out nothing. *)
Rests(a, b) ==
  /\ b.iters = a.iters /\ b.taken = a.taken
  /\ ~plan.cached => b.source = "shards"
  /\ b.produced > 0 => a.produced > 0 /\ b.runs = a.runs
  /\ \A n \in b.finished :
       n \in a.finished \/ (n = a.runs /\ (plan.check /\ ~plan.cached => a.produced > 0))
  /\ b.pc \in Running => a.pc \in Running \/ a.taken # plan.limit
  /\ Stopped(b)

LEMMA PacedResting ==
  ASSUME IInv, Paced, NEW w \in Workers, Others(w), got' = got,
         Rests(worker[w], worker'[w])
  PROVE  Paced'
<1>a. PICK a : a = worker[w]
  OBVIOUS
<1>b. PICK b : b = worker'[w]
  OBVIOUS
<1>i. PICK items : items = got[w]
  OBVIOUS
<1>1. Pace(a, items) /\ Rests(a, b) /\ a.taken \in Nat
  BY <1>a, <1>b, <1>i, PacedIs, WorkerFacts DEF Iteration
<1>2. plan.limit # Unlimited => plan.limit \in Nat
  BY WorkerFacts DEF Plan
<1>3. Limited(b)
  <2>1. /\ b.taken = a.taken /\ Limited(a)
        /\ b.pc \in Running => a.pc \in Running \/ a.taken # plan.limit
    BY <1>1 DEF Rests, Pace
  <2>2. QED
    BY <1>1, <1>2, <2>1 DEF Limited
<1>4. Tallied(b, items)
  BY <1>1 DEF Rests, Pace, Tallied
<1>5. Pace(b, items)
  BY <1>1, <1>3, <1>4 DEF Pace, Rests
<1>6. items = got'[w]
  BY <1>i
<1>7. QED
  BY <1>5, <1>6, <1>b, PacedByOne

(* It hands out an item. *)
Counts(a, b, item) ==
  /\ a.pc = "pull" /\ b.pc = "between"
  /\ b.iters = a.iters /\ b.taken = a.taken + 1 /\ b.runs = a.runs
  /\ b.source = a.source /\ b.finished = a.finished
  /\ item.iter = a.iters /\ item.run = a.runs

LEMMA PacedHanding ==
  ASSUME IInv, Paced, NEW w \in Workers, Others(w), NEW item,
         got'[w] = Append(got[w], item), Counts(worker[w], worker'[w], item)
  PROVE  Paced'
<1>a. PICK a : a = worker[w]
  OBVIOUS
<1>b. PICK b : b = worker'[w]
  OBVIOUS
<1>i. PICK items : items = got[w]
  OBVIOUS
<1>j. PICK more : more = Append(items, item)
  OBVIOUS
<1>1. /\ Pace(a, items) /\ Counts(a, b, item)
      /\ a.taken \in Nat /\ a.iters \in Nat /\ items \in Seq(Entry)
  BY <1>a, <1>b, <1>i, PacedIs, WorkerFacts DEF Iteration
<1>2. plan.limit # Unlimited => plan.limit \in Nat
  BY WorkerFacts DEF Plan
<1>3. Limited(b) /\ Stopped(b)
  <2>1. Limited(a) /\ a.pc = "pull" /\ b.pc = "between" /\ b.taken = a.taken + 1
    BY <1>1 DEF Pace, Counts
  <2>2. a.pc \in Running /\ b.pc \notin Running /\ b.pc # "ended"
    BY <2>1 DEF Running
  <2>3. plan.limit # Unlimited => a.taken < plan.limit
    BY <2>1, <2>2 DEF Limited
  <2>4. plan.limit # Unlimited => a.taken + 1 <= plan.limit
    BY <1>1, <1>2, <2>3
  <2>5. QED
    BY <2>1, <2>2, <2>4 DEF Limited, Stopped
<1>4. /\ Len(items) \in Nat /\ DOMAIN items = 1..Len(items)
      /\ DOMAIN more = 1..(Len(items) + 1) /\ more[Len(items) + 1] = item
      /\ \A k \in DOMAIN items : more[k] = items[k]
  BY <1>1, <1>j
<1>5. \A n : InRun(items, n) => InRun(more, n)
  BY <1>4 DEF InRun
<1>6. InRun(more, b.runs)
  BY <1>1, <1>4 DEF InRun, Counts
<1>7. Cardinality(OfIteration(more, b.iters)) = b.taken
  <2> DEFINE S == OfIteration(items, a.iters)
  <2>1. OfIteration(more, b.iters) = S \cup {Len(items) + 1}
    BY <1>1, <1>4 DEF OfIteration, Counts
  <2>2. S \subseteq 1..Len(items) /\ Cardinality(S) = a.taken
    BY <1>1, <1>4 DEF OfIteration, Pace, Tallied
  <2> HIDE DEF S
  <2>3. IsFiniteSet(S) /\ Len(items) + 1 \notin S
    <3>1. IsFiniteSet(1..Len(items))
      BY <1>4, FS_Interval
    <3>2. QED
      BY <1>4, <2>2, <3>1, FS_Subset
  <2>4. Cardinality(S \cup {Len(items) + 1}) = Cardinality(S) + 1
    BY <2>3, FS_AddElement
  <2>5. QED
    BY <1>1, <2>1, <2>2, <2>4 DEF Counts
<1>8. \A k \in DOMAIN more : more[k].iter <= b.iters
  BY <1>1, <1>4 DEF Pace, Tallied, Counts
<1>9. Tallied(b, more)
  <2>1. b.source = a.source /\ b.finished = a.finished
    BY <1>1 DEF Counts
  <2>2. QED
    BY <1>1, <1>5, <1>6, <1>7, <1>8, <2>1 DEF Tallied, Pace
<1>10. Pace(b, more)
  BY <1>3, <1>9 DEF Pace
<1>11. more = got'[w]
  BY <1>i, <1>j
<1>12. QED
  BY <1>10, <1>11, <1>b, PacedByOne

LEMMA OthersStay ==
  ASSUME IInv, NEW w \in Workers, NEW it, plan' = plan, worker' = [worker EXCEPT ![w] = it],
         \/ got' = got
         \/ \E item : got' = [got EXCEPT ![w] = Append(@, item)]
  PROVE  Others(w) /\ worker'[w] = it
BY DEF Others, IInv, Typed

(* What the tallies say of the iteration that takes a step. *)
LEMMA PaceFacts ==
  ASSUME IInv, Paced, NEW w \in Workers
  PROVE  /\ ~plan.cached => worker[w].source = "shards"
         /\ Stopped(worker[w]) /\ worker[w].taken \in Nat /\ worker[w].produced \in Nat
         /\ worker \in [Workers -> Iteration] /\ worker[w] \in Iteration
BY PacedIs, WorkerFacts DEF Pace, Tallied, Iteration, IInv, Typed

LEMMA ResumePaced ==
  ASSUME IInv, Paced, NEW w \in Workers, Resume(w) \/ Abandon(w) \/ NoEpochLeft(w)
  PROVE  Paced'
<1>1. PICK where \in {"ended", "pull", "dropped"} :
        /\ worker' = [worker EXCEPT ![w].pc = where]
        /\ where = "pull" => worker[w].taken # plan.limit
        /\ where = "ended" => worker[w].left = 0 \/ worker[w].taken = plan.limit
        /\ UNCHANGED <<plan, got>>
  BY DEF Resume, Abandon, NoEpochLeft
<1> DEFINE it == [worker[w] EXCEPT !.pc = where]
<1>2. /\ it.pc = where /\ it.iters = worker[w].iters /\ it.taken = worker[w].taken
      /\ it.source = worker[w].source /\ it.produced = worker[w].produced
      /\ it.runs = worker[w].runs /\ it.finished = worker[w].finished
      /\ it.left = worker[w].left
  BY PaceFacts DEF Iteration
<1>3. worker' = [worker EXCEPT ![w] = it]
  BY <1>1, PaceFacts
<1> HIDE DEF it
<1>4. Others(w) /\ worker'[w] = it
  BY <1>1, <1>3, OthersStay
<1>5. Stopped(it)
  BY <1>1, <1>2, PaceFacts, PipelineAssumption DEF Stopped
<1>6. Rests(worker[w], it)
  BY <1>1, <1>2, <1>5, PaceFacts DEF Rests, Running
<1>7. QED
  BY <1>1, <1>4, <1>6, PacedResting

LEMMA StartPaced ==
  ASSUME IInv, Paced, NEW w \in Workers, Start(w) \/ Apply(w)
  PROVE  Paced'
<1>1. CASE Start(w)
  <2>1. PICK share : /\ worker' = Started(w, share) /\ worker[w].pc = "start"
                     /\ UNCHANGED <<plan, got>>
    BY <1>1 DEF Start
  <2> DEFINE left == IF worker[w].left = Forever THEN Forever ELSE worker[w].left - 1
             it == [worker[w] EXCEPT !.pc = "stage", !.left = left, !.runs = @ + 1,
                      !.list = share, !.unread = <<>>, !.done = FALSE, !.produced = 0]
  <2>2. worker' = [worker EXCEPT ![w] = it]
    BY <2>1, PaceFacts DEF Started, Iteration
  <2>3. /\ it.pc = "stage" /\ it.iters = worker[w].iters /\ it.taken = worker[w].taken
        /\ it.source = worker[w].source /\ it.produced = 0
        /\ it.finished = worker[w].finished
    BY PaceFacts DEF Iteration
  <2> HIDE DEF it
  <2>4. Others(w) /\ worker'[w] = it
    BY <2>1, <2>2, OthersStay
  <2>5. Stopped(it)
    BY <2>3 DEF Stopped
  <2>6. Rests(worker[w], it)
    BY <2>1, <2>3, <2>5, PaceFacts DEF Rests, Running
  <2>7. QED
    BY <2>1, <2>4, <2>6, PacedResting
<1>2. CASE Apply(w)
  <2>1. PICK source, held :
          /\ worker' = [worker EXCEPT ![w].pc = "pull", ![w].source = source, ![w].held = held]
          /\ ~plan.cached => source = "shards"
          /\ worker[w].pc = "stage" /\ UNCHANGED <<plan, got>>
    BY <1>2 DEF Apply
  <2> DEFINE it == [worker[w] EXCEPT !.pc = "pull", !.source = source, !.held = held]
  <2>2. worker' = [worker EXCEPT ![w] = it]
    BY <2>1, PaceFacts DEF Iteration
  <2>3. /\ it.pc = "pull" /\ it.iters = worker[w].iters /\ it.taken = worker[w].taken
        /\ it.source = source /\ it.produced = worker[w].produced
        /\ it.runs = worker[w].runs /\ it.finished = worker[w].finished
    BY PaceFacts DEF Iteration
  <2> HIDE DEF it
  <2>4. Others(w) /\ worker'[w] = it
    BY <2>1, <2>2, OthersStay
  <2>5. Stopped(it)
    BY <2>3 DEF Stopped
  <2>6. Rests(worker[w], it)
    BY <2>1, <2>3, <2>5, PaceFacts DEF Rests, Running
  <2>7. QED
    BY <2>1, <2>4, <2>6, PacedResting
<1>3. QED
  BY <1>1, <1>2

(* A shard is opened, or skipped: the reader's own fields change. *)
Reads(a, b) ==
  /\ a.pc = "pull" /\ b.pc = "pull" /\ b.iters = a.iters /\ b.taken = a.taken
  /\ b.source = a.source /\ b.produced = a.produced /\ b.runs = a.runs
  /\ b.finished = a.finished

LEMMA ReaderPaced ==
  ASSUME IInv, Paced, NEW w \in Workers, NEW it, Reads(worker[w], it),
         UNCHANGED <<plan, got>>, worker' = [worker EXCEPT ![w] = it]
  PROVE  Paced'
<1>1. Others(w) /\ worker'[w] = it
  BY OthersStay
<1>2. Stopped(it)
  BY DEF Stopped, Reads
<1>3. Rests(worker[w], it)
  BY <1>2, PaceFacts DEF Rests, Running, Reads
<1>4. QED
  BY <1>1, <1>3, PacedResting

(* A run is over: without a cache, not before it had an item if that is     *)
(* checked.                                                                 *)
LEMMA EndPaced ==
  ASSUME IInv, Paced, NEW w \in Workers, EndRun(w) \/ EndReplay(w)
  PROVE  Paced'
<1> DEFINE it == [worker[w] EXCEPT !.pc = Over(w), !.finished = @ \cup {worker[w].runs}]
<1>1. /\ worker' = [worker EXCEPT ![w] = it]
      /\ worker[w].pc = "pull" /\ UNCHANGED <<plan, got>>
      /\ \/ ~NothingSeen(w)
         \/ worker[w].source = "cache"
  BY PaceFacts DEF EndRun, EndReplay, SourceEnds, Pulling, Iteration
<1>2. /\ it.pc = Over(w) /\ it.iters = worker[w].iters /\ it.taken = worker[w].taken
      /\ it.source = worker[w].source /\ it.produced = worker[w].produced
      /\ it.runs = worker[w].runs
      /\ it.finished = worker[w].finished \cup {worker[w].runs}
  BY PaceFacts DEF Iteration
<1> HIDE DEF it
<1>3. Others(w) /\ worker'[w] = it
  BY <1>1, OthersStay
<1>4. Stopped(it)
  BY <1>2, PaceFacts DEF Stopped, Over
<1>5. plan.check /\ ~plan.cached => worker[w].produced > 0
  BY <1>1, PaceFacts DEF NothingSeen
<1>6. Rests(worker[w], it)
  BY <1>1, <1>2, <1>4, <1>5, PaceFacts DEF Rests, Running
<1>7. QED
  BY <1>1, <1>3, <1>6, PacedResting

LEMMA HandsPaced ==
  ASSUME IInv, Paced, NEW w \in Workers, NEW sample, Hands(w, sample),
         NEW it, Counts(worker[w], it, Item(w, sample)), worker' = [worker EXCEPT ![w] = it]
  PROVE  Paced'
<1> DEFINE item == Item(w, sample)
<1>1. got' = [got EXCEPT ![w] = Append(@, item)] /\ plan' = plan
  BY DEF Hands
<1> HIDE DEF item
<1>2. Others(w) /\ worker'[w] = it
  BY <1>1, OthersStay
<1>3. Counts(worker[w], worker'[w], item)
  BY <1>2 DEF item
<1>4. got'[w] = Append(got[w], item)
  BY <1>1 DEF IInv, Typed
<1>5. QED
  BY <1>2, <1>3, <1>4, PacedHanding

(* A worker that hands out an item counts it. *)
LEMMA HandingCounts ==
  ASSUME IInv, Paced, NEW w \in Workers, worker[w].pc = "pull", NEW sample, NEW it,
         it.pc = Handing(w).pc, it.taken = Handing(w).taken, it.iters = Handing(w).iters,
         it.runs = Handing(w).runs, it.source = Handing(w).source,
         it.finished = Handing(w).finished
  PROVE  Counts(worker[w], it, Item(w, sample))
<1>1. Item(w, sample).iter = worker[w].iters /\ Item(w, sample).run = worker[w].runs
  BY DEF Item
<1>2. /\ Handing(w).pc = "between" /\ Handing(w).taken = worker[w].taken + 1
      /\ Handing(w).iters = worker[w].iters /\ Handing(w).runs = worker[w].runs
      /\ Handing(w).source = worker[w].source /\ Handing(w).finished = worker[w].finished
  BY PaceFacts DEF Handing, Iteration
<1>3. QED
  BY <1>1, <1>2 DEF Counts

LEMMA TakeSamplePaced ==
  ASSUME IInv, Paced, NEW w \in Workers, TakeSample(w)
  PROVE  Paced'
<1> DEFINE sample == Head(worker[w].unread)
           now == Produced(worker, w)
           unread == Tail(Handing(w).unread)
           held == IF plan.cached THEN Append(Handing(w).held, sample) ELSE Handing(w).held
           it == [Handing(w) EXCEPT !.unread = unread, !.held = held]
<1>1. /\ worker[w].pc = "pull" /\ Hands(w, sample)
      /\ worker' = [now EXCEPT
           ![w].unread = Tail(@),
           ![w].held = IF plan.cached THEN Append(@, sample) ELSE @]
  BY DEF TakeSample, Pulling
<1>2. /\ now = [worker EXCEPT ![w] = Handing(w)] /\ Handing(w) \in Iteration
      /\ worker \in [Workers -> Iteration]
  BY <1>1, HandingFacts DEF IInv, Typed
<1> HIDE DEF sample, now
<1>3. worker' = [worker EXCEPT ![w] = it]
  BY <1>1, <1>2 DEF Iteration
<1> HIDE DEF unread, held
<1>4. /\ it.pc = Handing(w).pc /\ it.taken = Handing(w).taken /\ it.iters = Handing(w).iters
      /\ it.runs = Handing(w).runs /\ it.source = Handing(w).source
      /\ it.finished = Handing(w).finished
  BY <1>2 DEF Iteration
<1> HIDE DEF it
<1>5. Counts(worker[w], it, Item(w, sample))
  BY <1>1, <1>4, HandingCounts
<1>6. QED
  BY <1>1, <1>3, <1>5, HandsPaced

LEMMA ReplayPaced ==
  ASSUME IInv, Paced, NEW w \in Workers, Replay(w)
  PROVE  Paced'
<1> DEFINE sample == Head(worker[w].held)
           now == Produced(worker, w)
           held == Tail(Handing(w).held)
           it == [Handing(w) EXCEPT !.held = held]
<1>1. /\ worker[w].pc = "pull" /\ Hands(w, sample)
      /\ worker' = [now EXCEPT ![w].held = Tail(@)]
  BY DEF Replay, Pulling
<1>2. /\ now = [worker EXCEPT ![w] = Handing(w)] /\ Handing(w) \in Iteration
      /\ worker \in [Workers -> Iteration]
  BY <1>1, HandingFacts DEF IInv, Typed
<1> HIDE DEF sample, now
<1>3. worker' = [worker EXCEPT ![w] = it]
  BY <1>1, <1>2 DEF Iteration
<1> HIDE DEF held
<1>4. /\ it.pc = Handing(w).pc /\ it.taken = Handing(w).taken /\ it.iters = Handing(w).iters
      /\ it.runs = Handing(w).runs /\ it.source = Handing(w).source
      /\ it.finished = Handing(w).finished
  BY <1>2 DEF Iteration
<1> HIDE DEF it
<1>5. Counts(worker[w], it, Item(w, sample))
  BY <1>1, <1>4, HandingCounts
<1>6. QED
  BY <1>1, <1>3, <1>5, HandsPaced

LEMMA ReportEmptyPaced ==
  ASSUME IInv, Paced, NEW w \in Workers, ReportEmpty(w)
  PROVE  Paced'
<1>1. worker[w].pc = "pull" /\ Hands(w, Error) /\ worker' = Produced(worker, w)
  BY DEF ReportEmpty, SourceEnds, Pulling
<1>2. worker' = [worker EXCEPT ![w] = Handing(w)]
  BY <1>1, HandingFacts
<1>3. Counts(worker[w], Handing(w), Item(w, Error))
  BY <1>1, HandingCounts
<1>4. QED
  BY <1>1, <1>2, <1>3, HandsPaced

LEMMA DrawShardPaced ==
  ASSUME IInv, Paced, NEW w \in Workers, DrawShard(w)
  PROVE  Paced'
<1>1. worker \in [Workers -> Iteration] /\ worker[w] \in Iteration
  BY PaceFacts
<1>2. PICK s : /\ UNCHANGED <<plan, got>> /\ worker[w].pc = "pull"
               /\ worker' = [worker EXCEPT ![w].list = <<s>>]
  BY DEF DrawShard, Pulling
<1> DEFINE it == [worker[w] EXCEPT !.list = <<s>>]
<1>3. worker' = [worker EXCEPT ![w] = it]
  BY <1>1, <1>2 DEF Iteration
<1>4. Reads(worker[w], it)
  BY <1>1, <1>2 DEF Reads, Iteration
<1> HIDE DEF it
<1>5. QED
  BY <1>2, <1>3, <1>4, ReaderPaced

LEMMA OpenShardPaced ==
  ASSUME IInv, Paced, NEW w \in Workers, OpenShard(w)
  PROVE  Paced'
<1>1. worker \in [Workers -> Iteration] /\ worker[w] \in Iteration
  BY PaceFacts
<1>2. PICK next : /\ UNCHANGED <<plan, got>> /\ worker[w].pc = "pull"
                  /\ worker' = [worker EXCEPT
                       ![w].list = next[2],
                       ![w].unread = [k \in 1..Urls[next[1]].samples |-> <<next[1], k>>]]
  BY DEF OpenShard, NextShard, Pulling
<1> DEFINE unread == [k \in 1..Urls[next[1]].samples |-> <<next[1], k>>]
           list == next[2]
           it == [worker[w] EXCEPT !.list = list, !.unread = unread]
<1>3. worker' = [worker EXCEPT ![w].list = list, ![w].unread = unread]
  BY <1>2
<1> HIDE DEF unread, list
<1>4. worker' = [worker EXCEPT ![w] = it]
  BY <1>1, <1>3 DEF Iteration
<1>5. Reads(worker[w], it)
  BY <1>1, <1>2 DEF Reads, Iteration
<1> HIDE DEF it
<1>6. QED
  BY <1>2, <1>4, <1>5, ReaderPaced

LEMMA OpenFailsPaced ==
  ASSUME IInv, Paced, NEW w \in Workers, OpenFails(w)
  PROVE  Paced'
<1>1. worker \in [Workers -> Iteration] /\ worker[w] \in Iteration /\ Handing(w).pc = "between"
  BY PaceFacts DEF Handing, Iteration
<1>2. PICK next :
        /\ worker[w].pc = "pull"
        /\ LET on == [worker EXCEPT ![w].list = next[2],
                                    ![w].done = plan.handler # "continue"]
           IN IF plan.handler = "reraise"
              THEN worker' = Produced(on, w) /\ Hands(w, Error)
              ELSE worker' = on /\ UNCHANGED <<plan, drawn, draws, cache, got>>
  BY DEF OpenFails, NextShard, Pulling
<1> DEFINE list == next[2]
           done == plan.handler # "continue"
           on == [worker EXCEPT ![w].list = list, ![w].done = done]
<1>3. CASE plan.handler # "reraise"
  <2> DEFINE it == [worker[w] EXCEPT !.list = list, !.done = done]
  <2>1. worker' = on /\ UNCHANGED <<plan, got>>
    BY <1>2, <1>3
  <2> HIDE DEF list, done
  <2>2. worker' = [worker EXCEPT ![w] = it]
    BY <1>1, <2>1 DEF Iteration
  <2>3. Reads(worker[w], it)
    BY <1>1, <1>2 DEF Reads, Iteration
  <2> HIDE DEF it
  <2>4. QED
    BY <2>1, <2>2, <2>3, ReaderPaced
<1>4. CASE plan.handler = "reraise"
  <2> DEFINE now == [worker[w] EXCEPT !.list = list, !.done = done]
             it == [now EXCEPT !.pc = "between", !.taken = @ + 1, !.produced = @ + 1]
  <2>1. worker' = Produced(on, w) /\ Hands(w, Error)
    BY <1>2, <1>4
  <2> HIDE DEF list, done
  <2>2. on = [worker EXCEPT ![w] = now] /\ on[w] = now
    BY <1>1 DEF Iteration
  <2>3. worker' = [worker EXCEPT ![w] = it]
    <3> HIDE DEF on, now
    <3>1. worker' = [on EXCEPT ![w] = it]
      BY <2>1, <2>2 DEF Produced
    <3>2. QED
      BY <1>1, <2>2, <3>1
  <2>4. /\ it.pc = Handing(w).pc /\ it.taken = Handing(w).taken /\ it.iters = Handing(w).iters
        /\ it.runs = Handing(w).runs /\ it.source = Handing(w).source
        /\ it.finished = Handing(w).finished
    BY <1>1 DEF Iteration, Handing
  <2> HIDE DEF it
  <2>5. Counts(worker[w], it, Item(w, Error))
    BY <1>2, <2>4, HandingCounts
  <2>6. QED
    BY <2>1, <2>3, <2>5, HandsPaced
<1>5. QED
  BY <1>3, <1>4

LEMMA IteratePaced ==
  ASSUME IInv, Paced, NEW r \in Ranks, Iterate(r)
  PROVE  Paced'
<1>1. plan' = plan /\ Workers' = Workers /\ got' = got
  BY DEF Iterate, Workers, Team, Ranks
<1>2. SUFFICES ASSUME NEW w, NEW b, NEW items, At(w, b, items)'
               PROVE  Pace(b, items)'
  BY DEF Paced
<1>3. w \in Workers /\ items = got[w] /\ b = worker'[w]
  BY <1>1, <1>2 DEF At
<1>4. Pace(b, items)
  <2>1. CASE w \notin Team(r)
    <3>1. worker'[w] = worker[w]
      BY <1>3, <2>1 DEF Iterate
    <3>2. QED
      BY <1>3, <3>1, PacedIs
  <2>2. CASE w \in Team(r)
    <3>a. PICK a : a = worker[w]
      OBVIOUS
    <3>1. Tallied(a, items) /\ a.iters \in Nat /\ items \in Seq(Entry) /\ a \in Iteration
      BY <1>3, <3>a, PacedIs, WorkerFacts DEF Pace, Iteration
    <3>2. b = [a EXCEPT !.pc = "start", !.iters = @ + 1, !.left = plan.repeats,
                        !.taken = 0, !.produced = 0]
      BY <1>3, <2>2, <3>a DEF Iterate
    <3>3. /\ b.pc = "start" /\ b.iters = a.iters + 1 /\ b.taken = 0 /\ b.produced = 0
          /\ b.source = a.source /\ b.finished = a.finished
      BY <3>1, <3>2 DEF Iteration
    <3>4. ASSUME NEW k \in DOMAIN items
          PROVE  items[k].iter \in Nat /\ items[k].iter <= a.iters
      <4>1. items[k] \in Entry
        BY <3>1
      <4>2. items[k].iter \in Nat
        BY <4>1 DEF Entry
      <4>3. items[k].iter <= a.iters
        BY <3>1 DEF Tallied
      <4>4. QED
        BY <4>2, <4>3
    <3>5. \A k \in DOMAIN items : items[k].iter <= b.iters /\ items[k].iter # b.iters
      BY <3>1, <3>3, <3>4
    <3>6. OfIteration(items, b.iters) = {}
      BY <3>5 DEF OfIteration
    <3>7. Cardinality(OfIteration(items, b.iters)) = b.taken
      BY <3>3, <3>6, FS_EmptySet
    <3>8. Tallied(b, items)
      BY <3>1, <3>3, <3>5, <3>7 DEF Tallied
    <3>9. Stopped(b)
      BY <3>3 DEF Stopped
    <3>10. plan.limit # Unlimited => 0 <= plan.limit /\ 0 < plan.limit
      BY <1>3, WorkerFacts DEF Plan
    <3>11. Limited(b)
      BY <3>3, <3>10 DEF Limited
    <3>12. QED
      BY <3>8, <3>9, <3>11 DEF Pace
  <2>3. QED
    BY <2>1, <2>2
<1>5. QED
  BY <1>1, <1>4 DEF Pace, Limited, Stopped, Tallied, Running, OfIteration, InRun

LEMMA InitPaced ==
  ASSUME Init
  PROVE  Paced
<1>1. ASSUME NEW w, NEW it, NEW items, At(w, it, items)
      PROVE  Pace(it, items)
  <2>1. it = Idle /\ items = <<>> /\ DOMAIN items = {}
    BY <1>1 DEF At, Init
  <2>2. /\ it.pc = "none" /\ it.iters = 0 /\ it.taken = 0 /\ it.produced = 0
        /\ it.source = "shards" /\ it.finished = {}
    BY <2>1 DEF Idle
  <2>3. Cardinality(OfIteration(items, it.iters)) = 0
    <3>1. OfIteration(items, it.iters) = {}
      BY <2>1 DEF OfIteration
    <3>2. QED
      BY <3>1, FS_EmptySet
  <2>4. plan.limit # Unlimited => 0 <= plan.limit
    BY PipelineAssumption DEF Init, Plan
  <2>5. Limited(it) /\ Stopped(it)
    BY <2>2, <2>4 DEF Limited, Stopped, Running
  <2>6. Tallied(it, items)
    BY <2>1, <2>2, <2>3 DEF Tallied
  <2>7. QED
    BY <2>5, <2>6 DEF Pace
<1>2. QED
  BY <1>1 DEF Paced

LEMMA NextPaced ==
  ASSUME IInv, Paced, [Next]_vars
  PROVE  Paced'
<1>1. ASSUME NEW r \in Ranks, Iterate(r) PROVE Paced'
  BY <1>1, IteratePaced
<1>2. ASSUME NEW w \in Workers, Resume(w) \/ Abandon(w) \/ Step(w) PROVE Paced'
  <2>1. CASE Resume(w) \/ Abandon(w) \/ NoEpochLeft(w)
    BY <2>1, ResumePaced
  <2>2. CASE Start(w) \/ Apply(w)
    BY <2>2, StartPaced
  <2>3. CASE TakeSample(w)
    BY <2>3, TakeSamplePaced
  <2>4. CASE DrawShard(w) \/ OpenShard(w)
    BY <2>4, DrawShardPaced, OpenShardPaced
  <2>5. CASE OpenFails(w)
    BY <2>5, OpenFailsPaced
  <2>6. CASE ReportEmpty(w)
    BY <2>6, ReportEmptyPaced
  <2>7. CASE EndRun(w) \/ EndReplay(w)
    BY <2>7, EndPaced
  <2>8. CASE Replay(w)
    BY <2>8, ReplayPaced
  <2>9. QED
    BY <1>2, <2>1, <2>2, <2>3, <2>4, <2>5, <2>6, <2>7, <2>8 DEF Step
<1>3. CASE UNCHANGED vars
  <2>1. plan' = plan /\ worker' = worker /\ got' = got /\ Workers' = Workers
    BY <1>3 DEF vars, Workers, Team, Ranks
  <2>2. ASSUME NEW w, NEW it, NEW items, At(w, it, items)'
        PROVE  Pace(it, items)'
    <3>1. Pace(it, items)
      BY <2>1, <2>2 DEF At, Paced
    <3>2. QED
      BY <2>1, <3>1 DEF Pace, Limited, Stopped, Tallied, Running, OfIteration, InRun
  <2>3. QED
    BY <2>2 DEF Paced
<1>4. QED
  BY <1>1, <1>2, <1>3 DEF Next, Finished

LEMMA PacedAlways == Spec => [](IInv /\ Paced)
<1>1. Init => IInv /\ Paced
  BY InitInv, InitPaced
<1>2. IInv /\ Paced /\ [Next]_vars => (IInv /\ Paced)'
  BY NextInv, NextPaced
<1>3. QED
  BY <1>1, <1>2, PTL DEF Spec

(* take(n) never gives more than n items of an iteration, however many runs  *)
(* it takes; an iteration ends only when its runs are used up, or its items, *)
(* or a run is empty.                                                        *)
THEOREM EpochsAreCounted == Spec => []EpochLength
<1>1. ASSUME IInv, Paced
      PROVE  EpochLength
  <2>1. SUFFICES ASSUME NEW w \in Workers
                 PROVE  LET it == worker[w]
                            items == OfIteration(got[w], worker[w].iters)
                        IN /\ plan.limit # Unlimited => Cardinality(items) <= plan.limit
                           /\ it.pc = "ended" /\ it.produced > 0 =>
                                \/ it.left = 0
                                \/ plan.limit # Unlimited /\ Cardinality(items) = plan.limit
    BY DEF EpochLength, OfIteration
  <2>2. Pace(worker[w], got[w])
    BY <1>1, PacedIs
  <2>3. QED
    BY <2>2 DEF Pace, Limited, Stopped, Tallied
<1>2. QED
  BY <1>1, PacedAlways, PTL

(* With the check for an empty stream, no pass over the shards ends without  *)
(* an item: in any epoch and any iteration, not in the first one only.       *)
THEOREM EmptyIsNoticed == Spec => []EmptyIsReported
<1>1. ASSUME IInv, Paced
      PROVE  EmptyIsReported
  <2>1. SUFFICES ASSUME plan.check, ~plan.cached, NEW w \in Workers,
                        NEW n \in worker[w].finished
                 PROVE  Handed(w, n) # {}
    BY DEF EmptyIsReported
  <2>2. Pace(worker[w], got[w])
    BY <1>1, PacedIs
  <2>3. InRun(got[w], n)
    BY <2>1, <2>2 DEF Pace, Tallied
  <2>4. QED
    BY <2>3 DEF InRun, Handed
<1>2. QED
  BY <1>1, PacedAlways, PTL

-----------------------------------------------------------------------------
(* The cache.  What a worker collects is what it has handed out in its run  *)
(* (Collected); what it has still to replay is what the cache has beyond    *)
(* that (Replaying); runs that were replayed are passes through the cache   *)
(* (Replayed).  That a run's items are all from one source, and come before *)
(* the run is over (Known), keeps the parts apart.                          *)
Passes(items, n, source, list) ==
  /\ Begins(items, From(items, n, source), list)
  /\ Cardinality(From(items, n, source)) = Len(list)

Drawing == {"pull", "between"}

Known(it, items) ==
  /\ \A k \in DOMAIN items : /\ items[k].run <= it.runs
                             /\ it.pc = "stage" => items[k].run # it.runs
  /\ it.pc = "stage" \/ it.pc \in Drawing => it.runs \notin it.finished
  /\ it.pc \in Drawing =>
       \A k \in DOMAIN items : items[k].run = it.runs => items[k].source = it.source

Collected(cached, it, items) ==
  cached /\ it.pc \in Drawing /\ it.source = "shards" =>
    Passes(items, it.runs, "shards", it.held)

Remains(n, held, all) ==
  n + Len(held) = Len(all) /\ \A i \in 1..Len(held) : held[i] = all[n + i]

Replaying(it, items, full) ==
  it.pc \in Drawing /\ it.source = "cache" =>
    /\ full # <<>>
    /\ Remains(Cardinality(From(items, it.runs, "cache")), it.held, full[1])

Replayed(it, items, full) ==
  \A n \in Nat :
    /\ full = <<>> => From(items, n, "cache") = {}
    /\ full # <<>> => Begins(items, From(items, n, "cache"), full[1])
    /\ full # <<>> /\ n \in it.finished =>
         Cardinality(From(items, n, "cache")) \in {0, Len(full[1])}

Caching(cached, it, items, full) ==
  /\ Known(it, items) /\ Collected(cached, it, items)
  /\ Replaying(it, items, full) /\ Replayed(it, items, full)

Committed(r) ==
  cache[r] # <<>> =>
    \E w \in Team(r) : \E n \in worker[w].finished :
      Passes(got[w], n, "shards", cache[r][1])

Cached ==
  /\ \A w \in Workers : Caching(plan.cached, worker[w], got[w], cache[w[1]])
  /\ \A r \in Ranks : Committed(r)

(* What is counted of a history, and what one more item changes. *)
LEMMA FromFacts ==
  ASSUME NEW items \in Seq(Entry), NEW n, NEW source
  PROVE  /\ IsFiniteSet(From(items, n, source))
         /\ Cardinality(From(items, n, source)) \in Nat
         /\ \A k \in From(items, n, source) :
              Cardinality({j \in From(items, n, source) : j <= k})
                \in 1..Cardinality(From(items, n, source))
<1>1. IsFiniteSet(DOMAIN items) /\ DOMAIN items \subseteq Nat
  BY FS_Interval
<1> DEFINE ks == From(items, n, source)
<1>2. ks \subseteq DOMAIN items
  BY DEF From
<1> HIDE DEF ks
<1>3. IsFiniteSet(ks)
  BY <1>1, <1>2, FS_Subset
<1>4. Cardinality(ks) \in Nat
  BY <1>3, FS_CardinalityType
<1>5. ASSUME NEW k \in ks
      PROVE  Cardinality({j \in ks : j <= k}) \in 1..Cardinality(ks)
  <2> DEFINE S == {j \in ks : j <= k}
  <2>1. S \subseteq ks /\ k \in S
    BY <1>1, <1>2
  <2> HIDE DEF S
  <2>2. IsFiniteSet(S) /\ Cardinality(S) <= Cardinality(ks)
    BY <1>3, <2>1, FS_Subset
  <2>3. Cardinality(S) \in Nat /\ Cardinality(S) # 0
    BY <2>1, <2>2, FS_CardinalityType, FS_EmptySet
  <2>4. QED
    BY <1>4, <2>2, <2>3 DEF S
<1>6. QED
  BY <1>3, <1>4, <1>5 DEF ks

Extends(more, items, entry) ==
  items \in Seq(Entry) /\ entry \in Entry /\ more = Append(items, entry)

Adds(entry, n, source) == entry.run = n /\ entry.source = source /\ entry.sample # Error

(* An item that is not of this run, not of this source, or an error. *)
LEMMA FromOther ==
  ASSUME NEW items, NEW entry, NEW more, Extends(more, items, entry),
         NEW n, NEW source, ~Adds(entry, n, source)
  PROVE  /\ From(more, n, source) = From(items, n, source)
         /\ \A list : Begins(items, From(items, n, source), list) =>
                        Begins(more, From(more, n, source), list)
         /\ \A list : Passes(items, n, source, list) => Passes(more, n, source, list)
<1>1. /\ DOMAIN more = DOMAIN items \cup {Len(items) + 1} /\ more[Len(items) + 1] = entry
      /\ \A k \in DOMAIN items : more[k] = items[k]
  BY DEF Extends
<1>2. From(more, n, source) = From(items, n, source)
  BY <1>1 DEF From, Adds
<1>3. From(items, n, source) \subseteq DOMAIN items
  BY DEF From
<1>4. \A list : Begins(items, From(items, n, source), list) =>
                  Begins(more, From(more, n, source), list)
  BY <1>1, <1>2, <1>3 DEF Begins
<1>5. QED
  BY <1>2, <1>4 DEF Passes

(* The next sample of this run and source. *)
LEMMA FromNext ==
  ASSUME NEW items, NEW entry, NEW more, Extends(more, items, entry),
         NEW n, NEW source, Adds(entry, n, source),
         NEW list, Begins(items, From(items, n, source), list),
         Cardinality(From(items, n, source)) + 1 <= Len(list),
         NEW sample, sample = entry.sample,
         list[Cardinality(From(items, n, source)) + 1] = sample
  PROVE  /\ Cardinality(From(more, n, source)) = Cardinality(From(items, n, source)) + 1
         /\ Begins(more, From(more, n, source), list)
<1>k. PICK ks : ks = From(items, n, source)
  OBVIOUS
<1>l. PICK l : l = Len(items) + 1
  OBVIOUS
<1>1. /\ DOMAIN more = DOMAIN items \cup {l} /\ more[l] = entry /\ l \notin DOMAIN items
      /\ \A k \in DOMAIN items : more[k] = items[k] /\ k < l
      /\ DOMAIN items \subseteq Nat /\ l \in Nat
  BY <1>l DEF Extends
<1>2. From(more, n, source) = ks \cup {l} /\ ks \subseteq DOMAIN items
  BY <1>k, <1>1 DEF From, Adds
<1>3. IsFiniteSet(ks) /\ Cardinality(ks) \in Nat
  BY <1>k, FromFacts DEF Extends
<1>4. l \notin ks
  BY <1>1, <1>2
<1>5. Cardinality(ks \cup {l}) = Cardinality(ks) + 1
  BY <1>3, <1>4, FS_AddElement
<1>6. {j \in ks \cup {l} : j <= l} = ks \cup {l}
  BY <1>1, <1>2
<1>7. \A k \in ks : {j \in ks \cup {l} : j <= k} = {j \in ks : j <= k}
  BY <1>1, <1>2
<1>8. Begins(more, ks \cup {l}, list)
  <2>1. ASSUME NEW k \in ks \cup {l}
        PROVE  /\ Cardinality({j \in ks \cup {l} : j <= k}) <= Len(list)
               /\ more[k].sample = list[Cardinality({j \in ks \cup {l} : j <= k})]
    <3>1. CASE k = l
      BY <1>k, <1>1, <1>5, <1>6, <3>1
    <3>2. CASE k \in ks
      <4>1. more[k] = items[k]
        BY <1>1, <1>2, <3>2
      <4>2. Begins(items, ks, list)
        BY <1>k
      <4>3. QED
        BY <1>7, <3>2, <4>1, <4>2 DEF Begins
    <3>3. QED
      BY <3>1, <3>2
  <2>2. QED
    BY <2>1 DEF Begins
<1>9. QED
  BY <1>k, <1>2, <1>5, <1>8

(* A list that goes on begins with the same samples. *)
LEMMA BeginsLonger ==
  ASSUME NEW S, NEW items \in Seq(Entry), NEW n, NEW source, NEW list \in Seq(S), NEW sample \in S,
         Passes(items, n, source, list)
  PROVE  Begins(items, From(items, n, source), Append(list, sample))
<1>k. PICK ks : ks = From(items, n, source)
  OBVIOUS
<1>a. PICK long : long = Append(list, sample)
  OBVIOUS
<1>1. Len(long) = Len(list) + 1 /\ Len(list) \in Nat /\ \A i \in 1..Len(list) : long[i] = list[i]
  BY <1>a
<1>2. Begins(items, ks, list) /\ Cardinality(ks) = Len(list)
  BY <1>k DEF Passes
<1>3. \A k \in ks : Cardinality({j \in ks : j <= k}) \in 1..Len(list)
  BY <1>k, <1>2, FromFacts
<1>4. ASSUME NEW k \in ks
      PROVE  /\ Cardinality({j \in ks : j <= k}) <= Len(long)
             /\ items[k].sample = long[Cardinality({j \in ks : j <= k})]
  <2>1. PICK i : i = Cardinality({j \in ks : j <= k})
    OBVIOUS
  <2>2. i \in 1..Len(list) /\ items[k].sample = list[i]
    BY <1>2, <1>3, <2>1 DEF Begins
  <2>3. i <= Len(long) /\ items[k].sample = long[i]
    BY <1>1, <2>2
  <2>4. QED
    BY <2>1, <2>3
<1>5. Begins(items, ks, long)
  BY <1>4 DEF Begins
<1>6. QED
  BY <1>k, <1>a, <1>5

(* How the steps of a worker keep it.  Steps that touch neither run nor     *)
(* cache:                                                                   *)
LEMMA CachingIdle ==
  ASSUME NEW cached, NEW a, NEW b, NEW items, NEW full, Caching(cached, a, items, full),
         b.runs = a.runs, b.source = a.source, b.held = a.held, b.finished = a.finished,
         b.pc # "stage", b.pc \in Drawing => a.pc \in Drawing
  PROVE  Caching(cached, b, items, full)
<1>1. Known(b, items)
  BY DEF Caching, Known
<1>2. Collected(cached, b, items)
  BY DEF Caching, Collected
<1>3. Replaying(b, items, full)
  BY DEF Caching, Replaying
<1>4. Replayed(b, items, full)
  BY DEF Caching, Replayed
<1>5. QED
  BY <1>1, <1>2, <1>3, <1>4 DEF Caching

(* The next run. *)
LEMMA CachingStarts ==
  ASSUME NEW cached, NEW a, NEW b, NEW items \in Seq(Entry), NEW full,
         Caching(cached, a, items, full), a.runs \in Nat, a.finished \subseteq 1..a.runs,
         b.runs = a.runs + 1, b.pc = "stage", b.finished = a.finished
  PROVE  Caching(cached, b, items, full)
<1>1. \A k \in DOMAIN items : items[k].run <= b.runs /\ items[k].run # b.runs
  <2>1. ASSUME NEW k \in DOMAIN items
        PROVE  items[k].run <= b.runs /\ items[k].run # b.runs
    <3>1. items[k] \in Entry
      OBVIOUS
    <3>2. items[k].run \in Nat
      BY <3>1 DEF Entry
    <3>3. items[k].run <= a.runs
      BY DEF Caching, Known
    <3>4. QED
      BY <3>2, <3>3
  <2>2. QED
    BY <2>1
<1>2. b.runs \notin b.finished /\ b.pc \notin Drawing
  BY DEF Drawing
<1>3. Known(b, items)
  BY <1>1, <1>2 DEF Known
<1>4. Collected(cached, b, items) /\ Replaying(b, items, full)
  BY <1>2 DEF Collected, Replaying
<1>5. Replayed(b, items, full)
  BY DEF Caching, Replayed
<1>6. QED
  BY <1>3, <1>4, <1>5 DEF Caching

(* The cache is looked at. *)
LEMMA CachingApplies ==
  ASSUME NEW cached, NEW a, NEW b, NEW items, NEW full, Caching(cached, a, items, full),
         a.pc = "stage", b.pc = "pull", b.runs = a.runs, b.finished = a.finished,
         \/ b.source = "shards" /\ b.held = <<>>
         \/ b.source = "cache" /\ full # <<>> /\ full[1] \in Seq(Sample) /\ b.held = full[1]
  PROVE  Caching(cached, b, items, full)
<1>1. \A k \in DOMAIN items : items[k].run <= a.runs /\ items[k].run # a.runs
  BY DEF Caching, Known
<1>2. \A source : From(items, b.runs, source) = {}
  BY <1>1 DEF From
<1>3. \A source : Cardinality(From(items, b.runs, source)) = 0
  BY <1>2, FS_EmptySet
<1>4. Known(b, items)
  <2>1. a.runs \notin a.finished
    BY DEF Caching, Known
  <2>2. QED
    BY <1>1, <2>1 DEF Known, Drawing
<1>5. Collected(cached, b, items)
  <2>1. b.source = "shards" => b.held = <<>>
    OBVIOUS
  <2>2. Passes(items, b.runs, "shards", <<>>)
    BY <1>2, <1>3 DEF Passes, Begins
  <2>3. QED
    BY <2>1, <2>2 DEF Collected
<1>6. Replaying(b, items, full)
  <2>1. SUFFICES ASSUME b.source = "cache"
                 PROVE  full # <<>> /\ Remains(Cardinality(From(items, b.runs, "cache")), b.held, full[1])
    BY DEF Replaying
  <2>2. full # <<>> /\ full[1] \in Seq(Sample) /\ b.held = full[1]
    BY <2>1
  <2>3. Remains(0, full[1], full[1])
    BY <2>2 DEF Remains
  <2>4. QED
    BY <1>3, <2>2, <2>3
<1>7. Replayed(b, items, full)
  BY DEF Caching, Replayed
<1>8. QED
  BY <1>4, <1>5, <1>6, <1>7 DEF Caching

(* What an item handed out leaves as it is. *)
LEMMA KnownHanding ==
  ASSUME NEW a, NEW b, NEW items, Known(a, items),
         NEW entry, NEW more, Extends(more, items, entry),
         entry.run = a.runs, entry.source = a.source, a.runs \in Nat,
         a.pc = "pull", b.pc = "between", b.runs = a.runs, b.source = a.source,
         b.finished = a.finished
  PROVE  Known(b, more)
<1>1. /\ DOMAIN more = DOMAIN items \cup {Len(items) + 1} /\ more[Len(items) + 1] = entry
      /\ \A k \in DOMAIN items : more[k] = items[k]
  BY DEF Extends
<1>2. b.runs \notin b.finished
  BY DEF Known, Drawing
<1>3. \A k \in DOMAIN more : more[k].run <= b.runs
  BY <1>1 DEF Known
<1>4. \A k \in DOMAIN more : more[k].run = b.runs => more[k].source = b.source
  BY <1>1 DEF Known, Drawing
<1>5. QED
  BY <1>2, <1>3, <1>4 DEF Known

LEMMA ReplayedElsewhere ==
  ASSUME NEW a, NEW b, NEW items, NEW full, Replayed(a, items, full),
         NEW entry, NEW more, Extends(more, items, entry),
         \A n : ~Adds(entry, n, "cache"), b.finished = a.finished
  PROVE  Replayed(b, more, full)
<1>1. \A n \in Nat : /\ From(more, n, "cache") = From(items, n, "cache")
                     /\ \A list : Begins(items, From(items, n, "cache"), list) =>
                                    Begins(more, From(more, n, "cache"), list)
  BY FromOther
<1>2. QED
  BY <1>1 DEF Replayed

(* A sample of a shard. *)
LEMMA CachingTakes ==
  ASSUME NEW cached, NEW a, NEW b, NEW items, NEW full,
         Caching(cached, a, items, full),
         NEW entry, NEW more, Extends(more, items, entry),
         entry.run = a.runs, entry.source = "shards", a.source = "shards", a.runs \in Nat,
         entry.sample \in Sample, entry.sample # Error, a.held \in Seq(Sample),
         a.pc = "pull", b.pc = "between", b.runs = a.runs, b.source = "shards",
         b.finished = a.finished, cached => b.held = Append(a.held, entry.sample)
  PROVE  Caching(cached, b, more, full)
<1>1. Known(b, more)
  BY KnownHanding DEF Caching
<1>2. Replayed(b, more, full)
  <2>1. \A n : ~Adds(entry, n, "cache")
    BY DEF Adds
  <2>2. QED
    BY <2>1, ReplayedElsewhere DEF Caching
<1>3. Replaying(b, more, full)
  BY DEF Replaying
<1>a. Adds(entry, a.runs, "shards")
  BY DEF Adds
<1>s. PICK sample : sample = entry.sample
  OBVIOUS
<1>4. ASSUME cached
      PROVE  Passes(more, b.runs, "shards", b.held)
  <2>1. Passes(items, a.runs, "shards", a.held)
    BY <1>4 DEF Caching, Collected, Drawing
  <2>h. PICK held : held = Append(a.held, sample) /\ sample \in Sample
    BY <1>s
  <2>2. Begins(items, From(items, a.runs, "shards"), held)
    BY <2>1, <2>h, BeginsLonger DEF Extends
  <2>3. Cardinality(From(items, a.runs, "shards")) = Len(a.held)
    BY <2>1 DEF Passes
  <2>4. Len(held) = Len(a.held) + 1 /\ Len(a.held) \in Nat /\ held[Len(a.held) + 1] = sample
    BY <2>h
  <2>n. PICK n : n = Cardinality(From(items, a.runs, "shards"))
    OBVIOUS
  <2>5. n + 1 <= Len(held) /\ held[n + 1] = sample
    BY <2>n, <2>3, <2>4
  <2>6. /\ Cardinality(From(more, a.runs, "shards")) = n + 1
        /\ Begins(more, From(more, a.runs, "shards"), held)
    BY <1>a, <1>s, <2>n, <2>2, <2>5, FromNext
  <2>7. n + 1 = Len(held) /\ b.held = held
    BY <1>4, <1>s, <2>n, <2>h, <2>3, <2>4
  <2>8. QED
    BY <2>6, <2>7 DEF Passes
<1>5. Collected(cached, b, more)
  BY <1>4 DEF Collected
<1>6. QED
  BY <1>1, <1>2, <1>3, <1>5 DEF Caching

(* An error in the place of a sample. *)
LEMMA CachingErrs ==
  ASSUME NEW cached, NEW a, NEW b, NEW items, NEW full,
         Caching(cached, a, items, full),
         NEW entry, NEW more, Extends(more, items, entry),
         entry.run = a.runs, entry.source = a.source, a.runs \in Nat,
         entry.sample = Error,
         a.pc = "pull", b.pc = "between", b.runs = a.runs, b.source = a.source,
         b.finished = a.finished, b.held = a.held
  PROVE  Caching(cached, b, more, full)
<1>1. Known(b, more)
  BY KnownHanding DEF Caching
<1>a. \A n, source : ~Adds(entry, n, source)
  BY DEF Adds
<1>2. Replayed(b, more, full)
  BY <1>a, ReplayedElsewhere DEF Caching
<1>3. /\ From(more, a.runs, "cache") = From(items, a.runs, "cache")
      /\ \A list : Passes(items, a.runs, "shards", list) => Passes(more, a.runs, "shards", list)
  BY <1>a, FromOther
<1>4. Replaying(b, more, full)
  BY <1>3 DEF Caching, Replaying, Drawing
<1>5. Collected(cached, b, more)
  BY <1>3 DEF Caching, Collected, Drawing
<1>6. QED
  BY <1>1, <1>2, <1>4, <1>5 DEF Caching

(* A sample of the cache. *)
LEMMA CachingReplays ==
  ASSUME NEW cached, NEW a, NEW b, NEW items, NEW full, Caching(cached, a, items, full),
         full # <<>> => full[1] \in Seq(Sample),
         NEW entry, NEW more, Extends(more, items, entry),
         entry.run = a.runs, entry.source = "cache", a.source = "cache", a.runs \in Nat,
         a.held \in Seq(Sample), a.held # <<>>, NEW sample, sample = Head(a.held),
         entry.sample = sample, sample # Error,
         a.pc = "pull", b.pc = "between", b.runs = a.runs, b.source = "cache",
         b.finished = a.finished, b.held = Tail(a.held)
  PROVE  Caching(cached, b, more, full)
<1>a. Adds(entry, a.runs, "cache")
  BY DEF Adds
<1>n. PICK n : n = Cardinality(From(items, a.runs, "cache"))
  OBVIOUS
<1>l. PICK all : all = full[1]
  OBVIOUS
<1>1. Known(b, more)
  BY KnownHanding DEF Caching
<1>2. Collected(cached, b, more)
  BY DEF Collected
<1>3. full # <<>> /\ Remains(n, a.held, all) /\ all \in Seq(Sample)
  BY <1>n, <1>l DEF Caching, Replaying, Drawing
<1>4. n \in Nat /\ Len(a.held) \in Nat /\ Len(a.held) >= 1 /\ Len(all) \in Nat
  BY <1>n, <1>3, FromFacts DEF Extends
<1>5. n + 1 <= Len(all) /\ all[n + 1] = sample
  <2>1. n + Len(a.held) = Len(all) /\ 1 \in 1..Len(a.held)
    BY <1>3, <1>4 DEF Remains
  <2>2. a.held[1] = all[n + 1] /\ a.held[1] = sample
    BY <1>3, <2>1 DEF Remains
  <2>3. QED
    BY <1>4, <2>1, <2>2
<1>6. Begins(items, From(items, a.runs, "cache"), all)
  BY <1>3, <1>l DEF Caching, Replayed
<1>7. /\ Cardinality(From(more, a.runs, "cache")) = n + 1
      /\ Begins(more, From(more, a.runs, "cache"), all)
  BY <1>a, <1>n, <1>5, <1>6, FromNext
<1>8. Remains(n + 1, Tail(a.held), all)
  <2>1. n + Len(a.held) = Len(all) /\ \A i \in 1..Len(a.held) : a.held[i] = all[n + i]
    BY <1>3 DEF Remains
  <2>t. PICK t : t = Tail(a.held)
    OBVIOUS
  <2>2. /\ Len(t) = Len(a.held) - 1
        /\ \A i \in 1..Len(t) : t[i] = a.held[i + 1] /\ i + 1 \in 1..Len(a.held)
    BY <1>4, <2>t
  <2>3. (n + 1) + Len(t) = Len(all)
    <3>1. PICK h, r, l : h = Len(a.held) /\ r = Len(t) /\ l = Len(all)
      OBVIOUS
    <3>2. n \in Nat /\ h \in Nat /\ l \in Nat /\ n + h = l /\ r = h - 1
      BY <1>4, <2>1, <2>2, <3>1
    <3>3. (n + 1) + r = l
      BY <3>2
    <3>4. QED
      BY <3>1, <3>3
  <2>4. \A i \in 1..Len(t) : t[i] = all[(n + 1) + i]
    <3>1. SUFFICES ASSUME NEW i \in 1..Len(t)
                   PROVE  t[i] = all[(n + 1) + i]
      OBVIOUS
    <3>2. t[i] = all[n + (i + 1)]
      BY <2>1, <2>2
    <3>3. n + (i + 1) = (n + 1) + i
      BY <1>4
    <3>4. QED
      BY <3>2, <3>3
  <2>5. QED
    BY <2>t, <2>3, <2>4 DEF Remains
<1>9. Replaying(b, more, full)
  BY <1>3, <1>7, <1>8, <1>l DEF Replaying
<1>10. Replayed(b, more, full)
  <2>1. ASSUME NEW m \in Nat, m # a.runs
        PROVE  /\ From(more, m, "cache") = From(items, m, "cache")
               /\ \A list : Begins(items, From(items, m, "cache"), list) =>
                              Begins(more, From(more, m, "cache"), list)
    <3>1. ~Adds(entry, m, "cache")
      BY <2>1 DEF Adds
    <3>2. QED
      BY <3>1, FromOther
  <2>2. a.runs \notin b.finished
    BY DEF Caching, Known, Drawing
  <2>3. \A m \in Nat :
          /\ full # <<>> => Begins(more, From(more, m, "cache"), full[1])
          /\ full # <<>> /\ m \in b.finished =>
               Cardinality(From(more, m, "cache")) \in {0, Len(full[1])}
    <3>1. SUFFICES ASSUME NEW m \in Nat
                   PROVE  /\ Begins(more, From(more, m, "cache"), full[1])
                          /\ m \in b.finished =>
                               Cardinality(From(more, m, "cache")) \in {0, Len(full[1])}
      OBVIOUS
    <3>2. CASE m = a.runs
      BY <1>7, <1>l, <2>2, <3>2
    <3>3. CASE m # a.runs
      <4>1. /\ Begins(items, From(items, m, "cache"), full[1])
            /\ m \in a.finished => Cardinality(From(items, m, "cache")) \in {0, Len(full[1])}
        BY <1>3 DEF Caching, Replayed
      <4>2. QED
        BY <2>1, <3>3, <4>1
    <3>4. QED
      BY <3>2, <3>3
  <2>4. QED
    BY <1>3, <2>3 DEF Replayed
<1>11. QED
  BY <1>1, <1>2, <1>9, <1>10 DEF Caching

(* The end of a run. *)
LEMMA CachingEnds ==
  ASSUME NEW cached, NEW a, NEW b, NEW items \in Seq(Entry), NEW full,
         Caching(cached, a, items, full), full # <<>> => full[1] \in Seq(Sample),
         a.pc = "pull", a.source = "shards" \/ (a.source = "cache" /\ a.held = <<>>),
         b.pc \notin Drawing, b.pc # "stage",
         b.runs = a.runs, b.finished = a.finished \cup {a.runs}
  PROVE  Caching(cached, b, items, full)
<1>1. Known(b, items) /\ Collected(cached, b, items) /\ Replaying(b, items, full)
  BY DEF Caching, Known, Collected, Replaying
<1>2. full # <<>> => Cardinality(From(items, a.runs, "cache")) \in {0, Len(full[1])}
  <2>1. CASE a.source = "shards"
    <3>1. From(items, a.runs, "cache") = {}
      BY <2>1 DEF From, Caching, Known, Drawing
    <3>2. QED
      BY <3>1, FS_EmptySet
  <2>2. CASE a.source = "cache" /\ a.held = <<>>
    <3>n. PICK n : n = Cardinality(From(items, a.runs, "cache"))
      OBVIOUS
    <3>1. n \in Nat
      BY <3>n, FromFacts
    <3>2. Remains(n, <<>>, full[1])
      BY <2>2, <3>n DEF Caching, Replaying, Drawing
    <3>3. n + Len(<<>>) = Len(full[1])
      BY <3>2 DEF Remains
    <3>4. n = Len(full[1])
      BY <3>1, <3>3
    <3>5. QED
      BY <3>n, <3>4
  <2>3. QED
    BY <2>1, <2>2
<1>3. Replayed(b, items, full)
  BY <1>2 DEF Caching, Replayed
<1>4. QED
  BY <1>1, <1>3 DEF Caching

(* The cache is filled. *)
LEMMA CachingFills ==
  ASSUME NEW cached, NEW a, NEW items, NEW list, Caching(cached, a, items, <<>>)
  PROVE  Caching(cached, a, items, <<list>>)
<1>1. Replaying(a, items, <<list>>)
  BY DEF Caching, Replaying
<1>2. Replayed(a, items, <<list>>)
  <2>1. \A n \in Nat : From(items, n, "cache") = {}
    BY DEF Caching, Replayed
  <2>2. \A n \in Nat : Cardinality(From(items, n, "cache")) = 0
    BY <2>1, FS_EmptySet
  <2>3. <<list>> # <<>>
    OBVIOUS
  <2>4. QED
    BY <2>1, <2>2, <2>3 DEF Replayed, Begins
<1>3. QED
  BY <1>1, <1>2 DEF Caching

-----------------------------------------------------------------------------
(* The steps of the specification.                                         *)

(* A step of one worker that leaves the caches alone. *)
LEMMA CachedByOne ==
  ASSUME IInv, Cached, NEW w \in Workers, Others(w), cache' = cache,
         Caching(plan.cached, worker'[w], got'[w], cache[w[1]]),
         worker[w].finished \subseteq worker'[w].finished,
         \A n \in worker[w].finished : \A list :
           Passes(got[w], n, "shards", list) => Passes(got'[w], n, "shards", list)
  PROVE  Cached'
<1>1. plan' = plan /\ Workers' = Workers /\ Ranks' = Ranks /\ \A r : Team(r)' = Team(r)
  BY DEF Others, Workers, Team, Ranks
<1>2. \A v \in Workers : v # w => worker'[v] = worker[v] /\ got'[v] = got[v]
  BY DEF Others
<1>3. ASSUME NEW v \in Workers
      PROVE  Caching(plan.cached, worker'[v], got'[v], cache[v[1]])
  <2>1. CASE v = w
    BY <2>1
  <2>2. CASE v # w
    BY <1>2, <2>2 DEF Cached
  <2>3. QED
    BY <2>1, <2>2
<1>4. ASSUME NEW r \in Ranks, cache[r] # <<>>
      PROVE  \E v \in Team(r) : \E n \in worker'[v].finished :
               Passes(got'[v], n, "shards", cache[r][1])
  <2>1. PICK v \in Team(r) : \E n \in worker[v].finished : Passes(got[v], n, "shards", cache[r][1])
    BY <1>4 DEF Cached, Committed
  <2>2. PICK n \in worker[v].finished : Passes(got[v], n, "shards", cache[r][1])
    BY <2>1
  <2>3. v \in Workers
    BY DEF Workers
  <2>4. n \in worker'[v].finished /\ Passes(got'[v], n, "shards", cache[r][1])
    BY <1>2, <2>2, <2>3
  <2>5. QED
    BY <2>4
<1>5. QED
  BY <1>1, <1>3, <1>4 DEF Cached, Committed

LEMMA CachedIs ==
  ASSUME IInv, Cached, NEW w \in Workers
  PROVE  /\ Caching(plan.cached, worker[w], got[w], cache[w[1]])
         /\ cache[w[1]] # <<>> => cache[w[1]][1] \in Seq(Sample)
         /\ worker \in [Workers -> Iteration] /\ worker[w] \in Iteration
         /\ got[w] \in Seq(Entry)
         /\ worker[w].finished \subseteq 1..worker[w].runs /\ worker[w].runs \in Nat
         /\ worker[w].held \in Seq(Sample) /\ worker[w].unread \in Seq(Sample)
<1>1. w[1] \in Ranks
  BY PlanFacts DEF IInv, Typed
<1>2. cache[w[1]] \in Seq(Seq(Sample))
  BY <1>1 DEF IInv, Typed
<1>3. cache[w[1]] # <<>> => cache[w[1]][1] \in Seq(Sample)
  BY <1>2
<1>4. worker \in [Workers -> Iteration] /\ worker[w] \in Iteration /\ got[w] \in Seq(Entry)
  BY WorkerFacts DEF IInv, Typed
<1>5. /\ worker[w].runs \in Nat /\ worker[w].held \in Seq(Sample)
      /\ worker[w].unread \in Seq(Sample)
  BY <1>4 DEF Iteration
<1>6. worker[w].finished \subseteq 1..worker[w].runs
  BY WorkerFacts DEF Counted
<1>7. QED
  BY <1>3, <1>4, <1>5, <1>6 DEF Cached

(* A step that hands out nothing. *)
LEMMA CachedResting ==
  ASSUME IInv, Cached, NEW w \in Workers, NEW it, UNCHANGED <<plan, got, cache>>,
         worker' = [worker EXCEPT ![w] = it],
         Caching(plan.cached, it, got[w], cache[w[1]]), it.finished = worker[w].finished
  PROVE  Cached'
<1>1. Others(w) /\ worker'[w] = it /\ got'[w] = got[w]
  BY OthersStay
<1>2. QED
  BY <1>1, CachedByOne

(* A step that hands out an item. *)
LEMMA CachedHanding ==
  ASSUME IInv, Cached, NEW w \in Workers, NEW it, NEW sample \in Sample \cup {Error},
         Hands(w, sample), worker' = [worker EXCEPT ![w] = it], worker[w].pc = "pull",
         Caching(plan.cached, it, Append(got[w], Item(w, sample)), cache[w[1]]),
         it.finished = worker[w].finished
  PROVE  Cached'
<1>1. Others(w) /\ worker'[w] = it
  <2>1. plan' = plan /\ got' = [got EXCEPT ![w] = Append(@, Item(w, sample))]
    BY DEF Hands
  <2>2. QED
    BY <2>1, OthersStay
<1>m. PICK more : more = Append(got[w], Item(w, sample))
  OBVIOUS
<1>2. got'[w] = more /\ cache' = cache
  BY <1>m, HandsFacts DEF IInv, Typed
<1>3. Extends(more, got[w], Item(w, sample)) /\ Item(w, sample).run = worker[w].runs
  BY <1>m, HandsFacts, WorkerFacts DEF Extends
<1>4. worker[w].runs \notin worker[w].finished
  BY CachedIs DEF Caching, Known, Drawing
<1>5. ASSUME NEW n \in worker[w].finished
      PROVE  \A list : Passes(got[w], n, "shards", list) => Passes(more, n, "shards", list)
  <2>1. ~Adds(Item(w, sample), n, "shards")
    BY <1>3, <1>4 DEF Adds
  <2>2. QED
    BY <1>3, <2>1, FromOther
<1>6. QED
  BY <1>1, <1>2, <1>5, <1>m, CachedByOne

LEMMA SamplesAreNoErrors == Error \notin Sample
BY DEF Error, Sample

(* What an item says of its run. *)
LEMMA ItemIs ==
  ASSUME IInv, Cached, NEW w \in Workers, NEW sample \in Sample \cup {Error}, Hands(w, sample)
  PROVE  /\ Extends(Append(got[w], Item(w, sample)), got[w], Item(w, sample))
         /\ Item(w, sample).run = worker[w].runs /\ Item(w, sample).source = worker[w].source
         /\ Item(w, sample).sample = sample
BY HandsFacts, WorkerFacts DEF Extends, Item

LEMMA ResumeCached ==
  ASSUME IInv, Cached, NEW w \in Workers, Resume(w) \/ Abandon(w) \/ NoEpochLeft(w)
  PROVE  Cached'
<1>1. PICK where \in {"ended", "pull", "dropped"} :
        /\ worker' = [worker EXCEPT ![w].pc = where]
        /\ where = "pull" => worker[w].pc = "between"
        /\ UNCHANGED <<plan, got, cache>>
  BY DEF Resume, Abandon, NoEpochLeft
<1> DEFINE it == [worker[w] EXCEPT !.pc = where]
<1>2. worker \in [Workers -> Iteration] /\ worker[w] \in Iteration
  BY CachedIs
<1>3. worker' = [worker EXCEPT ![w] = it]
  BY <1>1, <1>2
<1>4. /\ it.pc = where /\ it.runs = worker[w].runs /\ it.source = worker[w].source
      /\ it.held = worker[w].held /\ it.finished = worker[w].finished
  BY <1>2 DEF Iteration
<1> HIDE DEF it
<1>5. it.pc # "stage" /\ (it.pc \in Drawing => worker[w].pc \in Drawing)
  BY <1>1, <1>4 DEF Drawing
<1>6. Caching(plan.cached, it, got[w], cache[w[1]])
  BY <1>4, <1>5, CachedIs, CachingIdle
<1>7. QED
  BY <1>1, <1>3, <1>4, <1>6, CachedResting

LEMMA StartCached ==
  ASSUME IInv, Cached, NEW w \in Workers, Start(w)
  PROVE  Cached'
<1>1. PICK share : /\ worker' = Started(w, share) /\ UNCHANGED <<plan, got, cache>>
  BY DEF Start
<1> DEFINE left == IF worker[w].left = Forever THEN Forever ELSE worker[w].left - 1
           it == [worker[w] EXCEPT !.pc = "stage", !.left = left, !.runs = @ + 1,
                    !.list = share, !.unread = <<>>, !.done = FALSE, !.produced = 0]
<1>2. worker \in [Workers -> Iteration] /\ worker[w] \in Iteration
  BY CachedIs
<1>3. worker' = [worker EXCEPT ![w] = it]
  BY <1>1, <1>2 DEF Started, Iteration
<1>4. it.pc = "stage" /\ it.runs = worker[w].runs + 1 /\ it.finished = worker[w].finished
  BY <1>2 DEF Iteration
<1> HIDE DEF it
<1>5. Caching(plan.cached, it, got[w], cache[w[1]])
  BY <1>4, CachedIs, CachingStarts
<1>6. QED
  BY <1>1, <1>3, <1>4, <1>5, CachedResting

LEMMA ApplyCached ==
  ASSUME IInv, Cached, NEW w \in Workers, Apply(w)
  PROVE  Cached'
<1> DEFINE full == plan.cached /\ cache[w[1]] # <<>>
           source == IF full THEN "cache" ELSE "shards"
           held == IF full THEN cache[w[1]][1] ELSE <<>>
           it == [worker[w] EXCEPT !.pc = "pull", !.source = source, !.held = held]
<1>1. /\ worker[w].pc = "stage" /\ UNCHANGED <<plan, got, cache>>
      /\ worker' = [worker EXCEPT ![w].pc = "pull", ![w].source = source, ![w].held = held]
  BY DEF Apply
<1>2. \/ source = "shards" /\ held = <<>>
      \/ source = "cache" /\ cache[w[1]] # <<>> /\ held = cache[w[1]][1]
  OBVIOUS
<1>3. worker \in [Workers -> Iteration] /\ worker[w] \in Iteration
  BY CachedIs
<1> HIDE DEF source, held
<1>4. worker' = [worker EXCEPT ![w] = it]
  BY <1>1, <1>3 DEF Iteration
<1>5. /\ it.pc = "pull" /\ it.runs = worker[w].runs /\ it.finished = worker[w].finished
      /\ it.source = source /\ it.held = held
  BY <1>3 DEF Iteration
<1> HIDE DEF it
<1>6. Caching(plan.cached, it, got[w], cache[w[1]])
  <2>c. PICK c : c = cache[w[1]]
    OBVIOUS
  <2>1. \/ it.source = "shards" /\ it.held = <<>>
        \/ it.source = "cache" /\ c # <<>> /\ c[1] \in Seq(Sample) /\ it.held = c[1]
    BY <1>2, <1>5, <2>c, CachedIs
  <2>2. Caching(plan.cached, worker[w], got[w], c)
    BY <2>c, CachedIs
  <2>3. Caching(plan.cached, it, got[w], c)
    BY <1>1, <1>5, <2>1, <2>2, CachingApplies
  <2>4. QED
    BY <2>c, <2>3
<1>7. QED
  BY <1>1, <1>4, <1>5, <1>6, CachedResting

(* The reader's own fields change. *)
LEMMA ReaderCached ==
  ASSUME IInv, Cached, NEW w \in Workers, NEW it, UNCHANGED <<plan, got, cache>>,
         worker' = [worker EXCEPT ![w] = it], worker[w].pc = "pull", it.pc = "pull",
         it.runs = worker[w].runs, it.source = worker[w].source, it.held = worker[w].held,
         it.finished = worker[w].finished
  PROVE  Cached'
<1>1. it.pc # "stage" /\ worker[w].pc \in Drawing
  BY DEF Drawing
<1>2. Caching(plan.cached, it, got[w], cache[w[1]])
  BY <1>1, CachedIs, CachingIdle
<1>3. QED
  BY <1>2, CachedResting

LEMMA DrawShardCached ==
  ASSUME IInv, Cached, NEW w \in Workers, DrawShard(w)
  PROVE  Cached'
<1>1. worker \in [Workers -> Iteration] /\ worker[w] \in Iteration
  BY CachedIs
<1>2. PICK s : /\ UNCHANGED <<plan, got, cache>> /\ worker[w].pc = "pull"
               /\ worker' = [worker EXCEPT ![w].list = <<s>>]
  BY DEF DrawShard, Pulling
<1> DEFINE it == [worker[w] EXCEPT !.list = <<s>>]
<1>3. worker' = [worker EXCEPT ![w] = it]
  BY <1>1, <1>2 DEF Iteration
<1>4. /\ it.pc = "pull" /\ it.runs = worker[w].runs /\ it.source = worker[w].source
      /\ it.held = worker[w].held /\ it.finished = worker[w].finished
  BY <1>1, <1>2 DEF Iteration
<1> HIDE DEF it
<1>5. QED
  BY <1>2, <1>3, <1>4, ReaderCached

LEMMA OpenShardCached ==
  ASSUME IInv, Cached, NEW w \in Workers, OpenShard(w)
  PROVE  Cached'
<1>1. worker \in [Workers -> Iteration] /\ worker[w] \in Iteration
  BY CachedIs
<1>2. PICK next : /\ UNCHANGED <<plan, got, cache>> /\ worker[w].pc = "pull"
                  /\ worker' = [worker EXCEPT
                       ![w].list = next[2],
                       ![w].unread = [k \in 1..Urls[next[1]].samples |-> <<next[1], k>>]]
  BY DEF OpenShard, NextShard, Pulling
<1> DEFINE unread == [k \in 1..Urls[next[1]].samples |-> <<next[1], k>>]
           list == next[2]
           it == [worker[w] EXCEPT !.list = list, !.unread = unread]
<1>3. worker' = [worker EXCEPT ![w].list = list, ![w].unread = unread]
  BY <1>2
<1> HIDE DEF unread, list
<1>4. worker' = [worker EXCEPT ![w] = it]
  BY <1>1, <1>3 DEF Iteration
<1>5. /\ it.pc = "pull" /\ it.runs = worker[w].runs /\ it.source = worker[w].source
      /\ it.held = worker[w].held /\ it.finished = worker[w].finished
  BY <1>1, <1>2 DEF Iteration
<1> HIDE DEF it
<1>6. QED
  BY <1>2, <1>4, <1>5, ReaderCached

(* An error in the place of a sample. *)
LEMMA ErrorCached ==
  ASSUME IInv, Cached, NEW w \in Workers, NEW it, worker[w].pc = "pull", Hands(w, Error),
         worker' = [worker EXCEPT ![w] = it], it.pc = "between",
         it.runs = worker[w].runs, it.source = worker[w].source, it.held = worker[w].held,
         it.finished = worker[w].finished
  PROVE  Cached'
<1>i. PICK item : item = Item(w, Error)
  OBVIOUS
<1>m. PICK more : more = Append(got[w], item)
  OBVIOUS
<1>1. /\ Extends(more, got[w], item) /\ item.run = worker[w].runs
      /\ item.source = worker[w].source /\ item.sample = Error
  BY <1>i, <1>m, ItemIs
<1>2. Caching(plan.cached, it, more, cache[w[1]])
  BY <1>1, CachedIs, CachingErrs
<1>3. QED
  BY <1>i, <1>m, <1>2, CachedHanding

LEMMA ReportEmptyCached ==
  ASSUME IInv, Cached, NEW w \in Workers, ReportEmpty(w)
  PROVE  Cached'
<1>1. worker[w].pc = "pull" /\ Hands(w, Error) /\ worker' = Produced(worker, w)
  BY DEF ReportEmpty, SourceEnds, Pulling
<1>2. worker' = [worker EXCEPT ![w] = Handing(w)]
  BY <1>1, HandingFacts
<1>3. Handing(w).pc = "between"
  BY CachedIs DEF Handing, Iteration
<1>4. QED
  BY <1>1, <1>2, <1>3, HandingFacts, ErrorCached

LEMMA OpenFailsCached ==
  ASSUME IInv, Cached, NEW w \in Workers, OpenFails(w)
  PROVE  Cached'
<1>1. worker \in [Workers -> Iteration] /\ worker[w] \in Iteration
  BY CachedIs
<1>2. PICK next :
        /\ worker[w].pc = "pull"
        /\ LET on == [worker EXCEPT ![w].list = next[2],
                                    ![w].done = plan.handler # "continue"]
           IN IF plan.handler = "reraise"
              THEN worker' = Produced(on, w) /\ Hands(w, Error)
              ELSE worker' = on /\ UNCHANGED <<plan, drawn, draws, cache, got>>
  BY DEF OpenFails, NextShard, Pulling
<1> DEFINE list == next[2]
           done == plan.handler # "continue"
           on == [worker EXCEPT ![w].list = list, ![w].done = done]
<1>3. CASE plan.handler # "reraise"
  <2> DEFINE it == [worker[w] EXCEPT !.list = list, !.done = done]
  <2>1. worker' = on /\ UNCHANGED <<plan, got, cache>>
    BY <1>2, <1>3
  <2> HIDE DEF list, done
  <2>2. worker' = [worker EXCEPT ![w] = it]
    BY <1>1, <2>1 DEF Iteration
  <2>3. /\ it.pc = "pull" /\ it.runs = worker[w].runs /\ it.source = worker[w].source
        /\ it.held = worker[w].held /\ it.finished = worker[w].finished
    BY <1>1, <1>2 DEF Iteration
  <2> HIDE DEF it
  <2>4. QED
    BY <1>2, <2>1, <2>2, <2>3, ReaderCached
<1>4. CASE plan.handler = "reraise"
  <2> DEFINE now == [worker[w] EXCEPT !.list = list, !.done = done]
             it == [now EXCEPT !.pc = "between", !.taken = @ + 1, !.produced = @ + 1]
  <2>1. worker' = Produced(on, w) /\ Hands(w, Error)
    BY <1>2, <1>4
  <2> HIDE DEF list, done
  <2>2. on = [worker EXCEPT ![w] = now] /\ on[w] = now
    BY <1>1 DEF Iteration
  <2>3. worker' = [worker EXCEPT ![w] = it]
    <3> HIDE DEF on, now
    <3>1. worker' = [on EXCEPT ![w] = it]
      BY <2>1, <2>2 DEF Produced
    <3>2. QED
      BY <1>1, <2>2, <3>1
  <2>4. /\ it.pc = "between" /\ it.runs = worker[w].runs /\ it.source = worker[w].source
        /\ it.held = worker[w].held /\ it.finished = worker[w].finished
    BY <1>1 DEF Iteration
  <2> HIDE DEF it
  <2>5. QED
    BY <1>2, <2>1, <2>3, <2>4, ErrorCached
<1>5. QED
  BY <1>3, <1>4

LEMMA TakeSampleCached ==
  ASSUME IInv, Cached, NEW w \in Workers, TakeSample(w)
  PROVE  Cached'
<1> DEFINE sample == Head(worker[w].unread)
           now == Produced(worker, w)
           unread == Tail(Handing(w).unread)
           held == IF plan.cached THEN Append(Handing(w).held, sample) ELSE Handing(w).held
           it == [Handing(w) EXCEPT !.unread = unread, !.held = held]
<1>1. /\ worker[w].pc = "pull" /\ worker[w].source = "shards" /\ Hands(w, sample)
      /\ worker[w].unread # <<>>
      /\ worker' = [now EXCEPT
           ![w].unread = Tail(@),
           ![w].held = IF plan.cached THEN Append(@, sample) ELSE @]
  BY DEF TakeSample, Pulling
<1>2. /\ now = [worker EXCEPT ![w] = Handing(w)] /\ Handing(w) \in Iteration
      /\ worker \in [Workers -> Iteration]
  BY <1>1, HandingFacts DEF IInv, Typed
<1>3. sample \in Sample
  BY <1>1, CachedIs
<1>4. sample # Error
  BY <1>3, SamplesAreNoErrors
<1> HIDE DEF sample, now
<1>5. worker' = [worker EXCEPT ![w] = it]
  BY <1>1, <1>2 DEF Iteration
<1>6. plan.cached => held = Append(worker[w].held, sample)
  BY <1>1, HandingFacts
<1> HIDE DEF unread, held
<1>7. /\ it.pc = Handing(w).pc /\ it.runs = Handing(w).runs /\ it.source = Handing(w).source
      /\ it.finished = Handing(w).finished /\ it.held = held
  BY <1>2 DEF Iteration
<1>8. Handing(w).pc = "between"
  BY CachedIs DEF Handing, Iteration
<1>9. /\ it.pc = "between" /\ it.runs = worker[w].runs /\ it.source = "shards"
      /\ it.finished = worker[w].finished
      /\ plan.cached => it.held = Append(worker[w].held, sample)
  BY <1>1, <1>6, <1>7, <1>8, HandingFacts
<1> HIDE DEF it
<1>i. PICK item : item = Item(w, sample)
  OBVIOUS
<1>m. PICK more : more = Append(got[w], item)
  OBVIOUS
<1>10. /\ Extends(more, got[w], item) /\ item.run = worker[w].runs
       /\ item.source = "shards" /\ item.sample = sample
  BY <1>i, <1>m, <1>1, <1>3, ItemIs
<1>11. Caching(plan.cached, it, more, cache[w[1]])
  BY <1>1, <1>3, <1>4, <1>9, <1>10, CachedIs, CachingTakes
<1>12. QED
  BY <1>i, <1>m, <1>1, <1>3, <1>5, <1>9, <1>11, CachedHanding

LEMMA ReplayCached ==
  ASSUME IInv, Cached, NEW w \in Workers, Replay(w)
  PROVE  Cached'
<1> DEFINE sample == Head(worker[w].held)
           now == Produced(worker, w)
           held == Tail(Handing(w).held)
           it == [Handing(w) EXCEPT !.held = held]
<1>1. /\ worker[w].pc = "pull" /\ worker[w].source = "cache" /\ Hands(w, sample)
      /\ worker[w].held # <<>>
      /\ worker' = [now EXCEPT ![w].held = Tail(@)]
  BY DEF Replay, Pulling
<1>2. /\ now = [worker EXCEPT ![w] = Handing(w)] /\ Handing(w) \in Iteration
      /\ worker \in [Workers -> Iteration]
  BY <1>1, HandingFacts DEF IInv, Typed
<1>3. sample \in Sample
  BY <1>1, CachedIs
<1>4. sample # Error
  BY <1>3, SamplesAreNoErrors
<1>s. PICK e : e = sample
  OBVIOUS
<1>5. e = Head(worker[w].held)
  BY <1>s
<1> HIDE DEF sample, now
<1>6. worker' = [worker EXCEPT ![w] = it]
  BY <1>1, <1>2 DEF Iteration
<1>7. held = Tail(worker[w].held)
  BY <1>1, HandingFacts
<1> HIDE DEF held
<1>8. /\ it.pc = Handing(w).pc /\ it.runs = Handing(w).runs /\ it.source = Handing(w).source
      /\ it.finished = Handing(w).finished /\ it.held = held
  BY <1>2 DEF Iteration
<1>9. Handing(w).pc = "between"
  BY CachedIs DEF Handing, Iteration
<1>10. /\ it.pc = "between" /\ it.runs = worker[w].runs /\ it.source = "cache"
       /\ it.finished = worker[w].finished /\ it.held = Tail(worker[w].held)
  BY <1>1, <1>7, <1>8, <1>9, HandingFacts
<1> HIDE DEF it
<1>i. PICK item : item = Item(w, e)
  OBVIOUS
<1>m. PICK more : more = Append(got[w], item)
  OBVIOUS
<1>11. Hands(w, e) /\ e \in Sample /\ e # Error
  BY <1>s, <1>1, <1>3, <1>4
<1>12. /\ Extends(more, got[w], item) /\ item.run = worker[w].runs
       /\ item.source = "cache" /\ item.sample = e
  BY <1>i, <1>m, <1>1, <1>11, ItemIs
<1>13. Caching(plan.cached, it, more, cache[w[1]])
  BY <1>1, <1>5, <1>10, <1>11, <1>12, CachedIs, CachingReplays
<1>14. QED
  BY <1>i, <1>m, <1>1, <1>6, <1>10, <1>11, <1>13, CachedHanding

(* A run is over, and a pass through the shards may fill the cache. *)
LEMMA EndCached ==
  ASSUME IInv, Cached, NEW w \in Workers, EndRun(w) \/ EndReplay(w)
  PROVE  Cached'
<1> DEFINE it == [worker[w] EXCEPT !.pc = Over(w), !.finished = @ \cup {worker[w].runs}]
           r == w[1]
<1>1. /\ worker' = [worker EXCEPT ![w] = it]
      /\ worker[w].pc = "pull" /\ UNCHANGED <<plan, got>>
      /\ worker[w].source = "shards" \/ (worker[w].source = "cache" /\ worker[w].held = <<>>)
      /\ \/ cache' = cache
         \/ /\ cache' = [cache EXCEPT ![r] = <<worker[w].held>>]
            /\ cache[r] = <<>> /\ plan.cached /\ worker[w].source = "shards"
  BY CachedIs DEF EndRun, EndReplay, SourceEnds, Pulling, Iteration
<1>2. /\ it.pc = Over(w) /\ it.runs = worker[w].runs
      /\ it.finished = worker[w].finished \cup {worker[w].runs}
  BY CachedIs DEF Iteration
<1> HIDE DEF it
<1>3. Others(w) /\ worker'[w] = it /\ got' = got
  BY <1>1, OthersStay
<1>4. it.pc \notin Drawing /\ it.pc # "stage"
  BY <1>2 DEF Over, Drawing
<1>5. Caching(plan.cached, it, got[w], cache[r])
  BY <1>1, <1>2, <1>4, CachedIs, CachingEnds
<1>6. CASE cache' = cache
  <2>1. worker[w].finished \subseteq it.finished
    BY <1>2
  <2>2. QED
    BY <1>3, <1>5, <1>6, <2>1, CachedByOne
<1>7. CASE cache' # cache
  <2>h. PICK held : held = worker[w].held
    OBVIOUS
  <2>1. /\ cache' = [cache EXCEPT ![r] = <<held>>] /\ cache[r] = <<>> /\ plan.cached
        /\ worker[w].source = "shards"
    BY <1>1, <1>7, <2>h
  <2>2. cache \in [Ranks -> Seq(Seq(Sample))] /\ r \in Ranks
    BY PlanFacts DEF IInv, Typed
  <2>3. cache'[r] = <<held>> /\ <<held>>[1] = held /\ \A q \in Ranks : q # r => cache'[q] = cache[q]
    BY <2>1, <2>2
  <2>4. plan' = plan /\ Workers' = Workers /\ Ranks' = Ranks /\ \A q : Team(q)' = Team(q)
    BY <1>3 DEF Others, Workers, Team, Ranks
  <2>5. ASSUME NEW v \in Workers
        PROVE  Caching(plan.cached, worker'[v], got[v], cache'[v[1]])
    <3>1. Caching(plan.cached, worker'[v], got[v], cache[v[1]])
      <4>1. CASE v = w
        BY <1>3, <1>5, <4>1
      <4>2. CASE v # w
        BY <1>3, <4>2, CachedIs DEF Others
      <4>3. QED
        BY <4>1, <4>2
    <3>2. v[1] \in Ranks
      BY PlanFacts DEF IInv, Typed
    <3>3. CASE v[1] = r
      <4>1. Caching(plan.cached, worker'[v], got[v], <<>>)
        BY <2>1, <3>1, <3>3
      <4>2. Caching(plan.cached, worker'[v], got[v], <<held>>)
        BY <4>1, CachingFills
      <4>3. QED
        BY <2>3, <3>3, <4>2
    <3>4. CASE v[1] # r
      BY <2>3, <3>1, <3>2, <3>4
    <3>5. QED
      BY <3>3, <3>4
  <2>6. ASSUME NEW q \in Ranks, cache'[q] # <<>>
        PROVE  \E v \in Team(q) : \E n \in worker'[v].finished :
                 Passes(got[v], n, "shards", cache'[q][1])
    <3>1. CASE q = r
      <4>1. Passes(got[w], worker[w].runs, "shards", held)
        BY <1>1, <2>1, <2>h, CachedIs DEF Caching, Collected, Drawing
      <4>2. w \in Team(r) /\ worker[w].runs \in worker'[w].finished
        <5>1. w \in Team(r)
          BY PlanFacts DEF IInv, Typed, Workers, Team
        <5>2. QED
          BY <1>2, <1>3, <5>1
      <4>3. cache'[q][1] = held
        BY <2>3, <3>1
      <4>4. QED
        BY <3>1, <4>1, <4>2, <4>3
    <3>2. CASE q # r
      <4>1. PICK v \in Team(q) : \E n \in worker[v].finished : Passes(got[v], n, "shards", cache[q][1])
        BY <1>7, <2>3, <2>6, <3>2 DEF Cached, Committed
      <4>2. v \in Workers
        BY DEF Workers
      <4>3. worker[v].finished \subseteq worker'[v].finished
        BY <1>2, <1>3, <4>2 DEF Others
      <4>4. QED
        BY <2>3, <3>2, <4>1, <4>3
    <3>3. QED
      BY <3>1, <3>2
  <2>7. QED
    BY <1>3, <2>4, <2>5, <2>6 DEF Cached, Committed
<1>8. QED
  BY <1>6, <1>7

LEMMA IterateCached ==
  ASSUME IInv, Cached, NEW r \in Ranks, Iterate(r)
  PROVE  Cached'
<1>1. UNCHANGED <<plan, got, cache>> /\ Workers' = Workers /\ Ranks' = Ranks
      /\ \A q : Team(q)' = Team(q)
  BY DEF Iterate, Workers, Team, Ranks
<1>2. ASSUME NEW w \in Workers
      PROVE  /\ worker'[w].finished = worker[w].finished
             /\ Caching(plan.cached, worker'[w], got[w], cache[w[1]])
  <2>1. CASE w \notin Team(r)
    <3>1. worker'[w] = worker[w]
      BY <2>1 DEF Iterate
    <3>2. QED
      BY <3>1, CachedIs
  <2>2. CASE w \in Team(r)
    <3>a. PICK a : a = worker[w]
      OBVIOUS
    <3>b. PICK b : b = worker'[w]
      OBVIOUS
    <3>1. a \in Iteration /\ Caching(plan.cached, a, got[w], cache[w[1]])
      BY <3>a, CachedIs
    <3>2. b = [a EXCEPT !.pc = "start", !.iters = @ + 1, !.left = plan.repeats,
                        !.taken = 0, !.produced = 0]
      BY <2>2, <3>a, <3>b DEF Iterate
    <3>3. /\ b.pc = "start" /\ b.runs = a.runs /\ b.source = a.source /\ b.held = a.held
          /\ b.finished = a.finished
      BY <3>1, <3>2 DEF Iteration
    <3>4. b.pc # "stage" /\ b.pc \notin Drawing
      BY <3>3 DEF Drawing
    <3>5. Caching(plan.cached, b, got[w], cache[w[1]])
      BY <3>1, <3>3, <3>4, CachingIdle
    <3>6. QED
      BY <3>a, <3>b, <3>3, <3>5
  <2>3. QED
    BY <2>1, <2>2
<1>3. ASSUME NEW q \in Ranks, cache[q] # <<>>
      PROVE  \E v \in Team(q) : \E n \in worker'[v].finished :
               Passes(got[v], n, "shards", cache[q][1])
  <2>1. PICK v \in Team(q) : \E n \in worker[v].finished : Passes(got[v], n, "shards", cache[q][1])
    BY <1>3 DEF Cached, Committed
  <2>2. v \in Workers
    BY DEF Workers
  <2>3. QED
    BY <1>2, <2>1, <2>2
<1>4. QED
  BY <1>1, <1>2, <1>3 DEF Cached, Committed

LEMMA InitCached ==
  ASSUME Init
  PROVE  Cached
<1>1. ASSUME NEW w \in Workers
      PROVE  Caching(plan.cached, worker[w], got[w], cache[w[1]])
  <2>1. worker[w] = Idle /\ got[w] = <<>> /\ DOMAIN got[w] = {}
    BY <1>1 DEF Init
  <2>2. cache[w[1]] = <<>>
    BY <1>1, PlanFacts DEF Init
  <2>3. Idle.pc = "none" /\ Idle.pc \notin Drawing
    BY DEF Idle, Drawing
  <2>i. PICK items : items = got[w]
    OBVIOUS
  <2>4. Known(Idle, items) /\ Collected(plan.cached, Idle, items) /\ Replaying(Idle, items, <<>>)
    BY <2>1, <2>i, <2>3 DEF Known, Collected, Replaying
  <2>5. Replayed(Idle, items, <<>>)
    BY <2>1, <2>i DEF Replayed, From
  <2>6. QED
    BY <2>1, <2>2, <2>4, <2>5, <2>i DEF Caching
<1>2. \A r \in Ranks : Committed(r)
  BY DEF Init, Committed
<1>3. QED
  BY <1>1, <1>2 DEF Cached

LEMMA NextCached ==
  ASSUME IInv, Cached, [Next]_vars
  PROVE  Cached'
<1>1. ASSUME NEW r \in Ranks, Iterate(r) PROVE Cached'
  BY <1>1, IterateCached
<1>2. ASSUME NEW w \in Workers, Resume(w) \/ Abandon(w) \/ Step(w) PROVE Cached'
  <2>1. CASE Resume(w) \/ Abandon(w) \/ NoEpochLeft(w)
    BY <2>1, ResumeCached
  <2>2. CASE Start(w)
    BY <2>2, StartCached
  <2>3. CASE Apply(w)
    BY <2>3, ApplyCached
  <2>4. CASE TakeSample(w)
    BY <2>4, TakeSampleCached
  <2>5. CASE DrawShard(w) \/ OpenShard(w)
    BY <2>5, DrawShardCached, OpenShardCached
  <2>6. CASE OpenFails(w)
    BY <2>6, OpenFailsCached
  <2>7. CASE ReportEmpty(w)
    BY <2>7, ReportEmptyCached
  <2>8. CASE EndRun(w) \/ EndReplay(w)
    BY <2>8, EndCached
  <2>9. CASE Replay(w)
    BY <2>9, ReplayCached
  <2>10. QED
    BY <1>2, <2>1, <2>2, <2>3, <2>4, <2>5, <2>6, <2>7, <2>8, <2>9 DEF Step
<1>3. CASE UNCHANGED vars
  <2>1. UNCHANGED <<plan, worker, got, cache>> /\ Workers' = Workers /\ Ranks' = Ranks
        /\ \A q : Team(q)' = Team(q)
    BY <1>3 DEF vars, Workers, Team, Ranks
  <2>2. QED
    BY <2>1 DEF Cached, Committed
<1>4. QED
  BY <1>1, <1>2, <1>3 DEF Next, Finished

LEMMA CachedAlways == Spec => [](IInv /\ Cached)
<1>1. Init => IInv /\ Cached
  BY InitInv, InitCached
<1>2. IInv /\ Cached /\ [Next]_vars => (IInv /\ Cached)'
  BY NextInv, NextCached
<1>3. QED
  BY <1>1, <1>2, PTL DEF Spec

(* MemoryCache holds one worker's pass that was read to its end, never what  *)
(* an abandoned stream had collected, and a run that is replayed repeats it, *)
(* to its end unless it is abandoned: with any number of workers that share  *)
(* it, any list and any errors.                                              *)
THEOREM CacheHoldsAPass == Spec => []CacheIsAPass
<1>1. ASSUME IInv, Cached
      PROVE  CacheIsAPass
  <2>1. ASSUME NEW r \in Ranks, cache[r] # <<>>
        PROVE  \E w \in Team(r) : \E n \in worker[w].finished :
                 /\ Begins(got[w], From(got[w], n, "shards"), cache[r][1])
                 /\ Cardinality(From(got[w], n, "shards")) = Len(cache[r][1])
    BY <1>1, <2>1 DEF Cached, Committed, Passes
  <2>2. ASSUME NEW r \in Ranks, cache[r] # <<>>, NEW w \in Team(r), NEW n \in 1..worker[w].runs
        PROVE  /\ Begins(got[w], From(got[w], n, "cache"), cache[r][1])
               /\ n \in worker[w].finished =>
                    Cardinality(From(got[w], n, "cache")) \in {0, Len(cache[r][1])}
    <3>1. w \in Workers /\ w[1] = r
      BY DEF Workers, Team
    <3>2. n \in Nat
      BY <1>1, <3>1, CachedIs
    <3>3. Replayed(worker[w], got[w], cache[r])
      BY <1>1, <3>1, CachedIs DEF Caching
    <3>4. QED
      BY <2>2, <3>2, <3>3 DEF Replayed
  <2>3. QED
    BY <2>1, <2>2 DEF CacheIsAPass
<1>2. QED
  BY <1>1, CachedAlways, PTL
=============================================================================
