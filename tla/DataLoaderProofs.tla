--------------------------- MODULE DataLoaderProofs ---------------------------
(***************************************************************************)
(* What holds of DataLoader for every configuration: any number of         *)
(* workers, any source, any prefetch, any repetition and limit.            *)
(***************************************************************************)
EXTENDS DataLoader, FiniteSetTheorems, TLAPS

(* Division with remainder, and why the remainder is unique. *)
LEMMA DivMod ==
  ASSUME NEW p \in Nat, NEW n \in Nat \ {0}
  PROVE  /\ p \div n \in Int /\ p % n \in 0..(n - 1)
         /\ p = n * (p \div n) + (p % n)
  OBVIOUS

LEMMA ProductAtLeast ==
  ASSUME NEW d \in Int, NEW n \in Nat \ {0}, d >= 1
  PROVE  n * d >= n
  OBVIOUS

LEMMA RemainderUnique ==
  ASSUME NEW n \in Nat \ {0}, NEW q1 \in Int, NEW q2 \in Int,
         NEW r1 \in 0..(n - 1), NEW r2 \in 0..(n - 1),
         n * q1 + r1 = n * q2 + r2
  PROVE  r1 = r2
<1>1. n * q1 \in Int /\ n * q2 \in Int
  OBVIOUS
<1>2. CASE q1 = q2
  BY <1>1, <1>2
<1>3. CASE q1 > q2
  <2>1. n * (q1 - q2) >= n
    BY <1>3, ProductAtLeast
  <2>2. n * (q1 - q2) = n * q1 - n * q2
    BY Z3
  <2>3. QED
    BY <1>1, <2>1, <2>2
<1>4. CASE q2 > q1
  <2>1. n * (q2 - q1) >= n
    BY <1>4, ProductAtLeast
  <2>2. n * (q2 - q1) = n * q2 - n * q1
    BY Z3
  <2>3. QED
    BY <1>1, <2>1, <2>2
<1>5. QED
  BY <1>2, <1>3, <1>4

LEMMA Distribute ==
  ASSUME NEW n \in Nat, NEW d \in Int
  PROVE  n * (d + 1) = n * d + n /\ n * d \in Int
  OBVIOUS

(* A stride of n keeps the residue modulo n: what makes shares disjoint. *)
LEMMA ModStep ==
  ASSUME NEW p \in Nat, NEW n \in Nat \ {0}
  PROVE  (p + n) % n = p % n
<1> DEFINE q1 == (p \div n) + 1
           q2 == (p + n) \div n
           r1 == p % n
           r2 == (p + n) % n
<1>1. /\ q1 \in Int /\ r1 \in 0..(n - 1) /\ p = n * (p \div n) + r1
      /\ q2 \in Int /\ r2 \in 0..(n - 1) /\ p + n = n * q2 + r2
  <2>1. p + n \in Nat
    OBVIOUS
  <2>2. p \div n \in Int /\ r1 \in 0..(n - 1) /\ p = n * (p \div n) + r1
    BY DivMod
  <2>3. q2 \in Int /\ r2 \in 0..(n - 1) /\ p + n = n * q2 + r2
    BY <2>1, DivMod
  <2>4. QED
    BY <2>2, <2>3
<1>2. n * q1 = n * (p \div n) + n
  BY DivMod, Distribute
<1>3. n * q1 + r1 = n * q2 + r2
  <2>1. n * (p \div n) \in Int /\ n * q1 \in Int /\ n * q2 \in Int
    BY <1>1, DivMod
  <2>2. QED
    BY <1>1, <1>2, <2>1
<1> HIDE DEF q1, q2, r1, r2
<1>4. r1 = r2
  BY <1>1, <1>3, RemainderUnique
<1>5. QED
  BY <1>4 DEF r1, r2

LEMMA ProductNat ==
  ASSUME NEW m \in Nat, NEW n \in Nat
  PROVE  m * n \in Nat
  OBVIOUS

(* What a configuration makes of the derived quantities. *)
LEMMA ConfigFacts ==
  ASSUME config \in Configs
  PROVE  /\ config \in Config
         /\ Len(config.source) \in 0..MaxSource
         /\ Ids \subseteq Nat /\ 0 \in Ids
         /\ Streams \subseteq Ids
         /\ Capacity \in Nat
         /\ Stride \in Nat \ {0}
         /\ \A w \in Ids : First(w) \in Nat
<1>1. config \in Config /\ Len(config.source) \in 0..MaxSource
  BY LoaderAssumption DEF Config
<1>2. Ids \subseteq Nat /\ 0 \in Ids
  BY LoaderAssumption DEF Ids
<1>3. config.workers \in 0..MaxWorkers /\ config.prefetch \in Nat
  BY <1>1 DEF Config
<1>4. Streams \subseteq Ids
  BY <1>2, <1>3, LoaderAssumption DEF Streams, Threaded, Ids
<1>5. PrefetchMin \in Nat /\ config.workers \in Nat
  BY <1>3, LoaderAssumption DEF PrefetchMin
<1>6. Capacity \in Nat
  BY <1>5, ProductNat DEF Capacity
<1>7. Stride \in Nat \ {0}
  BY <1>5 DEF Stride, Splitting, Threaded
<1>8. \A w \in Ids : First(w) \in Nat
  BY <1>2 DEF First
<1>9. QED
  BY <1>1, <1>2, <1>4, <1>6, <1>7, <1>8

(* A decreased counter is still a counter. *)
LEMMA Minus1Type ==
  ASSUME NEW n \in Counter, n # 0
  PROVE  Minus1(n) \in Counter
  BY LoaderAssumption DEF Counter, Minus1

-----------------------------------------------------------------------------
LEMMA InitType == Init => TypeOK
<1> SUFFICES ASSUME Init PROVE TypeOK
  OBVIOUS
<1>1. config \in Configs
  BY DEF Init
<1>2. /\ config.repeats \in Counter /\ config.limit \in Counter
      /\ 0 \in Ids /\ Capacity \in Nat
  BY <1>1, ConfigFacts DEF Config
<1>3. Blank \in Entry
  BY <1>2, LoaderAssumption DEF Blank, Entry, Ids, Positions
<1>4. /\ chan \in Seq(Entry) /\ Len(chan) <= Capacity
      /\ <<>> \in Seq(Positions)
  BY <1>2 DEF Init
<1>5. pass \in [Ids -> Pass]
  BY DEF Init, Pass
<1>6. QED
  BY <1>1, <1>2, <1>3, <1>4, <1>5 DEF Init, TypeOK

LEMMA PassMoves ==
  ASSUME pass \in [Ids -> Pass], NEW w \in Ids, NEW n \in Nat
  PROVE  /\ [pass EXCEPT ![w].pos = @ + n] \in [Ids -> Pass]
         /\ [pass EXCEPT ![w] = [open |-> TRUE, pos |-> n, yielded |-> FALSE]]
              \in [Ids -> Pass]
         /\ [pass EXCEPT ![w] =
               [open |-> TRUE, pos |-> @.pos + n, yielded |-> TRUE]]
              \in [Ids -> Pass]
         /\ [pass EXCEPT ![w].open = FALSE] \in [Ids -> Pass]
<1>1. [pass EXCEPT ![w].pos = @ + n] \in [Ids -> Pass]
  BY DEF Pass
<1>2. [pass EXCEPT ![w] = [open |-> TRUE, pos |-> n, yielded |-> FALSE]]
        \in [Ids -> Pass]
  BY DEF Pass
<1>3. [pass EXCEPT ![w] = [open |-> TRUE, pos |-> @.pos + n, yielded |-> TRUE]]
        \in [Ids -> Pass]
  BY DEF Pass
<1>4. [pass EXCEPT ![w].open = FALSE] \in [Ids -> Pass]
  BY DEF Pass
<1>5. QED
  BY <1>1, <1>2, <1>3, <1>4

(* Every step of a pipeline, of a loop body or of the consumer keeps the    *)
(* types; the configuration never changes.                                  *)
LEMMA NextType == TypeOK /\ [Next]_vars => TypeOK'
<1> SUFFICES ASSUME TypeOK, [Next]_vars PROVE TypeOK'
  OBVIOUS
<1> USE DEF TypeOK
<1>1. /\ config \in Config /\ Len(config.source) \in 0..MaxSource
      /\ Ids \subseteq Nat /\ 0 \in Ids /\ Capacity \in Nat
      /\ Stride \in Nat \ {0} /\ \A w \in Ids : First(w) \in Nat
  BY ConfigFacts
<1>2. config' = config
  BY DEF Next, vars, WorkerStep, PipelineStep, Finish, OpenPass, Skip, Yield,
         YieldInline, Panic, ClosePass, Check, Send, Observe, ConsumerStep,
         Receive, ReceiveNone, Drain, Join, Ask, BeginDrop, Dropped
<1>3. Capacity' = Capacity
  BY <1>2 DEF Capacity, PrefetchMin
<1>4. Blank \in Entry
  BY <1>1, LoaderAssumption DEF Blank, Entry, Positions, Ids
<1>5. ASSUME NEW w \in Ids, WorkerStep(w) PROVE TypeOK'
  <2>1. CASE Finish(w)
    BY <1>2, <1>3, <2>1 DEF Finish, stream
  <2>2. CASE OpenPass(w)
    <3>1. Minus1(epochsLeft[w]) \in Counter
      BY <2>2, Minus1Type DEF OpenPass
    <3>2. pass' \in [Ids -> Pass]
      BY <1>1, <2>2, PassMoves DEF OpenPass
    <3>3. QED
      BY <1>2, <1>3, <2>2, <3>1, <3>2 DEF OpenPass
  <2>3. CASE Skip(w)
    <3>1. pass' \in [Ids -> Pass]
      BY <1>1, <2>3, PassMoves DEF Skip
    <3>2. QED
      BY <1>2, <1>3, <2>3, <3>1 DEF Skip
  <2>4. ASSUME Advance(w), AtKind(w, "keep")
        PROVE  /\ pass' \in [Ids -> Pass]
               /\ left' \in [Ids -> Counter]
               /\ pass[w].pos \in Positions
    <3>1. Minus1(left[w]) \in Counter
      BY <2>4, Minus1Type DEF AtKind
    <3>2. pass[w].pos \in Positions
      BY <1>1, <2>4, LoaderAssumption DEF AtKind, Positions, Pass
    <3>3. pass' \in [Ids -> Pass]
      BY <1>1, <2>4, PassMoves DEF Advance
    <3>4. QED
      BY <2>4, <3>1, <3>2, <3>3 DEF Advance
  <2>5. CASE Yield(w)
    <3>1. yields' \in [Ids -> Seq(Positions)]
      BY <2>4, <2>5 DEF Yield
    <3>2. held' \in [Ids -> Entry]
      BY <2>4, <2>5 DEF Yield, Entry
    <3>3. QED
      BY <1>2, <1>3, <2>4, <2>5, <3>1, <3>2 DEF Yield
  <2>6. CASE YieldInline(w)
    BY <1>2, <1>3, <2>4, <2>6 DEF YieldInline
  <2>7. CASE Panic(w)
    BY <1>2, <1>3, <2>7 DEF Panic, stream
  <2>8. CASE ClosePass(w)
    <3>1. pass' \in [Ids -> Pass]
      BY <2>8, PassMoves DEF ClosePass
    <3>2. QED
      BY <1>2, <1>3, <2>8, <3>1 DEF ClosePass
  <2>9. CASE Check(w)
    BY <1>2, <1>3, <1>4, <2>9 DEF Check, stream
  <2>10. CASE Send(w)
    <3>1. chan' \in Seq(Entry) /\ Len(chan') = Len(chan) + 1
      BY <2>10 DEF Send
    <3>2. Len(chan') <= Capacity
      BY <1>1, <1>4, <2>10, <3>1 DEF Send
    <3>3. held' \in [Ids -> Entry] /\ Len(chan)' = Len(chan')
      BY <1>4, <2>10 DEF Send
    <3>4. QED
      BY <1>2, <1>3, <2>10, <3>1, <3>2, <3>3 DEF Send, stream
  <2>11. QED
    BY <1>5, <2>1, <2>2, <2>3, <2>5, <2>6, <2>7, <2>8, <2>9, <2>10
       DEF WorkerStep, PipelineStep
<1>6. ASSUME NEW w \in Ids, Observe(w) PROVE TypeOK'
  BY <1>2, <1>3, <1>6 DEF Observe, stream
<1>7. CASE Receive
  <2>1. Head(chan) \in Entry /\ Tail(chan) \in Seq(Entry)
        /\ Len(Tail(chan)) = Len(chan) - 1
    BY <1>7 DEF Receive
  <2>2. Head(chan).from \in Ids /\ Head(chan).item \in Positions
    BY <2>1 DEF Entry
  <2>3. delivered' \in [Ids -> Seq(Positions)]
    BY <1>7, <2>2 DEF Receive
  <2>4. chan' \in Seq(Entry) /\ Len(chan') <= Capacity
    BY <1>1, <1>7, <2>1 DEF Receive
  <2>5. QED
    BY <1>2, <1>3, <1>7, <2>3, <2>4 DEF Receive, stream
<1>8. CASE Drain
  <2>1. chan # <<>> => /\ Tail(chan) \in Seq(Entry)
                       /\ Len(Tail(chan)) = Len(chan) - 1
    OBVIOUS
  <2>2. chan' \in Seq(Entry) /\ Len(chan') <= Capacity
    <3>1. CASE chan # <<>>
      <4>1. chan' = Tail(chan)
        BY <1>8, <3>1 DEF Drain
      <4>2. Len(chan) \in Nat /\ Len(chan) <= Capacity
        OBVIOUS
      <4>3. QED
        BY <1>1, <2>1, <3>1, <4>1, <4>2
    <3>2. CASE chan = <<>>
      BY <1>8, <3>2 DEF Drain
    <3>3. QED
      BY <3>1, <3>2
  <2>3. QED
    BY <1>2, <1>3, <1>8, <2>2 DEF Drain, stream
<1>9. CASE ReceiveNone \/ Join \/ BeginDrop
  <2>1. Threaded \in BOOLEAN
    BY DEF Threaded
  <2>2. CASE ReceiveNone
    BY <1>2, <1>3, <2>2 DEF ReceiveNone, stream
  <2>3. CASE Join
    BY <1>2, <1>3, <2>3 DEF Join, stream
  <2>4. CASE BeginDrop
    BY <1>2, <1>3, <2>1, <2>4 DEF BeginDrop, stream
  <2>5. QED
    BY <1>9, <2>2, <2>3, <2>4
<1>10. CASE Ask
  BY <1>1, <1>2, <1>3, <1>10 DEF Ask, stream
<1>11. CASE Dropped \/ UNCHANGED vars
  BY <1>2, <1>3, <1>11 DEF Dropped, vars
<1>12. QED
  BY <1>5, <1>6, <1>7, <1>8, <1>9, <1>10, <1>11 DEF Next, ConsumerStep

(* Every variable keeps its type, and the channel never holds more than     *)
(* prefetch samples per worker (sync_channel(prefetch * workers)).          *)
THEOREM TypeCorrect == Spec => []TypeOK
  BY InitType, NextType, PTL DEF Spec
-----------------------------------------------------------------------------
LEMMA FifoInit == Init => Fifo
<1> SUFFICES ASSUME Init PROVE Fifo
  OBVIOUS
<1>1. 0 \in Ids
  BY ConfigFacts DEF Init
<1>2. Modes
  BY <1>1 DEF Init, Modes, Streams
<1>3. \A w \in Ids : ~InTransit(w)
  BY DEF Init, InTransit
<1>4. QED
  BY <1>2, <1>3
     DEF Init, Fifo, ChanHoldsYields, ChanInOrder, HeldIsNewest, NoGap, Prefix

(* Who may be where: inline loaders never use the channel, an ended epoch   *)
(* has no worker left, and the stop flag is raised only by the drop.        *)
LEMMA ModesStep == TypeOK /\ Modes /\ [Next]_vars => Modes'
<1> SUFFICES ASSUME TypeOK, Modes, [Next]_vars PROVE Modes'
  OBVIOUS
<1>1. 0 \in Ids /\ Ids \subseteq Nat
  BY ConfigFacts DEF TypeOK
<1>2. /\ pc \in [Ids -> {"idle", "pull", "check", "send", "gone"}]
      /\ chan \in Seq(Entry)
  BY DEF TypeOK
<1>3. ASSUME NEW w \in Ids, PipelineStep(w) PROVE Modes'
  <2>1. CASE Finish(w)
    BY <1>1, <1>2, <2>1 DEF Finish, Modes, Threaded, AllGone, Alive
  <2>2. CASE OpenPass(w) \/ Skip(w)
    BY <1>1, <1>2, <2>2 DEF OpenPass, Skip, Modes, Threaded, AllGone, Alive
  <2>3. CASE Yield(w)
    BY <1>1, <1>2, <2>3 DEF Yield, AtKind, Modes, Threaded, AllGone, Alive
  <2>4. CASE YieldInline(w)
    <3>1. pc[w] = "pull" /\ consumer = "waiting"
      BY <2>4 DEF YieldInline, AtKind, Modes
    <3>2. w = 0
      BY <2>4, <3>1 DEF YieldInline, Modes
    <3>3. QED
      BY <1>1, <1>2, <2>4, <3>1, <3>2
         DEF YieldInline, Modes, Threaded, AllGone, Alive
  <2>5. CASE Panic(w)
    BY <1>1, <1>2, <2>5 DEF Panic, AtKind, Modes, Threaded, AllGone, Alive
  <2>6. CASE ClosePass(w)
    BY <1>1, <1>2, <2>6 DEF ClosePass, Modes, Threaded, AllGone, Alive
  <2>7. QED
    BY <1>3, <2>1, <2>2, <2>3, <2>4, <2>5, <2>6 DEF PipelineStep
<1>4. ASSUME NEW w \in Ids, Check(w) \/ Send(w) \/ Observe(w) PROVE Modes'
  BY <1>1, <1>2, <1>4 DEF Check, Send, Observe, Modes, Threaded, AllGone, Alive
<1>5. CASE Ask \/ BeginDrop \/ Dropped \/ UNCHANGED vars
  BY <1>1, <1>2, <1>5
     DEF Ask, BeginDrop, Dropped, vars, Modes, Threaded, AllGone, Alive
<1>6. CASE ConsumerStep
  BY <1>1, <1>2, <1>6
     DEF ConsumerStep, Receive, ReceiveNone, Drain, Join, Modes, Threaded,
         AllGone, Alive
<1>7. QED
  BY <1>3, <1>4, <1>5, <1>6 DEF Next, WorkerStep

(* A step that moves no sample keeps the correspondence. *)
LEMMA FifoFrame ==
  ASSUME TypeOK, Fifo, Modes', UNCHANGED <<yields, delivered>>,
         Alive' => /\ Alive
                   /\ UNCHANGED chan
                   /\ \A w \in Ids : InTransit(w)' <=> InTransit(w)
                   /\ \A w \in Ids : InTransit(w) => held'[w] = held[w]
  PROVE  Fifo'
<1>1. Prefix'
  BY DEF Fifo, Prefix
<1>2. ASSUME Alive' PROVE (ChanHoldsYields /\ ChanInOrder)'
  BY <1>2 DEF Fifo, ChanHoldsYields, ChanInOrder
<1>3. ASSUME Alive' PROVE (HeldIsNewest /\ NoGap)'
  BY <1>3 DEF Fifo, HeldIsNewest, NoGap
<1>4. QED
  BY <1>1, <1>2, <1>3 DEF Fifo

LEMMA EntryFields ==
  ASSUME TypeOK
  PROVE  /\ DOMAIN chan = 1..Len(chan) /\ Len(chan) \in Nat
         /\ \A i \in DOMAIN chan : /\ chan[i].from \in Ids
                                  /\ chan[i].item \in Positions
                                  /\ chan[i].nth \in Nat
<1>1. chan \in Seq(Entry)
  BY DEF TypeOK
<1>2. \A i \in DOMAIN chan : chan[i] \in Entry
  BY <1>1
<1>3. QED
  BY <1>1, <1>2 DEF Entry

(* The pipeline hands an item to the loop body: the newest of its worker.   *)
LEMMA FifoYield ==
  ASSUME TypeOK, TypeOK', Fifo, Modes', NEW w \in Ids, Yield(w)
  PROVE  Fifo'
<1> USE DEF InTransit
<1>1. /\ yields \in [Ids -> Seq(Positions)] /\ delivered \in [Ids -> Seq(Positions)]
      /\ chan \in Seq(Entry) /\ pc \in [Ids -> {"idle", "pull", "check", "send", "gone"}]
      /\ held \in [Ids -> Entry]
  BY DEF TypeOK
<1>2. \A i \in DOMAIN chan : chan[i].from \in Ids /\ chan[i].nth \in Nat
  BY EntryFields
<1>3. /\ pc[w] = "pull" /\ pc' = [pc EXCEPT ![w] = "check"]
      /\ UNCHANGED <<chan, delivered, consumer>>
  BY DEF Yield, AtKind
<1>4. CASE ~Alive
  BY <1>3, <1>4, FifoFrame DEF Yield, Alive
<1>5. CASE Alive
  <2> DEFINE p == pass[w].pos
             n == Len(yields[w]) + 1
  <2>1. /\ yields' = [yields EXCEPT ![w] = Append(@, p)]
        /\ held' = [held EXCEPT ![w] = [from |-> w, item |-> p, nth |-> n]]
    BY <1>5 DEF Yield
  <2>2. \A v \in Ids : yields'[v] \in Seq(Positions)
    BY DEF TypeOK
  <2>3. /\ Len(yields'[w]) = n /\ yields'[w][n] = p
        /\ \A k \in 1..Len(yields[w]) : yields'[w][k] = yields[w][k]
        /\ \A v \in Ids \ {w} : yields'[v] = yields[v]
        /\ n \in Nat /\ Len(yields[w]) \in Nat
    BY <1>1, <2>1
  <2> HIDE DEF p, n
  <2>4. ChanHoldsYields'
    <3> SUFFICES ASSUME NEW i \in DOMAIN chan
                 PROVE  LET e == chan[i]
                        IN /\ Len(delivered[e.from]) < e.nth
                           /\ e.nth <= Len(yields'[e.from])
                           /\ e.item = yields'[e.from][e.nth]
      BY <1>3 DEF ChanHoldsYields
    <3> DEFINE e == chan[i]
    <3>1. /\ Len(delivered[e.from]) < e.nth /\ e.nth <= Len(yields[e.from])
          /\ e.item = yields[e.from][e.nth]
      BY <1>5 DEF Fifo, ChanHoldsYields
    <3>2. e.from \in Ids /\ e.nth \in Nat /\ Len(delivered[e.from]) \in Nat
      BY <1>1, <1>2
    <3>3. e.nth \in 1..Len(yields[e.from])
      BY <1>1, <3>1, <3>2
    <3> HIDE DEF e
    <3>4. yields'[e.from][e.nth] = yields[e.from][e.nth]
      BY <2>3, <3>2, <3>3
    <3>5. e.nth <= Len(yields'[e.from])
      BY <2>3, <3>2, <3>3 DEF n
    <3>6. QED
      BY <3>1, <3>4, <3>5 DEF e
  <2>5. ChanInOrder'
    BY <1>3, <1>5 DEF Fifo, ChanInOrder
  <2>6. HeldIsNewest'
    <3> SUFFICES ASSUME NEW v \in Ids, InTransit(v)'
                 PROVE  /\ held'[v].from = v
                        /\ held'[v].nth = Len(yields'[v])
                        /\ Len(delivered'[v]) < held'[v].nth
                        /\ held'[v].item = yields'[v][held'[v].nth]
                        /\ \A i \in DOMAIN chan' :
                             chan'[i].from = v => chan'[i].nth < held'[v].nth
      BY DEF HeldIsNewest
    <3>1. CASE v = w
      <4>1. held'[w] = [from |-> w, item |-> p, nth |-> n]
        BY <1>1, <2>1 DEF n, p
      <4>2. Len(delivered[w]) <= Len(yields[w]) /\ Len(delivered[w]) \in Nat
        BY <1>1 DEF Fifo, Prefix
      <4>3. n = Len(yields[w]) + 1
        BY DEF n
      <4>4. \A i \in DOMAIN chan : chan[i].from = w => chan[i].nth < n
        BY <1>2, <1>5, <2>3, <4>3 DEF Fifo, ChanHoldsYields
      <4>5. QED
        BY <1>3, <2>3, <3>1, <4>1, <4>2, <4>3, <4>4
    <3>2. CASE v # w
      BY <1>1, <1>3, <1>5, <2>1, <2>3, <3>2 DEF Fifo, HeldIsNewest
    <3>3. QED
      BY <3>1, <3>2
  <2>7. NoGap'
    <3> SUFFICES ASSUME NEW v \in Ids, NEW k \in 1..Len(yields'[v]),
                        k > Len(delivered[v])
                 PROVE  \/ \E i \in DOMAIN chan : chan[i].from = v /\ chan[i].nth = k
                        \/ InTransit(v)' /\ held'[v].nth = k
      BY <1>3 DEF NoGap
    <3>1. CASE v = w /\ k = n
      BY <1>1, <1>3, <2>1, <3>1 DEF n
    <3>2. CASE v = w /\ k # n
      <4>1. k \in 1..Len(yields[w])
        BY <2>3, <3>2 DEF n
      <4>2. QED
        BY <1>3, <1>5, <3>2, <4>1 DEF Fifo, NoGap
    <3>3. CASE v # w
      BY <1>1, <1>3, <1>5, <2>1, <2>3, <3>3 DEF Fifo, NoGap
    <3>4. QED
      BY <3>1, <3>2, <3>3
  <2>8. Prefix'
    <3> SUFFICES ASSUME NEW v \in Ids
                 PROVE  /\ Len(delivered[v]) <= Len(yields'[v])
                        /\ \A i \in 1..Len(delivered[v]) :
                             delivered[v][i] = yields'[v][i]
      BY <1>3 DEF Prefix
    <3>1. /\ Len(delivered[v]) <= Len(yields[v])
          /\ \A i \in 1..Len(delivered[v]) : delivered[v][i] = yields[v][i]
          /\ Len(delivered[v]) \in Nat /\ Len(yields[v]) \in Nat
      BY <1>1 DEF Fifo, Prefix
    <3>2. \A i \in 1..Len(yields[v]) : yields'[v][i] = yields[v][i]
      BY <2>3
    <3>3. Len(yields[v]) <= Len(yields'[v])
      BY <2>3, <3>1 DEF n
    <3>4. Len(yields'[v]) \in Nat
      BY <2>2
    <3>5. QED
      BY <3>1, <3>2, <3>3, <3>4
  <2>9. QED
    BY <2>4, <2>5, <2>6, <2>7, <2>8 DEF Fifo
<1>6. QED
  BY <1>4, <1>5

(* With nothing in the channel or in hand, everything yielded was returned. *)
LEMMA NothingPending ==
  ASSUME TypeOK, Fifo, Alive, chan = <<>>, NEW w \in Ids, ~InTransit(w)
  PROVE  Len(delivered[w]) = Len(yields[w])
<1>1. Len(delivered[w]) \in Nat /\ Len(yields[w]) \in Nat
  BY DEF TypeOK
<1>2. Len(delivered[w]) <= Len(yields[w])
  BY DEF Fifo, Prefix
<1>3. \A k \in 1..Len(yields[w]) : ~(k > Len(delivered[w]))
  BY DEF Fifo, NoGap
<1>4. QED
  BY <1>1, <1>2, <1>3

LEMMA FifoYieldInline ==
  ASSUME TypeOK, TypeOK', Fifo, Modes', NEW w \in Ids, YieldInline(w)
  PROVE  Fifo'
<1> USE DEF InTransit
<1> DEFINE p == pass[w].pos
<1>1. /\ yields \in [Ids -> Seq(Positions)] /\ delivered \in [Ids -> Seq(Positions)]
      /\ yields' = [yields EXCEPT ![w] = Append(@, p)]
      /\ delivered' = [delivered EXCEPT ![w] = Append(@, p)]
      /\ pc' = [pc EXCEPT ![w] = "idle"] /\ pc[w] = "pull" /\ chan' = chan
      /\ ~Threaded /\ pc \in [Ids -> {"idle", "pull", "check", "send", "gone"}]
  BY DEF TypeOK, YieldInline, AtKind
<1>2. consumer = "waiting" /\ chan = <<>> /\ w = 0
  BY <1>1 DEF Fifo, Modes
<1>3. \A v \in Ids : ~InTransit(v) /\ ~InTransit(v)'
  BY <1>1, <1>2 DEF Fifo, Modes
<1>4. \A v \in Ids : Len(delivered[v]) = Len(yields[v])
  BY <1>2, <1>3, NothingPending DEF Alive
<1>5. \A v \in Ids : /\ Len(delivered'[v]) = Len(yields'[v])
                     /\ Len(delivered'[v]) \in Nat
  BY <1>1, <1>4
<1>6. (ChanHoldsYields /\ ChanInOrder)'
  BY <1>1, <1>2 DEF ChanHoldsYields, ChanInOrder
<1>7. (HeldIsNewest /\ NoGap)'
  BY <1>3, <1>5 DEF HeldIsNewest, NoGap
<1>8. Prefix'
  <2> SUFFICES ASSUME NEW v \in Ids, NEW i \in 1..Len(delivered'[v])
               PROVE  delivered'[v][i] = yields'[v][i]
    BY <1>5 DEF Prefix
  <2> HIDE DEF p
  <2>1. CASE v = w
    <3>1. \A k \in 1..Len(delivered[w]) : delivered[w][k] = yields[w][k]
      BY DEF Fifo, Prefix
    <3>2. delivered'[w] = Append(delivered[w], p) /\ yields'[w] = Append(yields[w], p)
      BY <1>1
    <3>3. delivered[w] \in Seq(Positions) /\ yields[w] \in Seq(Positions)
      BY <1>1
    <3>4. QED
      BY <1>4, <2>1, <3>1, <3>2, <3>3
  <2>2. CASE v # w
    <3>1. delivered'[v] = delivered[v] /\ yields'[v] = yields[v]
      BY <1>1, <2>2
    <3>2. QED
      BY <3>1 DEF Fifo, Prefix
  <2>3. QED
    BY <2>1, <2>2
<1>9. QED
  BY <1>6, <1>7, <1>8 DEF Fifo

(* The loop body's item goes to the end of the channel. *)
LEMMA FifoSend ==
  ASSUME TypeOK, TypeOK', Fifo, Modes', NEW w \in Ids, Send(w)
  PROVE  Fifo'
<1> USE DEF InTransit
<1>1. /\ pc[w] = "send" /\ pc' = [pc EXCEPT ![w] = "pull"]
      /\ chan' = Append(chan, held[w])
      /\ held' = [held EXCEPT ![w] = Blank]
      /\ UNCHANGED <<yields, delivered, consumer>>
  BY DEF Send
<1>2. /\ chan \in Seq(Entry) /\ held \in [Ids -> Entry]
      /\ pc \in [Ids -> {"idle", "pull", "check", "send", "gone"}]
  BY DEF TypeOK
<1>3. CASE ~Alive
  BY <1>1, <1>3, FifoFrame DEF Alive
<1>4. CASE Alive
  <2> DEFINE n == Len(chan) + 1
             e == held[w]
  <2>1. /\ DOMAIN chan' = 1..n /\ DOMAIN chan = 1..Len(chan) /\ Len(chan) \in Nat
        /\ chan'[n] = e /\ \A i \in 1..Len(chan) : chan'[i] = chan[i]
    BY <1>1, <1>2
  <2>2. \A i \in DOMAIN chan' : i \in DOMAIN chan \/ i = n
    BY <2>1
  <2>3. /\ e.from = w /\ e.nth = Len(yields[w]) /\ Len(delivered[w]) < e.nth
        /\ e.item = yields[w][e.nth]
        /\ \A i \in DOMAIN chan : chan[i].from = w => chan[i].nth < e.nth
    BY <1>1, <1>4 DEF Fifo, HeldIsNewest
  <2>4. Len(yields[w]) \in Nat
    BY DEF TypeOK
  <2> HIDE DEF e, n
  <2>5. ChanHoldsYields'
    BY <1>1, <1>4, <2>1, <2>2, <2>3, <2>4 DEF Fifo, ChanHoldsYields
  <2>6. ChanInOrder'
    <3> SUFFICES ASSUME NEW i \in DOMAIN chan', NEW j \in DOMAIN chan',
                        i < j, chan'[i].from = chan'[j].from
                 PROVE  chan'[i].nth < chan'[j].nth
      BY DEF ChanInOrder
    <3>1. i \in DOMAIN chan
      BY <2>1 DEF n
    <3>2. CASE j \in DOMAIN chan
      BY <1>4, <2>1, <3>1, <3>2 DEF Fifo, ChanInOrder
    <3>3. CASE j = n
      BY <2>1, <2>3, <3>1, <3>3
    <3>4. QED
      BY <2>2, <3>2, <3>3
  <2>7. HeldIsNewest'
    <3> SUFFICES ASSUME NEW v \in Ids, InTransit(v)'
                 PROVE  /\ held'[v].from = v
                        /\ held'[v].nth = Len(yields[v])
                        /\ Len(delivered[v]) < held'[v].nth
                        /\ held'[v].item = yields[v][held'[v].nth]
                        /\ \A i \in DOMAIN chan' :
                             chan'[i].from = v => chan'[i].nth < held'[v].nth
      BY <1>1 DEF HeldIsNewest
    <3>1. v # w /\ InTransit(v) /\ held'[v] = held[v]
      BY <1>1, <1>2
    <3>2. \A i \in DOMAIN chan' : chan'[i].from = v => i \in DOMAIN chan /\ chan[i].from = v /\ chan'[i] = chan[i]
      BY <2>1, <2>2, <2>3, <3>1
    <3>3. QED
      BY <1>4, <3>1, <3>2 DEF Fifo, HeldIsNewest
  <2>8. NoGap'
    <3> SUFFICES ASSUME NEW v \in Ids, NEW k \in 1..Len(yields[v]),
                        k > Len(delivered[v])
                 PROVE  \/ \E i \in DOMAIN chan' : chan'[i].from = v /\ chan'[i].nth = k
                        \/ InTransit(v)' /\ held'[v].nth = k
      BY <1>1 DEF NoGap
    <3>1. CASE \E i \in DOMAIN chan : chan[i].from = v /\ chan[i].nth = k
      <4>1. PICK i \in DOMAIN chan : chan[i].from = v /\ chan[i].nth = k
        BY <3>1
      <4>2. i \in DOMAIN chan' /\ chan'[i] = chan[i]
        BY <2>1 DEF n
      <4>3. QED
        BY <4>1, <4>2
    <3>2. CASE InTransit(v) /\ held[v].nth = k /\ v # w
      BY <1>1, <1>2, <3>2
    <3>3. CASE InTransit(v) /\ held[v].nth = k /\ v = w
      BY <2>1, <2>3, <3>3 DEF e, n
    <3>4. QED
      BY <1>4, <3>1, <3>2, <3>3 DEF Fifo, NoGap
  <2>9. Prefix'
    BY <1>1 DEF Fifo, Prefix
  <2>10. QED
    BY <2>5, <2>6, <2>7, <2>8, <2>9 DEF Fifo
<1>5. QED
  BY <1>3, <1>4

(* The channel's head is the oldest sample its worker has yielded that next() *)
(* has not returned: where "none lost, none overtaken" comes from.            *)
LEMMA HeadIsNext ==
  ASSUME TypeOK, Fifo, Alive, chan # <<>>
  PROVE  LET e == Head(chan)
         IN /\ e.from \in Ids
            /\ Len(delivered[e.from]) < Len(yields[e.from])
            /\ e.nth = Len(delivered[e.from]) + 1
            /\ e.item = yields[e.from][Len(delivered[e.from]) + 1]
<1> DEFINE e == Head(chan)
           k == Len(delivered[e.from]) + 1
<1>1. /\ chan \in Seq(Entry) /\ 1 \in DOMAIN chan /\ e = chan[1]
      /\ DOMAIN chan = 1..Len(chan) /\ Len(chan) \in Nat
  BY DEF TypeOK
<1>2. e.from \in Ids /\ e.nth \in Nat
  BY <1>1, EntryFields
<1>3. Len(delivered[e.from]) \in Nat /\ Len(yields[e.from]) \in Nat
  BY <1>2 DEF TypeOK
<1>4. /\ Len(delivered[e.from]) < e.nth /\ e.nth <= Len(yields[e.from])
      /\ e.item = yields[e.from][e.nth]
  BY <1>1 DEF Fifo, ChanHoldsYields
<1>5. k \in 1..Len(yields[e.from]) /\ k > Len(delivered[e.from])
  BY <1>2, <1>3, <1>4
<1>6. \A i \in DOMAIN chan : chan[i].nth \in Nat
  BY EntryFields
<1>7. e.nth <= k
  <2>1. CASE \E i \in DOMAIN chan : chan[i].from = e.from /\ chan[i].nth = k
    <3>1. PICK i \in DOMAIN chan : chan[i].from = e.from /\ chan[i].nth = k
      BY <2>1
    <3>2. i = 1 \/ 1 < i
      BY <1>1
    <3>3. CASE 1 < i
      BY <1>1, <1>2, <1>6, <3>1, <3>3 DEF Fifo, ChanInOrder
    <3>4. QED
      BY <1>1, <1>2, <1>6, <3>1, <3>2, <3>3
  <2>2. CASE InTransit(e.from) /\ held[e.from].nth = k
    BY <1>1, <1>2, <1>5, <2>2 DEF Fifo, HeldIsNewest
  <2>3. QED
    BY <1>2, <1>5, <2>1, <2>2 DEF Fifo, NoGap
<1>8. QED
  BY <1>2, <1>3, <1>4, <1>7

LEMMA FifoReceive ==
  ASSUME TypeOK, TypeOK', Fifo, Modes', Receive
  PROVE  Fifo'
<1> USE DEF InTransit
<1> DEFINE e == Head(chan)
           w == e.from
           k == Len(delivered[w]) + 1
<1>1. /\ chan # <<>> /\ chan' = Tail(chan) /\ Alive
      /\ delivered' = [delivered EXCEPT ![w] = Append(@, e.item)]
      /\ UNCHANGED <<pc, held, yields>>
  BY DEF Receive, Alive
<1>2. /\ w \in Ids /\ Len(delivered[w]) < Len(yields[w])
      /\ e.nth = k /\ e.item = yields[w][k]
  BY <1>1, HeadIsNext
<1>3. /\ chan \in Seq(Entry) /\ DOMAIN chan = 1..Len(chan) /\ Len(chan) \in Nat
      /\ 1 \in DOMAIN chan /\ e = chan[1]
  BY <1>1 DEF TypeOK
<1>4. /\ DOMAIN chan' = 1..(Len(chan) - 1)
      /\ \A i \in DOMAIN chan' : i + 1 \in DOMAIN chan /\ chan'[i] = chan[i + 1]
  BY <1>1, <1>3
<1>5. \A v \in Ids : delivered[v] \in Seq(Positions) /\ yields[v] \in Seq(Positions)
  BY DEF TypeOK
<1>6. /\ delivered'[w] = Append(delivered[w], e.item)
      /\ Len(delivered'[w]) = k /\ k \in Nat
      /\ \A v \in Ids : v # w => delivered'[v] = delivered[v]
  BY <1>1, <1>2, <1>5 DEF TypeOK
<1>7. \A i \in DOMAIN chan : chan[i].from \in Ids /\ chan[i].nth \in Nat
  BY EntryFields
<1> HIDE DEF e, w, k
<1>8. ChanHoldsYields'
  <2> SUFFICES ASSUME NEW i \in DOMAIN chan'
               PROVE  LET f == chan'[i]
                      IN /\ Len(delivered'[f.from]) < f.nth
                         /\ f.nth <= Len(yields[f.from])
                         /\ f.item = yields[f.from][f.nth]
    BY <1>1 DEF ChanHoldsYields
  <2> DEFINE f == chan[i + 1]
  <2>1. /\ i + 1 \in DOMAIN chan /\ chan'[i] = f /\ 1 < i + 1
    BY <1>3, <1>4
  <2>2. /\ Len(delivered[f.from]) < f.nth /\ f.nth <= Len(yields[f.from])
        /\ f.item = yields[f.from][f.nth] /\ f.from \in Ids
    BY <1>1, <1>7, <2>1 DEF Fifo, ChanHoldsYields
  <2>3. f.from = w => e.nth < f.nth
    BY <1>1, <1>3, <2>1 DEF Fifo, ChanInOrder, w
  <2> HIDE DEF f
  <2>4. Len(delivered'[f.from]) < f.nth
    BY <1>2, <1>6, <2>2, <2>3
  <2>5. QED
    BY <2>1, <2>2, <2>4
<1>9. ChanInOrder'
  <2> SUFFICES ASSUME NEW i \in DOMAIN chan', NEW j \in DOMAIN chan',
                      i < j, chan'[i].from = chan'[j].from
               PROVE  chan'[i].nth < chan'[j].nth
    BY DEF ChanInOrder
  <2>1. i + 1 \in DOMAIN chan /\ j + 1 \in DOMAIN chan /\ i + 1 < j + 1
    BY <1>3, <1>4
  <2>2. QED
    BY <1>1, <1>4, <2>1 DEF Fifo, ChanInOrder
<1>10. HeldIsNewest'
  <2> SUFFICES ASSUME NEW v \in Ids, InTransit(v)
               PROVE  /\ held[v].from = v
                      /\ held[v].nth = Len(yields[v])
                      /\ Len(delivered'[v]) < held[v].nth
                      /\ held[v].item = yields[v][held[v].nth]
                      /\ \A i \in DOMAIN chan' :
                           chan'[i].from = v => chan'[i].nth < held[v].nth
    BY <1>1 DEF HeldIsNewest
  <2>1. /\ held[v].from = v /\ held[v].nth = Len(yields[v])
        /\ Len(delivered[v]) < held[v].nth
        /\ held[v].item = yields[v][held[v].nth]
        /\ \A i \in DOMAIN chan : chan[i].from = v => chan[i].nth < held[v].nth
    BY <1>1 DEF Fifo, HeldIsNewest
  <2>2. v = w => k < held[v].nth
    BY <1>2, <1>3, <2>1 DEF w
  <2>3. Len(delivered'[v]) < held[v].nth
    BY <1>6, <2>1, <2>2
  <2>4. \A i \in DOMAIN chan' : chan'[i].from = v => chan'[i].nth < held[v].nth
    BY <1>4, <2>1
  <2>5. QED
    BY <2>1, <2>3, <2>4
<1>11. NoGap'
  <2> SUFFICES ASSUME NEW v \in Ids, NEW n \in 1..Len(yields[v]),
                      n > Len(delivered'[v])
               PROVE  \/ \E i \in DOMAIN chan' : chan'[i].from = v /\ chan'[i].nth = n
                      \/ InTransit(v) /\ held[v].nth = n
    BY <1>1 DEF NoGap
  <2>1. n > Len(delivered[v]) /\ (v = w => n # k)
    BY <1>5, <1>6 DEF k
  <2>2. CASE \E i \in DOMAIN chan : chan[i].from = v /\ chan[i].nth = n
    <3>1. PICK i \in DOMAIN chan : chan[i].from = v /\ chan[i].nth = n
      BY <2>2
    <3>2. i # 1
      BY <1>2, <1>3, <2>1, <3>1 DEF w
    <3>3. i - 1 \in DOMAIN chan' /\ chan'[i - 1] = chan[i]
      BY <1>3, <1>4, <3>1, <3>2
    <3>4. QED
      BY <3>1, <3>3
  <2>3. QED
    BY <1>1, <2>1, <2>2 DEF Fifo, NoGap
<1>12. Prefix'
  <2> SUFFICES ASSUME NEW v \in Ids
               PROVE  /\ Len(delivered'[v]) <= Len(yields[v])
                      /\ \A i \in 1..Len(delivered'[v]) :
                           delivered'[v][i] = yields[v][i]
    BY <1>1 DEF Prefix
  <2>1. /\ Len(delivered[v]) <= Len(yields[v])
        /\ \A i \in 1..Len(delivered[v]) : delivered[v][i] = yields[v][i]
    BY DEF Fifo, Prefix
  <2>2. CASE v = w
    <3>1. /\ k = Len(delivered[w]) + 1 /\ Len(delivered[w]) \in Nat
          /\ delivered[w] \in Seq(Positions)
      BY <1>2, <1>5 DEF k
    <3>2. /\ delivered'[w][k] = e.item
          /\ \A i \in 1..Len(delivered[w]) : delivered'[w][i] = delivered[w][i]
      BY <1>6, <3>1
    <3>3. \A i \in 1..k : i \in 1..Len(delivered[w]) \/ i = k
      BY <3>1
    <3>4. k <= Len(yields[w])
      BY <1>2, <1>5, <3>1
    <3>5. QED
      BY <1>2, <1>6, <2>1, <2>2, <3>2, <3>3, <3>4
  <2>3. CASE v # w
    BY <1>6, <2>1, <2>3
  <2>4. QED
    BY <2>2, <2>3
<1>13. QED
  BY <1>8, <1>9, <1>10, <1>11, <1>12 DEF Fifo

LEMMA FifoStep == TypeOK /\ TypeOK' /\ Fifo /\ [Next]_vars => Fifo'
<1> SUFFICES ASSUME TypeOK, TypeOK', Fifo, [Next]_vars PROVE Fifo'
  OBVIOUS
<1>1. Modes'
  BY ModesStep DEF Fifo
<1>2. pc \in [Ids -> {"idle", "pull", "check", "send", "gone"}]
  BY DEF TypeOK
<1>3. ASSUME NEW w \in Ids,
             Finish(w) \/ OpenPass(w) \/ Skip(w) \/ Panic(w) \/ ClosePass(w)
      PROVE  Fifo'
  <2>1. /\ UNCHANGED <<yields, delivered, chan, held>>
        /\ pc[w] = "pull" /\ pc' \in {pc, [pc EXCEPT ![w] = "gone"]}
        /\ Alive' => Alive
    BY <1>3 DEF Finish, OpenPass, Skip, Panic, ClosePass, AtKind, Alive, Fifo,
                Modes
  <2>2. QED
    BY <1>1, <1>2, <2>1, FifoFrame DEF InTransit
<1>4. ASSUME NEW w \in Ids, Check(w) PROVE Fifo'
  <2>1. UNCHANGED <<yields, delivered, chan, consumer>>
    BY <1>4 DEF Check
  <2>2. Alive => /\ pc' = [pc EXCEPT ![w] = "send"] /\ held' = held
                 /\ pc[w] = "check"
    BY <1>4 DEF Check, Fifo, Modes
  <2>3. QED
    BY <1>1, <1>2, <2>1, <2>2, FifoFrame DEF InTransit, Alive
<1>5. ASSUME NEW w \in Ids, Observe(w) PROVE Fifo'
  BY <1>1, <1>5, FifoFrame DEF Observe, InTransit, Alive
<1>6. CASE ReceiveNone \/ BeginDrop \/ Drain \/ Join
  BY <1>1, <1>6, FifoFrame DEF ReceiveNone, BeginDrop, Drain, Join, InTransit, Alive
<1>7. CASE Ask
  <2>1. /\ UNCHANGED <<yields, delivered, chan, held>> /\ Alive
        /\ pc' = pc \/ (pc' = [pc EXCEPT ![0] = "pull"] /\ pc[0] = "idle")
    BY <1>7 DEF Ask, Alive, Fifo, Modes
  <2>2. QED
    BY <1>1, <1>2, <2>1, FifoFrame DEF InTransit
<1>8. CASE Dropped \/ UNCHANGED vars
  BY <1>1, <1>8, FifoFrame DEF Dropped, vars, InTransit, Alive
<1>9. QED
  BY <1>1, <1>3, <1>4, <1>5, <1>6, <1>7, <1>8, FifoYield, FifoYieldInline,
     FifoSend, FifoReceive
     DEF Next, WorkerStep, PipelineStep, ConsumerStep

(* The inductive invariant holds of every execution: while the iterator is   *)
(* alive nothing is lost, repeated or reordered between pipeline and next().  *)
THEOREM FifoAlways == Spec => []Fifo
<1>1. Init => Fifo
  BY FifoInit
<1>2. Spec => []TypeOK
  BY TypeCorrect
<1>3. TypeOK /\ TypeOK' /\ Fifo /\ [Next]_vars => Fifo'
  BY FifoStep
<1>4. QED
  BY <1>1, <1>2, <1>3, PTL DEF Spec
-----------------------------------------------------------------------------
(* The refinement: every step of the loader is a step of EpochDelivery or    *)
(* leaves yields, delivered, the finished streams and the status alone.      *)

Finished == {w \in Ids : pc[w] = "gone"}

LEMMA StatusIsOpen ==
  /\ consumer \in {"idle", "waiting", "unwinding"} => Status = "open"
  /\ consumer = "ended" => Status = "ended"
  /\ consumer \in {"draining", "joining", "dropped"} => Status = "closed"
  BY DEF Status

LEMMA RefineInit == Init => Abstract!Init
  BY StatusIsOpen DEF Init, Abstract!Init

(* A step that only ends streams. *)
LEMMA RefineFinish ==
  ASSUME UNCHANGED <<yields, delivered>>, Status' = Status,
         NEW w \in Ids, Finished' \in {Finished, Finished \cup {w}}
  PROVE  [Abstract!Next]_(Abstract!vars)
  BY DEF Finished, Abstract!Next, Abstract!vars, Abstract!Finish

LEMMA RefineStep ==
  TypeOK /\ TypeOK' /\ Fifo /\ [Next]_vars => [Abstract!Next]_(Abstract!vars)
<1> SUFFICES ASSUME TypeOK, TypeOK', Fifo, [Next]_vars
             PROVE  [Abstract!Next]_(Abstract!vars)
  OBVIOUS
<1>1. /\ pc \in [Ids -> {"idle", "pull", "check", "send", "gone"}] /\ 0 \in Ids
      /\ yields \in [Ids -> Seq(Positions)] /\ delivered \in [Ids -> Seq(Positions)]
      /\ consumer \in {"idle", "waiting", "ended", "unwinding", "draining",
                       "joining", "dropped"}
  BY ConfigFacts DEF TypeOK
<1>2. ASSUME NEW w \in Ids, Finish(w) \/ ClosePass(w)
      PROVE  [Abstract!Next]_(Abstract!vars)
  <2>1. /\ UNCHANGED <<yields, delivered, consumer>>
        /\ pc' \in {pc, [pc EXCEPT ![w] = "gone"]}
    BY <1>2 DEF Finish, ClosePass
  <2>2. Finished' \in {Finished, Finished \cup {w}}
    BY <1>1, <2>1 DEF Finished
  <2>3. QED
    BY <2>1, <2>2, RefineFinish DEF Status
<1>3. ASSUME NEW w \in Ids, Panic(w) PROVE [Abstract!Next]_(Abstract!vars)
  <2>1. /\ UNCHANGED <<yields, delivered>>
        /\ pc[w] = "pull" /\ pc' = [pc EXCEPT ![w] = "gone"]
    BY <1>3 DEF Panic, AtKind
  <2>2. Finished' = Finished \cup {w}
    BY <1>1, <2>1 DEF Finished
  <2>3. Status' = Status
    <3>1. CASE Threaded
      BY <1>3, <3>1 DEF Panic, Status
    <3>2. CASE ~Threaded
      <4>1. w = 0 /\ consumer = "waiting" /\ consumer' = "unwinding"
        BY <1>3, <2>1, <3>2 DEF Panic, Fifo, Modes
      <4>2. QED
        BY <4>1 DEF Status
    <3>3. QED
      BY <3>1, <3>2
  <2>4. QED
    BY <2>1, <2>2, <2>3, RefineFinish
<1>4. ASSUME NEW w \in Ids, Yield(w) PROVE [Abstract!Next]_(Abstract!vars)
  <2>1. /\ UNCHANGED <<delivered, consumer>> /\ pc[w] = "pull"
        /\ pc' = [pc EXCEPT ![w] = "check"] /\ Status' = Status
    BY <1>4 DEF Yield, AtKind, Status
  <2>2. Finished' = Finished /\ w \notin Finished
    BY <1>1, <2>1 DEF Finished
  <2>3. CASE ~Alive
    BY <1>4, <2>1, <2>2, <2>3 DEF Yield, Finished, Abstract!vars
  <2>4. CASE Alive
    <3>1. pass[w].pos \in Positions
      <4>1. held'[w] \in Entry
        BY DEF TypeOK
      <4>2. held \in [Ids -> Entry]
        BY DEF TypeOK
      <4>3. held'[w].item = pass[w].pos
        BY <1>4, <4>2 DEF Yield
      <4>4. QED
        BY <4>1, <4>3 DEF Entry
    <3>2. yields' = [yields EXCEPT ![w] = Append(@, pass[w].pos)]
      BY <1>4, <2>4 DEF Yield
    <3>3. Status = "open"
      BY <2>1, <2>4 DEF Fifo, Modes, AllGone, Alive, Status
    <3>4. Abstract!Produce(w)
      BY <2>1, <2>2, <3>1, <3>2, <3>3 DEF Abstract!Produce, Finished
    <3>5. QED
      BY <3>4 DEF Abstract!Next
  <2>5. QED
    BY <2>3, <2>4
<1>5. ASSUME NEW w \in Ids, YieldInline(w) PROVE [Abstract!Next]_(Abstract!vars)
  <2> DEFINE p == pass[w].pos
  <2>1. /\ ~Threaded /\ pc[w] = "pull" /\ pc' = [pc EXCEPT ![w] = "idle"]
        /\ consumer' = "idle"
        /\ yields' = [yields EXCEPT ![w] = Append(@, p)]
        /\ delivered' = [delivered EXCEPT ![w] = Append(@, p)]
    BY <1>5 DEF YieldInline, AtKind
  <2>2. w = 0 /\ consumer = "waiting" /\ chan = <<>>
    BY <2>1 DEF Fifo, Modes
  <2>3. Status = "open" /\ Status' = "open"
    BY <2>1, <2>2 DEF Status
  <2>4. Finished' = Finished /\ w \notin Finished
    BY <1>1, <2>1 DEF Finished
  <2>5. Len(delivered[w]) = Len(yields[w])
    BY <2>1, <2>2, NothingPending DEF InTransit, Alive
  <2>6. p \in Positions
    <3>1. /\ yields'[w] = Append(yields[w], p) /\ yields'[w] \in Seq(Positions)
          /\ yields[w] \in Seq(Positions)
      BY <1>1, <2>1 DEF TypeOK
    <3>2. Len(yields[w]) + 1 \in 1..Len(yields'[w])
          /\ yields'[w][Len(yields[w]) + 1] = p
      BY <3>1
    <3>3. QED
      BY <3>1, <3>2
  <2>7. Abstract!Direct(w)
    BY <2>1, <2>3, <2>4, <2>5, <2>6 DEF Abstract!Direct, Finished
  <2>8. QED
    BY <2>7 DEF Abstract!Next
<1>6. CASE Receive
  <2> DEFINE e == Head(chan)
  <2>1. /\ chan # <<>> /\ Alive /\ consumer = "waiting" /\ consumer' = "idle"
        /\ delivered' = [delivered EXCEPT ![e.from] = Append(@, e.item)]
        /\ UNCHANGED <<yields, pc>>
    BY <1>6 DEF Receive, Alive
  <2>2. /\ e.from \in Ids /\ Len(delivered[e.from]) < Len(yields[e.from])
        /\ e.item = yields[e.from][Len(delivered[e.from]) + 1]
    BY <2>1, HeadIsNext
  <2>3. Status = "open" /\ Status' = "open" /\ Finished' = Finished
    BY <2>1 DEF Status, Finished
  <2> HIDE DEF e
  <2>4. Abstract!Deliver(e.from)
    BY <2>1, <2>2, <2>3 DEF Abstract!Deliver, Finished
  <2>5. QED
    BY <2>2, <2>4 DEF Abstract!Next
<1>7. CASE ReceiveNone
  <2>1. /\ consumer = "waiting" /\ consumer' = "ended" /\ chan = <<>> /\ AllGone
        /\ UNCHANGED <<yields, delivered, pc>>
    BY <1>7 DEF ReceiveNone
  <2>2. \A w \in Ids : Len(delivered[w]) = Len(yields[w])
    BY <2>1, NothingPending DEF AllGone, InTransit, Alive
  <2>3. Status = "open" /\ Status' = "ended" /\ Finished' = Finished /\ Finished = Ids
    BY <2>1 DEF Status, Finished, AllGone
  <2>4. Abstract!End
    BY <2>1, <2>2, <2>3 DEF Abstract!End, Finished
  <2>5. QED
    BY <2>4 DEF Abstract!Next
<1>8. CASE BeginDrop
  <2>1. /\ consumer' \in {"draining", "dropped"}
        /\ UNCHANGED <<yields, delivered, pc>>
    BY <1>8 DEF BeginDrop
  <2>2. Status' = "closed" /\ Finished' = Finished
    BY <2>1 DEF Status, Finished
  <2>3. Abstract!Close
    BY <2>1, <2>2 DEF Abstract!Close, Finished
  <2>4. QED
    BY <2>3 DEF Abstract!Next
<1>9. CASE Drain \/ Join \/ Dropped \/ UNCHANGED vars
  <2>1. UNCHANGED <<yields, delivered, pc>> /\ Status' = Status
    BY <1>9 DEF Drain, Join, Dropped, vars, Status
  <2>2. QED
    BY <2>1 DEF Abstract!vars
<1>10. CASE Ask
  <2>1. /\ UNCHANGED <<yields, delivered>> /\ Status' = Status
        /\ pc' = pc \/ (pc' = [pc EXCEPT ![0] = "pull"] /\ pc[0] = "idle")
    BY <1>10 DEF Ask, Status, Fifo, Modes
  <2>2. Finished' = Finished
    BY <1>1, <2>1 DEF Finished
  <2>3. QED
    BY <2>1, <2>2 DEF Abstract!vars, Finished
<1>11. ASSUME NEW w \in Ids, OpenPass(w) \/ Skip(w) \/ Check(w) \/ Send(w) \/ Observe(w)
       PROVE  [Abstract!Next]_(Abstract!vars)
  <2>1. /\ UNCHANGED <<yields, delivered, consumer>> /\ Status' = Status
        /\ \/ pc' = pc
           \/ pc[w] \in {"check", "send"} /\ pc' = [pc EXCEPT ![w] = "gone"]
           \/ pc[w] \in {"check", "send"}
              /\ pc' \in {[pc EXCEPT ![w] = "send"], [pc EXCEPT ![w] = "pull"]}
    BY <1>11 DEF OpenPass, Skip, Check, Send, Observe, Status
  <2>2. Finished' \in {Finished, Finished \cup {w}}
    BY <1>1, <2>1 DEF Finished
  <2>3. QED
    BY <2>1, <2>2, RefineFinish
<1>12. QED
  BY <1>2, <1>3, <1>4, <1>5, <1>6, <1>7, <1>8, <1>9, <1>10, <1>11
     DEF Next, WorkerStep, PipelineStep, ConsumerStep

(* The loader implements the abstract epoch: its threads, its bounded channel *)
(* and its relaxed stop flag deliver every stream in order, once, and end the *)
(* epoch only when all of it has been returned.                               *)
THEOREM Implements == Spec => Delivery
<1>1. Init => Abstract!Init
  BY RefineInit
<1>2. TypeOK /\ TypeOK' /\ Fifo /\ [Next]_vars => [Abstract!Next]_(Abstract!vars)
  BY RefineStep
<1>3. Spec => []TypeOK /\ []Fifo
  BY TypeCorrect, FifoAlways, PTL
<1>4. QED
  BY <1>1, <1>2, <1>3, PTL DEF Spec, Delivery, Abstract!Spec
-----------------------------------------------------------------------------
(* How far each worker is: k passes behind it and what of the present one,   *)
(* and what Repeated and take(limit) still allow.                            *)

Size(w) == Cardinality(Share(w))
Behind(w) == IF pass[w].open THEN Below(w, pass[w].pos) ELSE 0

Counted(w, k) ==
  /\ Len(yields[w]) = k * Size(w) + Behind(w)
  /\ IF config.repeats = Unbounded THEN epochsLeft[w] = Unbounded
     ELSE /\ epochsLeft[w] \in Nat
          /\ config.repeats = k + epochsLeft[w] + (IF pass[w].open THEN 1 ELSE 0)
  /\ IF config.limit = Unbounded THEN left[w] = Unbounded
     ELSE left[w] \in Nat /\ config.limit = Len(yields[w]) + left[w]

(* An open pass is on its worker's stride, and knows if it has yielded. *)
OnStride(w) ==
  pass[w].open => /\ Splitting => pass[w].pos % config.workers = w
                  /\ pass[w].yielded <=> Below(w, pass[w].pos) # 0

InShare(w) ==
  \A i \in DOMAIN yields[w] : /\ yields[w][i] \in Share(w)
                              /\ Below(w, yields[w][i]) = (i - 1) % Size(w)

FinishedWhole(w) ==
  pc[w] = "gone" /\ w \notin panicked => Len(yields[w]) = Total(w)

Paced ==
  /\ \A w \in Ids : InShare(w)
  /\ \A w \in Ids \ Streams : pc[w] = "gone"
  /\ Alive => \A w \in Streams :
                OnStride(w) /\ FinishedWhole(w) /\ \E k \in Nat : Counted(w, k)

(* Shares as sets of positions. *)
LEMMA ShareFacts ==
  ASSUME TypeOK, NEW w \in Ids
  PROVE  /\ Share(w) \subseteq 0..(Len(config.source) - 1)
         /\ IsFiniteSet(Share(w)) /\ Size(w) \in Nat
         /\ \A p : Below(w, p) \in 0..Size(w)
<1>1. Share(w) \subseteq 0..(Len(config.source) - 1)
  BY DEF Share
<1>2. Len(config.source) \in Nat
  BY ConfigFacts DEF TypeOK
<1>3. IsFiniteSet(0..(Len(config.source) - 1))
  BY <1>2, FS_Interval
<1>4. IsFiniteSet(Share(w))
  BY <1>1, <1>3, FS_Subset
<1>5. Size(w) \in Nat
  BY <1>4, FS_CardinalityType DEF Size
<1>6. ASSUME NEW p PROVE Below(w, p) \in 0..Size(w)
  <2>1. {q \in Share(w) : q < p} \in SUBSET Share(w)
    OBVIOUS
  <2>2. /\ IsFiniteSet({q \in Share(w) : q < p})
        /\ Cardinality({q \in Share(w) : q < p}) <= Cardinality(Share(w))
    BY <1>4, <2>1, FS_Subset
  <2>3. Cardinality({q \in Share(w) : q < p}) \in Nat
    BY <2>2, FS_CardinalityType
  <2> QED
    BY <1>5, <2>2, <2>3 DEF Below, Size
<1> QED
  BY <1>1, <1>4, <1>5, <1>6

LEMMA Multiples ==
  ASSUME NEW n \in Nat \ {0}, NEW a \in Int, NEW b \in Int, a < b
  PROVE  n * a \in Int /\ n * b \in Int /\ n * a + n <= n * b
<1>1. n * (b - a) >= n
  BY ProductAtLeast
<1>2. n * (b - a) = n * b - n * a /\ n * a \in Int /\ n * b \in Int
  BY Z3
<1> QED
  BY <1>1, <1>2

(* No two positions of a share are closer than a stride. *)
LEMMA StridesApart ==
  ASSUME NEW n \in Nat \ {0}, NEW p \in Nat, NEW q \in Nat,
         p % n = q % n, p < q
  PROVE  p + n <= q
<1> DEFINE c == p \div n
           d == q \div n
           r == p % n
<1>1. /\ c \in Int /\ r \in 0..(n - 1) /\ p = n * c + r
      /\ d \in Int /\ q = n * d + r
  BY DivMod
<1> HIDE DEF c, d, r
<1>2. n * c \in Int /\ n * d \in Int
  BY <1>1, Z3
<1>3. CASE c < d
  <2>1. n * c + n <= n * d
    BY <1>1, <1>3, Multiples
  <2> QED
    BY <1>1, <1>2, <2>1
<1>4. CASE c = d
  BY <1>1, <1>2, <1>4
<1>5. CASE d < c
  <2>1. n * d + n <= n * c
    BY <1>1, <1>5, Multiples
  <2> QED
    BY <1>1, <1>2, <2>1
<1> QED
  BY <1>1, <1>3, <1>4, <1>5

(* skip(worker): nothing of a share lies before its first position. *)
LEMMA BelowFirst ==
  ASSUME TypeOK, NEW w \in Streams
  PROVE  Below(w, First(w)) = 0 /\ (Splitting => First(w) % config.workers = w)
<1>1. w \in Ids /\ config \in Config
  BY ConfigFacts DEF TypeOK
<1>2. Share(w) \subseteq Nat
  BY <1>1, ShareFacts
<1>3. CASE Splitting
  <2>1. /\ config.workers \in Nat \ {0} /\ w \in 0..(config.workers - 1)
    BY <1>1, <1>3 DEF Splitting, Threaded, Streams, Config
  <2>2. \A q \in Nat : q < w => q % config.workers = q
    BY <2>1
  <2>3. {q \in Share(w) : q < w} = {}
    BY <1>2, <1>3, <2>1, <2>2 DEF Share
  <2>4. First(w) = w /\ w % config.workers = w
    BY <1>3, <2>1 DEF First
  <2> QED
    BY <2>3, <2>4, FS_EmptySet DEF Below
<1>4. CASE ~Splitting
  <2>1. {q \in Share(w) : q < 0} = {} /\ First(w) = 0
    BY <1>2, <1>4 DEF First
  <2> QED
    BY <1>4, <2>1, FS_EmptySet DEF Below
<1> QED
  BY <1>3, <1>4

(* step_by(num_workers): between two positions of a stride lies nothing of   *)
(* the share, so that each step passes one of it at most.                    *)
LEMMA BelowNext ==
  ASSUME TypeOK, NEW w \in Ids, NEW p \in Nat,
         Splitting => p % config.workers = w
  PROVE  /\ Below(w, p + Stride) =
              IF p \in Share(w) THEN Below(w, p) + 1 ELSE Below(w, p)
         /\ Splitting => (p + Stride) % config.workers = w
<1>1. /\ Stride \in Nat \ {0} /\ Share(w) \subseteq Nat /\ IsFiniteSet(Share(w))
      /\ config \in Config
  BY ConfigFacts, ShareFacts DEF TypeOK
<1>2. ASSUME NEW q \in Share(w), p < q PROVE p + Stride <= q
  <2>1. CASE Splitting
    <3>1. /\ config.workers \in Nat \ {0} /\ Stride = config.workers
          /\ q % config.workers = p % config.workers
      BY <1>1, <2>1 DEF Splitting, Threaded, Config, Stride, Share
    <3> QED
      BY <1>1, <1>2, <3>1, StridesApart
  <2>2. CASE ~Splitting
    BY <1>1, <1>2, <2>2 DEF Stride
  <2> QED
    BY <2>1, <2>2
<1>3. {q \in Share(w) : q < p + Stride} =
        {q \in Share(w) : q < p} \cup (IF p \in Share(w) THEN {p} ELSE {})
  <2>1. \A q \in Share(w) : q < p + Stride <=> q < p \/ q = p
    BY <1>1, <1>2
  <2> QED
    BY <2>1
<1>4. IsFiniteSet({q \in Share(w) : q < p})
  BY <1>1, FS_Subset
<1>5. p \notin {q \in Share(w) : q < p}
  BY <1>1
<1>6. p \in Share(w) => Below(w, p + Stride) = Below(w, p) + 1
  <2> DEFINE S == {q \in Share(w) : q < p}
  <2> SUFFICES ASSUME p \in Share(w) PROVE Below(w, p + Stride) = Below(w, p) + 1
    OBVIOUS
  <2>1. Below(w, p + Stride) = Cardinality(S \cup {p}) /\ Below(w, p) = Cardinality(S)
    BY <1>3 DEF Below
  <2>2. IsFiniteSet(S) /\ p \notin S
    BY <1>4, <1>5
  <2> HIDE DEF S
  <2>3. Cardinality(S \cup {p}) = Cardinality(S) + 1
    BY <2>2, FS_AddElement
  <2> QED
    BY <2>1, <2>3
<1>7. p \notin Share(w) => Below(w, p + Stride) = Below(w, p)
  <2> SUFFICES ASSUME p \notin Share(w) PROVE Below(w, p + Stride) = Below(w, p)
    OBVIOUS
  <2>1. {q \in Share(w) : q < p + Stride} = {q \in Share(w) : q < p}
    BY <1>3
  <2> QED
    BY <2>1 DEF Below
<1>8. Splitting => (p + Stride) % config.workers = w
  <2> SUFFICES ASSUME Splitting PROVE (p + Stride) % config.workers = w
    OBVIOUS
  <2>1. Stride = config.workers /\ config.workers \in Nat \ {0}
    BY <1>1 DEF Stride, Splitting, Threaded, Config
  <2> QED
    BY <2>1, ModStep
<1> QED
  BY <1>6, <1>7, <1>8

LEMMA BelowEnds ==
  ASSUME TypeOK, NEW w \in Ids
  PROVE  /\ \A p \in Nat : p >= Len(config.source) => Below(w, p) = Size(w)
         /\ \A p \in Share(w) : Below(w, p) < Size(w)
<1>1. /\ Share(w) \subseteq 0..(Len(config.source) - 1) /\ IsFiniteSet(Share(w))
      /\ Size(w) \in Nat /\ \A p : Below(w, p) \in 0..Size(w)
      /\ Len(config.source) \in Nat
  BY ShareFacts, ConfigFacts DEF TypeOK
<1>2. ASSUME NEW p \in Nat, p >= Len(config.source) PROVE Below(w, p) = Size(w)
  <2>1. {q \in Share(w) : q < p} = Share(w)
    BY <1>1, <1>2
  <2> QED
    BY <2>1 DEF Below, Size
<1>3. ASSUME NEW p \in Share(w) PROVE Below(w, p) < Size(w)
  <2>1. {q \in Share(w) : q < p} \in SUBSET Share(w) /\ p \notin {q \in Share(w) : q < p}
    BY <1>1
  <2>2. {q \in Share(w) : q < p} # Share(w)
    BY <2>1
  <2>3. Below(w, p) # Size(w)
    BY <1>1, <2>1, <2>2, FS_Subset DEF Below, Size
  <2> QED
    BY <1>1, <2>3
<1> QED
  BY <1>2, <1>3

-----------------------------------------------------------------------------
(* The counts. *)

LEMMA RoundsAndRest ==
  ASSUME NEW n \in Nat \ {0}, NEW k \in Nat, NEW b \in 0..(n - 1)
  PROVE  (k * n + b) % n = b
<1> DEFINE x == k * n + b
<1>1. k * n = n * k /\ n * k \in Nat
  BY Z3
<1>2. x \in Nat /\ x = n * k + b
  BY <1>1
<1>3. x \div n \in Int /\ x % n \in 0..(n - 1) /\ x = n * (x \div n) + (x % n)
  BY <1>2, DivMod
<1> HIDE DEF x
<1> DEFINE q == x \div n
           r == x % n
<1>4. q \in Int /\ r \in 0..(n - 1) /\ n * k + b = n * q + r
  BY <1>2, <1>3
<1> HIDE DEF q, r
<1>5. b = r
  BY <1>4, RemainderUnique
<1> QED
  BY <1>5 DEF r, x

LEMMA Rounds ==
  ASSUME NEW k \in Nat, NEW n \in Nat
  PROVE  /\ k * n \in Nat /\ (k + 1) * n = k * n + n
         /\ \A r \in Nat : k <= r => k * n <= r * n
<1>1. k * n \in Nat /\ (k + 1) * n = k * n + n
  BY ProductNat, Z3
<1>2. ASSUME NEW r \in Nat, k <= r PROVE k * n <= r * n
  <2>1. r * n = k * n + (r - k) * n
    BY Z3
  <2>2. (r - k) * n \in Nat
    BY <1>2, ProductNat
  <2> QED
    BY <1>1, <2>1, <2>2
<1> QED
  BY <1>1, <1>2

(* A stream that take() or Repeated ends has yielded all there was to. *)
LEMMA EndsWhole ==
  ASSUME TypeOK, NEW w \in Streams, NEW k \in Nat, Counted(w, k),
         left[w] = 0 \/ (~pass[w].open /\ epochsLeft[w] = 0)
  PROVE  Len(yields[w]) = Total(w)
<1> DEFINE n == Size(w)
           len == Len(yields[w])
           rep == config.repeats
           lim == config.limit
<1>1. /\ w \in Ids /\ rep \in Counter /\ lim \in Counter
  BY ConfigFacts DEF TypeOK, Config
<1>2. /\ n \in Nat /\ len \in Nat /\ Behind(w) \in 0..n
      /\ (~pass[w].open => Behind(w) = 0)
  BY <1>1, ShareFacts DEF TypeOK, Behind
<1>3. len = k * n + Behind(w) /\ k * n \in Nat
  BY <1>2, Rounds DEF Counted
<1>4. /\ n = 0 => Total(w) = 0
      /\ n # 0 /\ rep = Unbounded => Total(w) = lim
      /\ n # 0 /\ rep # Unbounded => Total(w) = Smaller(rep * n, lim)
  BY DEF Total, Size
<1>5. /\ rep # Unbounded => /\ epochsLeft[w] \in Nat
                            /\ rep = k + epochsLeft[w] + (IF pass[w].open THEN 1 ELSE 0)
      /\ rep = Unbounded => epochsLeft[w] = Unbounded
      /\ lim # Unbounded => left[w] \in Nat /\ lim = len + left[w]
      /\ lim = Unbounded => left[w] = Unbounded
  BY DEF Counted
<1>9. len = Len(yields[w])
  OBVIOUS
<1> HIDE DEF n, len, rep, lim
<1>6. CASE n = 0
  <2>1. k * n = 0 /\ Behind(w) = 0
    BY <1>2, <1>6
  <2> QED
    BY <1>3, <1>4, <1>6, <1>9, <2>1
<1>7. CASE n # 0 /\ left[w] = 0
  <2>1. lim = len /\ lim # Unbounded
    BY <1>2, <1>5, <1>7, LoaderAssumption
  <2>2. CASE rep = Unbounded
    BY <1>4, <1>7, <1>9, <2>1, <2>2
  <2>3. CASE rep # Unbounded
    <3>1. /\ rep \in Nat /\ k <= rep /\ (pass[w].open => k + 1 <= rep)
      BY <1>5, <2>3
    <3>2. len <= rep * n /\ rep * n \in Nat
      <4>1. rep * n \in Nat /\ k * n <= rep * n
        BY <1>2, <3>1, Rounds
      <4>2. CASE pass[w].open
        <5>1. (k + 1) * n <= rep * n
          BY <1>2, <3>1, <4>2, Rounds
        <5>2. (k + 1) * n = k * n + n
          BY <1>2, Rounds
        <5> QED
          BY <1>2, <1>3, <4>1, <5>1, <5>2
      <4>3. CASE ~pass[w].open
        BY <1>2, <1>3, <4>1, <4>3
      <4> QED
        BY <4>2, <4>3
    <3>3. Smaller(rep * n, lim) = lim
      BY <1>2, <2>1, <3>2, LoaderAssumption DEF Smaller
    <3> QED
      BY <1>4, <1>7, <1>9, <2>1, <2>3, <3>3
  <2> QED
    BY <2>2, <2>3
<1>8. CASE n # 0 /\ ~pass[w].open /\ epochsLeft[w] = 0
  <2>1. rep # Unbounded /\ rep = k /\ len = rep * n /\ rep * n \in Nat
    BY <1>2, <1>3, <1>5, <1>8, LoaderAssumption
  <2>2. lim = Unbounded \/ (lim \in Nat /\ len <= lim)
    BY <1>2, <1>5
  <2>3. Smaller(rep * n, lim) = len
    BY <1>2, <2>1, <2>2, LoaderAssumption DEF Smaller
  <2> QED
    BY <1>4, <1>8, <1>9, <2>1, <2>3
<1> QED
  BY <1>6, <1>7, <1>8

-----------------------------------------------------------------------------
(* The steps. *)

LEMMA ConfigStays == [Next]_vars => config' = config
BY DEF Next, vars, WorkerStep, PipelineStep, Finish, OpenPass, Skip, Yield,
       YieldInline, Panic, ClosePass, Check, Send, Observe, ConsumerStep,
       Receive, ReceiveNone, Drain, Join, Ask, BeginDrop, Dropped

LEMMA SharesStay ==
  ASSUME config' = config
  PROVE  /\ Streams' = Streams /\ (Splitting' <=> Splitting)
         /\ \A w : /\ Share(w)' = Share(w) /\ Size(w)' = Size(w)
                   /\ Total(w)' = Total(w)
                   /\ \A p : Below(w, p)' = Below(w, p)
<1>1. Streams' = Streams /\ (Splitting' <=> Splitting)
  BY DEF Streams, Splitting, Threaded
<1>2. ASSUME NEW w PROVE Share(w)' = Share(w)
  BY <1>1 DEF Share
<1>3. ASSUME NEW w PROVE /\ Size(w)' = Size(w) /\ Total(w)' = Total(w)
                         /\ \A p : Below(w, p)' = Below(w, p)
  BY <1>2 DEF Size, Total, Below
<1> QED
  BY <1>1, <1>2, <1>3

(* A step of w's pipeline leaves the others where they were. *)
LEMMA PacedBut ==
  ASSUME Paced, config' = config, Alive' => Alive, panicked \subseteq panicked',
         NEW w \in Streams,
         \A v \in Ids : v # w =>
            /\ pc'[v] = pc[v] /\ pass'[v] = pass[v] /\ epochsLeft'[v] = epochsLeft[v]
            /\ left'[v] = left[v] /\ yields'[v] = yields[v],
         Streams \subseteq Ids,
         InShare(w)',
         Alive' => OnStride(w)' /\ FinishedWhole(w)' /\ \E k \in Nat : Counted(w, k)'
  PROVE  Paced'
<1>1. /\ Streams' = Streams /\ (Splitting' <=> Splitting)
      /\ \A v : /\ Share(v)' = Share(v) /\ Size(v)' = Size(v) /\ Total(v)' = Total(v)
                /\ \A p : Below(v, p)' = Below(v, p)
  BY SharesStay
<1>2. ASSUME NEW v \in Ids, v # w
      PROVE  /\ InShare(v)' <=> InShare(v)
             /\ OnStride(v)' <=> OnStride(v)
             /\ FinishedWhole(v) => FinishedWhole(v)'
             /\ \A k : Counted(v, k)' <=> Counted(v, k)
  <2>1. InShare(v)' <=> InShare(v)
    BY <1>1, <1>2 DEF InShare
  <2>2. OnStride(v)' <=> OnStride(v)
    BY <1>1, <1>2 DEF OnStride
  <2>3. FinishedWhole(v) => FinishedWhole(v)'
    BY <1>1, <1>2 DEF FinishedWhole
  <2>4. Behind(v)' = Behind(v)
    BY <1>1, <1>2 DEF Behind
  <2>5. \A k : Counted(v, k)' <=> Counted(v, k)
    BY <1>1, <1>2, <2>4 DEF Counted
  <2> QED
    BY <2>1, <2>2, <2>3, <2>5
<1>3. \A v \in Ids : InShare(v)'
  BY <1>2 DEF Paced
<1>4. \A v \in Ids \ Streams : pc'[v] = "gone"
  BY DEF Paced
<1>5. ASSUME Alive', NEW v \in Streams
      PROVE  OnStride(v)' /\ FinishedWhole(v)' /\ \E k \in Nat : Counted(v, k)'
  BY <1>2, <1>5 DEF Paced
<1> QED
  BY <1>1, <1>3, <1>4, <1>5 DEF Paced

(* A step of a loop body, of the consumer, or a panic, moves no pipeline. *)
LEMMA PacedFrame ==
  ASSUME TypeOK, Paced, config' = config, UNCHANGED <<stream, yields>>, Alive' => Alive,
         panicked \subseteq panicked',
         \A w \in Ids \ Streams : pc'[w] = "gone",
         Alive' => \A w \in Streams :
                      pc'[w] = "gone" /\ w \notin panicked' => pc[w] = "gone"
  PROVE  Paced'
<1>1. /\ Streams' = Streams /\ (Splitting' <=> Splitting)
      /\ \A v : /\ Share(v)' = Share(v) /\ Size(v)' = Size(v) /\ Total(v)' = Total(v)
                /\ \A p : Below(v, p)' = Below(v, p)
  BY SharesStay
<1>2. pass' = pass /\ epochsLeft' = epochsLeft /\ left' = left /\ yields' = yields
  BY DEF stream
<1>3. ASSUME NEW v
      PROVE  /\ InShare(v)' <=> InShare(v)
             /\ OnStride(v)' <=> OnStride(v)
             /\ \A k : Counted(v, k)' <=> Counted(v, k)
  <2>1. InShare(v)' <=> InShare(v)
    BY <1>1, <1>2 DEF InShare
  <2>2. OnStride(v)' <=> OnStride(v)
    BY <1>1, <1>2 DEF OnStride
  <2>3. Behind(v)' = Behind(v)
    BY <1>1, <1>2 DEF Behind
  <2>4. \A k : Counted(v, k)' <=> Counted(v, k)
    BY <1>1, <1>2, <2>3 DEF Counted
  <2> QED
    BY <2>1, <2>2, <2>4
<1>4. ASSUME Alive', NEW v \in Streams
      PROVE  OnStride(v)' /\ FinishedWhole(v)' /\ \E k \in Nat : Counted(v, k)'
  <2>1. FinishedWhole(v)'
    BY <1>1, <1>2, <1>4 DEF Paced, FinishedWhole
  <2> QED
    BY <1>3, <1>4, <2>1 DEF Paced
<1> QED
  BY <1>1, <1>3, <1>4 DEF Paced

LEMMA PacedInit == Init => Paced
<1> SUFFICES ASSUME Init PROVE Paced
  OBVIOUS
<1>1. /\ TypeOK /\ Streams \subseteq Ids /\ config \in Config
      /\ \A w \in Ids : Size(w) \in Nat
  BY InitType, ConfigFacts, ShareFacts DEF TypeOK
<1>2. \A w \in Ids : yields[w] = <<>> /\ ~pass[w].open
  BY DEF Init
<1>3. \A w \in Ids : InShare(w)
  BY <1>2 DEF InShare
<1>4. \A w \in Ids \ Streams : pc[w] = "gone"
  BY DEF Init
<1>5. ASSUME NEW w \in Streams PROVE OnStride(w) /\ FinishedWhole(w) /\ Counted(w, 0)
  <2>1. OnStride(w)
    BY <1>1, <1>2 DEF OnStride
  <2>2. pc[w] # "gone"
    BY <1>1, <1>5 DEF Init
  <2>3. Behind(w) = 0 /\ Len(yields[w]) = 0 /\ 0 * Size(w) = 0
    BY <1>1, <1>2 DEF Behind
  <2>4. /\ config.repeats \in Counter /\ config.limit \in Counter
        /\ epochsLeft[w] = config.repeats /\ left[w] = config.limit
    BY <1>1 DEF Init, Config
  <2>5. Counted(w, 0)
    BY <1>1, <1>2, <2>3, <2>4 DEF Counted, Counter
  <2> QED
    BY <2>1, <2>2, <2>5 DEF FinishedWhole
<1> QED
  BY <1>3, <1>4, <1>5 DEF Paced

LEMMA PullsAreStreams ==
  ASSUME TypeOK, Paced, NEW w \in Ids, pc[w] = "pull"
  PROVE  w \in Streams
BY DEF Paced

LEMMA PacedFinish ==
  ASSUME TypeOK, Paced, NEW w \in Ids, Finish(w)
  PROVE  Paced'
<1>1. /\ pc[w] = "pull" /\ pc' = [pc EXCEPT ![w] = "gone"]
      /\ left[w] = 0 \/ (~pass[w].open /\ epochsLeft[w] = 0)
      /\ UNCHANGED <<config, stream, consumer, yields, panicked>>
      /\ pass' = pass /\ epochsLeft' = epochsLeft /\ left' = left
  BY DEF Finish, stream
<1>2. w \in Streams /\ Streams \subseteq Ids /\ pc \in [Ids -> {"idle", "pull", "check", "send", "gone"}]
  BY <1>1, PullsAreStreams, ConfigFacts DEF TypeOK
<1>3. /\ Streams' = Streams /\ (Splitting' <=> Splitting)
      /\ Share(w)' = Share(w) /\ Size(w)' = Size(w) /\ Total(w)' = Total(w)
      /\ \A p : Below(w, p)' = Below(w, p)
  BY <1>1, SharesStay
<1>4. InShare(w)'
  BY <1>1, <1>2, <1>3 DEF Paced, InShare
<1>5. ASSUME Alive' PROVE OnStride(w)' /\ FinishedWhole(w)' /\ \E k \in Nat : Counted(w, k)'
  <2>1. Alive
    BY <1>1, <1>5 DEF Alive
  <2>2. PICK k \in Nat : OnStride(w) /\ Counted(w, k)
    BY <1>2, <2>1 DEF Paced
  <2>3. OnStride(w)'
    BY <1>1, <1>3, <2>2 DEF OnStride
  <2>4. Behind(w)' = Behind(w)
    BY <1>1, <1>3 DEF Behind
  <2>5. Counted(w, k)'
    BY <1>1, <1>3, <2>2, <2>4 DEF Counted
  <2>6. Len(yields[w]) = Total(w)
    BY <1>1, <1>2, <2>2, EndsWhole
  <2>7. FinishedWhole(w)'
    BY <1>1, <1>3, <2>6 DEF FinishedWhole
  <2> QED
    BY <2>3, <2>5, <2>7
<1>6. Alive' => Alive
  BY <1>1 DEF Alive
<1> QED
  BY <1>1, <1>2, <1>4, <1>5, <1>6, PacedBut

(* A pass is opened before the first of the share. *)
LEMMA PacedOpenPass ==
  ASSUME TypeOK, Paced, NEW w \in Ids, OpenPass(w)
  PROVE  Paced'
<1>1. /\ pc[w] = "pull" /\ ~pass[w].open /\ epochsLeft[w] # 0
      /\ pass' = [pass EXCEPT ![w] = [open |-> TRUE, pos |-> First(w), yielded |-> FALSE]]
      /\ epochsLeft' = [epochsLeft EXCEPT ![w] = Minus1(@)]
      /\ UNCHANGED <<config, pc, left, consumer, yields, panicked>>
  BY DEF OpenPass
<1>2. /\ w \in Streams /\ Streams \subseteq Ids
      /\ pass \in [Ids -> Pass] /\ epochsLeft \in [Ids -> Counter]
  BY <1>1, PullsAreStreams, ConfigFacts DEF TypeOK
<1>3. /\ Streams' = Streams /\ (Splitting' <=> Splitting)
      /\ Share(w)' = Share(w) /\ Size(w)' = Size(w) /\ Total(w)' = Total(w)
      /\ \A p : Below(w, p)' = Below(w, p)
  BY <1>1, SharesStay
<1>4. /\ pass'[w].open /\ pass'[w].pos = First(w) /\ ~pass'[w].yielded
      /\ epochsLeft'[w] = Minus1(epochsLeft[w])
      /\ \A v \in Ids : v # w => pass'[v] = pass[v] /\ epochsLeft'[v] = epochsLeft[v]
  BY <1>1, <1>2
<1>5. Below(w, First(w)) = 0 /\ (Splitting => First(w) % config.workers = w)
  BY <1>2, BelowFirst
<1>6. InShare(w)'
  BY <1>1, <1>2, <1>3 DEF Paced, InShare
<1>7. ASSUME Alive' PROVE OnStride(w)' /\ FinishedWhole(w)' /\ \E k \in Nat : Counted(w, k)'
  <2>1. Alive
    BY <1>1, <1>7 DEF Alive
  <2>2. PICK k \in Nat : Counted(w, k)
    BY <1>2, <2>1 DEF Paced
  <2>3. OnStride(w)'
    BY <1>1, <1>3, <1>4, <1>5 DEF OnStride
  <2>4. Behind(w)' = 0 /\ Behind(w) = 0
    BY <1>1, <1>3, <1>4, <1>5 DEF Behind
  <2>5. Len(yields'[w]) = k * Size(w)' + Behind(w)'
    BY <1>1, <1>3, <2>2, <2>4 DEF Counted
  <2>6. IF config.repeats = Unbounded THEN epochsLeft'[w] = Unbounded
        ELSE epochsLeft'[w] \in Nat /\ config.repeats = k + epochsLeft'[w] + 1
    BY <1>1, <1>4, <2>2, LoaderAssumption DEF Counted, Minus1
  <2>7. Counted(w, k)'
    BY <1>1, <1>4, <2>2, <2>5, <2>6 DEF Counted
  <2>8. FinishedWhole(w)'
    BY <1>1 DEF FinishedWhole
  <2> QED
    BY <2>3, <2>7, <2>8
<1>8. Alive' => Alive
  BY <1>1 DEF Alive
<1> QED
  BY <1>1, <1>2, <1>4, <1>6, <1>7, <1>8, PacedBut

(* What the stage drops is not of the share. *)
LEMMA PacedSkip ==
  ASSUME TypeOK, Paced, NEW w \in Ids, Skip(w)
  PROVE  Paced'
<1> DEFINE p == pass[w].pos
<1>1. /\ pc[w] = "pull" /\ pass[w].open /\ config.source[p + 1] = "drop"
      /\ pass' = [pass EXCEPT ![w].pos = @ + Stride]
      /\ UNCHANGED <<config, pc, epochsLeft, left, consumer, yields, panicked>>
  BY DEF Skip, AtKind
<1>2. /\ w \in Streams /\ Streams \subseteq Ids /\ pass \in [Ids -> Pass] /\ p \in Nat
  BY <1>1, PullsAreStreams, ConfigFacts DEF TypeOK, Pass
<1>3. /\ Streams' = Streams /\ (Splitting' <=> Splitting)
      /\ Share(w)' = Share(w) /\ Size(w)' = Size(w) /\ Total(w)' = Total(w)
      /\ \A q : Below(w, q)' = Below(w, q)
  BY <1>1, SharesStay
<1>4. /\ pass'[w].open /\ pass'[w].pos = p + Stride
      /\ pass'[w].yielded = pass[w].yielded
      /\ \A v \in Ids : v # w => pass'[v] = pass[v]
  BY <1>1, <1>2 DEF Pass
<1>5. p \notin Share(w)
  BY <1>1 DEF Share
<1>6. InShare(w)'
  BY <1>1, <1>2, <1>3 DEF Paced, InShare
<1>7. ASSUME Alive' PROVE OnStride(w)' /\ FinishedWhole(w)' /\ \E k \in Nat : Counted(w, k)'
  <2>1. Alive
    BY <1>1, <1>7 DEF Alive
  <2>2. PICK k \in Nat : OnStride(w) /\ Counted(w, k)
    BY <1>2, <2>1 DEF Paced
  <2>3. /\ Below(w, p + Stride) = Below(w, p)
        /\ Splitting => (p + Stride) % config.workers = w
    BY <1>1, <1>2, <1>5, <2>2, BelowNext DEF OnStride
  <2>4. OnStride(w)'
    BY <1>1, <1>3, <1>4, <2>2, <2>3 DEF OnStride
  <2>5. Behind(w)' = Behind(w)
    BY <1>1, <1>3, <1>4, <2>3 DEF Behind
  <2>6. Counted(w, k)'
    BY <1>1, <1>3, <1>4, <2>2, <2>5 DEF Counted
  <2>7. FinishedWhole(w)'
    BY <1>1 DEF FinishedWhole
  <2> QED
    BY <2>4, <2>6, <2>7
<1>8. Alive' => Alive
  BY <1>1 DEF Alive
<1> QED
  BY <1>1, <1>2, <1>4, <1>6, <1>7, <1>8, PacedBut

(* At the end of the source the whole share is behind; if that is nothing,   *)
(* the stream ends with nothing yielded.                                     *)
LEMMA PacedClosePass ==
  ASSUME TypeOK, Paced, NEW w \in Ids, ClosePass(w)
  PROVE  Paced'
<1> DEFINE p == pass[w].pos
<1>1. /\ pc[w] = "pull" /\ pass[w].open /\ p >= Len(config.source)
      /\ pass' = [pass EXCEPT ![w].open = FALSE]
      /\ pc' = IF pass[w].yielded THEN pc ELSE [pc EXCEPT ![w] = "gone"]
      /\ UNCHANGED <<config, epochsLeft, left, consumer, yields, panicked>>
  BY DEF ClosePass
<1>2. /\ w \in Streams /\ Streams \subseteq Ids /\ pass \in [Ids -> Pass] /\ p \in Nat
      /\ pc \in [Ids -> {"idle", "pull", "check", "send", "gone"}]
      /\ pass[w].yielded \in BOOLEAN
  BY <1>1, PullsAreStreams, ConfigFacts DEF TypeOK, Pass
<1>3. /\ Streams' = Streams /\ (Splitting' <=> Splitting)
      /\ Share(w)' = Share(w) /\ Size(w)' = Size(w) /\ Total(w)' = Total(w)
      /\ \A q : Below(w, q)' = Below(w, q)
  BY <1>1, SharesStay
<1>4. /\ ~pass'[w].open
      /\ \A v \in Ids : v # w => pass'[v] = pass[v] /\ pc'[v] = pc[v]
  BY <1>1, <1>2 DEF Pass
<1>5. Below(w, p) = Size(w) /\ Size(w) \in Nat
  BY <1>1, <1>2, BelowEnds, ShareFacts
<1>6. InShare(w)'
  BY <1>1, <1>2, <1>3 DEF Paced, InShare
<1>7. ASSUME Alive' PROVE OnStride(w)' /\ FinishedWhole(w)' /\ \E k \in Nat : Counted(w, k)'
  <2>1. Alive
    BY <1>1, <1>7 DEF Alive
  <2>2. PICK k \in Nat : OnStride(w) /\ Counted(w, k)
    BY <1>2, <2>1 DEF Paced
  <2>3. OnStride(w)'
    BY <1>4 DEF OnStride
  <2>4. Behind(w)' = 0 /\ Behind(w) = Size(w)
    BY <1>1, <1>4, <1>5 DEF Behind
  <2>5. Len(yields[w]) = k * Size(w) + Size(w)
    BY <2>2, <2>4 DEF Counted
  <2>6. (k + 1) * Size(w) = k * Size(w) + Size(w) /\ (k + 1) * Size(w) \in Nat
    BY <1>5, Rounds
  <2>7. Len(yields'[w]) = (k + 1) * Size(w)' + Behind(w)'
    BY <1>1, <1>3, <2>4, <2>5, <2>6
  <2>8. config.repeats # Unbounded =>
          epochsLeft[w] \in Nat /\ config.repeats = (k + 1) + epochsLeft[w] + 0
    BY <1>1, <2>2 DEF Counted
  <2>9. Counted(w, k + 1)'
    BY <1>1, <1>4, <2>2, <2>7, <2>8 DEF Counted
  <2>10. FinishedWhole(w)'
    <3>1. CASE pass[w].yielded
      BY <1>1, <3>1 DEF FinishedWhole
    <3>2. CASE ~pass[w].yielded
      <4>1. Size(w) = 0
        BY <1>1, <1>5, <2>2, <3>2 DEF OnStride
      <4>2. k * Size(w) = 0
        BY <4>1
      <4>3. Len(yields'[w]) = 0 /\ Total(w)' = 0
        BY <1>1, <1>3, <2>5, <4>1, <4>2 DEF Total, Size
      <4> QED
        BY <4>3 DEF FinishedWhole
    <3> QED
      BY <1>2, <3>1, <3>2
  <2> QED
    BY <2>3, <2>9, <2>10
<1>8. Alive' => Alive
  BY <1>1 DEF Alive
<1> QED
  BY <1>1, <1>2, <1>4, <1>6, <1>7, <1>8, PacedBut

(* What is yielded is the next of the share. *)
LEMMA PacedYields ==
  ASSUME TypeOK, Paced, NEW w \in Ids, AtKind(w, "keep"), Advance(w), Alive, Alive',
         UNCHANGED <<config, epochsLeft, panicked>>,
         pc' = [pc EXCEPT ![w] = pc'[w]], pc'[w] # "gone",
         yields' = [yields EXCEPT ![w] = Append(@, pass[w].pos)]
  PROVE  Paced'
<1> DEFINE p == pass[w].pos
           len == Len(yields[w])
<1>1. /\ pc[w] = "pull" /\ pass[w].open /\ config.source[p + 1] = "keep"
      /\ p < Len(config.source) /\ left[w] # 0
      /\ pass' = [pass EXCEPT ![w] =
                    [open |-> TRUE, pos |-> @.pos + Stride, yielded |-> TRUE]]
      /\ left' = [left EXCEPT ![w] = Minus1(@)]
  BY DEF AtKind, Advance
<1>2. /\ w \in Streams /\ Streams \subseteq Ids /\ pass \in [Ids -> Pass] /\ p \in Nat
      /\ left \in [Ids -> Counter] /\ yields \in [Ids -> Seq(Positions)]
      /\ pc \in [Ids -> {"idle", "pull", "check", "send", "gone"}]
      /\ Len(config.source) \in Nat
  <2>1. w \in Streams
    BY <1>1, PullsAreStreams
  <2>2. Streams \subseteq Ids /\ Len(config.source) \in Nat
    BY ConfigFacts DEF TypeOK
  <2>3. /\ pass \in [Ids -> Pass] /\ left \in [Ids -> Counter]
        /\ yields \in [Ids -> Seq(Positions)]
        /\ pc \in [Ids -> {"idle", "pull", "check", "send", "gone"}]
    BY DEF TypeOK
  <2>4. p \in Nat
    BY <2>3 DEF Pass
  <2> QED
    BY <2>1, <2>2, <2>3, <2>4
<1>3. /\ Streams' = Streams /\ (Splitting' <=> Splitting)
      /\ Share(w)' = Share(w) /\ Size(w)' = Size(w) /\ Total(w)' = Total(w)
      /\ \A q : Below(w, q)' = Below(w, q)
  BY SharesStay
<1>4. /\ pass'[w].open /\ pass'[w].pos = p + Stride /\ pass'[w].yielded
      /\ left'[w] = Minus1(left[w])
      /\ \A v \in Ids : v # w => /\ pass'[v] = pass[v] /\ left'[v] = left[v]
                                 /\ pc'[v] = pc[v] /\ yields'[v] = yields[v]
  BY <1>1, <1>2 DEF Pass
<1>5. PICK k \in Nat : OnStride(w) /\ Counted(w, k)
  BY <1>2 DEF Paced
<1>6. p \in Share(w)
  BY <1>1, <1>2, <1>5 DEF Share, OnStride
<1>7. /\ Below(w, p + Stride) = Below(w, p) + 1
      /\ Splitting => (p + Stride) % config.workers = w
  BY <1>1, <1>2, <1>5, <1>6, BelowNext DEF OnStride
<1>8. /\ Size(w) \in Nat /\ Below(w, p) \in Nat /\ Below(w, p) < Size(w)
      /\ k * Size(w) \in Nat
  BY <1>6, ShareFacts, BelowEnds, Rounds
<1>9. len = k * Size(w) + Below(w, p)
  BY <1>1, <1>5 DEF Counted, Behind
<1>10. len % Size(w) = Below(w, p)
  <2>1. Size(w) \in Nat \ {0} /\ Below(w, p) \in 0..(Size(w) - 1)
    BY <1>8
  <2>2. (k * Size(w) + Below(w, p)) % Size(w) = Below(w, p)
    BY <2>1, RoundsAndRest
  <2> QED
    BY <1>9, <2>2
<1>11. /\ Len(yields'[w]) = len + 1 /\ len \in Nat /\ DOMAIN yields'[w] = 1..(len + 1)
       /\ yields'[w][len + 1] = p
       /\ DOMAIN yields[w] = 1..len
       /\ \A i \in 1..len : yields'[w][i] = yields[w][i]
  BY <1>1, <1>2, <1>6, ShareFacts
<1> HIDE DEF p, len
<1>12. InShare(w)'
  <2>1. ASSUME NEW i \in DOMAIN yields'[w]
        PROVE  /\ yields'[w][i] \in Share(w)
               /\ Below(w, yields'[w][i]) = (i - 1) % Size(w)
    <3>1. CASE i = len + 1
      <4>1. i - 1 = len
        BY <1>11, <3>1
      <4> QED
        BY <1>6, <1>10, <1>11, <3>1, <4>1
    <3>2. CASE i # len + 1
      <4>1. i \in DOMAIN yields[w] /\ yields'[w][i] = yields[w][i]
        BY <1>11, <2>1, <3>2
      <4> QED
        BY <4>1 DEF Paced, InShare
    <3> QED
      BY <3>1, <3>2
  <2> QED
    BY <1>3, <2>1 DEF InShare
<1>13. OnStride(w)'
  BY <1>3, <1>4, <1>7, <1>8 DEF OnStride
<1>14. Behind(w)' = Below(w, p) + 1
  BY <1>3, <1>4, <1>7 DEF Behind
<1>15. Len(yields'[w]) = k * Size(w)' + Behind(w)'
  BY <1>3, <1>8, <1>9, <1>11, <1>14
<1>16. Len(yields[w]) = len
  BY DEF len
<1>17. IF config.limit = Unbounded THEN left'[w] = Unbounded
       ELSE left'[w] \in Nat /\ config.limit = Len(yields'[w]) + left'[w]
  <2>1. CASE config.limit = Unbounded
    BY <1>4, <1>5, <2>1 DEF Counted, Minus1
  <2>2. CASE config.limit # Unbounded
    <3>1. left[w] \in Nat /\ config.limit = len + left[w]
      BY <1>5, <1>16, <2>2 DEF Counted
    <3>2. left'[w] = left[w] - 1 /\ left[w] # 0
      BY <1>1, <1>4, <3>1, LoaderAssumption DEF Minus1
    <3> QED
      BY <1>11, <2>2, <3>1, <3>2
  <2> QED
    BY <2>1, <2>2
<1>18. Counted(w, k)'
  BY <1>1, <1>4, <1>5, <1>15, <1>17 DEF Counted
<1>19. FinishedWhole(w)'
  BY DEF FinishedWhole
<1> QED
  BY <1>2, <1>4, <1>12, <1>13, <1>18, <1>19, PacedBut

LEMMA PacedYield ==
  ASSUME TypeOK, Modes, Paced, NEW w \in Ids, Yield(w) \/ YieldInline(w)
  PROVE  Paced'
<1>1. /\ AtKind(w, "keep") /\ Advance(w) /\ UNCHANGED <<config, epochsLeft, panicked>>
      /\ pc' \in {[pc EXCEPT ![w] = "check"], [pc EXCEPT ![w] = "idle"]}
  BY DEF Yield, YieldInline
<1>2. /\ pc' = [pc EXCEPT ![w] = pc'[w]] /\ pc'[w] # "gone"
      /\ \A v \in Ids : v # w => pc'[v] = pc[v]
  BY <1>1 DEF TypeOK
<1>3. CASE Alive
  <2>1. CASE Yield(w)
    <3>1. Alive' /\ yields' = [yields EXCEPT ![w] = Append(@, pass[w].pos)]
      BY <1>3, <2>1 DEF Yield, Alive
    <3> QED
      BY <1>1, <1>2, <1>3, <3>1, PacedYields
  <2>2. CASE YieldInline(w)
    <3>1. Alive' /\ yields' = [yields EXCEPT ![w] = Append(@, pass[w].pos)]
      BY <2>2 DEF YieldInline, Alive
    <3> QED
      BY <1>1, <1>2, <1>3, <3>1, PacedYields
  <2> QED
    BY <2>1, <2>2
<1>4. CASE ~Alive
  <2>1. Yield(w)
    BY <1>1, <1>4 DEF YieldInline, AtKind, Modes, Alive
  <2>2. /\ yields' = yields /\ ~Alive'
    BY <1>4, <2>1 DEF Yield, Alive
  <2>3. /\ w \in Streams /\ Streams \subseteq Ids
    BY <1>1, PullsAreStreams, ConfigFacts DEF AtKind, TypeOK
  <2>4. Streams' = Streams /\ \A v : /\ Share(v)' = Share(v) /\ Size(v)' = Size(v)
                                     /\ \A q : Below(v, q)' = Below(v, q)
    BY <1>1, SharesStay
  <2>5. \A v \in Ids : InShare(v)'
    BY <2>2, <2>4 DEF Paced, InShare
  <2>6. \A v \in Ids \ Streams : pc'[v] = "gone"
    BY <1>2, <2>3 DEF Paced
  <2> QED
    BY <2>2, <2>4, <2>5, <2>6 DEF Paced
<1> QED
  BY <1>3, <1>4

LEMMA PacedStep == TypeOK /\ Modes /\ Paced /\ [Next]_vars => Paced'
<1> SUFFICES ASSUME TypeOK, Modes, Paced, [Next]_vars PROVE Paced'
  OBVIOUS
<1>1. config' = config
  BY ConfigStays
<1>2. /\ pc \in [Ids -> {"idle", "pull", "check", "send", "gone"}]
      /\ \A w \in Ids \ Streams : pc[w] = "gone"
      /\ 0 \in Ids /\ Streams \subseteq Ids
  BY ConfigFacts DEF TypeOK, Paced
<1>3. ASSUME NEW w \in Ids, Panic(w) PROVE Paced'
  <2>1. /\ pc' = [pc EXCEPT ![w] = "gone"] /\ panicked' = panicked \cup {w}
        /\ UNCHANGED <<stream, yields>> /\ (Alive' => Alive)
    <3>1. consumer' = consumer \/ (~Threaded /\ pc[w] = "pull")
      BY <1>3 DEF Panic, AtKind
    <3>2. Alive' => Alive
      BY <3>1, <1>3 DEF Alive, Modes
    <3> QED
      BY <1>3, <3>2 DEF Panic
  <2>2. /\ \A v \in Ids \ Streams : pc'[v] = "gone"
        /\ \A v \in Streams : pc'[v] = "gone" /\ v \notin panicked' => pc[v] = "gone"
        /\ panicked \subseteq panicked'
    BY <1>2, <2>1
  <2>3. UNCHANGED <<stream, yields>> /\ (Alive' => Alive)
    BY <2>1
  <2> QED
    BY <1>1, <2>2, <2>3, PacedFrame
<1>4. ASSUME NEW w \in Ids, Check(w) PROVE Paced'
  <2>1. /\ UNCHANGED <<stream, yields, panicked, consumer>> /\ pc[w] = "check"
        /\ pc' = [pc EXCEPT ![w] = "gone"] \/ pc' = [pc EXCEPT ![w] = "send"]
        /\ pc' = [pc EXCEPT ![w] = "send"] \/ w \in seen
    BY <1>4 DEF Check
  <2>2. (Alive' => Alive) /\ (Alive => seen = {})
    BY <2>1 DEF Alive, Modes
  <2>3. \A v \in Ids \ Streams : pc'[v] = "gone"
    BY <1>2, <2>1
  <2>4. Alive' => \A v \in Streams : pc'[v] = "gone" => pc[v] = "gone"
    BY <1>2, <2>1, <2>2
  <2> QED
    BY <1>1, <2>1, <2>2, <2>3, <2>4, PacedFrame
<1>5. ASSUME NEW w \in Ids, Send(w) PROVE Paced'
  <2>1. /\ UNCHANGED <<stream, yields, panicked, consumer>> /\ pc[w] = "send"
        /\ pc' = [pc EXCEPT ![w] = "pull"]
    BY <1>5 DEF Send
  <2>2. Alive' => Alive
    BY <2>1 DEF Alive
  <2>3. /\ \A v \in Ids \ Streams : pc'[v] = "gone"
        /\ \A v \in Streams : pc'[v] = "gone" => pc[v] = "gone"
    BY <1>2, <2>1
  <2> QED
    BY <1>1, <2>1, <2>2, <2>3, PacedFrame
<1>6. CASE Ask
  <2>1. /\ UNCHANGED <<stream, yields, panicked>> /\ Alive
        /\ IF Threaded THEN pc' = pc ELSE pc' = [pc EXCEPT ![0] = "pull"]
    BY <1>6 DEF Ask, Alive
  <2>2. ~Threaded => 0 \in Streams
    BY DEF Streams
  <2>3. /\ \A v \in Ids \ Streams : pc'[v] = "gone"
        /\ \A v \in Streams : pc'[v] = "gone" => pc[v] = "gone"
    BY <1>2, <2>1, <2>2
  <2> QED
    BY <1>1, <2>1, <2>3, PacedFrame
<1>7. ASSUME \/ \E w \in Ids : Observe(w)
             \/ Receive \/ ReceiveNone \/ Drain \/ Join \/ BeginDrop \/ Dropped
             \/ UNCHANGED vars
      PROVE  Paced'
  <2>1. UNCHANGED <<stream, yields, panicked, pc>> /\ (Alive' => Alive)
    <3>1. CASE \E w \in Ids : Observe(w)
      BY <3>1 DEF Observe, Alive
    <3>5. CASE Dropped \/ UNCHANGED vars
      BY <3>5 DEF Dropped, vars, stream, Alive
    <3>2. CASE Receive \/ ReceiveNone
      BY <3>2 DEF Receive, ReceiveNone, Alive
    <3>3. CASE Drain
      BY <3>3 DEF Drain, Alive
    <3>4. CASE Join \/ BeginDrop
      BY <3>4 DEF Join, BeginDrop, Alive
    <3> QED
      BY <1>7, <3>1, <3>2, <3>3, <3>4, <3>5
  <2>2. \A v \in Ids \ Streams : pc'[v] = "gone"
    BY <1>2, <2>1
  <2> QED
    BY <1>1, <2>1, <2>2, PacedFrame
<1> QED
  BY <1>3, <1>4, <1>5, <1>6, <1>7, PacedFinish, PacedOpenPass, PacedSkip, PacedYield,
     PacedClosePass DEF Next, WorkerStep, PipelineStep, ConsumerStep

LEMMA PacedAlways == Spec => []Paced
<1>1. Fifo => Modes
  BY DEF Fifo
<1> QED
  BY <1>1, PacedInit, PacedStep, TypeCorrect, FifoAlways, PTL DEF Spec

(* Whatever the workers' interleaving, the channel's capacity, the prefetch   *)
(* and the stage: what next() returns of a worker is its share of the source, *)
(* in order, pass after pass, from the first on.                              *)
THEOREM SharesInOrder == Spec => []InOrder
<1>1. Fifo /\ Paced /\ TypeOK => InOrder
  <2> SUFFICES ASSUME Fifo, Paced, TypeOK, NEW w \in Ids, NEW i \in DOMAIN delivered[w]
               PROVE  /\ delivered[w][i] \in Share(w)
                      /\ Below(w, delivered[w][i]) = (i - 1) % Cardinality(Share(w))
    BY DEF InOrder
  <2>1. delivered[w] \in Seq(Positions) /\ yields[w] \in Seq(Positions)
    BY DEF TypeOK
  <2>2. i \in 1..Len(delivered[w]) /\ Len(delivered[w]) <= Len(yields[w])
    BY <2>1 DEF Fifo, Prefix
  <2>3. i \in DOMAIN yields[w] /\ delivered[w][i] = yields[w][i]
    BY <2>1, <2>2 DEF Fifo, Prefix
  <2> QED
    BY <2>3 DEF Paced, InShare, Size
<1> QED
  BY <1>1, FifoAlways, PacedAlways, TypeCorrect, PTL

(* When next() returns None, each worker that did not panic has had all of   *)
(* its passes returned, up to its limit: an epoch never ends short, whatever *)
(* was in the channel when the last sender went.                             *)
THEOREM EndsComplete == Spec => []EndIsComplete
<1>1. Fifo /\ Paced /\ TypeOK => EndIsComplete
  <2> SUFFICES ASSUME Fifo, Paced, TypeOK, consumer = "ended", NEW w \in Streams \ panicked
               PROVE  Len(delivered[w]) = Total(w)
    BY DEF EndIsComplete
  <2>1. w \in Ids
    BY ConfigFacts DEF TypeOK
  <2>2. Alive /\ chan = <<>> /\ AllGone
    BY DEF Alive, Fifo, Modes
  <2>3. Len(yields[w]) = Total(w)
    BY <2>1, <2>2 DEF Paced, FinishedWhole, AllGone
  <2>4. Len(delivered[w]) = Len(yields[w])
    BY <2>1, <2>2, NothingPending DEF AllGone, InTransit
  <2> QED
    BY <2>3, <2>4
<1> QED
  BY <1>1, FifoAlways, PacedAlways, TypeCorrect, PTL
=============================================================================
