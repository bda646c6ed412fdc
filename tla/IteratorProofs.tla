---------------------------- MODULE IteratorProofs ----------------------------
(***************************************************************************)
(* Two streams that are pulled.  A Python reader shared by any number of   *)
(* threads, that restart it and draw from it as they like: what an epoch's *)
(* selection kept is, at any time, what was drawn, then what is in its     *)
(* channel, then the file its parser has in hand; and a call is stuck in   *)
(* one state only, the deadlock `Wedged`.  And a chain of adapters of any  *)
(* length: whoever has told its end stands behind one that will ask it     *)
(* nothing more; its samples stand in one line, so none comes twice or     *)
(* overtakes another; and if no adapter throws one away, none is left      *)
(* behind at the end.                                                      *)
(***************************************************************************)
EXTENDS PythonReader, Adapters, FiniteSetTheorems, TLAPS

File == 1..Files
Draw == [epoch : Nat, file : Nat, since : Nat]

Delivered(e) == Cardinality(Drawn(e))
Rank(e, i) == Cardinality({j \in Drawn(e) : j <= i})

-----------------------------------------------------------------------------
(* The inductive invariant.                                                *)

Typed ==
  /\ callbacks \in BOOLEAN
  /\ gil \in Threads \cup {Nobody}
  /\ lock \in Threads \cup {Nobody}
  /\ pc \in [Threads -> {"out", "build", "built", "swap", "lock", "pull", "raise"}]
  /\ calls \in [Threads -> Nat]
  /\ since \in [Threads -> Nat]
  /\ parser \in Seq({"unopened", "name", "send", "gone"})
  /\ parsed \in Seq(0..Files)
  /\ kept \in Seq(Seq(File))
  /\ channel \in Seq(Seq(File))
  /\ handed \in Seq(Draw)
  /\ Len(parsed) = Len(parser) /\ Len(kept) = Len(parser) /\ Len(channel) = Len(parser)
  /\ iterator = Len(parser)

(* A thread keeps the GIL while it puts an iterator in place, and the lock  *)
(* while it draws; a draw has an iterator, whose archive is open.           *)
Held ==
  /\ \A t \in Threads : gil = t <=> pc[t] = "swap"
  /\ \A t \in Threads : lock = t <=> pc[t] = "pull"
  /\ \A t \in Threads : pc[t] = "pull" => iterator # 0 /\ parser[iterator] # "unopened"

(* Of one epoch: what was kept (k) is the n files drawn, the channel (c)    *)
(* and the file in hand.  Only an epoch that is not current may lose any.   *)
Flows(p, d, k, c, n, current) ==
  /\ n \in Nat
  /\ n + Len(c) <= Len(k)
  /\ \A i \in 1..Len(c) : c[i] = k[n + i]
  /\ p \in {"unopened", "name"} => Len(k) = n + Len(c)
  /\ p = "send" => Len(k) = n + Len(c) + 1 /\ k[Len(k)] = d
  /\ p = "gone" /\ current => d = Files /\ Len(k) = n + Len(c)

InOrder(e) == \A i \in Drawn(e) : handed[i].file = kept[e][Rank(e, i)]

Ended(e) == \E i \in DOMAIN handed : handed[i].epoch = e /\ handed[i].file = 0

EndedWhole(e) ==
  Ended(e) => /\ parser[e] = "gone" /\ channel[e] = <<>>
              /\ parsed[e] = Files /\ Delivered(e) = Len(kept[e])

Epoch(e) ==
  /\ Flows(parser[e], parsed[e], kept[e], channel[e], Delivered(e), e = iterator)
  /\ InOrder(e)
  /\ EndedWhole(e)

(* No draw is older than what had been put in place before its call.        *)
Recent ==
  /\ \A t \in Threads : since[t] <= Len(parser)
  /\ \A i \in DOMAIN handed : handed[i].since <= handed[i].epoch /\ handed[i].epoch <= Len(parser)

IInv == Typed /\ Held /\ (\A e \in Epochs : Epoch(e)) /\ Recent

-----------------------------------------------------------------------------
(* What can go on without another call.                                    *)

ThreadGoesOn(t) ==
  \/ pc[t] = "build"
  \/ pc[t] = "built" /\ gil = Nobody
  \/ pc[t] \in {"swap", "lock"} /\ lock = Nobody
  \/ pc[t] = "pull" /\ (channel[iterator] # <<>> \/ parser[iterator] = "gone")
  \/ pc[t] = "raise" /\ gil \in {Nobody, t}

ParserGoesOn(e) ==
  \/ parser[e] = "name" /\ parsed[e] < Files /\ (callbacks => gil = Nobody)
  \/ parser[e] = "name" /\ parsed[e] = Files
  \/ parser[e] = "send" /\ (e # iterator \/ Len(channel[e]) < ReadAhead)

(* While a call has not returned, some thread in a call or the parser of    *)
(* the current epoch can take a step, or the reader is wedged.              *)
StuckOnlyIfWedged ==
  (\E t \in Threads : pc[t] # "out") =>
    \/ \E t \in Threads : ThreadGoesOn(t)
    \/ iterator \in Epochs /\ ParserGoesOn(iterator)
    \/ Wedged

-----------------------------------------------------------------------------
(* What is drawn, and what one more draw changes.                          *)

LEMMA Counting ==
  ASSUME Typed, NEW e
  PROVE  /\ IsFiniteSet(Drawn(e)) /\ Delivered(e) \in Nat
         /\ \A i \in Drawn(e) : Rank(e, i) \in 1..Delivered(e)
<1>1. IsFiniteSet(DOMAIN handed) /\ Drawn(e) \subseteq DOMAIN handed
  BY FS_Interval DEF Typed, Drawn
<1>2. IsFiniteSet(Drawn(e))
  BY <1>1, FS_Subset
<1>3. Delivered(e) \in Nat
  BY <1>2, FS_CardinalityType DEF Delivered
<1>4. ASSUME NEW i \in Drawn(e)
      PROVE  Rank(e, i) \in 1..Delivered(e)
  <2> DEFINE S == {j \in Drawn(e) : j <= i}
  <2>1. S \subseteq Drawn(e) /\ i \in S
    BY <1>1 DEF Typed
  <2>2. IsFiniteSet(S) /\ Cardinality(S) <= Cardinality(Drawn(e))
    BY <1>2, <2>1, FS_Subset
  <2>3. Cardinality(S) \in Nat /\ Cardinality(S) # 0
    BY <2>1, <2>2, FS_CardinalityType, FS_EmptySet
  <2>4. QED
    BY <1>3, <2>2, <2>3 DEF Rank, Delivered
<1>5. QED
  BY <1>2, <1>3, <1>4

LEMMA Drawing ==
  ASSUME Typed, NEW h \in Draw, handed' = Append(handed, h), NEW e
  PROVE  /\ handed' \in Seq(Draw) /\ DOMAIN handed' = DOMAIN handed \cup {Len(handed) + 1}
         /\ \A i \in DOMAIN handed : handed'[i] = handed[i]
         /\ handed'[Len(handed) + 1] = h
         /\ \A i \in Drawn(e) : Rank(e, i)' = Rank(e, i)
         /\ h.epoch # e \/ h.file = 0 => Drawn(e)' = Drawn(e) /\ Delivered(e)' = Delivered(e)
         /\ h.epoch = e /\ h.file # 0 =>
              /\ Drawn(e)' = Drawn(e) \cup {Len(handed) + 1}
              /\ Delivered(e)' = Delivered(e) + 1
              /\ \A l : l = Len(handed) + 1 => Rank(e, l)' = Delivered(e) + 1
<1>l. PICK l : l = Len(handed) + 1
  OBVIOUS
<1>1. /\ handed' \in Seq(Draw) /\ DOMAIN handed' = DOMAIN handed \cup {l}
      /\ \A i \in DOMAIN handed : handed'[i] = handed[i] /\ i < l
      /\ handed'[l] = h /\ l \notin DOMAIN handed /\ DOMAIN handed \subseteq Nat /\ l \in Nat
  BY <1>l DEF Typed
<1>2. Drawn(e) \subseteq DOMAIN handed
  BY DEF Drawn
<1>3. Drawn(e)' = IF h.epoch = e /\ h.file # 0 THEN Drawn(e) \cup {l} ELSE Drawn(e)
  BY <1>1 DEF Drawn
<1>4. \A i \in Drawn(e) : {j \in Drawn(e)' : j <= i} = {j \in Drawn(e) : j <= i}
  BY <1>1, <1>2, <1>3
<1>5. \A i \in Drawn(e) : Rank(e, i)' = Rank(e, i)
  BY <1>4 DEF Rank
<1>6. ASSUME h.epoch = e, h.file # 0
      PROVE  Delivered(e)' = Delivered(e) + 1 /\ Rank(e, l)' = Delivered(e) + 1
  <2>1. Drawn(e)' = Drawn(e) \cup {l} /\ l \notin Drawn(e)
    BY <1>1, <1>2, <1>3, <1>6
  <2>2. Cardinality(Drawn(e) \cup {l}) = Cardinality(Drawn(e)) + 1
    BY <2>1, Counting, FS_AddElement
  <2>3. {j \in Drawn(e)' : j <= l} = Drawn(e)'
    BY <1>1, <1>2, <2>1
  <2>4. QED
    BY <2>1, <2>2, <2>3 DEF Delivered, Rank
<1>7. h.epoch # e \/ h.file = 0 => Drawn(e)' = Drawn(e) /\ Delivered(e)' = Delivered(e)
  BY <1>3 DEF Delivered
<1>8. QED
  BY <1>l, <1>1, <1>3, <1>5, <1>6, <1>7

-----------------------------------------------------------------------------
(* An epoch that a step leaves alone, and one whose parser goes on.        *)

LEMMA EpochStays ==
  ASSUME NEW e, Epoch(e), handed' = handed, e = iterator' => e = iterator,
         parser'[e] = parser[e], parsed'[e] = parsed[e],
         kept'[e] = kept[e], channel'[e] = channel[e]
  PROVE  Epoch(e)'
<1>1. Drawn(e)' = Drawn(e) /\ Delivered(e)' = Delivered(e) /\ Ended(e)' = Ended(e)
  BY DEF Drawn, Delivered, Ended
<1>2. InOrder(e)'
  BY <1>1 DEF Epoch, InOrder, Rank
<1>3. EndedWhole(e)'
  BY <1>1 DEF Epoch, EndedWhole
<1>4. Flows(parser[e], parsed[e], kept[e], channel[e], Delivered(e), e = iterator')
  BY DEF Epoch, Flows
<1>5. QED
  BY <1>1, <1>2, <1>3, <1>4 DEF Epoch

LEMMA EpochGoesOn ==
  ASSUME Typed, NEW e \in Epochs, Epoch(e), handed' = handed, parser[e] # "gone",
         Len(kept[e]) <= Len(kept'[e]), \A i \in 1..Len(kept[e]) : kept'[e][i] = kept[e][i],
         Flows(parser'[e], parsed'[e], kept'[e], channel'[e], Delivered(e), e = iterator')
  PROVE  Epoch(e)'
<1>1. Drawn(e)' = Drawn(e) /\ Delivered(e)' = Delivered(e) /\ Ended(e)' = Ended(e)
  BY DEF Drawn, Delivered, Ended
<1>2. InOrder(e)'
  <2>1. SUFFICES ASSUME NEW i \in Drawn(e)
                 PROVE  handed[i].file = kept'[e][Rank(e, i)]
    BY <1>1 DEF InOrder, Rank
  <2>2. Rank(e, i) \in 1..Delivered(e) /\ Delivered(e) \in Nat
    BY Counting
  <2>3. Delivered(e) <= Len(kept[e])
    <3>1. Delivered(e) + Len(channel[e]) <= Len(kept[e])
      BY DEF Epoch, Flows
    <3>2. channel[e] \in Seq(File) /\ kept[e] \in Seq(File)
      BY DEF Typed, Epochs
    <3>3. QED
      BY <2>2, <3>1, <3>2
  <2>4. Rank(e, i) \in 1..Len(kept[e])
    <3>1. kept[e] \in Seq(File)
      BY DEF Typed, Epochs
    <3>2. QED
      BY <2>2, <2>3, <3>1
  <2>5. QED
    BY <2>4 DEF Epoch, InOrder
<1>3. EndedWhole(e)'
  BY <1>1 DEF Epoch, EndedWhole
<1>4. QED
  BY <1>1, <1>2, <1>3 DEF Epoch

(* A draw that is not of this epoch. *)
LEMMA EpochElsewhere ==
  ASSUME Typed, NEW e \in Epochs, Epoch(e), NEW h \in Draw, h.epoch # e,
         handed' = Append(handed, h), e = iterator' => e = iterator,
         parser'[e] = parser[e], parsed'[e] = parsed[e],
         kept'[e] = kept[e], channel'[e] = channel[e]
  PROVE  Epoch(e)'
<1>1. /\ Drawn(e)' = Drawn(e) /\ Delivered(e)' = Delivered(e)
      /\ \A i \in Drawn(e) : Rank(e, i)' = Rank(e, i)
      /\ \A i \in DOMAIN handed : handed'[i] = handed[i]
      /\ DOMAIN handed' = DOMAIN handed \cup {Len(handed) + 1}
      /\ handed'[Len(handed) + 1] = h
  BY Drawing
<1>2. Drawn(e) \subseteq DOMAIN handed
  BY DEF Drawn
<1>3. InOrder(e)'
  BY <1>1, <1>2 DEF Epoch, InOrder
<1>4. Ended(e)' => Ended(e)
  BY <1>1 DEF Ended
<1>5. EndedWhole(e)'
  BY <1>1, <1>4 DEF Epoch, EndedWhole
<1>6. Flows(parser[e], parsed[e], kept[e], channel[e], Delivered(e), e = iterator')
  BY DEF Epoch, Flows
<1>7. QED
  BY <1>1, <1>3, <1>5, <1>6 DEF Epoch

(* The draw that takes the first file of the channel. *)
LEMMA EpochDraws ==
  ASSUME Typed, NEW e \in Epochs, Epoch(e), NEW h \in Draw, h.epoch = e,
         channel[e] # <<>>, h.file = Head(channel[e]),
         handed' = Append(handed, h), e = iterator' => e = iterator,
         parser'[e] = parser[e], parsed'[e] = parsed[e],
         kept'[e] = kept[e], channel'[e] = Tail(channel[e])
  PROVE  Epoch(e)'
<1> DEFINE n == Delivered(e)
           c == channel[e]
<1>1. c \in Seq(File) /\ kept[e] \in Seq(File) /\ c # <<>> /\ n \in Nat
  BY Counting DEF Typed, Epochs
<1>2. /\ n + Len(c) <= Len(kept[e])
      /\ \A i \in 1..Len(c) : c[i] = kept[e][n + i]
  BY DEF Epoch, Flows
<1>l. PICK l : l = Len(handed) + 1
  OBVIOUS
<1>3. h.file = c[1] /\ c[1] = kept[e][n + 1] /\ h.file # 0
  <2>1. Len(c) \in Nat /\ 1 \in 1..Len(c) /\ h.file = c[1]
    BY <1>1
  <2>2. c[1] \in File
    BY <1>1, <2>1
  <2>3. c[1] # 0
    BY <2>2 DEF File
  <2>4. c[1] = kept[e][n + 1]
    BY <1>2, <2>1
  <2>5. QED
    BY <2>1, <2>3, <2>4
<1>4. /\ Drawn(e)' = Drawn(e) \cup {l} /\ Delivered(e)' = n + 1 /\ Rank(e, l)' = n + 1
      /\ \A i \in Drawn(e) : Rank(e, i)' = Rank(e, i)
      /\ \A i \in DOMAIN handed : handed'[i] = handed[i]
      /\ DOMAIN handed' = DOMAIN handed \cup {l}
      /\ handed'[l] = h
  BY <1>l, <1>3, Drawing
<1>5. Drawn(e) \subseteq DOMAIN handed
  BY DEF Drawn
<1>6. InOrder(e)'
  <2>1. ASSUME NEW i \in Drawn(e)
        PROVE  handed'[i].file = kept[e][Rank(e, i)']
    BY <1>4, <1>5 DEF Epoch, InOrder
  <2>2. handed'[l].file = kept[e][Rank(e, l)']
    BY <1>3, <1>4
  <2>3. QED
    BY <1>4, <2>1, <2>2 DEF InOrder
<1>7. ~Ended(e)'
  <2>1. ~Ended(e)
    BY DEF Epoch, EndedWhole
  <2>2. QED
    BY <1>3, <1>4, <2>1 DEF Ended
<1>8. Flows(parser[e], parsed[e], kept[e], Tail(c), n + 1, e = iterator')
  <2>1. Tail(c) \in Seq(File) /\ Len(Tail(c)) = Len(c) - 1 /\ Len(c) \in Nat /\ Len(c) > 0
    BY <1>1
  <2>2. \A i \in 1..Len(Tail(c)) : Tail(c)[i] = c[i + 1] /\ i + 1 \in 1..Len(c)
    BY <1>1
  <2>3. \A i \in 1..Len(Tail(c)) : Tail(c)[i] = kept[e][n + 1 + i]
    <3>1. SUFFICES ASSUME NEW i \in 1..Len(Tail(c))
                   PROVE  Tail(c)[i] = kept[e][n + 1 + i]
      OBVIOUS
    <3>2. Tail(c)[i] = kept[e][n + (i + 1)]
      BY <1>2, <2>2
    <3>3. n + (i + 1) = n + 1 + i
      BY <1>1
    <3>4. QED
      BY <3>2, <3>3
  <2>4. (n + 1) + Len(Tail(c)) = n + Len(c)
    BY <1>1, <2>1
  <2>5. Flows(parser[e], parsed[e], kept[e], c, n, e = iterator)
    BY DEF Epoch
  <2>6. n + 1 \in Nat
    BY <1>1
  <2> HIDE DEF n, c
  <2>t. PICK t : t = Tail(c)
    OBVIOUS
  <2>m. PICK m : m = n + 1
    OBVIOUS
  <2>7. /\ m \in Nat /\ m + Len(t) = n + Len(c)
        /\ \A i \in 1..Len(t) : t[i] = kept[e][m + i]
    BY <2>t, <2>m, <2>3, <2>4, <2>6
  <2>8. Flows(parser[e], parsed[e], kept[e], t, m, e = iterator')
    BY <2>5, <2>7 DEF Flows
  <2>9. QED
    BY <2>8, <2>t, <2>m
<1>9. QED
  BY <1>4, <1>6, <1>7, <1>8 DEF Epoch, EndedWhole

(* The draw that finds the end of the current epoch. *)
LEMMA EpochEnds ==
  ASSUME Typed, NEW e \in Epochs, Epoch(e), NEW h \in Draw, h.epoch = e, h.file = 0,
         e = iterator, channel[e] = <<>>, parser[e] = "gone",
         handed' = Append(handed, h),
         parser'[e] = parser[e], parsed'[e] = parsed[e],
         kept'[e] = kept[e], channel'[e] = channel[e]
  PROVE  Epoch(e)'
<1>1. /\ Drawn(e)' = Drawn(e) /\ Delivered(e)' = Delivered(e)
      /\ \A i \in Drawn(e) : Rank(e, i)' = Rank(e, i)
      /\ \A i \in DOMAIN handed : handed'[i] = handed[i]
  BY Drawing
<1>2. Drawn(e) \subseteq DOMAIN handed
  BY DEF Drawn
<1>3. InOrder(e)'
  BY <1>1, <1>2 DEF Epoch, InOrder
<1>4. Flows(parser[e], parsed[e], kept[e], channel[e], Delivered(e), TRUE)
  BY DEF Epoch
<1>5. parsed[e] = Files /\ Delivered(e) = Len(kept[e])
  <2>1. parsed[e] = Files /\ Len(kept[e]) = Delivered(e) + Len(channel[e])
    BY <1>4 DEF Flows
  <2>2. Delivered(e) \in Nat /\ Len(channel[e]) = 0
    BY Counting
  <2>3. QED
    BY <2>1, <2>2
<1>6. Flows(parser[e], parsed[e], kept[e], channel[e], Delivered(e), e = iterator')
  BY <1>4 DEF Flows
<1>7. QED
  BY <1>1, <1>3, <1>5, <1>6 DEF Epoch, EndedWhole

-----------------------------------------------------------------------------
(* The calls, the work around the reader and the returns: no epoch is      *)
(* touched, and only the GIL changes hands.                                *)

LEMMA AsideKeeps ==
  ASSUME IInv,
         UNCHANGED <<callbacks, lock, iterator, handed, parser, parsed, kept, channel>>,
         gil' \in Threads \cup {Nobody}, calls' \in [Threads -> Nat],
         since' \in [Threads -> 0..Len(parser)],
         pc' \in [Threads -> {"out", "build", "built", "swap", "lock", "pull", "raise"}],
         \A t \in Threads : gil' = t <=> pc'[t] = "swap",
         \A t \in Threads : pc'[t] = "pull" <=> pc[t] = "pull"
  PROVE  IInv'
<1>1. Typed'
  <2>1. since' \in [Threads -> Nat]
    BY DEF IInv, Typed
  <2>2. QED
    BY <2>1 DEF IInv, Typed
<1>2. Held'
  BY DEF IInv, Held
<1>3. \A e \in Epochs' : Epoch(e)'
  BY EpochStays DEF IInv, Epochs
<1>4. Recent'
  <2>1. \A t \in Threads : since'[t] <= Len(parser)
    BY DEF IInv, Typed
  <2>2. QED
    BY <2>1 DEF IInv, Recent
<1>5. QED
  BY <1>1, <1>2, <1>3, <1>4 DEF IInv

LEMMA SinceIsPast ==
  ASSUME IInv
  PROVE  since \in [Threads -> 0..Len(parser)] /\ Len(parser) \in Nat
<1>1. Len(parser) \in Nat /\ since \in [Threads -> Nat]
  BY DEF IInv, Typed
<1>2. \A t \in Threads : since[t] <= Len(parser)
  BY DEF IInv, Recent
<1>3. QED
  BY <1>1, <1>2

LEMMA CallKeeps ==
  ASSUME IInv, NEW t \in Threads, Call(t)
  PROVE  IInv'
<1>1. \E where \in {"build", "lock"} : pc' = [pc EXCEPT ![t] = where]
  BY DEF Call, CallIter, CallNext
<1>2. /\ UNCHANGED <<callbacks, gil, lock, iterator, handed, parser, parsed, kept, channel>>
      /\ gil = Nobody /\ pc[t] = "out"
      /\ calls' = [calls EXCEPT ![t] = @ + 1] /\ since' = [since EXCEPT ![t] = Len(parser)]
  BY DEF Call, CallIter, CallNext, Called, epochVars
<1>3. calls' \in [Threads -> Nat]
  BY <1>2 DEF IInv, Typed
<1>4. since' \in [Threads -> 0..Len(parser)]
  BY <1>2, SinceIsPast
<1>5. pc \in [Threads -> {"out", "build", "built", "swap", "lock", "pull", "raise"}]
  BY DEF IInv, Typed
<1>6. pc' \in [Threads -> {"out", "build", "built", "swap", "lock", "pull", "raise"}]
  BY <1>1, <1>5
<1>7. \A u \in Threads : (pc'[u] = "swap" <=> pc[u] = "swap") /\ (pc'[u] = "pull" <=> pc[u] = "pull")
  BY <1>1, <1>2, <1>5
<1>8. QED
  BY <1>2, <1>3, <1>4, <1>6, <1>7, AsideKeeps DEF IInv, Held, Typed

LEMMA BuildKeeps ==
  ASSUME IInv, NEW t \in Threads, Build(t)
  PROVE  IInv'
<1>1. \E outcome \in {"built", "raise"} : pc' = [pc EXCEPT ![t] = outcome]
  BY DEF Build
<1>2. /\ UNCHANGED <<callbacks, gil, lock, iterator, handed, calls, since, parser, parsed, kept, channel>>
      /\ pc[t] = "build"
  BY DEF Build, epochVars
<1>3. pc \in [Threads -> {"out", "build", "built", "swap", "lock", "pull", "raise"}]
  BY DEF IInv, Typed
<1>4. pc' \in [Threads -> {"out", "build", "built", "swap", "lock", "pull", "raise"}]
  BY <1>1, <1>3
<1>5. \A u \in Threads : (pc'[u] = "swap" <=> pc[u] = "swap") /\ (pc'[u] = "pull" <=> pc[u] = "pull")
  BY <1>1, <1>2, <1>3
<1>6. QED
  BY <1>2, <1>4, <1>5, SinceIsPast, AsideKeeps DEF IInv, Held, Typed

LEMMA AttachKeeps ==
  ASSUME IInv, NEW t \in Threads, Attach(t)
  PROVE  IInv'
<1>1. /\ UNCHANGED <<callbacks, lock, iterator, handed, calls, since, parser, parsed, kept, channel>>
      /\ pc[t] = "built" /\ gil = Nobody /\ gil' = t /\ pc' = [pc EXCEPT ![t] = "swap"]
  BY DEF Attach, epochVars
<1>2. pc \in [Threads -> {"out", "build", "built", "swap", "lock", "pull", "raise"}]
  BY DEF IInv, Typed
<1>3. pc' \in [Threads -> {"out", "build", "built", "swap", "lock", "pull", "raise"}]
  BY <1>1, <1>2
<1>4. \A u \in Threads : pc[u] # "swap"
  BY <1>1, ReaderAssumption DEF IInv, Held
<1>5. \A u \in Threads : (pc'[u] = "swap" <=> u = t) /\ (pc'[u] = "pull" <=> pc[u] = "pull")
  BY <1>1, <1>2, <1>4
<1>6. QED
  BY <1>1, <1>3, <1>5, SinceIsPast, AsideKeeps DEF IInv, Typed

LEMMA ReturnKeeps ==
  ASSUME IInv, NEW t \in Threads, Return(t)
  PROVE  IInv'
<1>1. /\ UNCHANGED <<callbacks, lock, iterator, handed, calls, since, parser, parsed, kept, channel>>
      /\ pc[t] = "raise" /\ gil \in {Nobody, t} /\ gil' = Nobody /\ pc' = [pc EXCEPT ![t] = "out"]
  BY DEF Return, epochVars
<1>2. pc \in [Threads -> {"out", "build", "built", "swap", "lock", "pull", "raise"}]
  BY DEF IInv, Typed
<1>3. pc' \in [Threads -> {"out", "build", "built", "swap", "lock", "pull", "raise"}]
  BY <1>1, <1>2
<1>4. \A u \in Threads : pc[u] # "swap"
  BY <1>1, ReaderAssumption DEF IInv, Held
<1>5. \A u \in Threads : pc'[u] # "swap" /\ gil' # u /\ (pc'[u] = "pull" <=> pc[u] = "pull")
  BY <1>1, <1>2, <1>4, ReaderAssumption
<1>6. QED
  BY <1>1, <1>3, <1>5, SinceIsPast, AsideKeeps DEF IInv, Typed

-----------------------------------------------------------------------------
(* A new epoch becomes the current one.                                    *)

LEMMA SwapKeeps ==
  ASSUME IInv, NEW t \in Threads, Swap(t)
  PROVE  IInv'
<1>l. PICK l : l = Len(parser)
  OBVIOUS
<1>1. /\ UNCHANGED <<callbacks, lock, calls, since, handed>>
      /\ pc[t] = "swap" /\ lock = Nobody /\ gil' = Nobody /\ pc' = [pc EXCEPT ![t] = "out"]
      /\ iterator' = l + 1
      /\ parser' = Append(parser, "unopened") /\ parsed' = Append(parsed, 0)
      /\ kept' = Append(kept, <<>>) /\ channel' = Append(channel, <<>>)
  BY <1>l DEF Swap
<1>2. /\ l \in Nat /\ Len(parsed) = l /\ Len(kept) = l /\ Len(channel) = l /\ iterator = l
      /\ parser \in Seq({"unopened", "name", "send", "gone"})
      /\ parsed \in Seq(0..Files) /\ kept \in Seq(Seq(File)) /\ channel \in Seq(Seq(File))
  BY <1>l DEF IInv, Typed
<1>3. /\ Len(parser') = l + 1 /\ Len(parsed') = l + 1 /\ Len(kept') = l + 1
      /\ Len(channel') = l + 1
      /\ parser' \in Seq({"unopened", "name", "send", "gone"})
      /\ parser'[l + 1] = "unopened" /\ \A e \in 1..l : parser'[e] = parser[e]
  BY <1>l, <1>1, <1>2
<1>4. /\ parsed' \in Seq(0..Files)
      /\ parsed'[l + 1] = 0 /\ \A e \in 1..l : parsed'[e] = parsed[e]
  BY <1>1, <1>2, ReaderAssumption
<1>5. /\ kept' \in Seq(Seq(File)) /\ channel' \in Seq(Seq(File))
      /\ kept'[l + 1] = <<>> /\ \A e \in 1..l : kept'[e] = kept[e]
      /\ channel'[l + 1] = <<>> /\ \A e \in 1..l : channel'[e] = channel[e]
  <2>1. <<>> \in Seq(File)
    OBVIOUS
  <2> DEFINE S == Seq(File)
  <2> HIDE DEF S
  <2>2. kept \in Seq(S) /\ channel \in Seq(S) /\ <<>> \in S
    BY <1>2, <2>1 DEF S
  <2>3. kept' \in Seq(S) /\ channel' \in Seq(S)
    BY <1>1, <2>2
  <2>4. /\ kept'[l + 1] = <<>> /\ \A e \in 1..l : kept'[e] = kept[e]
        /\ channel'[l + 1] = <<>> /\ \A e \in 1..l : channel'[e] = channel[e]
    BY <1>1, <1>2, <2>2
  <2>5. QED
    BY <2>3, <2>4 DEF S
<1>6. Typed'
  <2>1. gil' \in Threads \cup {Nobody}
        /\ pc' \in [Threads -> {"out", "build", "built", "swap", "lock", "pull", "raise"}]
    BY <1>1 DEF IInv, Typed
  <2>2. /\ Len(parsed') = Len(parser') /\ Len(kept') = Len(parser')
        /\ Len(channel') = Len(parser') /\ iterator' = Len(parser')
    BY <1>1, <1>3
  <2>3. QED
    BY <1>1, <1>3, <1>4, <1>5, <2>1, <2>2 DEF IInv, Typed
<1>7. Held'
  <2>1. pc \in [Threads -> {"out", "build", "built", "swap", "lock", "pull", "raise"}]
    BY DEF IInv, Typed
  <2>2. \A u \in Threads : gil = u <=> pc[u] = "swap"
    BY DEF IInv, Held
  <2>3. \A u \in Threads : pc'[u] # "swap" /\ gil' # u
    BY <1>1, <2>1, <2>2, ReaderAssumption
  <2>4. \A u \in Threads : pc[u] # "pull"
    BY <1>1, ReaderAssumption DEF IInv, Held
  <2>5. \A u \in Threads : pc'[u] # "pull" /\ lock' # u
    BY <1>1, <2>1, <2>4, ReaderAssumption
  <2>6. QED
    BY <2>3, <2>5 DEF Held
<1>8. ASSUME NEW e \in 1..l
      PROVE  Epoch(e)'
  <2>1. Epoch(e) /\ e # iterator'
    BY <1>l, <1>1, <1>2 DEF IInv, Epochs
  <2>2. parser'[e] = parser[e] /\ parsed'[e] = parsed[e] /\ kept'[e] = kept[e] /\ channel'[e] = channel[e]
    BY <1>3, <1>4, <1>5
  <2>3. QED
    BY <1>1, <2>1, <2>2, EpochStays
<1>9. ASSUME NEW e, e = l + 1
      PROVE  Epoch(e)'
  <2>1. \A i \in DOMAIN handed : handed[i].epoch # e
    <3>1. handed \in Seq(Draw)
      BY DEF IInv, Typed
    <3>2. SUFFICES ASSUME NEW i \in DOMAIN handed
                   PROVE  handed[i].epoch # e
      OBVIOUS
    <3>3. handed[i] \in Draw
      BY <3>1
    <3>4. handed[i].epoch \in Nat
      BY <3>3 DEF Draw
    <3>5. handed[i].epoch <= l
      BY <1>l DEF IInv, Recent
    <3>6. QED
      BY <1>2, <1>9, <3>4, <3>5
  <2>2. Drawn(e)' = {} /\ ~Ended(e)'
    BY <1>1, <2>1 DEF Drawn, Ended
  <2>3. Delivered(e)' = 0
    BY <2>2, FS_EmptySet DEF Delivered
  <2>4. Flows("unopened", 0, <<>>, <<>>, 0, TRUE)
    BY DEF Flows
  <2>5. InOrder(e)' /\ EndedWhole(e)'
    BY <2>2 DEF InOrder, EndedWhole
  <2>6. parser'[e] = "unopened" /\ parsed'[e] = 0 /\ kept'[e] = <<>> /\ channel'[e] = <<>> /\ e = iterator'
    BY <1>1, <1>3, <1>4, <1>5, <1>9
  <2>7. QED
    BY <2>3, <2>4, <2>5, <2>6 DEF Epoch
<1>10. \A e \in Epochs' : Epoch(e)'
  <2>1. \A e \in Epochs' : e \in 1..l \/ e = l + 1
    BY <1>2, <1>3 DEF Epochs
  <2>2. QED
    BY <1>8, <1>9, <2>1
<1>11. Recent'
  <2>1. \A u \in Threads : since[u] \in Nat /\ since[u] <= l
    BY <1>l, SinceIsPast
  <2>2. \A i \in DOMAIN handed : handed[i] \in Draw
    BY DEF IInv, Typed
  <2>3. \A i \in DOMAIN handed : /\ handed[i].since <= handed[i].epoch
                                 /\ handed[i].epoch \in Nat /\ handed[i].epoch <= l
    BY <1>l, <2>2 DEF IInv, Recent, Draw
  <2>4. QED
    BY <1>1, <1>2, <1>3, <2>1, <2>3 DEF Recent
<1>12. QED
  BY <1>6, <1>7, <1>10, <1>11 DEF IInv

-----------------------------------------------------------------------------
(* A draw: what came, and what becomes of the lock.                        *)

LEMMA GotIsADraw ==
  ASSUME IInv, NEW t \in Threads, NEW epoch \in 0..Len(parser), NEW file \in Nat,
         since[t] <= epoch, Got(t, epoch, file), UNCHANGED <<since, parser>>
  PROVE  /\ [epoch |-> epoch, file |-> file, since |-> since[t]] \in Draw
         /\ handed' = Append(handed, [epoch |-> epoch, file |-> file, since |-> since[t]])
         /\ handed' \in Seq(Draw)
         /\ Recent'
<1>h. PICK h : h = [epoch |-> epoch, file |-> file, since |-> since[t]]
  OBVIOUS
<1>1. since \in [Threads -> Nat] /\ Len(parser) \in Nat /\ handed \in Seq(Draw)
  BY DEF IInv, Typed
<1>2. h \in Draw /\ h.epoch = epoch /\ h.since = since[t]
  BY <1>h, <1>1 DEF Draw
<1>3. handed' = Append(handed, h)
  BY <1>h DEF Got
<1>4. /\ handed' \in Seq(Draw) /\ DOMAIN handed' = DOMAIN handed \cup {Len(handed) + 1}
      /\ \A i \in DOMAIN handed : handed'[i] = handed[i]
      /\ handed'[Len(handed) + 1] = h
  BY <1>2, <1>3, Drawing DEF IInv
<1>5. \A i \in DOMAIN handed' : handed'[i].since <= handed'[i].epoch /\ handed'[i].epoch <= Len(parser)
  BY <1>2, <1>4 DEF IInv, Recent
<1>6. Recent'
  BY <1>5 DEF IInv, Recent
<1>7. QED
  BY <1>h, <1>2, <1>3, <1>4, <1>6

LEMMA LockUnstartedKeeps ==
  ASSUME IInv, NEW t \in Threads, LockUnstarted(t)
  PROVE  IInv'
<1>1. /\ UNCHANGED <<callbacks, gil, lock, iterator, calls, since, parser, parsed, kept, channel>>
      /\ pc[t] = "lock" /\ iterator = 0 /\ Got(t, 0, 0) /\ pc' = [pc EXCEPT ![t] = "raise"]
  BY DEF LockUnstarted, epochVars
<1>2. Len(parser) = 0 /\ since[t] <= 0 /\ 0 \in 0..Len(parser) /\ 0 \in Nat
  BY <1>1, SinceIsPast DEF IInv, Typed
<1>3. handed' \in Seq(Draw) /\ Recent'
  <2>1. Got(t, 0, 0) /\ UNCHANGED <<since, parser>>
    BY <1>1
  <2>2. QED
    BY <1>2, <2>1, GotIsADraw
<1>4. pc \in [Threads -> {"out", "build", "built", "swap", "lock", "pull", "raise"}]
  BY DEF IInv, Typed
<1>5. pc' \in [Threads -> {"out", "build", "built", "swap", "lock", "pull", "raise"}]
  BY <1>1, <1>4
<1>6. Typed'
  BY <1>1, <1>3, <1>5 DEF IInv, Typed
<1>7. \A u \in Threads : (pc'[u] = "swap" <=> pc[u] = "swap") /\ (pc'[u] = "pull" <=> pc[u] = "pull")
  BY <1>1, <1>4
<1>8. Held'
  BY <1>1, <1>7 DEF IInv, Held
<1>9. Epochs' = {}
  BY <1>1, <1>2 DEF Epochs
<1>10. QED
  BY <1>3, <1>6, <1>8, <1>9 DEF IInv

LEMMA LockKeeps ==
  ASSUME IInv, NEW t \in Threads, Lock(t)
  PROVE  IInv'
<1>p. PICK p : p = IF parser[iterator] = "unopened" THEN "name" ELSE parser[iterator]
  OBVIOUS
<1>1. /\ UNCHANGED <<callbacks, gil, iterator, calls, since, handed, parsed, kept, channel>>
      /\ pc[t] = "lock" /\ lock = Nobody /\ iterator # 0 /\ lock' = t
      /\ parser' = [parser EXCEPT ![iterator] = p] /\ pc' = [pc EXCEPT ![t] = "pull"]
  BY <1>p DEF Lock
<1>2. /\ iterator = Len(parser) /\ iterator \in 1..Len(parser) /\ Len(parser) \in Nat
      /\ parser \in Seq({"unopened", "name", "send", "gone"})
  BY <1>1 DEF IInv, Typed
<1>3. p \in {"name", "send", "gone"}
  BY <1>p, <1>2
<1>4. /\ parser' \in Seq({"unopened", "name", "send", "gone"}) /\ Len(parser') = Len(parser)
      /\ parser'[iterator] = p
      /\ \A e \in 1..Len(parser) : e # iterator => parser'[e] = parser[e]
  BY <1>1, <1>2, <1>3
<1>5. pc \in [Threads -> {"out", "build", "built", "swap", "lock", "pull", "raise"}]
  BY DEF IInv, Typed
<1>6. pc' \in [Threads -> {"out", "build", "built", "swap", "lock", "pull", "raise"}]
  BY <1>1, <1>5
<1>7. Typed'
  BY <1>1, <1>4, <1>6 DEF IInv, Typed
<1>8. \A u \in Threads : pc[u] # "pull"
  BY <1>1, ReaderAssumption DEF IInv, Held
<1>9. \A u \in Threads : (pc'[u] = "swap" <=> pc[u] = "swap") /\ (pc'[u] = "pull" <=> u = t)
  BY <1>1, <1>5, <1>8
<1>10. Held'
  BY <1>1, <1>3, <1>4, <1>9 DEF IInv, Held
<1>11. ASSUME NEW e \in Epochs
       PROVE  Epoch(e)'
  <2>1. Epoch(e)
    BY DEF IInv
  <2>2. CASE parser'[e] = parser[e]
    BY <1>1, <2>1, <2>2, EpochStays
  <2>3. CASE parser'[e] # parser[e]
    <3>1. e = iterator /\ parser[e] = "unopened" /\ parser'[e] = "name"
      BY <1>p, <1>4, <2>3 DEF Epochs
    <3>2. Flows("unopened", parsed[e], kept[e], channel[e], Delivered(e), TRUE)
      BY <2>1, <3>1 DEF Epoch
    <3>3. Flows(parser'[e], parsed'[e], kept'[e], channel'[e], Delivered(e), e = iterator')
      BY <1>1, <3>1, <3>2 DEF Flows
    <3>4. Len(kept[e]) \in Nat
      BY DEF IInv, Typed, Epochs
    <3>5. Typed
      BY DEF IInv
    <3>6. QED
      <4>1. parser[e] # "gone" /\ handed' = handed /\ kept' = kept
        BY <1>1, <3>1
      <4>2. Len(kept[e]) <= Len(kept'[e]) /\ \A i \in 1..Len(kept[e]) : kept'[e][i] = kept[e][i]
        BY <3>4, <4>1
      <4> QED
        BY <2>1, <3>3, <3>5, <4>1, <4>2, EpochGoesOn
  <2>4. QED
    BY <2>2, <2>3
<1>12. Recent'
  BY <1>1, <1>4 DEF IInv, Recent
<1>13. Epochs' = Epochs
  BY <1>4 DEF Epochs
<1>14. QED
  BY <1>7, <1>10, <1>11, <1>12, <1>13 DEF IInv

LEMMA PullKeeps ==
  ASSUME IInv, NEW t \in Threads, Pull(t)
  PROVE  IInv'
<1>e. PICK e : e = iterator
  OBVIOUS
<1>1. /\ UNCHANGED <<callbacks, gil, iterator, calls, since, parser, parsed, kept>>
      /\ pc[t] = "pull" /\ lock' = Nobody /\ pc' = [pc EXCEPT ![t] = "raise"]
      /\ \/ /\ channel[e] # <<>>
            /\ Got(t, e, Head(channel[e]))
            /\ channel' = [channel EXCEPT ![e] = Tail(@)]
         \/ /\ channel[e] = <<>>
            /\ parser[e] = "gone"
            /\ Got(t, e, 0)
            /\ channel' = channel
  BY <1>e DEF Pull
<1>2. e = Len(parser) /\ e \in 1..Len(parser) /\ e \in 0..Len(parser) /\ Len(parser) \in Nat
  BY <1>e, <1>1 DEF IInv, Typed, Held
<1>3. since[t] <= e
  BY <1>2 DEF IInv, Recent
<1>4. channel \in Seq(Seq(File)) /\ Len(channel) = Len(parser) /\ channel[e] \in Seq(File)
  BY <1>2 DEF IInv, Typed
<1>5. Typed
  BY DEF IInv
<1>6. /\ handed' \in Seq(Draw) /\ Recent'
      /\ channel' \in Seq(Seq(File)) /\ Len(channel') = Len(parser)
      /\ \A f \in Epochs : Epoch(f)'
  <2>1. CASE channel[e] # <<>>
    <3>f. PICK file : file = Head(channel[e])
      OBVIOUS
    <3>1. /\ Got(t, e, file) /\ channel' = [channel EXCEPT ![e] = Tail(channel[e])]
          /\ UNCHANGED <<since, parser>>
      BY <1>1, <2>1, <3>f
    <3>2. file \in File /\ Tail(channel[e]) \in Seq(File)
      BY <1>4, <2>1, <3>f
    <3>3. file \in Nat
      BY <3>2 DEF File
    <3>h. PICK h : h = [epoch |-> e, file |-> file, since |-> since[t]]
      OBVIOUS
    <3>4. h \in Draw /\ handed' = Append(handed, h) /\ handed' \in Seq(Draw) /\ Recent'
      BY <1>2, <1>3, <3>1, <3>3, <3>h, GotIsADraw
    <3>5. h.epoch = e /\ h.file = file
      BY <3>h
    <3>6. /\ channel' \in Seq(Seq(File)) /\ Len(channel') = Len(parser)
          /\ channel'[e] = Tail(channel[e])
          /\ \A f \in 1..Len(parser) : f # e => channel'[f] = channel[f]
      BY <1>2, <1>4, <3>1, <3>2
    <3>7. ASSUME NEW f \in Epochs
          PROVE  Epoch(f)'
      <4>1. Epoch(f)
        BY DEF IInv
      <4>2. CASE f = e
        BY <1>1, <1>5, <2>1, <3>f, <3>4, <3>5, <3>6, <4>1, <4>2, EpochDraws
      <4>3. CASE f # e
        <5>1. channel'[f] = channel[f]
          BY <3>6, <4>3 DEF Epochs
        <5>2. QED
          BY <1>1, <1>5, <3>4, <3>5, <4>1, <4>3, <5>1, EpochElsewhere
      <4>4. QED
        BY <4>2, <4>3
    <3>8. QED
      BY <3>4, <3>6, <3>7
  <2>2. CASE channel[e] = <<>>
    <3>1. Got(t, e, 0) /\ channel' = channel /\ parser[e] = "gone" /\ UNCHANGED <<since, parser>>
      BY <1>1, <2>2
    <3>h. PICK h : h = [epoch |-> e, file |-> 0, since |-> since[t]]
      OBVIOUS
    <3>2. h \in Draw /\ handed' = Append(handed, h) /\ handed' \in Seq(Draw) /\ Recent'
      BY <1>2, <1>3, <3>1, <3>h, GotIsADraw
    <3>3. h.epoch = e /\ h.file = 0
      BY <3>h
    <3>4. ASSUME NEW f \in Epochs
          PROVE  Epoch(f)'
      <4>1. Epoch(f)
        BY DEF IInv
      <4>2. CASE f = e
        BY <1>e, <1>1, <1>5, <2>2, <3>1, <3>2, <3>3, <4>1, <4>2, EpochEnds
      <4>3. CASE f # e
        BY <1>1, <1>5, <3>1, <3>2, <3>3, <4>1, <4>3, EpochElsewhere
      <4>4. QED
        BY <4>2, <4>3
    <3>5. QED
      BY <1>4, <3>1, <3>2, <3>4
  <2>3. QED
    BY <2>1, <2>2
<1>7. pc \in [Threads -> {"out", "build", "built", "swap", "lock", "pull", "raise"}]
  BY DEF IInv, Typed
<1>8. pc' \in [Threads -> {"out", "build", "built", "swap", "lock", "pull", "raise"}]
  BY <1>1, <1>7
<1>9. Typed'
  BY <1>1, <1>6, <1>8 DEF IInv, Typed
<1>10. \A u \in Threads : u # t => pc[u] # "pull"
  BY <1>1 DEF IInv, Held
<1>11. \A u \in Threads : (pc'[u] = "swap" <=> pc[u] = "swap") /\ pc'[u] # "pull"
  BY <1>1, <1>7, <1>10
<1>12. Held'
  BY <1>1, <1>11, ReaderAssumption DEF IInv, Held
<1>13. Epochs' = Epochs
  BY <1>1 DEF Epochs
<1>14. QED
  BY <1>6, <1>9, <1>12, <1>13 DEF IInv

-----------------------------------------------------------------------------
(* The steps of a parser.                                                  *)

LEMMA Updated ==
  ASSUME NEW S, NEW s \in Seq(S), NEW i \in 1..Len(s), NEW v \in S, NEW u, u = [s EXCEPT ![i] = v]
  PROVE  /\ u \in Seq(S) /\ Len(u) = Len(s) /\ u[i] = v
         /\ \A j \in 1..Len(s) : j # i => u[j] = s[j]
  OBVIOUS

LEMMA Unchanged ==
  ASSUME NEW S, NEW s \in Seq(S), NEW i \in 1..Len(s)
  PROVE  s = [s EXCEPT ![i] = s[i]] /\ s[i] \in S
  OBVIOUS

LEMMA ParserKeeps ==
  ASSUME IInv, NEW e \in Epochs, UNCHANGED <<callbacks, threadVars>>, parser[e] # "gone",
         NEW p \in {"name", "send", "gone"}, NEW d \in 0..Files,
         NEW k \in Seq(File), NEW c \in Seq(File),
         parser' = [parser EXCEPT ![e] = p], parsed' = [parsed EXCEPT ![e] = d],
         kept' = [kept EXCEPT ![e] = k], channel' = [channel EXCEPT ![e] = c],
         Len(kept[e]) <= Len(k), \A i \in 1..Len(kept[e]) : k[i] = kept[e][i],
         Flows(p, d, k, c, Delivered(e), e = iterator)
  PROVE  IInv'
<1>1. /\ parser \in Seq({"unopened", "name", "send", "gone"}) /\ parsed \in Seq(0..Files)
      /\ kept \in Seq(Seq(File)) /\ channel \in Seq(Seq(File))
      /\ Len(parsed) = Len(parser) /\ Len(kept) = Len(parser) /\ Len(channel) = Len(parser)
      /\ e \in 1..Len(parser) /\ Typed
  BY DEF IInv, Typed, Epochs
<1>2. /\ parser' \in Seq({"unopened", "name", "send", "gone"}) /\ Len(parser') = Len(parser)
      /\ parser'[e] = p /\ \A f \in 1..Len(parser) : f # e => parser'[f] = parser[f]
  BY <1>1, Updated
<1>3. /\ parsed' \in Seq(0..Files) /\ Len(parsed') = Len(parser)
      /\ parsed'[e] = d /\ \A f \in 1..Len(parser) : f # e => parsed'[f] = parsed[f]
  BY <1>1, Updated
<1>4. /\ kept' \in Seq(Seq(File)) /\ Len(kept') = Len(parser)
      /\ kept'[e] = k /\ \A f \in 1..Len(parser) : f # e => kept'[f] = kept[f]
  BY <1>1, Updated
<1>5. /\ channel' \in Seq(Seq(File)) /\ Len(channel') = Len(parser)
      /\ channel'[e] = c /\ \A f \in 1..Len(parser) : f # e => channel'[f] = channel[f]
  BY <1>1, Updated
<1>6. UNCHANGED <<callbacks, gil, lock, iterator, pc, calls, since, handed>>
  BY DEF threadVars
<1>7. Typed'
  BY <1>2, <1>3, <1>4, <1>5, <1>6 DEF IInv, Typed
<1>8. Held'
  <2>1. ASSUME NEW t \in Threads, pc[t] = "pull"
        PROVE  iterator # 0 /\ parser'[iterator] # "unopened"
    <3>1. iterator # 0 /\ parser[iterator] # "unopened" /\ iterator \in 1..Len(parser)
      BY <2>1 DEF IInv, Held, Typed
    <3>2. QED
      BY <1>2, <3>1
  <2>2. QED
    BY <1>6, <2>1 DEF IInv, Held
<1>9. ASSUME NEW f \in Epochs
      PROVE  Epoch(f)'
  <2>1. Epoch(f)
    BY DEF IInv
  <2>2. CASE f = e
    BY <1>1, <1>2, <1>3, <1>4, <1>5, <1>6, <2>1, <2>2, EpochGoesOn
  <2>3. CASE f # e
    <3>1. /\ parser'[f] = parser[f] /\ parsed'[f] = parsed[f]
          /\ kept'[f] = kept[f] /\ channel'[f] = channel[f]
      BY <1>2, <1>3, <1>4, <1>5, <2>3 DEF Epochs
    <3>2. QED
      BY <1>6, <2>1, <3>1, EpochStays
  <2>4. QED
    BY <2>2, <2>3
<1>10. Recent'
  BY <1>2, <1>6 DEF IInv, Recent
<1>11. Epochs' = Epochs
  BY <1>2 DEF Epochs
<1>12. QED
  BY <1>7, <1>8, <1>9, <1>10, <1>11 DEF IInv

(* What a step of a parser finds. *)
LEMMA AtWork ==
  ASSUME IInv, NEW e \in Epochs
  PROVE  /\ parser = [parser EXCEPT ![e] = parser[e]]
         /\ parsed = [parsed EXCEPT ![e] = parsed[e]] /\ parsed[e] \in 0..Files
         /\ kept = [kept EXCEPT ![e] = kept[e]] /\ kept[e] \in Seq(File)
         /\ channel = [channel EXCEPT ![e] = channel[e]] /\ channel[e] \in Seq(File)
         /\ Len(kept[e]) \in Nat /\ Len(channel[e]) \in Nat /\ Delivered(e) \in Nat
         /\ Len(kept[e]) <= Len(kept[e])
         /\ Flows(parser[e], parsed[e], kept[e], channel[e], Delivered(e), e = iterator)
<1>1. /\ parser \in Seq({"unopened", "name", "send", "gone"}) /\ parsed \in Seq(0..Files)
      /\ kept \in Seq(Seq(File)) /\ channel \in Seq(Seq(File))
      /\ e \in 1..Len(parser) /\ e \in 1..Len(parsed) /\ e \in 1..Len(kept) /\ e \in 1..Len(channel)
  BY DEF IInv, Typed, Epochs
<1>2. parser = [parser EXCEPT ![e] = parser[e]]
  BY <1>1, Unchanged
<1>3. parsed = [parsed EXCEPT ![e] = parsed[e]] /\ parsed[e] \in 0..Files
  BY <1>1, Unchanged
<1>4. kept = [kept EXCEPT ![e] = kept[e]] /\ kept[e] \in Seq(File)
  BY <1>1, Unchanged
<1>5. channel = [channel EXCEPT ![e] = channel[e]] /\ channel[e] \in Seq(File)
  BY <1>1, Unchanged
<1>6. Len(kept[e]) \in Nat /\ Len(channel[e]) \in Nat /\ Len(kept[e]) <= Len(kept[e])
  BY <1>4, <1>5
<1>7. Delivered(e) \in Nat
  BY Counting DEF IInv
<1>8. Flows(parser[e], parsed[e], kept[e], channel[e], Delivered(e), e = iterator)
  BY DEF IInv, Epoch
<1>9. QED
  BY <1>2, <1>3, <1>4, <1>5, <1>6, <1>7, <1>8

LEMMA NameKeeps ==
  ASSUME IInv, NEW e \in Epochs, Name(e)
  PROVE  IInv'
<1> DEFINE n == Delivered(e)
           c == channel[e]
<1>k. PICK k : k = kept[e]
  OBVIOUS
<1>d. PICK d : d = parsed[e] + 1
  OBVIOUS
<1>1. /\ parser[e] = "name" /\ parsed[e] < Files /\ parsed' = [parsed EXCEPT ![e] = d]
      /\ \/ /\ parser' = [parser EXCEPT ![e] = "send"]
            /\ kept' = [kept EXCEPT ![e] = Append(k, d)]
         \/ UNCHANGED <<parser, kept>>
      /\ channel' = channel /\ UNCHANGED <<callbacks, threadVars>>
  BY <1>k, <1>d DEF Name
<1>2. /\ k \in Seq(File) /\ c \in Seq(File) /\ Len(k) \in Nat /\ Len(c) \in Nat /\ n \in Nat
      /\ channel' = [channel EXCEPT ![e] = c] /\ Len(k) <= Len(k)
      /\ Flows("name", parsed[e], k, c, n, e = iterator)
  BY <1>k, <1>1, AtWork
<1>3. d \in 0..Files /\ d \in File
  <2>1. parsed[e] \in 0..Files
    BY AtWork
  <2>2. QED
    BY <1>d, <1>1, <2>1, ReaderAssumption DEF File
<1>4. CASE parser' = [parser EXCEPT ![e] = "send"] /\ kept' = [kept EXCEPT ![e] = Append(k, d)]
  <2>a. PICK a : a = Append(k, d)
    OBVIOUS
  <2>1. a \in Seq(File) /\ Len(a) = Len(k) + 1 /\ a[Len(a)] = d /\ \A i \in 1..Len(k) : a[i] = k[i]
    BY <1>2, <1>3, <2>a
  <2>2. n + Len(c) = Len(k) /\ \A i \in 1..Len(c) : c[i] = k[n + i]
    BY <1>2 DEF Flows
  <2>3. \A i \in 1..Len(c) : n + i \in 1..Len(k)
    BY <1>2, <2>2
  <2> HIDE DEF n, c
  <2>4. \A i \in 1..Len(c) : c[i] = a[n + i]
    BY <2>1, <2>2, <2>3
  <2>5. Flows("send", d, a, c, n, e = iterator)
    <3>1. n + Len(c) <= Len(a) /\ Len(a) = n + Len(c) + 1
      BY <1>2, <2>1, <2>2
    <3>2. QED
      BY <1>2, <2>1, <2>4, <3>1 DEF Flows
  <2>6. Len(k) <= Len(a)
    BY <1>2, <2>1
  <2>7. parser[e] # "gone" /\ kept' = [kept EXCEPT ![e] = a]
    BY <1>1, <1>4, <2>a
  <2>8. /\ Flows("send", d, a, channel[e], Delivered(e), e = iterator)
        /\ channel' = [channel EXCEPT ![e] = channel[e]] /\ channel[e] \in Seq(File)
    BY <1>2, <2>5 DEF n, c
  <2>9. Len(kept[e]) <= Len(a) /\ \A i \in 1..Len(kept[e]) : a[i] = kept[e][i]
    BY <1>k, <2>1, <2>6
  <2>10. QED
    BY <1>1, <1>3, <1>4, <2>1, <2>7, <2>8, <2>9, ParserKeeps
<1>5. CASE UNCHANGED <<parser, kept>>
  <2>1. Flows("name", d, k, c, n, e = iterator)
    BY <1>2 DEF Flows
  <2>2. parser' = [parser EXCEPT ![e] = "name"] /\ kept' = [kept EXCEPT ![e] = k] /\ parser[e] # "gone"
    BY <1>k, <1>1, <1>5, AtWork
  <2>3. Len(kept[e]) <= Len(k) /\ \A i \in 1..Len(kept[e]) : k[i] = kept[e][i]
    BY <1>k, <1>2
  <2>4. QED
    BY <1>1, <1>2, <1>3, <2>1, <2>2, <2>3, ParserKeeps
<1>6. QED
  BY <1>1, <1>4, <1>5

LEMMA SendKeeps ==
  ASSUME IInv, NEW e \in Epochs, Send(e)
  PROVE  IInv'
<1>n. PICK n : n = Delivered(e)
  OBVIOUS
<1>c. PICK c : c = channel[e]
  OBVIOUS
<1>k. PICK k : k = kept[e]
  OBVIOUS
<1>d. PICK d : d = parsed[e]
  OBVIOUS
<1>1. /\ parser[e] = "send"
      /\ \/ channel' = [channel EXCEPT ![e] = Append(c, d)] /\ parser' = [parser EXCEPT ![e] = "name"]
         \/ e # iterator /\ parser' = [parser EXCEPT ![e] = "gone"] /\ channel' = channel
      /\ kept' = kept /\ parsed' = parsed /\ UNCHANGED <<callbacks, threadVars>>
  BY <1>c, <1>d DEF Send
<1>2. /\ k \in Seq(File) /\ c \in Seq(File) /\ Len(k) \in Nat /\ Len(c) \in Nat /\ n \in Nat
      /\ d \in 0..Files /\ Len(kept[e]) <= Len(k)
      /\ \A i \in 1..Len(kept[e]) : k[i] = kept[e][i]
      /\ parsed' = [parsed EXCEPT ![e] = d] /\ kept' = [kept EXCEPT ![e] = k]
  BY <1>n, <1>c, <1>k, <1>d, <1>1, AtWork
<1>3. Flows("send", d, k, c, n, e = iterator)
  BY <1>n, <1>c, <1>k, <1>d, <1>1, AtWork
<1>4. Len(k) = n + Len(c) + 1 /\ k[Len(k)] = d /\ \A i \in 1..Len(c) : c[i] = k[n + i]
  BY <1>3 DEF Flows
<1>5. parser[e] # "gone" /\ UNCHANGED <<callbacks, threadVars>>
  BY <1>1
<1>6. CASE channel' = [channel EXCEPT ![e] = Append(c, d)] /\ parser' = [parser EXCEPT ![e] = "name"]
  <2>a. PICK a : a = Append(c, d)
    OBVIOUS
  <2>1. d \in File
    <3>1. Len(k) \in 1..Len(k)
      BY <1>2, <1>4
    <3>2. k[Len(k)] \in File
      BY <1>2, <3>1
    <3>3. QED
      BY <1>4, <3>2
  <2>2. a \in Seq(File) /\ Len(a) = Len(c) + 1 /\ a[Len(c) + 1] = d /\ \A i \in 1..Len(c) : a[i] = c[i]
    BY <1>2, <2>1, <2>a
  <2>3. k[n + (Len(c) + 1)] = d /\ n + Len(a) = Len(k)
    <3>1. n + (Len(c) + 1) = Len(k)
      BY <1>2, <1>4
    <3>2. QED
      BY <1>4, <2>2, <3>1
  <2>4. \A i \in 1..Len(a) : a[i] = k[n + i]
    <3>1. SUFFICES ASSUME NEW i \in 1..Len(a)
                   PROVE  a[i] = k[n + i]
      OBVIOUS
    <3>2. i \in 1..Len(c) \/ i = Len(c) + 1
      BY <1>2, <2>2
    <3>3. QED
      BY <1>4, <2>2, <2>3, <3>2
  <2>5. Flows("name", d, k, a, n, e = iterator)
    BY <1>2, <2>3, <2>4 DEF Flows
  <2>6. Flows("name", d, k, a, Delivered(e), e = iterator) /\ channel' = [channel EXCEPT ![e] = a]
    BY <1>n, <1>6, <2>a, <2>5
  <2>7. QED
    BY <1>2, <1>5, <1>6, <2>2, <2>6, ParserKeeps
<1>7. CASE e # iterator /\ parser' = [parser EXCEPT ![e] = "gone"] /\ channel' = channel
  <2>1. Flows("gone", d, k, c, n, e = iterator)
    BY <1>3, <1>7 DEF Flows
  <2>2. Flows("gone", d, k, c, Delivered(e), e = iterator) /\ channel' = [channel EXCEPT ![e] = c]
    BY <1>n, <1>c, <1>7, <2>1, AtWork
  <2>3. QED
    BY <1>2, <1>5, <1>7, <2>2, ParserKeeps
<1>8. QED
  BY <1>1, <1>6, <1>7

LEMMA ExhaustedKeeps ==
  ASSUME IInv, NEW e \in Epochs, Exhausted(e)
  PROVE  IInv'
<1>1. /\ parser[e] = "name" /\ parsed[e] = Files /\ parser' = [parser EXCEPT ![e] = "gone"]
      /\ UNCHANGED <<callbacks, parsed, kept, channel, threadVars>>
  BY DEF Exhausted
<1>2. Flows("name", parsed[e], kept[e], channel[e], Delivered(e), e = iterator)
  BY <1>1, AtWork
<1>3. Flows("gone", parsed[e], kept[e], channel[e], Delivered(e), e = iterator)
  BY <1>1, <1>2 DEF Flows
<1>4. /\ parsed' = [parsed EXCEPT ![e] = parsed[e]] /\ parsed[e] \in 0..Files
      /\ kept' = [kept EXCEPT ![e] = kept[e]] /\ kept[e] \in Seq(File)
      /\ channel' = [channel EXCEPT ![e] = channel[e]] /\ channel[e] \in Seq(File)
      /\ Len(kept[e]) <= Len(kept[e]) /\ parser[e] # "gone"
      /\ UNCHANGED <<callbacks, threadVars>>
  BY <1>1, AtWork
<1>5. QED
  BY <1>1, <1>3, <1>4, ParserKeeps

-----------------------------------------------------------------------------
(* The invariant, and what follows from it.                                *)

LEMMA InitInv ==
  ASSUME Init
  PROVE  IInv
<1>1. Typed
  <2>1. parser = <<>> /\ parsed = <<>> /\ kept = <<>> /\ channel = <<>> /\ handed = <<>>
    BY DEF Init
  <2>2. iterator = 0 /\ callbacks \in BOOLEAN /\ gil = Nobody /\ lock = Nobody
    BY DEF Init
  <2>3. /\ pc \in [Threads -> {"out", "build", "built", "swap", "lock", "pull", "raise"}]
        /\ calls \in [Threads -> Nat] /\ since \in [Threads -> Nat]
    BY DEF Init
  <2>4. QED
    BY <2>1, <2>2, <2>3 DEF Typed
<1>2. Held
  BY ReaderAssumption DEF Init, Held
<1>3. Epochs = {} /\ Recent
  BY DEF Init, Epochs, Recent
<1>4. QED
  BY <1>1, <1>2, <1>3 DEF IInv

LEMMA NextInv ==
  ASSUME IInv, [Next]_vars
  PROVE  IInv'
<1>1. ASSUME NEW t \in Threads, Call(t)
      PROVE  IInv'
  BY <1>1, CallKeeps
<1>2. ASSUME NEW t \in Threads, Thread(t)
      PROVE  IInv'
  BY <1>2, BuildKeeps, AttachKeeps, SwapKeeps, LockUnstartedKeeps, LockKeeps, PullKeeps,
     ReturnKeeps DEF Thread
<1>3. ASSUME NEW e \in Epochs, Parser(e)
      PROVE  IInv'
  BY <1>3, NameKeeps, SendKeeps, ExhaustedKeeps DEF Parser
<1>4. CASE UNCHANGED vars
  <2>1. UNCHANGED <<callbacks, gil, lock, iterator, pc, calls, since, parser, parsed, kept,
                    channel, handed>>
    BY <1>4 DEF vars
  <2>2. \A e \in Epochs' : Epoch(e)'
    BY <2>1, EpochStays DEF IInv, Epochs
  <2>3. Typed' /\ Held' /\ Recent'
    BY <2>1 DEF IInv, Typed, Held, Recent
  <2>4. QED
    BY <2>2, <2>3 DEF IInv
<1>5. QED
  BY <1>1, <1>2, <1>3, <1>4 DEF Next

LEMMA Always == Spec => []IInv
<1>1. Init => IInv
  BY InitInv
<1>2. IInv /\ [Next]_vars => IInv'
  BY NextInv
<1>3. QED
  BY <1>1, <1>2, PTL DEF Spec

(* Threads that share a reader share each epoch: its samples in order, each *)
(* to one draw, its end after all of them, and no draw from an epoch older  *)
(* than the last __iter__ that had returned before it was called.           *)
THEOREM DrawsAreCurrent == Spec => []NextIsCurrent
<1>1. ASSUME IInv
      PROVE  NextIsCurrent
  <2>1. ASSUME NEW e \in Epochs, NEW i \in Drawn(e)
        PROVE  Rank(e, i) <= Len(kept[e]) /\ handed[i].file = kept[e][Rank(e, i)]
    <3>1. Rank(e, i) \in 1..Delivered(e)
      BY <1>1, Counting DEF IInv
    <3>2. Delivered(e) + Len(channel[e]) <= Len(kept[e])
      BY <1>1, AtWork DEF Flows
    <3>3. Rank(e, i) <= Len(kept[e])
      <4>1. Len(kept[e]) \in Nat /\ Len(channel[e]) \in Nat /\ Delivered(e) \in Nat
        BY <1>1, AtWork
      <4>2. QED
        BY <3>1, <3>2, <4>1
    <3>4. QED
      BY <1>1, <3>3 DEF IInv, Epoch, InOrder
  <2>2. ASSUME NEW e \in Epochs, Ended(e)
        PROVE  parsed[e] = Files /\ Cardinality(Drawn(e)) = Len(kept[e])
    BY <1>1, <2>2 DEF IInv, Epoch, EndedWhole, Delivered
  <2>3. \A i \in DOMAIN handed : handed[i].since <= handed[i].epoch
    BY <1>1 DEF IInv, Recent
  <2>4. QED
    BY <2>1, <2>2, <2>3 DEF NextIsCurrent, Rank, Ended
<1>2. QED
  BY <1>1, Always, PTL

(* There is one deadlock, and callbacks are needed for it: in any other     *)
(* state in which a call has not returned, something can go on.             *)
THEOREM OnlyWedged == Spec => []StuckOnlyIfWedged
<1>1. ASSUME IInv
      PROVE  StuckOnlyIfWedged
  <2>1. SUFFICES ASSUME NEW t \in Threads, pc[t] # "out",
                        \A u \in Threads : ~ThreadGoesOn(u),
                        iterator \in Epochs => ~ParserGoesOn(iterator)
                 PROVE  Wedged
    BY DEF StuckOnlyIfWedged
  <2>2. /\ pc \in [Threads -> {"out", "build", "built", "swap", "lock", "pull", "raise"}]
        /\ gil \in Threads \cup {Nobody} /\ lock \in Threads \cup {Nobody}
    BY <1>1 DEF IInv, Typed
  <2>3. \A u \in Threads : (gil = u <=> pc[u] = "swap") /\ (lock = u <=> pc[u] = "pull")
    BY <1>1 DEF IInv, Held
  <2>4. lock # Nobody
    <3>1. SUFFICES ASSUME lock = Nobody
                   PROVE  FALSE
      OBVIOUS
    <3>2. \A u \in Threads : pc[u] \notin {"swap", "lock", "pull", "build"}
      BY <2>1, <2>3, <3>1, ReaderAssumption DEF ThreadGoesOn
    <3>3. gil = Nobody
      BY <2>2, <2>3, <3>2
    <3>4. QED
      BY <2>1, <2>2, <3>2, <3>3 DEF ThreadGoesOn
  <2>5. PICK r \in Threads : lock = r /\ pc[r] = "pull"
    BY <2>2, <2>3, <2>4
  <2>6. channel[iterator] = <<>> /\ parser[iterator] # "gone"
    BY <2>1, <2>5 DEF ThreadGoesOn
  <2>7. /\ iterator \in Epochs /\ parser[iterator] \in {"name", "send"}
        /\ parsed[iterator] \in 0..Files
    <3>1. iterator \in 1..Len(parser) /\ parser[iterator] # "unopened"
      BY <1>1, <2>5 DEF IInv, Held, Typed
    <3>2. iterator \in Epochs
      BY <3>1 DEF Epochs
    <3>3. parsed[iterator] \in 0..Files
      BY <1>1, <3>2, AtWork
    <3>4. parser[iterator] \in {"unopened", "name", "send", "gone"}
      BY <1>1, <3>1 DEF IInv, Typed
    <3>5. QED
      BY <2>6, <3>1, <3>2, <3>3, <3>4
  <2>8. parser[iterator] # "send"
    BY <2>1, <2>6, <2>7, ReaderAssumption DEF ParserGoesOn
  <2>9. parser[iterator] = "name" /\ parsed[iterator] < Files
    BY <2>1, <2>7, <2>8, ReaderAssumption DEF ParserGoesOn
  <2>10. callbacks /\ gil # Nobody
    BY <2>1, <2>7, <2>9 DEF ParserGoesOn
  <2>11. PICK w \in Threads : gil = w /\ pc[w] = "swap"
    BY <2>2, <2>3, <2>10
  <2>12. QED
    BY <2>5, <2>6, <2>9, <2>10, <2>11 DEF Wedged
<1>2. QED
  BY <1>1, Always, PTL

-----------------------------------------------------------------------------
(* The chain of adapters: what its items and its plan are.                   *)
Single(item) == item.err \/ Len(item.ids) <= 1

(* What a plan is. *)
LEMMA PlanIs ==
  ASSUME plan \in Plans
  PROVE  /\ plan \in Plan /\ Buildable(plan) /\ Chain \in Seq(Stage) /\ Len(Chain) \in Nat
         /\ DOMAIN Chain = 1..Len(Chain)
         /\ \A k \in DOMAIN Chain : Chain[k] \in Stage
<1>1. plan \in Plan /\ Buildable(plan)
  BY AdaptersAssumption
<1>2. Chain \in Seq(Stage)
  BY <1>1 DEF Plan, Chain
<1>3. QED
  BY <1>1, <1>2

LEMMA SizesAre ==
  ASSUME plan \in Plans, NEW k \in DOMAIN Chain
  PROVE  /\ Kind(k) \in {"listed", "shuffle"} =>
              /\ Chain[k].size > 0 /\ ~Grouping(Chain, k - 1)
         /\ Kind(k) = "shuffle" => Chain[k].every <= Chain[k].size
         /\ Chain[k].size \in Nat /\ Chain[k].every \in Nat \ {0}
<1>1. Chain[k] \in Stage /\ Buildable(plan)
  BY PlanIs
<1>2. k \in DOMAIN plan.chain /\ Chain = plan.chain /\ Kind(k) = plan.chain[k].kind
  BY DEF Chain, Kind
<1>3. plan.chain[k].kind \in {"listed", "shuffle"} =>
        ~Grouping(plan.chain, k - 1) /\ plan.chain[k].size > 0
  BY <1>1, <1>2 DEF Buildable
<1>4. plan.chain[k].kind = "shuffle" => plan.chain[k].every <= plan.chain[k].size
  BY <1>1, <1>2 DEF Buildable
<1>5. Chain[k].size \in Nat /\ Chain[k].every \in Nat \ {0}
  BY <1>1 DEF Stage
<1>6. QED
  BY <1>2, <1>3, <1>4, <1>5

LEMMA ItemsAre ==
  ASSUME NEW ids \in Seq(Nat)
  PROVE  /\ Ok(ids) \in Item /\ Err(ids) \in Item /\ Err(ids) # End
         /\ Ok(ids).ids = ids /\ Single(Err(ids))
         /\ Len(ids) <= 1 => Single(Ok(ids))
BY DEF Ok, Err, End, Item, Single

LEMMA EndIs == End \in Item /\ ~End.err /\ End.ids = <<>> /\ Single(End)
BY DEF Ok, End, Item, Single

LEMMA RemoveAtIs ==
  ASSUME NEW S, NEW s \in Seq(S), NEW i \in DOMAIN s
  PROVE  /\ RemoveAt(s, i) \in Seq(S) /\ Len(RemoveAt(s, i)) = Len(s) - 1
         /\ \A j \in DOMAIN RemoveAt(s, i) : \E m \in DOMAIN s : RemoveAt(s, i)[j] = s[m]
<1> DEFINE a == SubSeq(s, 1, i - 1)
           b == SubSeq(s, i + 1, Len(s))
<1>1. Len(s) \in Nat /\ i \in 1..Len(s) /\ DOMAIN s = 1..Len(s)
  OBVIOUS
<1>2. /\ a \in Seq(S) /\ Len(a) = i - 1 /\ b \in Seq(S) /\ Len(b) = Len(s) - i
      /\ \A j \in 1..Len(a) : a[j] = s[j] /\ j \in 1..Len(s)
      /\ \A j \in 1..Len(b) : b[j] = s[i + j] /\ i + j \in 1..Len(s)
  BY <1>1
<1> HIDE DEF a, b
<1>3. a \o b \in Seq(S) /\ Len(a \o b) = Len(s) - 1
  <2>1. a \in Seq(S) /\ b \in Seq(S)
    BY <1>2
  <2>2. a \o b \in Seq(S) /\ Len(a \o b) = Len(a) + Len(b)
    BY <2>1
  <2>3. QED
    BY <1>1, <1>2, <2>2
<1>4. ASSUME NEW j \in 1..(Len(s) - 1)
      PROVE  \E m \in 1..Len(s) : (a \o b)[j] = s[m]
  <2>1. CASE j <= Len(a)
    BY <1>1, <1>2, <2>1
  <2>2. CASE j > Len(a)
    <3>1. j - Len(a) \in 1..Len(b) /\ (a \o b)[j] = b[j - Len(a)]
      BY <1>1, <1>2, <2>2
    <3>2. QED
      BY <1>2, <3>1
  <2>3. QED
    BY <1>1, <1>2, <2>1, <2>2
<1>5. DOMAIN (a \o b) = 1..(Len(s) - 1)
  BY <1>3
<1>6. QED
  BY <1>1, <1>3, <1>4, <1>5 DEF RemoveAt, a, b

LEMMA GroupingIs ==
  ASSUME plan \in Plans, NEW k \in DOMAIN Chain
  PROVE  /\ Kind(k) = "listed" => Grouping(Chain, k)
         /\ Kind(k) # "unbatch" /\ Grouping(Chain, k - 1) => Grouping(Chain, k)
<1>1. k \in Nat \ {0}
  BY PlanIs
<1> DEFINE c == Chain
<1>2. Kind(k) = c[k].kind
  BY DEF Kind
<1> HIDE DEF c
<1>3. ASSUME Kind(k) = "listed" PROVE Grouping(c, k)
  <2>1. k \in 1..k /\ (k + 1)..k = {}
    BY <1>1
  <2>2. QED
    BY <1>2, <1>3, <2>1 DEF Grouping
<1>4. ASSUME Kind(k) # "unbatch", Grouping(c, k - 1) PROVE Grouping(c, k)
  <2>1. PICK j \in 1..(k - 1) : /\ c[j].kind = "listed"
                                /\ \A i \in (j + 1)..(k - 1) : c[i].kind # "unbatch"
    BY <1>4 DEF Grouping
  <2>2. \A i \in (j + 1)..k : i \in (j + 1)..(k - 1) \/ i = k
    BY <1>1
  <2>3. j \in 1..k
    BY <1>1
  <2>4. QED
    BY <1>2, <1>4, <2>1, <2>2, <2>3 DEF Grouping
<1>5. QED
  BY <1>3, <1>4 DEF c

-----------------------------------------------------------------------------
(* The inductive invariant. *)
Ledger == [held : Seq(Nat), n : Nat, done : BOOLEAN]

Limits(k, held) == Kind(k) \in {"listed", "shuffle"} => Len(held) < Chain[k].size

ChainTyped ==
  /\ plan \in Plans
  /\ mode \in {"idle", "ask", "tell", "ended"} /\ at \in 0..Len(Chain)
  /\ answer \in Item /\ taken \in Seq(Item) /\ out \in Seq(Item)
  /\ left \in Seq(Seq(Item)) /\ weights \in Seq({0, 1})
  /\ Len(left) = Len(weights) /\ turn \in Nat
  /\ stage \in [DOMAIN Chain -> Ledger]
  /\ \A k \in DOMAIN Chain : Limits(k, stage[k].held)
  /\ over \subseteq 0..Len(Chain)

(* What reaches an adapter that makes groups is no group itself. *)
Singles ==
  /\ \A i \in DOMAIN left : \A j \in DOMAIN left[i] : left[i][j].err \/ Len(left[i][j].ids) = 1
  /\ mode = "tell" => Single(answer) \/ Grouping(Chain, at)

(* An adapter that asks nothing any more. *)
Dead(k) == Finished(k) \/ (Kind(k) = "shuffle" /\ stage[k].done)

(* Whoever has told its end is behind one that asks nothing any more, or is  *)
(* about to be.                                                              *)
Silent(k) ==
  \/ mode = "tell" /\ at = k /\ answer = End
  \/ mode = "ended" /\ k = Len(Chain)
  \/ k < Len(Chain) /\ (k + 1 \in over \/ Dead(k + 1))

Quieted ==
  /\ mode = "ask" => \A j \in DOMAIN Chain : j >= at => j \notin over
  /\ mode = "tell" => /\ \A j \in DOMAIN Chain : j > at => j \notin over
                      /\ answer # End /\ at # 0 => at \notin over
  /\ mode = "idle" => Len(Chain) \notin over \ {0}
  /\ \A k \in over \ {0} : Silent(k)

ChainIInv == ChainTyped /\ Singles /\ (plan.async => Quieted)

LEMMA InitChain ==
  ASSUME ChainInit
  PROVE  ChainIInv
<1>1. plan \in Plans /\ plan \in Plan /\ Buildable(plan) /\ Chain \in Seq(Stage)
  BY PlanIs DEF ChainInit
<1>2. left = plan.data /\ weights = plan.weights
  BY DEF ChainInit
<1>3. left \in Seq(Seq(Item)) /\ weights \in Seq({0, 1}) /\ Len(left) = Len(weights)
  <2>1. plan.data \in Seq(Seq(Item)) /\ plan.weights \in Seq({0, 1})
    BY <1>1 DEF Plan
  <2>2. Len(plan.weights) = Len(plan.data)
    BY <1>1 DEF Buildable
  <2>3. QED
    BY <1>2, <2>1, <2>2
<1>4. answer \in Item /\ taken \in Seq(Item) /\ out \in Seq(Item)
  <2>1. End \in Item
    BY EndIs
  <2>2. QED
    BY <2>1 DEF ChainInit
<1>5. ASSUME NEW k \in DOMAIN Chain
      PROVE  stage[k] = [held |-> <<>>, n |-> 0, done |-> FALSE]
  BY DEF ChainInit, Chain
<1>6. stage \in [DOMAIN Chain -> Ledger]
  BY DEF ChainInit, Chain, Ledger
<1>7. ASSUME NEW k \in DOMAIN Chain
      PROVE  Limits(k, stage[k].held)
  <2>1. stage[k].held = <<>> /\ Len(<<>>) = 0
    BY <1>5
  <2>2. Kind(k) \in {"listed", "shuffle"} => Chain[k].size > 0
    BY <1>1, SizesAre
  <2>3. Chain[k].size \in Nat
    BY <1>1, SizesAre
  <2>4. QED
    BY <2>1, <2>2, <2>3 DEF Limits
<1>8. ChainTyped
  <2>1. Len(Chain) \in Nat
    BY <1>1
  <2>2. QED
    BY <1>1, <1>3, <1>4, <1>6, <1>7, <2>1 DEF ChainInit, ChainTyped
<1>9. Singles
  BY <1>1, <1>2 DEF ChainInit, Singles, Buildable
<1>10. Quieted
  BY DEF ChainInit, Quieted
<1>11. QED
  BY <1>8, <1>9, <1>10 DEF ChainIInv

-----------------------------------------------------------------------------
(* What an adapter may do in a step.  It asks the one below only when it has *)
(* more to ask; what it tells is a group only behind one that makes groups;  *)
(* and it answers the end with its own, or will ask no more.                 *)
Placed(k) ==
  \/ stage' = stage
  \/ \E l \in Ledger : Limits(k, l.held) /\ stage' = [stage EXCEPT ![k] = l]

Asks(k) ==
  \/ Asked(k) /\ ~Dead(k) /\ Ask(k - 1) /\ stage' = stage
  \/ Told(k) /\ answer # End /\ (Ask(k) \/ Ask(k - 1))

Closes(k, item) ==
  \/ Asked(k) /\ (Dead(k) => item = End \/ Dead(k)')
  \/ Told(k) /\ (answer = End => item = End \/ (plan.async => Dead(k)'))

Tells(k) ==
  \E item \in Item : /\ Single(item) \/ Grouping(Chain, k)
                     /\ Tell(k, item) /\ Closes(k, item)

Steps(k) ==
  /\ UNCHANGED <<plan, sources>>
  /\ Placed(k)
  /\ Asks(k) \/ Tells(k)

LEMMA Places ==
  ASSUME NEW k, NEW held \in Seq(Nat), NEW n \in Nat, NEW done \in BOOLEAN,
         Limits(k, held), Becomes(k, held, n, done)
  PROVE  Placed(k)
<1> DEFINE l == [held |-> held, n |-> n, done |-> done]
<1>1. l \in Ledger /\ l.held = held
  BY DEF Ledger
<1>2. stage' = [stage EXCEPT ![k] = l]
  BY DEF Becomes
<1> HIDE DEF l
<1>3. QED
  BY <1>1, <1>2 DEF Placed

(* One that has drained its source or stopped asks nothing any more.         *)
LEMMA Dies ==
  ASSUME stage \in [DOMAIN Chain -> Ledger], NEW k \in DOMAIN Chain, NEW held, NEW n,
         Becomes(k, held, n, TRUE), plan' = plan,
         Kind(k) \in {"map", "listed", "shuffle"} \/ (Kind(k) = "nonEmpty" /\ plan.async)
  PROVE  Dead(k)'
<1>1. stage'[k].done = TRUE
  BY DEF Becomes
<1>2. Kind(k)' = Kind(k) /\ plan'.async = plan.async
  BY DEF Kind, Chain
<1>3. (Finished(k) \/ (Kind(k) = "shuffle" /\ stage[k].done))'
  BY <1>1, <1>2 DEF Finished
<1>4. QED
  BY <1>3 DEF Dead

LEMMA Untold ==
  ASSUME NEW k, NEW item \in Item, Single(item) \/ Grouping(Chain, k),
         Tell(k, item), Closes(k, item)
  PROVE  Tells(k)
BY DEF Tells

(* What the invariant says of an adapter, and of what it is told.            *)
LEMMA AtHand ==
  ASSUME ChainIInv, NEW k \in DOMAIN Chain
  PROVE  /\ stage[k] \in Ledger /\ stage[k].held \in Seq(Nat) /\ stage[k].n \in Nat
         /\ stage[k].done \in BOOLEAN /\ Limits(k, stage[k].held)
         /\ answer \in Item /\ answer.ids \in Seq(Nat) /\ answer.err \in BOOLEAN
<1>1. stage[k] \in Ledger /\ answer \in Item /\ Limits(k, stage[k].held)
  BY DEF ChainIInv, ChainTyped
<1>2. QED
  BY <1>1 DEF Ledger, Item

LEMMA PassesOn ==
  ASSUME ChainIInv, NEW k \in DOMAIN Chain, Told(k), Kind(k) # "unbatch"
  PROVE  Single(answer) \/ Grouping(Chain, k)
<1>1. Single(answer) \/ Grouping(Chain, k - 1)
  BY DEF ChainIInv, Singles, Told
<1>2. plan \in Plans
  BY DEF ChainIInv, ChainTyped
<1>3. QED
  BY <1>1, <1>2, GroupingIs

LEMMA NoGroupComes ==
  ASSUME ChainIInv, NEW k \in DOMAIN Chain, Told(k), Kind(k) \in {"listed", "shuffle"}
  PROVE  Single(answer)
<1>1. Single(answer) \/ Grouping(Chain, k - 1)
  BY DEF ChainIInv, Singles, Told
<1>2. plan \in Plans
  BY DEF ChainIInv, ChainTyped
<1>3. ~Grouping(Chain, k - 1)
  BY <1>2, SizesAre
<1>4. QED
  BY <1>1, <1>3

LEMMA Free ==
  ASSUME NEW k, NEW held, Kind(k) \notin {"listed", "shuffle"}
  PROVE  Limits(k, held)
BY DEF Limits

(* A buffer gives one of its samples away.                                   *)
LEMMA Picks ==
  ASSUME ChainIInv, NEW k \in DOMAIN Chain, plan' = plan,
         NEW buffer \in Seq(Nat), NEW done \in BOOLEAN, Pick(k, buffer, done),
         Kind(k) = "shuffle", Len(buffer) <= Chain[k].size,
         Asked(k) \/ Told(k), (Asked(k) /\ Dead(k)) \/ (Told(k) /\ answer = End) => done
  PROVE  Placed(k) /\ Tells(k)
<1>1. PICK i \in DOMAIN buffer : /\ Tell(k, Ok(<<buffer[i]>>))
                                 /\ Becomes(k, RemoveAt(buffer, i), 0, done)
  BY DEF Pick
<1>2. RemoveAt(buffer, i) \in Seq(Nat) /\ Len(RemoveAt(buffer, i)) = Len(buffer) - 1
  BY RemoveAtIs
<1>3. Chain[k].size \in Nat /\ Len(buffer) \in Nat
  BY SizesAre DEF ChainIInv, ChainTyped
<1>4. Limits(k, RemoveAt(buffer, i))
  BY <1>2, <1>3 DEF Limits
<1>5. Placed(k)
  BY <1>1, <1>2, <1>4, Places
<1> DEFINE item == Ok(<<buffer[i]>>)
<1>6. item \in Item /\ Single(item)
  <2>1. <<buffer[i]>> \in Seq(Nat) /\ Len(<<buffer[i]>>) <= 1
    OBVIOUS
  <2>2. QED
    BY <2>1, ItemsAre
<1>7. done => Dead(k)'
  BY <1>1, Dies DEF ChainIInv, ChainTyped
<1>8. Closes(k, item)
  BY <1>7 DEF Closes
<1> HIDE DEF item
<1>9. Tell(k, item)
  BY <1>1 DEF item
<1>10. QED
  BY <1>5, <1>6, <1>8, <1>9, Untold

-----------------------------------------------------------------------------
(* Each thing an adapter does is such a step.                                *)
LEMMA RefuseSteps ==
  ASSUME ChainIInv, NEW k \in DOMAIN Chain, Refuse(k) PROVE Steps(k)
<1>1. Closes(k, End)
  BY DEF Refuse, Closes
<1>2. Tells(k)
  BY <1>1, EndIs, Untold DEF Refuse
<1>3. QED
  BY <1>2 DEF Refuse, Steps, Placed

LEMMA SplitSteps ==
  ASSUME ChainIInv, NEW k \in DOMAIN Chain, Split(k) PROVE Steps(k)
<1>1. stage[k].held \in Seq(Nat) /\ stage[k].held # <<>>
  BY AtHand DEF Split
<1>2. /\ Tail(stage[k].held) \in Seq(Nat)
      /\ <<Head(stage[k].held)>> \in Seq(Nat) /\ Len(<<Head(stage[k].held)>>) <= 1
  BY <1>1
<1>3. Placed(k)
  BY <1>2, Free, Places DEF Split
<1>4. Ok(<<Head(stage[k].held)>>) \in Item /\ Single(Ok(<<Head(stage[k].held)>>))
  BY <1>2, ItemsAre
<1>5. Asked(k) /\ ~Dead(k)
  BY DEF Split, Dead, Finished
<1>6. Closes(k, Ok(<<Head(stage[k].held)>>))
  BY <1>5 DEF Closes
<1>7. Tell(k, Ok(<<Head(stage[k].held)>>))
  BY DEF Split
<1>8. Tells(k)
  BY <1>4, <1>6, <1>7, Untold
<1>9. QED
  BY <1>3, <1>8 DEF Split, Steps

LEMMA DrainSteps ==
  ASSUME ChainIInv, NEW k \in DOMAIN Chain, Drain(k) PROVE Steps(k)
<1>1. UNCHANGED <<plan, sources>> /\ Asked(k) /\ Kind(k) = "shuffle"
  BY DEF Drain
<1>2. CASE stage[k].held = <<>>
  <2>1. Tell(k, End) /\ stage' = stage
    BY <1>2 DEF Drain
  <2>2. Closes(k, End)
    BY <1>1 DEF Closes
  <2>3. Tells(k)
    BY <2>1, <2>2, EndIs, Untold
  <2>4. QED
    BY <1>1, <2>1, <2>3 DEF Steps, Placed
<1>3. CASE stage[k].held # <<>>
  <2>1. Pick(k, stage[k].held, TRUE)
    BY <1>3 DEF Drain
  <2>2. stage[k].held \in Seq(Nat) /\ Limits(k, stage[k].held) /\ Chain[k].size \in Nat
    BY AtHand, SizesAre DEF ChainIInv, ChainTyped
  <2>3. Len(stage[k].held) <= Chain[k].size
    BY <1>1, <2>2 DEF Limits
  <2>4. plan' = plan
    BY <1>1
  <2>5. Placed(k) /\ Tells(k)
    BY <1>1, <2>1, <2>2, <2>3, <2>4, Picks
  <2>6. QED
    BY <1>1, <2>5 DEF Steps
<1>4. QED
  BY <1>2, <1>3

LEMMA ForwardSteps ==
  ASSUME ChainIInv, NEW k \in DOMAIN Chain, Forward(k) PROVE Steps(k)
<1>1. Asked(k) /\ ~Dead(k) /\ Ask(k - 1) /\ stage' = stage
  BY DEF Forward, Dead
<1>2. Asks(k)
  BY <1>1 DEF Asks
<1>3. QED
  BY <1>1, <1>2 DEF Forward, Steps, Placed

LEMMA PassErrorSteps ==
  ASSUME ChainIInv, NEW k \in DOMAIN Chain, PassError(k) PROVE Steps(k)
<1> DEFINE held == IF Kind(k) = "listed" THEN <<>> ELSE stage[k].held
           n == IF Kind(k) = "nonEmpty" THEN stage[k].n + 1 ELSE 0
<1>1. /\ stage[k].held \in Seq(Nat) /\ stage[k].n \in Nat /\ stage[k].done \in BOOLEAN
      /\ Limits(k, stage[k].held)
  BY AtHand
<1>2. held \in Seq(Nat) /\ n \in Nat
  BY <1>1
<1>3. Limits(k, held)
  <2>1. CASE Kind(k) = "listed"
    <3>1. Chain[k].size > 0
      BY <2>1, SizesAre DEF ChainIInv, ChainTyped
    <3>2. held = <<>> /\ Len(<<>>) = 0
      BY <2>1
    <3>3. QED
      BY <3>1, <3>2 DEF Limits
  <2>2. CASE Kind(k) # "listed"
    BY <1>1, <2>2
  <2>3. QED
    BY <2>1, <2>2
<1>4. Becomes(k, held, n, stage[k].done)
  BY DEF PassError
<1> HIDE DEF held, n
<1>5. Placed(k)
  BY <1>1, <1>2, <1>3, <1>4, Places
<1>6. answer \in Item /\ Single(answer) /\ answer # End /\ Told(k)
  BY AtHand, EndIs DEF PassError, Single
<1>7. Closes(k, answer)
  BY <1>6 DEF Closes
<1>8. Tells(k)
  BY <1>6, <1>7, Untold DEF PassError
<1>9. QED
  BY <1>5, <1>8 DEF PassError, Steps

LEMMA PassEndSteps ==
  ASSUME ChainIInv, NEW k \in DOMAIN Chain, PassEnd(k) PROVE Steps(k)
<1>1. Told(k) /\ Closes(k, End)
  BY DEF PassEnd, Closes
<1>2. Tells(k)
  BY <1>1, EndIs, Untold DEF PassEnd
<1>3. QED
  BY <1>2 DEF PassEnd, Steps, Placed

LEMMA EmptyFits ==
  ASSUME ChainIInv, NEW k \in DOMAIN Chain
  PROVE  <<>> \in Seq(Nat) /\ Limits(k, <<>>)
<1>1. Kind(k) \in {"listed", "shuffle"} => Chain[k].size > 0
  BY SizesAre DEF ChainIInv, ChainTyped
<1>2. QED
  BY <1>1 DEF Limits

LEMMA ReportEmptySteps ==
  ASSUME ChainIInv, NEW k \in DOMAIN Chain, ReportEmpty(k) PROVE Steps(k)
<1>1. <<>> \in Seq(Nat) /\ Limits(k, <<>>)
  BY EmptyFits
<1>2. Placed(k)
  <2>1. Becomes(k, <<>>, 0, TRUE)
    BY DEF ReportEmpty
  <2>2. QED
    BY <1>1, <2>1, Places
<1>3. Err(<<>>) \in Item /\ Single(Err(<<>>))
  BY <1>1, ItemsAre
<1>4. plan.async => Dead(k)'
  BY Dies DEF ReportEmpty, ChainIInv, ChainTyped
<1>5. Closes(k, Err(<<>>))
  BY <1>4 DEF ReportEmpty, Closes
<1>6. Tells(k)
  BY <1>3, <1>5, Untold DEF ReportEmpty
<1>7. QED
  BY <1>2, <1>6 DEF ReportEmpty, Steps

LEMMA EndGroupSteps ==
  ASSUME ChainIInv, NEW k \in DOMAIN Chain, EndGroup(k) PROVE Steps(k)
<1> DEFINE group == stage[k].held
           item == IF Complete(Chain[k], group) THEN Ok(group) ELSE End
<1>1. Told(k) /\ Kind(k) = "listed" /\ Tell(k, item) /\ Becomes(k, <<>>, 0, plan.async)
      /\ UNCHANGED <<plan, sources>>
  BY DEF EndGroup
<1>2. plan.async \in BOOLEAN
  <2>1. plan \in Plan
    BY PlanIs DEF ChainIInv, ChainTyped
  <2>2. QED
    BY <2>1 DEF Plan
<1>3. Placed(k)
  BY <1>1, <1>2, EmptyFits, Places
<1>4. item \in Item
  <2>1. group \in Seq(Nat)
    BY AtHand
  <2>2. QED
    BY <2>1, ItemsAre, EndIs
<1>5. Grouping(Chain, k)
  BY <1>1, GroupingIs DEF ChainIInv, ChainTyped
<1>6. plan.async => Dead(k)'
  <2>1. ASSUME plan.async PROVE Becomes(k, <<>>, 0, TRUE)
    BY <1>1, <1>2, <2>1
  <2>2. QED
    BY <1>1, <2>1, Dies DEF ChainIInv, ChainTyped
<1> HIDE DEF item
<1>7. Closes(k, item)
  BY <1>1, <1>6 DEF Closes
<1>8. Tells(k)
  BY <1>1, <1>4, <1>5, <1>7, Untold
<1>9. QED
  BY <1>1, <1>3, <1>8 DEF Steps

LEMMA EndBufferSteps ==
  ASSUME ChainIInv, NEW k \in DOMAIN Chain, EndBuffer(k) PROVE Steps(k)
<1>1. UNCHANGED <<plan, sources>> /\ Told(k) /\ Kind(k) = "shuffle"
  BY DEF EndBuffer
<1>2. CASE stage[k].held = <<>>
  <2>1. Tell(k, End) /\ Becomes(k, <<>>, 0, TRUE)
    BY <1>2 DEF EndBuffer
  <2>2. Closes(k, End)
    BY <1>1 DEF Closes
  <2>3. Tells(k)
    BY <2>1, <2>2, EndIs, Untold
  <2>4. Placed(k)
    BY <2>1, EmptyFits, Places
  <2>5. QED
    BY <1>1, <2>3, <2>4 DEF Steps
<1>3. CASE stage[k].held # <<>>
  <2>1. Pick(k, stage[k].held, TRUE)
    BY <1>3 DEF EndBuffer
  <2>2. stage[k].held \in Seq(Nat) /\ Limits(k, stage[k].held) /\ Chain[k].size \in Nat
    BY AtHand, SizesAre DEF ChainIInv, ChainTyped
  <2>3. Len(stage[k].held) <= Chain[k].size
    BY <1>1, <2>2 DEF Limits
  <2>4. plan' = plan
    BY <1>1
  <2>5. Placed(k) /\ Tells(k)
    BY <1>1, <2>1, <2>2, <2>3, <2>4, Picks
  <2>6. QED
    BY <1>1, <2>5 DEF Steps
<1>4. QED
  BY <1>2, <1>3

(* One told an item may tell what it likes, or ask again.                    *)
LEMMA Answers ==
  ASSUME NEW k, Told(k), answer # End, NEW item \in Item,
         Single(item) \/ Grouping(Chain, k), Tell(k, item)
  PROVE  Tells(k)
<1>1. Closes(k, item)
  BY DEF Closes
<1>2. QED
  BY <1>1, Untold

LEMMA KeepSteps ==
  ASSUME ChainIInv, NEW k \in DOMAIN Chain, Keep(k) PROVE Steps(k)
<1>1. Told(k) /\ answer # End /\ Kind(k) = "map" /\ Tell(k, answer) /\ answer \in Item
  BY AtHand DEF Keep, Sample
<1>2. Single(answer) \/ Grouping(Chain, k)
  BY <1>1, PassesOn
<1>3. Tells(k)
  BY <1>1, <1>2, Answers
<1>4. QED
  BY <1>3 DEF Keep, Steps, Placed

LEMMA PassOverSteps ==
  ASSUME ChainIInv, NEW k \in DOMAIN Chain, PassOver(k) PROVE Steps(k)
<1>1. Asks(k)
  BY DEF PassOver, Sample, Asks
<1>2. QED
  BY <1>1 DEF PassOver, Steps, Placed

LEMMA FailSteps ==
  ASSUME ChainIInv, NEW k \in DOMAIN Chain, Fail(k) PROVE Steps(k)
<1>1. /\ Told(k) /\ answer # End /\ Kind(k) = "map" /\ UNCHANGED <<plan, sources>>
      /\ answer \in Item /\ answer.ids \in Seq(Nat)
  BY AtHand DEF Fail, Sample
<1>2. Chain[k].handler \in {"continue", "stop", "reraise"}
  <2>1. Chain[k] \in Stage
    BY PlanIs DEF ChainIInv, ChainTyped
  <2>2. QED
    BY <2>1 DEF Stage
<1>3. CASE Chain[k].handler = "continue"
  <2>1. Ask(k) /\ stage' = stage
    BY <1>3 DEF Fail
  <2>2. QED
    BY <1>1, <2>1 DEF Steps, Placed, Asks
<1>4. CASE Chain[k].handler = "reraise"
  <2>1. Tell(k, Err(answer.ids)) /\ stage' = stage
    BY <1>4 DEF Fail
  <2>2. Err(answer.ids) \in Item /\ Single(Err(answer.ids))
    BY <1>1, ItemsAre
  <2>3. Tells(k)
    BY <1>1, <2>1, <2>2, Answers
  <2>4. QED
    BY <1>1, <2>1, <2>3 DEF Steps, Placed
<1>5. CASE Chain[k].handler = "stop"
  <2>1. Tell(k, End) /\ Becomes(k, <<>>, 0, TRUE)
    BY <1>5 DEF Fail
  <2>2. Tells(k)
    BY <1>1, <2>1, EndIs, Answers
  <2>3. Placed(k)
    BY <2>1, EmptyFits, Places
  <2>4. QED
    BY <1>1, <2>2, <2>3 DEF Steps
<1>6. QED
  BY <1>2, <1>3, <1>4, <1>5

(* A group or a buffer grows by one sample.                                  *)
LEMMA Grows ==
  ASSUME ChainIInv, NEW k \in DOMAIN Chain, Sample(k), Kind(k) \in {"listed", "shuffle"}
  PROVE  /\ stage[k].held \o answer.ids \in Seq(Nat)
         /\ Len(stage[k].held \o answer.ids) \in Nat
         /\ Len(stage[k].held \o answer.ids) <= Chain[k].size
<1>1. /\ stage[k].held \in Seq(Nat) /\ Limits(k, stage[k].held) /\ answer.ids \in Seq(Nat)
      /\ Chain[k].size \in Nat
  BY AtHand, SizesAre DEF ChainIInv, ChainTyped
<1>2. Single(answer)
  BY NoGroupComes DEF Sample
<1>3. Len(answer.ids) <= 1
  BY <1>2 DEF Single, Sample
<1>4. Len(stage[k].held) < Chain[k].size
  BY <1>1 DEF Limits
<1> DEFINE a == stage[k].held
           b == answer.ids
<1>5. a \in Seq(Nat) /\ b \in Seq(Nat)
  BY <1>1
<1> HIDE DEF a, b
<1>6. a \o b \in Seq(Nat) /\ Len(a \o b) = Len(a) + Len(b) /\ Len(a) \in Nat /\ Len(b) \in Nat
  BY <1>5
<1>7. Len(a) < Chain[k].size /\ Len(b) <= 1
  BY <1>3, <1>4 DEF a, b
<1>8. Len(a \o b) <= Chain[k].size /\ Len(a \o b) \in Nat
  BY <1>1, <1>6, <1>7
<1>9. QED
  BY <1>6, <1>8 DEF a, b

LEMMA GroupSteps ==
  ASSUME ChainIInv, NEW k \in DOMAIN Chain, Group(k) PROVE Steps(k)
<1> DEFINE group == stage[k].held \o answer.ids
<1>1. Sample(k) /\ Told(k) /\ answer # End /\ Kind(k) = "listed" /\ UNCHANGED <<plan, sources>>
  BY DEF Group, Sample
<1>2. group \in Seq(Nat) /\ Len(group) \in Nat /\ Len(group) <= Chain[k].size
  BY <1>1, Grows
<1>3. \/ Len(group) = Chain[k].size /\ Tell(k, Ok(group)) /\ Becomes(k, <<>>, 0, FALSE)
      \/ Len(group) # Chain[k].size /\ Ask(k - 1) /\ Becomes(k, group, 0, FALSE)
  BY DEF Group
<1> HIDE DEF group
<1>4. CASE Len(group) = Chain[k].size /\ Tell(k, Ok(group)) /\ Becomes(k, <<>>, 0, FALSE)
  <2>1. Placed(k)
    BY <1>4, EmptyFits, Places
  <2>2. Ok(group) \in Item
    BY <1>2, ItemsAre
  <2>3. Grouping(Chain, k)
    BY <1>1, GroupingIs DEF ChainIInv, ChainTyped
  <2>4. Tells(k)
    BY <1>1, <1>4, <2>2, <2>3, Answers
  <2>5. QED
    BY <1>1, <2>1, <2>4 DEF Steps
<1>5. CASE Len(group) # Chain[k].size /\ Ask(k - 1) /\ Becomes(k, group, 0, FALSE)
  <2>1. Chain[k].size \in Nat
    BY SizesAre DEF ChainIInv, ChainTyped
  <2>2. Limits(k, group)
    BY <1>2, <1>5, <2>1 DEF Limits
  <2>3. Placed(k)
    BY <1>2, <1>5, <2>2, Places
  <2>4. QED
    BY <1>1, <1>5, <2>3 DEF Steps, Asks
<1>6. QED
  BY <1>3, <1>4, <1>5

LEMMA BufferSteps ==
  ASSUME ChainIInv, NEW k \in DOMAIN Chain, Buffer(k) PROVE Steps(k)
<1> DEFINE buffer == stage[k].held \o answer.ids
           s == Chain[k]
<1>1. Sample(k) /\ Told(k) /\ answer # End /\ Kind(k) = "shuffle" /\ UNCHANGED <<plan, sources>>
  BY DEF Buffer, Sample
<1>2. buffer \in Seq(Nat) /\ Len(buffer) \in Nat /\ Len(buffer) <= s.size
  BY <1>1, Grows
<1>3. s.size \in Nat /\ s.every \in Nat /\ s.every <= s.size
  BY <1>1, SizesAre DEF ChainIInv, ChainTyped
<1>4. \/ Len(buffer) < s.size /\ Ask(k - 1) /\ Becomes(k, buffer, 1, FALSE)
      \/ Pick(k, buffer, FALSE)
      \/ ~(Len(buffer) >= s.every) /\ Ask(k - 1) /\ Becomes(k, buffer, 0, FALSE)
  BY DEF Buffer
<1> HIDE DEF buffer, s
<1>5. ASSUME NEW n \in {0, 1}, Len(buffer) < s.size, Ask(k - 1), Becomes(k, buffer, n, FALSE)
      PROVE  Steps(k)
  <2>1. Limits(k, buffer)
    BY <1>5 DEF Limits, s
  <2>2. n \in Nat
    BY <1>5
  <2>3. Placed(k)
    BY <1>2, <1>5, <2>1, <2>2, Places
  <2>4. QED
    BY <1>1, <1>5, <2>3 DEF Steps, Asks
<1>6. CASE Pick(k, buffer, FALSE)
  <2>1. plan' = plan /\ ~Asked(k)
    BY <1>1 DEF Told, Asked
  <2>2. Len(buffer) <= Chain[k].size
    BY <1>2 DEF s
  <2>3. Placed(k) /\ Tells(k)
    BY <1>1, <1>2, <1>6, <2>1, <2>2, Picks
  <2>4. QED
    BY <1>1, <2>3 DEF Steps
<1>7. ~(Len(buffer) >= s.every) => Len(buffer) < s.size
  BY <1>2, <1>3
<1>8. QED
  BY <1>4, <1>5, <1>6, <1>7

LEMMA UnpackSteps ==
  ASSUME ChainIInv, NEW k \in DOMAIN Chain, Unpack(k) PROVE Steps(k)
<1>1. Asks(k)
  BY DEF Unpack, Sample, Asks
<1>2. answer.ids \in Seq(Nat) /\ Limits(k, answer.ids)
  BY AtHand, Free DEF Unpack
<1>3. Placed(k)
  BY <1>2, Places DEF Unpack
<1>4. QED
  BY <1>1, <1>3 DEF Unpack, Steps

LEMMA CountSteps ==
  ASSUME ChainIInv, NEW k \in DOMAIN Chain, Count(k) PROVE Steps(k)
<1>1. Told(k) /\ answer # End /\ Kind(k) = "nonEmpty" /\ Tell(k, answer) /\ answer \in Item
  BY AtHand DEF Count, Sample
<1>2. Single(answer) \/ Grouping(Chain, k)
  BY <1>1, PassesOn
<1>3. Tells(k)
  BY <1>1, <1>2, Answers
<1>4. stage[k].n + 1 \in Nat /\ stage[k].done \in BOOLEAN
  BY AtHand
<1>5. Placed(k)
  BY <1>4, EmptyFits, Places DEF Count
<1>6. QED
  BY <1>3, <1>5 DEF Count, Steps

LEMMA SliceItemSteps ==
  ASSUME ChainIInv, NEW k \in DOMAIN Chain, SliceItem(k) PROVE Steps(k)
<1>1. Told(k) /\ answer # End /\ Kind(k) = "slice" /\ answer \in Item
  BY AtHand DEF SliceItem
<1>2. Single(answer) \/ Grouping(Chain, k)
  BY <1>1, PassesOn
<1>3. Tell(k, answer) \/ Ask(k)
  BY DEF SliceItem
<1>4. Tells(k) \/ Asks(k)
  BY <1>1, <1>2, <1>3, Answers DEF Asks
<1>5. stage[k].n + 1 \in Nat
  BY AtHand
<1>6. Placed(k)
  BY <1>5, EmptyFits, Places DEF SliceItem
<1>7. QED
  BY <1>4, <1>6 DEF SliceItem, Steps

LEMMA AdapterSteps ==
  ASSUME ChainIInv, NEW k \in DOMAIN Chain, Adapter(k)
  PROVE  Steps(k)
BY RefuseSteps, SplitSteps, DrainSteps, ForwardSteps, PassErrorSteps, PassEndSteps,
   ReportEmptySteps, EndGroupSteps, EndBufferSteps, KeepSteps, PassOverSteps, FailSteps,
   GroupSteps, BufferSteps, UnpackSteps, CountSteps, SliceItemSteps DEF Adapter

-----------------------------------------------------------------------------
(* An adapter's step keeps the invariant.                                    *)
LEMMA StepStage ==
  ASSUME ChainIInv, NEW k \in DOMAIN Chain, Placed(k)
  PROVE  /\ stage' \in [DOMAIN Chain -> Ledger]
         /\ \A j \in DOMAIN Chain : Limits(j, stage'[j].held)
         /\ \A j \in DOMAIN Chain : j # k => stage'[j] = stage[j]
<1>1. stage \in [DOMAIN Chain -> Ledger] /\ \A j \in DOMAIN Chain : Limits(j, stage[j].held)
  BY DEF ChainIInv, ChainTyped
<1>2. CASE stage' = stage
  BY <1>1, <1>2
<1>3. CASE \E l \in Ledger : Limits(k, l.held) /\ stage' = [stage EXCEPT ![k] = l]
  <2>1. PICK l \in Ledger : Limits(k, l.held) /\ stage' = [stage EXCEPT ![k] = l]
    BY <1>3
  <2>2. stage' \in [DOMAIN Chain -> Ledger]
    BY <1>1, <2>1
  <2>3. \A j \in DOMAIN Chain : stage'[j] = IF j = k THEN l ELSE stage[j]
    BY <1>1, <2>1
  <2>4. \A j \in DOMAIN Chain : Limits(j, stage'[j].held)
    BY <1>1, <2>1, <2>3
  <2>5. QED
    BY <2>2, <2>3, <2>4
<1>4. QED
  BY <1>2, <1>3 DEF Placed

LEMMA StepTyped ==
  ASSUME ChainIInv, NEW k \in DOMAIN Chain, Steps(k)
  PROVE  ChainTyped'
<1>1. /\ plan \in Plans /\ Len(Chain) \in Nat /\ k \in 1..Len(Chain) /\ plan' = plan
      /\ UNCHANGED sources /\ Placed(k)
  BY PlanIs DEF ChainIInv, ChainTyped, Steps
<1>2. Chain' = Chain
  BY <1>1 DEF Chain
<1>3. /\ mode' \in {"idle", "ask", "tell", "ended"} /\ at' \in 0..Len(Chain)
      /\ answer' \in Item /\ out' = out /\ over' \subseteq 0..Len(Chain)
  <2>1. CASE Asks(k)
    <3>1. PICK j \in {k, k - 1} : Ask(j)
      BY <2>1 DEF Asks
    <3>2. j \in 0..Len(Chain)
      BY <1>1, <3>1
    <3>3. QED
      BY <3>1, <3>2 DEF Ask, ChainIInv, ChainTyped
  <2>2. CASE Tells(k)
    <3>1. PICK item \in Item : Tell(k, item)
      BY <2>2 DEF Tells
    <3>2. k \in 0..Len(Chain)
      BY <1>1
    <3>3. QED
      BY <3>1, <3>2 DEF Tell, ChainIInv, ChainTyped
  <2>3. QED
    BY <2>1, <2>2 DEF Steps
<1>4. stage' \in [DOMAIN Chain' -> Ledger]
  BY <1>1, <1>2, StepStage
<1>5. ASSUME NEW j \in DOMAIN Chain'
      PROVE  (Kind(j) \in {"listed", "shuffle"} => Len(stage[j].held) < Chain[j].size)'
  <2>1. Limits(j, stage'[j].held)
    BY <1>1, <1>2, StepStage
  <2>2. Kind(j)' = Kind(j)
    BY <1>2 DEF Kind
  <2>3. QED
    BY <1>2, <2>1, <2>2 DEF Limits
<1>6. \A j \in DOMAIN Chain' : Limits(j, stage[j].held)'
  BY <1>5 DEF Limits
<1>7. /\ taken' \in Seq(Item) /\ out' \in Seq(Item) /\ left' \in Seq(Seq(Item))
      /\ weights' \in Seq({0, 1}) /\ Len(left') = Len(weights') /\ turn' \in Nat
  BY <1>1, <1>3 DEF sources, ChainIInv, ChainTyped
<1>8. QED
  BY <1>1, <1>2, <1>3, <1>4, <1>6, <1>7 DEF ChainTyped

LEMMA StepSingles ==
  ASSUME ChainIInv, NEW k \in DOMAIN Chain, Steps(k)
  PROVE  Singles'
<1>1. left' = left /\ Chain' = Chain
  BY DEF Steps, sources, Chain
<1>2. mode' = "tell" => Single(answer') \/ Grouping(Chain', at')
  <2>1. CASE Asks(k)
    <3>1. mode' = "ask"
      BY <2>1 DEF Asks, Ask
    <3>2. QED
      BY <3>1
  <2>2. CASE Tells(k)
    BY <1>1, <2>2 DEF Tells, Tell
  <2>3. QED
    BY <2>1, <2>2 DEF Steps
<1>3. \A i \in DOMAIN left : \A j \in DOMAIN left[i] : left[i][j].err \/ Len(left[i][j].ids) = 1
  BY DEF ChainIInv, Singles
<1>4. QED
  BY <1>1, <1>2, <1>3 DEF Singles

(* What adapters other than the one that steps have come to stays so.        *)
LEMMA OthersStay ==
  ASSUME ChainIInv, NEW k \in DOMAIN Chain, Steps(k), NEW j \in DOMAIN Chain, j # k, Dead(j)
  PROVE  Dead(j)'
<1>1. stage'[j] = stage[j]
  BY StepStage DEF Steps
<1>2. plan' = plan /\ Chain' = Chain /\ Kind(j)' = Kind(j)
  BY DEF Steps, Chain, Kind
<1>3. Finished(j)' = Finished(j)
  BY <1>1, <1>2 DEF Finished
<1>4. QED
  BY <1>1, <1>2, <1>3 DEF Dead

(* Three cases: it asks the one below, it asks on, or it tells.              *)
LEMMA StepQuieted ==
  ASSUME ChainIInv, NEW k \in DOMAIN Chain, Steps(k), plan.async
  PROVE  Quieted'
<1>1. /\ Quieted /\ plan \in Plans /\ Len(Chain) \in Nat /\ k \in 1..Len(Chain)
      /\ plan' = plan /\ Chain' = Chain /\ over \subseteq 0..Len(Chain)
      /\ DOMAIN Chain = 1..Len(Chain) /\ over \subseteq Nat
  BY PlanIs DEF ChainIInv, ChainTyped, Steps, Chain
<1>2. k \notin over
  BY <1>1 DEF Quieted, Steps, Asks, Tells, Closes, Asked, Told
(* Those further down are as silent as before. *)
<1>3. ASSUME NEW i \in over \ {0}, i + 1 < k, over \subseteq over'
      PROVE  Silent(i)'
  <2>1. Silent(i) /\ i + 1 \in DOMAIN Chain /\ i < Len(Chain) /\ i # k - 1 /\ i # k /\ i \in Nat
    BY <1>1, <1>3 DEF Quieted
  <2>2. ~(mode = "tell" /\ at = i)
    BY <1>1, <2>1 DEF Steps, Asks, Tells, Closes, Asked, Told
  <2>3. mode # "ended"
    BY DEF Steps, Asks, Tells, Closes, Asked, Told
  <2>4. i + 1 \in over \/ Dead(i + 1)
    BY <2>1, <2>2, <2>3 DEF Silent
  <2>5. Dead(i + 1) => Dead(i + 1)'
    BY <1>3, <2>1, OthersStay
  <2>6. QED
    BY <1>1, <1>3, <2>1, <2>4, <2>5 DEF Silent
<1>4. \A i \in over : i < k \/ i = k \/ i > k
  BY <1>1
<1>5. ASSUME NEW i \in over PROVE i < k
  <2>1. \A j \in DOMAIN Chain : j >= k => j \notin over
    BY <1>1, <1>2 DEF Quieted, Steps, Asks, Tells, Closes, Asked, Told
  <2>2. QED
    BY <1>1, <1>5, <2>1
<1>6. CASE Asked(k) /\ ~Dead(k) /\ Ask(k - 1) /\ stage' = stage
  <2>1. ASSUME NEW i \in over \ {0} PROVE i + 1 < k
    <3>1. CASE i = k - 1
      <4>1. Silent(i)
        BY <1>1, <2>1 DEF Quieted
      <4>2. i + 1 = k /\ i # Len(Chain) /\ mode = "ask"
        BY <1>1, <1>6, <3>1 DEF Asked
      <4>3. QED
        BY <1>2, <1>6, <4>1, <4>2 DEF Silent
    <3>2. QED
      BY <1>1, <1>5, <2>1, <3>1
  <2>2. over' = over /\ mode' = "ask" /\ at' = k - 1
    BY <1>6 DEF Ask
  <2>3. \A i \in over' \ {0} : Silent(i)'
    BY <1>3, <2>1, <2>2
  <2>4. \A j \in DOMAIN Chain : j >= k - 1 => j \notin over
    BY <1>1, <2>1
  <2>5. QED
    BY <1>1, <2>2, <2>3, <2>4 DEF Quieted
<1>7. CASE Told(k) /\ answer # End /\ (Ask(k) \/ Ask(k - 1))
  <2>1. ASSUME NEW i \in over \ {0} PROVE i + 1 < k
    <3>1. i # k - 1
      BY <1>1, <1>7, <2>1 DEF Quieted, Told
    <3>2. QED
      BY <1>1, <1>5, <2>1, <3>1
  <2>2. over' = over /\ mode' = "ask" /\ at' >= k - 1
    BY <1>1, <1>7 DEF Ask
  <2>3. \A i \in over' \ {0} : Silent(i)'
    BY <1>3, <2>1, <2>2
  <2>4. at' \in Nat
    BY <1>1, <1>7 DEF Ask
  <2>5. \A j \in DOMAIN Chain : j >= at' => j \notin over
    BY <1>1, <2>1, <2>2, <2>4
  <2>6. QED
    BY <1>1, <2>2, <2>3, <2>5 DEF Quieted
<1>8. CASE Tells(k)
  <2>1. PICK item \in Item : Tell(k, item) /\ Closes(k, item)
    BY <1>8 DEF Tells
  <2>2. /\ mode' = "tell" /\ at' = k /\ answer' = item
        /\ over' = IF item = End THEN over \cup {k} ELSE over
    BY <2>1 DEF Tell
  <2>3. \A j \in DOMAIN Chain : j > k => j \notin over'
    BY <1>1, <1>5, <2>2
  <2>4. answer' # End => k \notin over'
    BY <1>2, <2>2
  <2>5. ASSUME NEW i \in over' \ {0} PROVE Silent(i)'
    <3>1. CASE i = k
      <4>1. item = End
        BY <1>2, <2>2, <2>5, <3>1
      <4>2. QED
        BY <2>2, <3>1, <4>1 DEF Silent
    <3>2. CASE i # k
      <4>1. i \in over \ {0} /\ over \subseteq over'
        BY <2>2, <2>5, <3>2
      <4>2. CASE i + 1 < k
        BY <1>3, <4>1, <4>2
      <4>3. CASE i = k - 1
        <5>1. Silent(i) /\ i + 1 = k /\ i < Len(Chain) /\ i # Len(Chain)
          BY <1>1, <4>1, <4>3 DEF Quieted
        <5>2. Asked(k) => Dead(k)
          BY <1>2, <5>1 DEF Silent, Asked
        <5>3. Told(k) => answer = End
          BY <1>1, <4>1, <4>3 DEF Quieted, Told
        <5>4. item = End \/ Dead(k)'
          BY <2>1, <5>2, <5>3 DEF Closes
        <5>5. k \in over' \/ Dead(k)'
          BY <2>2, <5>4
        <5>6. QED
          BY <1>1, <5>1, <5>5 DEF Silent
      <4>4. QED
        BY <1>1, <1>5, <4>1, <4>2, <4>3
    <3>3. QED
      BY <3>1, <3>2
  <2>6. QED
    BY <1>1, <2>2, <2>3, <2>4, <2>5 DEF Quieted
<1>9. QED
  BY <1>6, <1>7, <1>8 DEF Steps, Asks

-----------------------------------------------------------------------------
(* The consumer's steps and those of the datasets.                           *)
LEMMA DemandKeeps ==
  ASSUME ChainIInv, Demand PROVE ChainIInv'
<1>1. /\ plan \in Plans /\ Len(Chain) \in Nat /\ DOMAIN Chain = 1..Len(Chain)
      /\ plan' = plan /\ Chain' = Chain /\ UNCHANGED <<sources, stage, answer, over, out>>
      /\ mode = "idle" /\ mode' = "ask" /\ at' = Len(Chain)
  BY PlanIs DEF ChainIInv, ChainTyped, Demand, Ask, Chain
<1>2. \A k : Kind(k)' = Kind(k)
  BY <1>1 DEF Kind
<1>3. ChainTyped'
  BY <1>1, <1>2 DEF ChainIInv, ChainTyped, sources, Limits
<1>4. Singles'
  BY <1>1 DEF ChainIInv, Singles, sources
<1>5. ASSUME plan.async PROVE Quieted'
  <2>1. Quieted /\ over \subseteq 0..Len(Chain)
    BY <1>5 DEF ChainIInv, ChainTyped
  <2>2. \A j \in DOMAIN Chain : j >= Len(Chain) => j \notin over
    BY <1>1, <2>1 DEF Quieted
  <2>3. ASSUME NEW k \in over \ {0} PROVE Silent(k)'
    <3>1. k < Len(Chain) /\ (k + 1 \in over \/ Dead(k + 1))
      BY <1>1, <2>1, <2>3 DEF Quieted, Silent
    <3>2. Dead(k + 1)' = Dead(k + 1)
      BY <1>1, <1>2 DEF Dead, Finished
    <3>3. QED
      BY <1>1, <3>1, <3>2 DEF Silent
  <2>4. QED
    BY <1>1, <2>2, <2>3 DEF Quieted
<1>6. QED
  BY <1>1, <1>3, <1>4, <1>5 DEF ChainIInv

LEMMA HandOutKeeps ==
  ASSUME ChainIInv, HandOut PROVE ChainIInv'
<1>1. /\ plan \in Plans /\ Len(Chain) \in Nat /\ DOMAIN Chain = 1..Len(Chain)
      /\ plan' = plan /\ Chain' = Chain /\ UNCHANGED <<sources, stage, at, answer, over>>
      /\ mode = "tell" /\ at = Len(Chain)
      /\ mode' = IF answer = End THEN "ended" ELSE "idle"
  BY PlanIs DEF ChainIInv, ChainTyped, HandOut, Chain
<1>2. \A k : Kind(k)' = Kind(k)
  BY <1>1 DEF Kind
<1>3. out' \in Seq(Item)
  <2>1. out \in Seq(Item) /\ answer \in Item
    BY DEF ChainIInv, ChainTyped
  <2>2. out' = out \/ out' = Append(out, answer)
    BY DEF HandOut
  <2>3. QED
    BY <2>1, <2>2
<1>4. ChainTyped'
  BY <1>1, <1>2, <1>3 DEF ChainIInv, ChainTyped, sources, Limits
<1>5. Singles'
  BY <1>1 DEF ChainIInv, Singles, sources
<1>6. ASSUME plan.async PROVE Quieted'
  <2>1. Quieted /\ over \subseteq 0..Len(Chain)
    BY <1>6 DEF ChainIInv, ChainTyped
  <2>2. mode' = "idle" => Len(Chain) \notin over \ {0}
    BY <1>1, <2>1 DEF Quieted
  <2>3. ASSUME NEW k \in over \ {0} PROVE Silent(k)'
    <3>1. Silent(k)
      BY <2>1, <2>3 DEF Quieted
    <3>2. CASE k = Len(Chain)
      <4>1. answer = End
        BY <1>1, <2>1, <2>3, <3>2 DEF Quieted
      <4>2. QED
        BY <1>1, <3>2, <4>1 DEF Silent
    <3>3. CASE k # Len(Chain)
      <4>1. k < Len(Chain) /\ (k + 1 \in over \/ Dead(k + 1))
        BY <1>1, <3>1, <3>3 DEF Silent
      <4>2. Dead(k + 1)' = Dead(k + 1)
        BY <1>1, <1>2 DEF Dead, Finished
      <4>3. QED
        BY <1>1, <4>1, <4>2 DEF Silent
    <3>4. QED
      BY <3>2, <3>3
  <2>4. mode' # "ask" /\ mode' # "tell"
    BY <1>1
  <2>5. QED
    BY <1>1, <2>2, <2>3, <2>4 DEF Quieted
<1>7. QED
  BY <1>1, <1>4, <1>5, <1>6 DEF ChainIInv

(* A dataset is asked once nobody above has told its end.                    *)
LEMMA BelowAll ==
  ASSUME ChainIInv, plan.async, Asked(0)
  PROVE  over \subseteq {0}
<1>1. /\ Quieted /\ over \subseteq 0..Len(Chain) /\ Len(Chain) \in Nat
      /\ DOMAIN Chain = 1..Len(Chain)
  BY PlanIs DEF ChainIInv, ChainTyped
<1>2. \A j \in DOMAIN Chain : j \notin over
  BY <1>1 DEF Quieted, Asked
<1>3. QED
  BY <1>1, <1>2

(* The datasets go on, with what they have left, or tell an item.            *)
LEMMA SourcesKeep ==
  ASSUME ChainIInv, Asked(0), UNCHANGED <<plan, stage>>,
         left' \in Seq(Seq(Item)), weights' \in Seq({0, 1}), Len(left') = Len(weights'),
         turn' \in Nat, taken' \in Seq(Item),
         \A i \in DOMAIN left' : \A j \in DOMAIN left'[i] :
           left'[i][j].err \/ Len(left'[i][j].ids) = 1,
         \/ UNCHANGED <<mode, at, answer, over, out>>
         \/ \E item \in Item : Single(item) /\ Tell(0, item)
  PROVE  ChainIInv'
<1>1. /\ plan \in Plans /\ Len(Chain) \in Nat /\ DOMAIN Chain = 1..Len(Chain)
      /\ plan' = plan /\ Chain' = Chain /\ stage' = stage
      /\ over \subseteq 0..Len(Chain)
  BY PlanIs DEF ChainIInv, ChainTyped, Chain
<1>2. \A k : Kind(k)' = Kind(k)
  BY <1>1 DEF Kind
<1>3. /\ mode' \in {"ask", "tell"} /\ at' = 0 /\ answer' \in Item /\ out' = out
      /\ over' \subseteq over \cup {0} /\ (mode' = "tell" => Single(answer'))
      /\ (mode' = "ask" => over' = over)
  BY DEF Tell, Asked, ChainIInv, ChainTyped
<1>4. ChainTyped'
  <2>1. over' \subseteq 0..Len(Chain) /\ at' \in 0..Len(Chain)
    BY <1>1, <1>3
  <2>2. \A k \in DOMAIN Chain : Limits(k, stage[k].held)'
    BY <1>1, <1>2 DEF ChainIInv, ChainTyped, Limits
  <2>3. out \in Seq(Item) /\ stage \in [DOMAIN Chain -> Ledger]
    BY DEF ChainIInv, ChainTyped
  <2>4. QED
    BY <1>1, <1>3, <2>1, <2>2, <2>3 DEF ChainTyped
<1>5. Singles'
  BY <1>3 DEF Singles
<1>6. ASSUME plan.async PROVE Quieted'
  <2>1. over' \subseteq {0}
    BY <1>3, <1>6, BelowAll
  <2>2. \A j \in DOMAIN Chain : j \notin over'
    BY <1>1, <2>1
  <2>3. QED
    BY <1>1, <1>3, <2>1, <2>2 DEF Quieted
<1>7. QED
  BY <1>1, <1>4, <1>5, <1>6 DEF ChainIInv

LEMMA EligibleIs ==
  ASSUME ChainIInv, left # <<>>
  PROVE  /\ left \in Seq(Seq(Item)) /\ weights \in Seq({0, 1}) /\ Len(left) = Len(weights)
         /\ turn \in Nat /\ taken \in Seq(Item)
         /\ \A i \in DOMAIN left : \A j \in DOMAIN left[i] :
              left[i][j].err \/ Len(left[i][j].ids) = 1
         /\ Eligible \subseteq DOMAIN left /\ DOMAIN left \subseteq Nat \ {0}
         /\ DOMAIN weights = DOMAIN left
<1>1. /\ left \in Seq(Seq(Item)) /\ weights \in Seq({0, 1}) /\ Len(left) = Len(weights)
      /\ turn \in Nat /\ taken \in Seq(Item)
      /\ \A i \in DOMAIN left : \A j \in DOMAIN left[i] :
           left[i][j].err \/ Len(left[i][j].ids) = 1
  BY DEF ChainIInv, ChainTyped, Singles
<1> DEFINE n == Len(left)
<1>2. n \in Nat \ {0} /\ DOMAIN left = 1..n /\ DOMAIN weights = 1..n
  BY <1>1
<1> HIDE DEF n
<1>3. (turn % n) + 1 \in 1..n /\ n \in 1..n /\ 1..n \subseteq Nat \ {0}
  BY <1>1, <1>2
<1>4. Eligible \subseteq 1..n
  BY <1>2, <1>3 DEF Eligible, n
<1>5. QED
  BY <1>1, <1>2, <1>3, <1>4

LEMMA TakeKeeps ==
  ASSUME ChainIInv, Take PROVE ChainIInv'
<1>1. left # <<>> /\ Asked(0) /\ UNCHANGED <<plan, weights, stage>>
  BY DEF Take
<1>2. PICK i \in Eligible :
        /\ left[i] # <<>> /\ left' = [left EXCEPT ![i] = Tail(@)]
        /\ turn' = IF plan.mix = "turns" THEN i ELSE turn
        /\ taken' = Append(taken, Head(left[i])) /\ Tell(0, Head(left[i]))
  BY DEF Take
<1>3. /\ left \in Seq(Seq(Item)) /\ weights \in Seq({0, 1}) /\ Len(left) = Len(weights)
      /\ turn \in Nat /\ taken \in Seq(Item) /\ i \in DOMAIN left /\ i \in Nat
  BY <1>1, EligibleIs
<1>4. \A m \in DOMAIN left : \A j \in DOMAIN left[m] :
        left[m][j].err \/ Len(left[m][j].ids) = 1
  BY <1>1, EligibleIs
<1> DEFINE s == left[i]
<1>5. s \in Seq(Item) /\ s # <<>> /\ 1 \in DOMAIN s
  BY <1>2, <1>3
<1>6. Head(s) \in Item /\ Head(s) = s[1] /\ Tail(s) \in Seq(Item)
  BY <1>5
<1>7. \A j \in DOMAIN Tail(s) : j + 1 \in DOMAIN s /\ Tail(s)[j] = s[j + 1]
  BY <1>5
<1>8. Single(Head(s))
  <2>1. s[1].err \/ Len(s[1].ids) = 1
    BY <1>3, <1>4, <1>5
  <2>2. ASSUME NEW item \in Item, item.err \/ Len(item.ids) = 1 PROVE Single(item)
    <3>1. Len(item.ids) = 1 => Len(item.ids) <= 1
      OBVIOUS
    <3>2. QED
      BY <2>2, <3>1, Zenon DEF Single
  <2>3. Head(s) \in Item /\ (Head(s).err \/ Len(Head(s).ids) = 1)
    BY <1>6, <2>1, Zenon
  <2>4. QED
    BY <2>2, <2>3, Zenon
<1>9. \A j \in DOMAIN Tail(s) : Tail(s)[j].err \/ Len(Tail(s)[j].ids) = 1
  BY <1>3, <1>4, <1>7
<1>10. left' = [left EXCEPT ![i] = Tail(s)] /\ Tell(0, Head(s)) /\ taken' = Append(taken, Head(s))
  BY <1>2, <1>3
<1> HIDE DEF s
<1>11. left' \in Seq(Seq(Item)) /\ Len(left') = Len(left) /\ DOMAIN left' = DOMAIN left
  BY <1>3, <1>6, <1>10
<1>12. \A m \in DOMAIN left' : left'[m] = IF m = i THEN Tail(s) ELSE left[m]
  BY <1>3, <1>10
<1>13. \A m \in DOMAIN left' : \A j \in DOMAIN left'[m] :
         left'[m][j].err \/ Len(left'[m][j].ids) = 1
  BY <1>4, <1>9, <1>11, <1>12
<1>14. taken' \in Seq(Item) /\ turn' \in Nat
  BY <1>2, <1>3, <1>6, <1>10
<1>15. QED
  BY <1>1, <1>3, <1>6, <1>8, <1>10, <1>11, <1>13, <1>14, SourcesKeep

LEMMA DropDatasetKeeps ==
  ASSUME ChainIInv, DropDataset PROVE ChainIInv'
<1>1. left # <<>> /\ Asked(0) /\ UNCHANGED <<plan, stage, taken>>
  BY DEF DropDataset
<1>2. PICK i \in Eligible :
        /\ left' = RemoveAt(left, i) /\ weights' = RemoveAt(weights, i)
        /\ turn' = IF plan.mix = "turns" THEN i - 1 ELSE turn
  BY DEF DropDataset
<1>3. /\ left \in Seq(Seq(Item)) /\ weights \in Seq({0, 1}) /\ Len(left) = Len(weights)
      /\ turn \in Nat /\ taken \in Seq(Item) /\ i \in DOMAIN left /\ i \in Nat \ {0}
      /\ i \in DOMAIN weights
  BY <1>1, EligibleIs
<1>4. \A m \in DOMAIN left : \A j \in DOMAIN left[m] :
        left[m][j].err \/ Len(left[m][j].ids) = 1
  BY <1>1, EligibleIs
<1>5. /\ left' \in Seq(Seq(Item)) /\ Len(left') = Len(left) - 1
      /\ \A j \in DOMAIN left' : \E m \in DOMAIN left : left'[j] = left[m]
  BY <1>2, <1>3, RemoveAtIs
<1>6. weights' \in Seq({0, 1}) /\ Len(weights') = Len(weights) - 1
  BY <1>2, <1>3, RemoveAtIs
<1>7. \A m \in DOMAIN left' : \A j \in DOMAIN left'[m] :
         left'[m][j].err \/ Len(left'[m][j].ids) = 1
  BY <1>4, <1>5
<1>8. turn' \in Nat /\ taken' \in Seq(Item) /\ Len(left') = Len(weights')
  BY <1>1, <1>2, <1>3, <1>5, <1>6
<1>9. \/ UNCHANGED <<mode, at, answer, over, out>>
      \/ Tell(0, End)
  BY DEF DropDataset
<1>10. \/ UNCHANGED <<mode, at, answer, over, out>>
       \/ \E item \in Item : Single(item) /\ Tell(0, item)
  BY <1>9, EndIs
<1>11. QED
  BY <1>1, <1>5, <1>6, <1>7, <1>8, <1>10, SourcesKeep

LEMMA RunDryKeeps ==
  ASSUME ChainIInv, RunDry PROVE ChainIInv'
<1>1. Asked(0) /\ UNCHANGED <<plan, stage, left, weights, turn, taken>> /\ Tell(0, End)
  BY DEF RunDry, sources
<1>2. \E item \in Item : Single(item) /\ Tell(0, item)
  BY <1>1, EndIs
<1>3. /\ left \in Seq(Seq(Item)) /\ weights \in Seq({0, 1}) /\ Len(left) = Len(weights)
      /\ turn \in Nat /\ taken \in Seq(Item)
      /\ \A i \in DOMAIN left : \A j \in DOMAIN left[i] :
           left[i][j].err \/ Len(left[i][j].ids) = 1
  BY DEF ChainIInv, ChainTyped, Singles
<1>4. QED
  BY <1>1, <1>2, <1>3, SourcesKeep

-----------------------------------------------------------------------------
LEMMA StepKeeps ==
  ASSUME ChainIInv, NEW k \in DOMAIN Chain, Adapter(k) PROVE ChainIInv'
<1>1. Steps(k)
  BY AdapterSteps
<1>2. plan' = plan
  BY <1>1 DEF Steps
<1>3. ChainTyped' /\ Singles'
  BY <1>1, StepTyped, StepSingles
<1>4. plan.async => Quieted'
  BY <1>1, StepQuieted
<1>5. QED
  BY <1>2, <1>3, <1>4 DEF ChainIInv

LEMMA StutterKeeps ==
  ASSUME ChainIInv, UNCHANGED chainVars PROVE ChainIInv'
<1>1. /\ plan' = plan /\ Chain' = Chain /\ UNCHANGED sources /\ stage' = stage
      /\ UNCHANGED <<mode, at, answer, over, out>>
  BY DEF chainVars, sources, Chain
<1>2. \A k : Kind(k)' = Kind(k)
  BY <1>1 DEF Kind
<1>3. \A k : Dead(k)' = Dead(k)
  BY <1>1, <1>2 DEF Dead, Finished
<1>4. \A k : Silent(k)' = Silent(k)
  BY <1>1, <1>3 DEF Silent
<1>5. ChainTyped'
  BY <1>1, <1>2 DEF ChainIInv, ChainTyped, sources, Limits
<1>6. Singles'
  BY <1>1 DEF ChainIInv, Singles, sources
<1>7. Quieted => Quieted'
  BY <1>1, <1>4 DEF Quieted
<1>8. QED
  BY <1>1, <1>5, <1>6, <1>7 DEF ChainIInv

(* The invariant of a chain: nobody behind an end will ask for more.         *)
THEOREM ChainInductive == ChainSpec => []ChainIInv
<1>1. ASSUME ChainIInv, [ChainNext]_chainVars PROVE ChainIInv'
  BY <1>1, DemandKeeps, HandOutKeeps, TakeKeeps, DropDatasetKeeps, RunDryKeeps, StepKeeps,
     StutterKeeps DEF ChainNext, Datasets, AtEnd
<1>2. QED
  BY <1>1, InitChain, PTL DEF ChainSpec

(* No chain of asynchronous adapters, however long, polls an adapter that    *)
(* has told its end, whatever its datasets give (asynch/filters.rs).         *)
THEOREM ChainsEndOnce == ChainSpec => []NeverPolledAfterEnd
<1>1. ASSUME ChainIInv PROVE NeverPolledAfterEnd
  <2>1. TypeOK
    BY <1>1 DEF ChainIInv, ChainTyped, TypeOK, Limits
  <2>2. ASSUME plan.async, mode = "ask" PROVE at \notin over \ {0}
    <3>1. /\ Quieted /\ at \in 0..Len(Chain) /\ Len(Chain) \in Nat
          /\ DOMAIN Chain = 1..Len(Chain)
      BY <1>1, <2>2, PlanIs DEF ChainIInv, ChainTyped
    <3>2. QED
      BY <2>2, <3>1 DEF Quieted
  <2>3. QED
    BY <2>1, <2>2 DEF NeverPolledAfterEnd
<1>2. QED
  BY <1>1, ChainInductive, PTL

-----------------------------------------------------------------------------
(* Where a sample is on its way up, and which is ahead of which: what is     *)
(* handed out, then in each adapter what it has told, what it holds, and     *)
(* what it has just been told, down to what the datasets tell.               *)
Place == [height : Nat, item : Nat, index : Nat]

HandedOut(p, x) ==
  /\ p.height = 2 * Len(Chain) + 2
  /\ p.item \in DOMAIN out /\ ~out[p.item].err
  /\ p.index \in DOMAIN out[p.item].ids /\ x = out[p.item].ids[p.index]

OnItsWay(p, x) ==
  /\ mode = "tell" /\ ~answer.err
  /\ p.height = 2 * at + 1 /\ p.item = 0
  /\ p.index \in DOMAIN answer.ids /\ x = answer.ids[p.index]

InHand(k, p, x) ==
  /\ p.height = 2 * k /\ p.item = 0
  /\ p.index \in DOMAIN stage[k].held /\ x = stage[k].held[p.index]

Lies(p, x) == HandedOut(p, x) \/ OnItsWay(p, x) \/ \E k \in DOMAIN Chain : InHand(k, p, x)

Ahead(p, q) ==
  \/ p.height > q.height
  \/ p.height = q.height /\ p.item < q.item
  \/ p.height = q.height /\ p.item = q.item /\ p.index < q.index

(* The kth and the lth that were taken may be in this order. *)
Apart(k, l) == k # l /\ (Shuffling = {} => k < l)

AllGiven == \A p \in Place, x \in Nat : Lies(p, x) => \E k \in DOMAIN taken : taken[k] = Ok(<<x>>)

InLine ==
  \A p, q \in Place, x, y \in Nat, k, l \in DOMAIN taken :
    Lies(p, x) /\ Lies(q, y) /\ Ahead(p, q) /\ taken[k] = Ok(<<x>>) /\ taken[l] = Ok(<<y>>) =>
      Apart(k, l)

(* No dataset gives a sample again. *)
GivenOnce ==
  /\ Unlike(left)
  /\ \A k, l \in DOMAIN taken : ~taken[k].err /\ taken[k] = taken[l] => k = l
  /\ \A k \in DOMAIN taken, i \in DOMAIN left : ~taken[k].err =>
       \A m \in DOMAIN left[i] : taken[k] # left[i][m]

EmptyHanded == \A k \in DOMAIN Chain : Kind(k) = "map" => stage[k].held = <<>>

OnceIInv ==
  ChainIInv /\ EmptyHanded /\ (Unlike(plan.data) => GivenOnce /\ AllGiven /\ InLine)

LEMMA InitOnce == ASSUME ChainInit PROVE OnceIInv
<1>1. ChainIInv
  BY InitChain
<1>2. /\ Chain = plan.chain /\ out = <<>> /\ mode = "idle" /\ taken = <<>> /\ left = plan.data
      /\ \A k \in DOMAIN Chain : stage[k].held = <<>>
  BY DEF ChainInit, Chain
<1>3. \A p \in Place, x \in Nat : ~Lies(p, x)
  BY <1>2 DEF Lies, HandedOut, OnItsWay, InHand
<1>4. EmptyHanded
  BY <1>2 DEF EmptyHanded
<1>5. AllGiven /\ InLine
  BY <1>3 DEF AllGiven, InLine
<1>6. Unlike(plan.data) => GivenOnce
  <2>1. DOMAIN taken = {}
    BY <1>2
  <2>2. QED
    BY <1>2, <2>1 DEF GivenOnce
<1>7. QED
  BY <1>1, <1>4, <1>5, <1>6 DEF OnceIInv

(* A step in which every sample keeps its place or moves up in line.         *)
LEMMA Moves ==
  ASSUME OnceIInv, taken' = taken, plan' = plan, NEW f \in [Place -> Place],
         \A p \in Place, x \in Nat : Lies(p, x)' => Lies(f[p], x),
         \A p, q \in Place, x, y \in Nat : Lies(p, x)' /\ Lies(q, y)' /\ Ahead(p, q) =>
           Ahead(f[p], f[q]) \/ (Shuffling # {} /\ Ahead(f[q], f[p]))
  PROVE  AllGiven /\ InLine => AllGiven' /\ InLine'
<1> SUFFICES ASSUME AllGiven, InLine PROVE AllGiven' /\ InLine'
  OBVIOUS
<1>1. AllGiven'
  BY DEF AllGiven
<1>2. ASSUME NEW p \in Place, NEW q \in Place, NEW x \in Nat, NEW y \in Nat,
             NEW k \in DOMAIN taken, NEW l \in DOMAIN taken,
             Lies(p, x)', Lies(q, y)', Ahead(p, q), taken[k] = Ok(<<x>>), taken[l] = Ok(<<y>>)
      PROVE  Apart(k, l)
  <2>1. f[p] \in Place /\ f[q] \in Place /\ Lies(f[p], x) /\ Lies(f[q], y)
    BY <1>2
  <2>2. CASE Ahead(f[p], f[q])
    BY <1>2, <2>1, <2>2 DEF InLine
  <2>3. CASE Shuffling # {} /\ Ahead(f[q], f[p])
    <3>1. Apart(l, k)
      BY <1>2, <2>1, <2>3 DEF InLine
    <3>2. QED
      BY <2>3, <3>1 DEF Apart
  <2>4. QED
    BY <1>2, <2>2, <2>3
<1>3. Shuffling' = Shuffling
  BY DEF Shuffling, Kind, Chain
<1>4. \A k, l : Apart(k, l)' <=> Apart(k, l)
  BY <1>3 DEF Apart
<1>5. \A p, q : Ahead(p, q)' <=> Ahead(p, q)
  BY DEF Ahead
<1>6. InLine'
  BY <1>2, <1>4, <1>5 DEF InLine
<1>7. QED
  BY <1>1, <1>6

(* A step in which samples only go. *)
LEMMA Goes ==
  ASSUME OnceIInv, taken' = taken, plan' = plan,
         \A p \in Place, x \in Nat : Lies(p, x)' => Lies(p, x)
  PROVE  AllGiven /\ InLine => AllGiven' /\ InLine'
<1> DEFINE f == [p \in Place |-> p]
<1>1. f \in [Place -> Place] /\ \A p \in Place : f[p] = p
  OBVIOUS
<1> HIDE DEF f
<1>2. QED
  BY <1>1, Moves

LEMMA DemandOnce == ASSUME OnceIInv, Demand PROVE OnceIInv'
<1>1. /\ mode' = "ask" /\ UNCHANGED <<plan, out, stage, left, taken>> /\ Chain' = Chain
  BY DEF Demand, Ask, sources, Chain
<1>2. ChainIInv'
  BY DemandKeeps DEF OnceIInv
<1>3. \A p \in Place, x \in Nat : Lies(p, x)' => Lies(p, x)
  BY <1>1 DEF Lies, HandedOut, OnItsWay, InHand
<1>4. EmptyHanded'
  BY <1>1 DEF OnceIInv, EmptyHanded, Kind
<1>5. GivenOnce => GivenOnce'
  BY <1>1 DEF GivenOnce, Unlike
<1>6. QED
  BY <1>1, <1>2, <1>3, <1>4, <1>5, Goes DEF OnceIInv, Unlike

LEMMA HandOutOnce == ASSUME OnceIInv, HandOut PROVE OnceIInv'
<1>1. /\ mode = "tell" /\ at = Len(Chain) /\ mode' # "tell" /\ Chain' = Chain
      /\ UNCHANGED <<plan, stage, left, taken>>
      /\ out' = IF answer = End THEN out ELSE Append(out, answer)
  BY DEF HandOut, sources, Chain
<1>2. ChainIInv'
  BY HandOutKeeps DEF OnceIInv
<1>3. EmptyHanded'
  BY <1>1 DEF OnceIInv, EmptyHanded, Kind
<1>4. GivenOnce => GivenOnce'
  BY <1>1 DEF GivenOnce, Unlike
<1>5. /\ out \in Seq(Item) /\ answer \in Item /\ Len(Chain) \in Nat
      /\ DOMAIN Chain = 1..Len(Chain) /\ Len(out) \in Nat /\ DOMAIN out = 1..Len(out)
  BY PlanIs DEF OnceIInv, ChainIInv, ChainTyped
<1>6. CASE answer = End
  <2>1. \A p \in Place, x \in Nat : Lies(p, x)' => Lies(p, x)
    BY <1>1, <1>6 DEF Lies, HandedOut, OnItsWay, InHand
  <2>2. QED
    BY <1>1, <1>2, <1>3, <1>4, <2>1, Goes DEF OnceIInv, Unlike
<1>7. CASE answer # End
  <2> DEFINE n == Len(Chain)
             last == Len(out) + 1
             New(p) == p.height = 2 * n + 2 /\ p.item = last
             f == [p \in Place |-> IF New(p)
                     THEN [height |-> 2 * n + 1, item |-> 0, index |-> p.index] ELSE p]
  <2>1. f \in [Place -> Place]
    BY <1>5 DEF Place
  <2>2. \A p \in Place :
          /\ ~New(p) => f[p] = p
          /\ New(p) => f[p].height = 2 * n + 1 /\ f[p].item = 0 /\ f[p].index = p.index
    OBVIOUS
  <2>3. DOMAIN out' = 1..last /\ out'[last] = answer /\ \A m \in 1..Len(out) : out'[m] = out[m]
    BY <1>1, <1>5, <1>7
  <2> HIDE DEF f
  <2>4. ASSUME NEW p \in Place, NEW x \in Nat, Lies(p, x)'
        PROVE  Lies(f[p], x) /\ (New(p) \/ p.height # 2 * n + 1)
               /\ (p.height = 2 * n + 2 => p.item <= last) /\ p.height <= 2 * n + 2
    <3>1. p.height \in Nat /\ p.item \in Nat /\ p.index \in Nat
      BY DEF Place
    <3>2. CASE HandedOut(p, x)'
      <4>1. /\ p.height = 2 * n + 2 /\ p.item \in 1..last /\ ~out'[p.item].err
            /\ p.index \in DOMAIN out'[p.item].ids /\ x = out'[p.item].ids[p.index]
        BY <1>1, <2>3, <3>2 DEF HandedOut
      <4>2. CASE p.item = last
        <5>1. New(p)
          BY <4>1, <4>2
        <5>2. OnItsWay(f[p], x)
          BY <1>1, <2>2, <2>3, <4>1, <4>2, <5>1 DEF OnItsWay
        <5>3. QED
          BY <1>5, <3>1, <4>1, <5>1, <5>2 DEF Lies
      <4>3. CASE p.item # last
        <5>1. f[p] = p /\ p.item \in 1..Len(out)
          BY <1>5, <2>2, <4>1, <4>3
        <5>2. HandedOut(p, x)
          BY <1>5, <2>3, <4>1, <5>1 DEF HandedOut
        <5>3. QED
          BY <1>5, <3>1, <4>1, <5>1, <5>2 DEF Lies
      <4>4. QED
        BY <4>2, <4>3
    <3>3. CASE \E k \in DOMAIN Chain : InHand(k, p, x)'
      <4>1. PICK k \in 1..n : InHand(k, p, x)'
        BY <1>5, <3>3
      <4>2. InHand(k, p, x)
        BY <1>1, <4>1 DEF InHand
      <4>3. p.height = 2 * k
        BY <4>2 DEF InHand
      <4>4. ~New(p) /\ p.height # 2 * n + 1 /\ p.height < 2 * n + 2
        BY <1>5, <4>3
      <4>5. Lies(f[p], x)
        BY <1>5, <2>2, <4>2, <4>4, Zenon DEF Lies
      <4>6. (p.height = 2 * n + 2 => p.item <= last) /\ p.height <= 2 * n + 2
        BY <1>5, <3>1, <4>4
      <4>7. QED
        BY <4>4, <4>5, <4>6
    <3>4. QED
      BY <1>1, <2>4, <3>2, <3>3 DEF Lies, OnItsWay
  <2>5. ASSUME NEW p \in Place, NEW q \in Place, NEW x \in Nat, NEW y \in Nat,
               Lies(p, x)', Lies(q, y)', Ahead(p, q)
        PROVE  Ahead(f[p], f[q])
    <3>1. /\ p.height \in Nat /\ p.item \in Nat /\ p.index \in Nat
          /\ q.height \in Nat /\ q.item \in Nat /\ q.index \in Nat
      BY DEF Place
    <3>2. /\ New(p) \/ p.height # 2 * n + 1
          /\ New(q) \/ q.height # 2 * n + 1
          /\ (p.height = 2 * n + 2 => p.item <= last) /\ p.height <= 2 * n + 2
          /\ (q.height = 2 * n + 2 => q.item <= last) /\ q.height <= 2 * n + 2
      BY <2>4, <2>5
    <3>3. /\ New(p) => f[p].height = 2 * n + 1 /\ f[p].item = 0 /\ f[p].index = p.index
          /\ New(q) => f[q].height = 2 * n + 1 /\ f[q].item = 0 /\ f[q].index = q.index
          /\ ~New(p) => f[p] = p
          /\ ~New(q) => f[q] = q
      BY <2>2
    <3>4. Ahead(p, q)
      BY <2>5
    <3>5. CASE New(p)
      <4>1. CASE New(q)
        BY <3>3, <3>4, <3>5, <4>1 DEF Ahead
      <4>2. CASE ~New(q)
        <5>1. q.height < 2 * n + 1
          BY <1>5, <3>1, <3>2, <3>4, <3>5, <4>2 DEF Ahead
        <5>2. QED
          BY <3>3, <3>5, <4>2, <5>1 DEF Ahead
      <4>3. QED
        BY <4>1, <4>2
    <3>6. CASE ~New(p)
      <4>1. CASE New(q)
        <5>1. p.height > 2 * n + 1
          BY <1>5, <3>1, <3>2, <3>4, <3>6, <4>1 DEF Ahead
        <5>2. QED
          BY <3>3, <3>6, <4>1, <5>1 DEF Ahead
      <4>2. CASE ~New(q)
        BY <3>3, <3>4, <3>6, <4>2
      <4>3. QED
        BY <4>1, <4>2
    <3>7. QED
      BY <3>5, <3>6
  <2>6. AllGiven /\ InLine => AllGiven' /\ InLine'
    BY <1>1, <2>1, <2>4, <2>5, Moves
  <2>7. QED
    BY <1>1, <1>2, <1>3, <1>4, <2>6 DEF OnceIInv, Unlike
<1>8. QED
  BY <1>6, <1>7

-----------------------------------------------------------------------------
(* What an adapter had when it was asked or told something, and what it has  *)
(* told and holds then, in their order in line.                              *)
ToldNow(k) == IF mode = "tell" /\ at = k /\ ~answer.err THEN answer.ids ELSE <<>>
Had(k) == stage[k].held \o ToldNow(k - 1)
Has(k) == ToldNow(k) \o stage[k].held

Works(k) ==
  /\ UNCHANGED <<plan, sources, out>>
  /\ \A j \in DOMAIN Chain : j # k => stage'[j] = stage[j]
  /\ Asked(k) \/ Told(k)
  /\ mode' = "ask" \/ (mode' = "tell" /\ at' = k)

(* Nothing is made up or doubled, or overtaken but by one that shuffles. *)
Picked(has, had, h) ==
  /\ h \in [DOMAIN has -> DOMAIN had]
  /\ \A i \in DOMAIN has : has[i] = had[h[i]]
  /\ \A i, j \in DOMAIN has : i < j => h[i] < h[j] \/ (Shuffling # {} /\ h[i] # h[j])

LEMMA HadIs ==
  ASSUME ChainIInv, NEW k \in DOMAIN Chain
  PROVE  /\ stage[k].held \in Seq(Nat) /\ ToldNow(k - 1) \in Seq(Nat) /\ Had(k) \in Seq(Nat)
         /\ Len(stage[k].held) \in Nat /\ Len(ToldNow(k - 1)) \in Nat
         /\ Len(Had(k)) = Len(stage[k].held) + Len(ToldNow(k - 1))
         /\ DOMAIN stage[k].held = 1..Len(stage[k].held)
         /\ DOMAIN ToldNow(k - 1) = 1..Len(ToldNow(k - 1)) /\ DOMAIN Had(k) = 1..Len(Had(k))
         /\ \A i \in 1..Len(Had(k)) :
              Had(k)[i] = IF i <= Len(stage[k].held) THEN stage[k].held[i]
                          ELSE ToldNow(k - 1)[i - Len(stage[k].held)]
<1> DEFINE a == stage[k].held
           b == ToldNow(k - 1)
<1>1. a \in Seq(Nat) /\ b \in Seq(Nat)
  BY AtHand DEF ToldNow
<1>2. Had(k) = a \o b
  BY DEF Had
<1> HIDE DEF a, b
<1>3. /\ DOMAIN a = 1..Len(a) /\ DOMAIN b = 1..Len(b) /\ DOMAIN (a \o b) = 1..Len(a \o b)
      /\ a \o b \in Seq(Nat) /\ Len(a) \in Nat /\ Len(b) \in Nat /\ Len(a \o b) = Len(a) + Len(b)
      /\ \A i \in 1..Len(a \o b) : (a \o b)[i] = IF i <= Len(a) THEN a[i] ELSE b[i - Len(a)]
  BY <1>1
<1>4. QED
  BY <1>1, <1>2, <1>3 DEF a, b

LEMMA HasIs ==
  ASSUME ChainIInv', NEW k \in DOMAIN Chain, plan' = plan
  PROVE  /\ stage'[k].held \in Seq(Nat) /\ ToldNow(k)' \in Seq(Nat) /\ Has(k)' \in Seq(Nat)
         /\ Len(stage'[k].held) \in Nat /\ Len(ToldNow(k)') \in Nat
         /\ Len(Has(k)') = Len(ToldNow(k)') + Len(stage'[k].held)
         /\ DOMAIN stage'[k].held = 1..Len(stage'[k].held)
         /\ DOMAIN (ToldNow(k)') = 1..Len(ToldNow(k)') /\ DOMAIN (Has(k)') = 1..Len(Has(k)')
         /\ \A i \in 1..Len(ToldNow(k)') : Has(k)'[i] = ToldNow(k)'[i]
         /\ \A i \in 1..Len(stage'[k].held) :
              Has(k)'[Len(ToldNow(k)') + i] = stage'[k].held[i]
<1> DEFINE a == ToldNow(k)'
           b == stage'[k].held
<1>1. a \in Seq(Nat) /\ b \in Seq(Nat)
  <2>1. stage' \in [DOMAIN Chain -> Ledger] /\ answer' \in Item
    BY DEF ChainIInv, ChainTyped, Chain
  <2>2. stage'[k] \in Ledger
    BY <2>1
  <2>3. stage'[k].held \in Seq(Nat) /\ answer'.ids \in Seq(Nat)
    BY <2>1, <2>2 DEF Ledger, Item
  <2>4. QED
    BY <2>3 DEF ToldNow
<1>2. Has(k)' = a \o b
  BY DEF Has
<1> HIDE DEF a, b
<1>3. /\ DOMAIN a = 1..Len(a) /\ DOMAIN b = 1..Len(b) /\ DOMAIN (a \o b) = 1..Len(a \o b)
      /\ a \o b \in Seq(Nat) /\ Len(a) \in Nat /\ Len(b) \in Nat /\ Len(a \o b) = Len(a) + Len(b)
      /\ \A i \in 1..Len(a) : (a \o b)[i] = a[i]
      /\ \A i \in 1..Len(b) : (a \o b)[Len(a) + i] = b[i]
  BY <1>1
<1>4. QED
  BY <1>1, <1>2, <1>3 DEF a, b

LEMMA WorksInLine ==
  ASSUME OnceIInv, ChainIInv', NEW k \in DOMAIN Chain, Works(k),
         NEW h, Picked(Has(k)', Had(k), h)
  PROVE  AllGiven /\ InLine => AllGiven' /\ InLine'
<1> DEFINE told == Len(ToldNow(k)')
           held == Len(stage[k].held)
           stays == Len(stage'[k].held)
           Index(p) == IF p.height = 2 * k + 1 THEN p.index ELSE told + p.index
           Mine(p) == /\ p.item = 0
                      /\ \/ p.height = 2 * k + 1 /\ p.index \in 1..told
                         \/ p.height = 2 * k /\ p.index \in 1..stays
           To(i) == IF i <= held THEN [height |-> 2 * k, item |-> 0, index |-> i]
                    ELSE [height |-> 2 * k - 1, item |-> 0, index |-> i - held]
           f == [p \in Place |-> IF Mine(p) THEN To(h[Index(p)]) ELSE p]
           n == Len(Chain)
<1>1. /\ n \in Nat /\ DOMAIN Chain = 1..n /\ k \in 1..n /\ Chain' = Chain /\ ChainIInv
      /\ UNCHANGED <<plan, taken, out>>
      /\ \A j \in 1..n : j # k => stage'[j] = stage[j]
      /\ Asked(k) \/ Told(k)
      /\ mode' = "ask" \/ (mode' = "tell" /\ at' = k)
  BY PlanIs DEF OnceIInv, ChainIInv, ChainTyped, Works, sources, Chain
<1>2. /\ told \in Nat /\ stays \in Nat /\ DOMAIN (Has(k)') = 1..(told + stays)
      /\ DOMAIN (ToldNow(k)') = 1..told /\ DOMAIN stage'[k].held = 1..stays
      /\ \A i \in 1..told : Has(k)'[i] = ToldNow(k)'[i]
      /\ \A i \in 1..stays : Has(k)'[told + i] = stage'[k].held[i]
  BY <1>1, HasIs
<1>3. /\ held \in Nat /\ DOMAIN stage[k].held = 1..held
      /\ DOMAIN Had(k) = 1..(held + Len(ToldNow(k - 1)))
      /\ Len(ToldNow(k - 1)) \in Nat /\ DOMAIN ToldNow(k - 1) = 1..Len(ToldNow(k - 1))
      /\ \A i \in DOMAIN Had(k) :
           Had(k)[i] = IF i <= held THEN stage[k].held[i] ELSE ToldNow(k - 1)[i - held]
  BY <1>1, HadIs
<1>4. /\ \A i \in 1..(told + stays) : h[i] \in DOMAIN Had(k) /\ Has(k)'[i] = Had(k)[h[i]]
      /\ \A i, j \in 1..(told + stays) :
           i < j => h[i] < h[j] \/ (Shuffling # {} /\ h[i] # h[j])
  BY <1>2 DEF Picked
<1> HIDE DEF told, stays, held
<1>5. \A p \in Place : Mine(p) => Index(p) \in 1..(told + stays)
  BY <1>1, <1>2 DEF Place
<1>6. \A i \in DOMAIN Had(k) : To(i) \in Place
  BY <1>1, <1>3 DEF Place
<1>7. f \in [Place -> Place]
  BY <1>4, <1>5, <1>6
<1>8. \A p \in Place : f[p] = IF Mine(p) THEN To(h[Index(p)]) ELSE p
  OBVIOUS
<1> HIDE DEF f
<1>9. ASSUME NEW i \in DOMAIN Had(k) PROVE Lies(To(i), Had(k)[i])
  <2>1. CASE i <= held
    <3>1. InHand(k, To(i), Had(k)[i])
      BY <1>1, <1>3, <1>9, <2>1 DEF InHand
    <3>2. QED
      BY <1>1, <3>1 DEF Lies
  <2>2. CASE ~(i <= held)
    <3>1. i - held \in 1..Len(ToldNow(k - 1)) /\ Had(k)[i] = ToldNow(k - 1)[i - held]
      BY <1>3, <1>9, <2>2
    <3>2. ToldNow(k - 1) # <<>>
      BY <1>3, <3>1
    <3>3. mode = "tell" /\ at = k - 1 /\ ~answer.err /\ ToldNow(k - 1) = answer.ids
      BY <3>2 DEF ToldNow
    <3>4. /\ To(i).height = 2 * k - 1 /\ To(i).item = 0 /\ To(i).index = i - held
          /\ 2 * at + 1 = 2 * k - 1
      BY <1>1, <2>2, <3>3
    <3>5. OnItsWay(To(i), Had(k)[i])
      BY <1>3, <3>1, <3>3, <3>4 DEF OnItsWay
    <3>6. QED
      BY <3>5 DEF Lies
  <2>3. QED
    BY <2>1, <2>2
<1>10. ASSUME NEW p \in Place, Mine(p) PROVE Lies(f[p], Has(k)'[Index(p)])
  <2> DEFINE i == Index(p)
  <2>1. i \in 1..(told + stays) /\ f[p] = To(h[i])
    BY <1>5, <1>8, <1>10
  <2> HIDE DEF i, To
  <2>2. h[i] \in DOMAIN Had(k) /\ Has(k)'[i] = Had(k)[h[i]]
    BY <1>4, <2>1
  <2>3. Lies(To(h[i]), Had(k)[h[i]])
    BY <1>9, <2>2
  <2>4. QED
    BY <2>1, <2>2, <2>3 DEF i
<1>11. ASSUME NEW p \in Place, NEW x \in Nat, Lies(p, x)'
       PROVE  /\ Lies(f[p], x)
              /\ Mine(p) \/ p.height > 2 * k + 1 \/ p.height < 2 * k - 1
  <2>1. p.height \in Nat /\ p.item \in Nat /\ p.index \in Nat
    BY DEF Place
  <2>2. CASE HandedOut(p, x)'
    <3>1. HandedOut(p, x) /\ p.height = 2 * n + 2
      BY <1>1, <2>2 DEF HandedOut
    <3>2. p.height > 2 * k + 1 /\ ~Mine(p)
      BY <1>1, <2>1, <3>1
    <3>3. QED
      BY <1>8, <3>1, <3>2 DEF Lies
  <2>3. CASE OnItsWay(p, x)'
    <3>1. /\ p.height = 2 * k + 1 /\ p.item = 0 /\ p.index \in 1..told
          /\ x = ToldNow(k)'[p.index]
      BY <1>1, <1>2, <2>3 DEF OnItsWay, ToldNow
    <3>2. Mine(p) /\ Index(p) = p.index /\ x = Has(k)'[Index(p)]
      BY <1>2, <3>1
    <3>3. QED
      BY <1>10, <3>2
  <2>4. CASE \E j \in DOMAIN Chain : InHand(j, p, x)'
    <3>1. PICK j \in 1..n : InHand(j, p, x)'
      BY <1>1, <2>4
    <3>2. p.height = 2 * j /\ p.item = 0
      BY <3>1 DEF InHand
    <3>3. CASE j = k
      <4>1. p.index \in 1..stays /\ x = stage'[k].held[p.index]
        BY <1>2, <3>1, <3>3 DEF InHand
      <4>2. Mine(p) /\ Index(p) = told + p.index /\ x = Has(k)'[Index(p)]
        BY <1>1, <1>2, <3>2, <3>3, <4>1
      <4>3. QED
        BY <1>10, <4>2
    <3>4. CASE j # k
      <4>1. InHand(j, p, x)
        BY <1>1, <3>1, <3>4 DEF InHand
      <4>2. ~Mine(p) /\ (p.height > 2 * k + 1 \/ p.height < 2 * k - 1)
        BY <1>1, <3>2, <3>4
      <4>3. QED
        BY <1>1, <1>8, <4>1, <4>2 DEF Lies
    <3>5. QED
      BY <3>3, <3>4
  <2>5. QED
    BY <1>1, <1>11, <2>2, <2>3, <2>4 DEF Lies
<1>12. \A i, j \in DOMAIN Had(k) : i < j => Ahead(To(i), To(j))
  BY <1>1, <1>3 DEF Ahead
<1>13. \A i \in DOMAIN Had(k) : To(i).height \in {2 * k, 2 * k - 1}
  BY <1>1, <1>3
<1>14. ASSUME NEW p \in Place, NEW q \in Place, NEW x \in Nat, NEW y \in Nat,
              Lies(p, x)', Lies(q, y)', Ahead(p, q)
       PROVE  Ahead(f[p], f[q]) \/ (Shuffling # {} /\ Ahead(f[q], f[p]))
  <2>1. /\ Mine(p) \/ p.height > 2 * k + 1 \/ p.height < 2 * k - 1
        /\ Mine(q) \/ q.height > 2 * k + 1 \/ q.height < 2 * k - 1
    BY <1>11, <1>14
  <2>2. /\ p.height \in Nat /\ p.item \in Nat /\ p.index \in Nat
        /\ q.height \in Nat /\ q.item \in Nat /\ q.index \in Nat
    BY DEF Place
  <2>3. CASE Mine(p) /\ Mine(q)
    <3>1. Index(p) < Index(q)
      BY <1>1, <1>2, <1>14, <2>2, <2>3 DEF Ahead
    <3>2. Index(p) \in 1..(told + stays) /\ Index(q) \in 1..(told + stays)
      BY <1>5, <2>3
    <3> DEFINE i == h[Index(p)]
               j == h[Index(q)]
    <3>3. i \in DOMAIN Had(k) /\ j \in DOMAIN Had(k) /\ (i < j \/ (Shuffling # {} /\ i # j))
      BY <1>4, <3>1, <3>2
    <3>4. f[p] = To(i) /\ f[q] = To(j)
      BY <1>8, <2>3
    <3> HIDE DEF i, j, To
    <3>5. i < j \/ (Shuffling # {} /\ j < i)
      BY <1>3, <3>3
    <3>6. QED
      BY <1>12, <3>3, <3>4, <3>5
  <2>4. CASE Mine(p) /\ ~Mine(q)
    <3>1. q.height < 2 * k - 1
      <4>1. p.height = 2 * k + 1 \/ p.height = 2 * k
        BY <2>4
      <4>2. q.height > 2 * k + 1 \/ q.height < 2 * k - 1
        BY <2>1, <2>4
      <4>3. p.height >= q.height
        BY <1>14, <2>2 DEF Ahead
      <4> HIDE DEF Mine
      <4>4. QED
        BY <1>1, <2>2, <4>1, <4>2, <4>3
    <3>2. f[p].height \in {2 * k, 2 * k - 1}
      BY <1>4, <1>5, <1>8, <1>13, <2>4
    <3>3. QED
      <4>1. f[q] = q
        BY <1>8, <2>4
      <4>2. f[p].height \in Nat
        BY <1>1, <3>2
      <4> HIDE DEF Mine, To, Index
      <4>3. QED
        BY <1>1, <2>2, <3>1, <3>2, <4>1, <4>2 DEF Ahead
  <2>5. CASE ~Mine(p) /\ Mine(q)
    <3>1. p.height > 2 * k + 1
      <4>1. q.height = 2 * k + 1 \/ q.height = 2 * k
        BY <2>5
      <4>2. p.height > 2 * k + 1 \/ p.height < 2 * k - 1
        BY <2>1, <2>5
      <4>3. p.height >= q.height
        BY <1>14, <2>2 DEF Ahead
      <4> HIDE DEF Mine
      <4>4. QED
        BY <1>1, <2>2, <4>1, <4>2, <4>3
    <3>2. f[q].height \in {2 * k, 2 * k - 1}
      BY <1>4, <1>5, <1>8, <1>13, <2>5
    <3>3. QED
      <4>1. f[p] = p
        BY <1>8, <2>5
      <4>2. f[q].height \in Nat
        BY <1>1, <3>2
      <4> HIDE DEF Mine, To, Index
      <4>3. QED
        BY <1>1, <2>2, <3>1, <3>2, <4>1, <4>2 DEF Ahead
  <2>6. CASE ~Mine(p) /\ ~Mine(q)
    BY <1>8, <1>14, <2>6
  <2>7. QED
    BY <2>3, <2>4, <2>5, <2>6
<1>15. QED
  BY <1>1, <1>7, <1>11, <1>14, Moves

-----------------------------------------------------------------------------
(* Each thing an adapter does is orderly.                                    *)
Orderly(k) ==
  /\ Works(k)
  /\ Kind(k) = "map" => stage'[k].held = <<>>
  /\ \E h : Picked(Has(k)', Had(k), h)

(* A part of what it had, in one piece. *)
LEMMA PieceIsPicked ==
  ASSUME NEW has \in Seq(Nat), NEW had \in Seq(Nat), NEW n \in Nat,
         n + Len(has) <= Len(had), \A i \in 1..Len(has) : has[i] = had[n + i]
  PROVE  \E h : Picked(has, had, h)
<1>1. DOMAIN has = 1..Len(has) /\ DOMAIN had = 1..Len(had) /\ Len(has) \in Nat /\ Len(had) \in Nat
  OBVIOUS
<1> DEFINE h == [i \in DOMAIN has |-> n + i]
<1>2. h \in [DOMAIN has -> DOMAIN had] /\ \A i \in DOMAIN has : h[i] = n + i
  BY <1>1
<1> HIDE DEF h
<1>3. Picked(has, had, h)
  BY <1>1, <1>2 DEF Picked
<1>4. QED
  BY <1>3

LEMMA PieceIsOrderly ==
  ASSUME OnceIInv, NEW k \in DOMAIN Chain, Works(k), Kind(k) = "map" => stage'[k].held = <<>>,
         Has(k)' \in {<<>>, stage[k].held, ToldNow(k - 1), Had(k)}
  PROVE  Orderly(k)
<1> DEFINE a == stage[k].held
           b == ToldNow(k - 1)
           c == Had(k)
           d == Has(k)'
<1>1. /\ a \in Seq(Nat) /\ b \in Seq(Nat) /\ c \in Seq(Nat) /\ Len(a) \in Nat /\ Len(b) \in Nat
      /\ Len(c) = Len(a) + Len(b)
      /\ \A i \in 1..Len(c) : c[i] = IF i <= Len(a) THEN a[i] ELSE b[i - Len(a)]
      /\ d \in {<<>>, a, b, c}
  BY HadIs DEF OnceIInv
<1> HIDE DEF a, b, c, d
<1>2. Len(<<>>) = 0 /\ <<>> \in Seq(Nat)
  OBVIOUS
<1>3. d \in Seq(Nat)
  BY <1>1, <1>2, Zenon
<1>4. CASE d = b
  <2>1. \A i \in 1..Len(b) : Len(a) + i \in 1..Len(c) /\ ~(Len(a) + i <= Len(a))
                             /\ (Len(a) + i) - Len(a) = i
    BY <1>1
  <2>2. \A i \in 1..Len(b) : b[i] = c[Len(a) + i]
    BY <1>1, <2>1
  <2>3. Len(a) + Len(d) <= Len(c) /\ \A i \in 1..Len(d) : d[i] = c[Len(a) + i]
    BY <1>1, <1>4, <2>2
  <2>4. \E h : Picked(d, c, h)
    BY <1>1, <1>3, <2>3, PieceIsPicked
  <2>5. QED
    BY <2>4 DEF Orderly, c, d
<1>5. CASE d # b
  <2>1. 0 + Len(d) <= Len(c) /\ \A i \in 1..Len(d) : d[i] = c[0 + i]
    <3>1. CASE d = <<>>
      BY <1>1, <1>2, <3>1
    <3>2. CASE d = a
      BY <1>1, <3>2
    <3>3. CASE d = c
      BY <1>1, <3>3
    <3>4. QED
      BY <1>1, <1>5, <3>1, <3>2, <3>3
  <2>2. \E h : Picked(d, c, h)
    BY <1>1, <1>3, <2>1, PieceIsPicked
  <2>3. QED
    BY <2>2 DEF Orderly, c, d
<1>6. QED
  BY <1>4, <1>5

LEMMA AskIs ==
  ASSUME NEW j, NEW k, Ask(j)
  PROVE  ToldNow(k)' = <<>> /\ mode' = "ask" /\ out' = out
BY DEF Ask, ToldNow

LEMMA TellIs ==
  ASSUME NEW k, NEW item, Tell(k, item)
  PROVE  /\ ToldNow(k)' = (IF item.err THEN <<>> ELSE item.ids)
         /\ mode' = "tell" /\ at' = k /\ out' = out
BY DEF Tell, ToldNow

LEMMA BecomesIs ==
  ASSUME OnceIInv, NEW k \in DOMAIN Chain, NEW held, NEW n, NEW done, Becomes(k, held, n, done)
  PROVE  stage'[k].held = held /\ \A j \in DOMAIN Chain : j # k => stage'[j] = stage[j]
<1>1. stage \in [DOMAIN Chain -> Ledger]
  BY DEF OnceIInv, ChainIInv, ChainTyped
<1>2. QED
  BY <1>1 DEF Becomes

(* What it has is what it tells if it holds nothing, and what it holds if it *)
(* tells nothing.                                                            *)
LEMMA HasPart ==
  ASSUME NEW k, NEW s \in Seq(Nat),
         \/ ToldNow(k)' = <<>> /\ stage'[k].held = s
         \/ ToldNow(k)' = s /\ stage'[k].held = <<>>
  PROVE  Has(k)' = s
<1>1. <<>> \o s = s /\ s \o <<>> = s
  OBVIOUS
<1>2. Has(k)' = ToldNow(k)' \o stage'[k].held
  BY DEF Has
<1>3. QED
  BY <1>1, <1>2

LEMMA AtHandOnce ==
  ASSUME OnceIInv, NEW k \in DOMAIN Chain
  PROVE  /\ stage[k].held \in Seq(Nat) /\ ToldNow(k - 1) \in Seq(Nat) /\ Had(k) \in Seq(Nat)
         /\ Kind(k) = "map" => stage[k].held = <<>>
         /\ Told(k) /\ ~answer.err => ToldNow(k - 1) = answer.ids
         /\ Told(k) /\ ~answer.err => Had(k) = stage[k].held \o answer.ids
         /\ answer \in Item
<1>1. /\ stage[k].held \in Seq(Nat) /\ ToldNow(k - 1) \in Seq(Nat) /\ Had(k) \in Seq(Nat)
      /\ answer \in Item
  BY HadIs, AtHand DEF OnceIInv
<1>2. Told(k) /\ ~answer.err => ToldNow(k - 1) = answer.ids
  BY DEF Told, ToldNow
<1>3. QED
  BY <1>1, <1>2 DEF OnceIInv, EmptyHanded, Had

(* It keeps what it holds, or loses it, and tells no sample.                 *)
LEMMA QuietIsOrderly ==
  ASSUME OnceIInv, NEW k \in DOMAIN Chain, UNCHANGED <<plan, sources>>, Asked(k) \/ Told(k),
         \/ \E j : Ask(j)
         \/ \E item : Tell(k, item) /\ (item.err \/ item.ids = <<>>),
         \/ stage' = stage
         \/ \E held \in {stage[k].held, <<>>} : \E n, done : Becomes(k, held, n, done)
  PROVE  Orderly(k)
<1>1. ToldNow(k)' = <<>> /\ out' = out /\ (mode' = "ask" \/ (mode' = "tell" /\ at' = k))
  BY AskIs, TellIs
<1>2. /\ stage'[k].held \in {stage[k].held, <<>>}
      /\ \A j \in DOMAIN Chain : j # k => stage'[j] = stage[j]
  BY BecomesIs
<1>3. Works(k)
  BY <1>1, <1>2 DEF Works
<1>4. Has(k)' \in {stage[k].held, <<>>}
  <2>1. stage[k].held \in Seq(Nat)
    BY AtHandOnce
  <2>2. <<>> \in Seq(Nat)
    OBVIOUS
  <2>3. QED
    BY <1>1, <1>2, <2>1, <2>2, HasPart
<1>5. Kind(k) = "map" => stage'[k].held = <<>>
  BY <1>2, AtHandOnce
<1>6. QED
  BY <1>3, <1>4, <1>5, PieceIsOrderly

(* It tells what it has been told, all it had or nothing, and holds no more. *)
LEMMA EmptiedIsOrderly ==
  ASSUME OnceIInv, NEW k \in DOMAIN Chain, UNCHANGED <<plan, sources>>, Asked(k) \/ Told(k),
         NEW item, Tell(k, item), ~item.err,
         item.ids \in {ToldNow(k - 1), Had(k), stage[k].held},
         stage'[k].held = <<>>, \A j \in DOMAIN Chain : j # k => stage'[j] = stage[j]
  PROVE  Orderly(k)
<1>1. /\ ToldNow(k)' = item.ids /\ out' = out /\ mode' = "tell" /\ at' = k
  BY TellIs
<1>2. Works(k)
  BY <1>1 DEF Works
<1>3. item.ids \in Seq(Nat)
  BY AtHandOnce
<1>4. Has(k)' = item.ids
  BY <1>1, <1>3, HasPart
<1>5. QED
  BY <1>2, <1>4, PieceIsOrderly

(* It asks, and holds what it has been told, with what it held or without.   *)
LEMMA FilledIsOrderly ==
  ASSUME OnceIInv, NEW k \in DOMAIN Chain, UNCHANGED <<plan, sources>>, Told(k), Kind(k) # "map",
         NEW j, Ask(j), NEW held \in {ToldNow(k - 1), Had(k)}, NEW n, NEW done,
         Becomes(k, held, n, done)
  PROVE  Orderly(k)
<1>1. ToldNow(k)' = <<>> /\ out' = out /\ mode' = "ask"
  BY AskIs
<1>2. /\ stage'[k].held = held
      /\ \A i \in DOMAIN Chain : i # k => stage'[i] = stage[i]
  BY BecomesIs
<1>3. Works(k)
  BY <1>1, <1>2 DEF Works
<1>4. held \in Seq(Nat)
  BY AtHandOnce
<1>5. Has(k)' = held
  BY <1>1, <1>2, <1>4, HasPart
<1>6. QED
  BY <1>3, <1>5, PieceIsOrderly

LEMMA RemovedAt ==
  ASSUME NEW S, NEW s \in Seq(S), NEW i \in DOMAIN s
  PROVE  /\ RemoveAt(s, i) \in Seq(S) /\ Len(RemoveAt(s, i)) = Len(s) - 1
         /\ \A j \in 1..(Len(s) - 1) : RemoveAt(s, i)[j] = IF j < i THEN s[j] ELSE s[j + 1]
<1> DEFINE a == SubSeq(s, 1, i - 1)
           b == SubSeq(s, i + 1, Len(s))
<1>1. Len(s) \in Nat /\ i \in 1..Len(s) /\ DOMAIN s = 1..Len(s)
  OBVIOUS
<1>2. /\ a \in Seq(S) /\ Len(a) = i - 1 /\ b \in Seq(S) /\ Len(b) = Len(s) - i
      /\ \A j \in 1..Len(a) : a[j] = s[j] /\ j \in 1..Len(s)
      /\ \A j \in 1..Len(b) : b[j] = s[i + j] /\ i + j \in 1..Len(s)
  BY <1>1
<1>3. RemoveAt(s, i) = a \o b
  BY DEF RemoveAt
<1> HIDE DEF a, b
<1>4. /\ a \o b \in Seq(S) /\ Len(a \o b) = Len(a) + Len(b)
      /\ \A j \in 1..Len(a \o b) : (a \o b)[j] = IF j <= Len(a) THEN a[j] ELSE b[j - Len(a)]
  <2>1. a \in Seq(S) /\ b \in Seq(S)
    BY <1>2
  <2>2. QED
    BY <2>1
<1>5. Len(a \o b) = Len(s) - 1
  BY <1>1, <1>2, <1>4
<1>6. ASSUME NEW j \in 1..(Len(s) - 1)
      PROVE  (a \o b)[j] = IF j < i THEN s[j] ELSE s[j + 1]
  <2>1. CASE j < i
    BY <1>1, <1>2, <1>4, <1>5, <2>1
  <2>2. CASE ~(j < i)
    <3>1. j - Len(a) \in 1..Len(b) /\ ~(j <= Len(a)) /\ i + (j - Len(a)) = j + 1
      BY <1>1, <1>2, <2>2
    <3>2. (a \o b)[j] = b[j - Len(a)] /\ b[j - Len(a)] = s[j + 1]
      BY <1>2, <1>4, <1>5, <3>1
    <3>3. QED
      BY <2>2, <3>2
  <2>3. QED
    BY <2>1, <2>2
<1>7. QED
  BY <1>3, <1>4, <1>5, <1>6

LEMMA Prepended ==
  ASSUME NEW S, NEW x \in S, NEW s \in Seq(S)
  PROVE  /\ DOMAIN (<<x>> \o s) = 1..(Len(s) + 1) /\ (<<x>> \o s)[1] = x
         /\ \A j \in 2..(Len(s) + 1) : (<<x>> \o s)[j] = s[j - 1]
<1> DEFINE b == <<x>>
<1>1. b \in Seq(S) /\ Len(b) = 1 /\ b[1] = x
  OBVIOUS
<1> HIDE DEF b
<1>2. b \o s \in Seq(S) /\ Len(b \o s) = Len(s) + 1 /\ Len(s) \in Nat
  <2>1. b \in Seq(S) /\ Len(s) \in Nat
    BY <1>1
  <2>2. b \o s \in Seq(S) /\ Len(b \o s) = Len(b) + Len(s)
    BY <2>1
  <2>3. QED
    BY <1>1, <2>1, <2>2
<1>3. /\ DOMAIN (b \o s) = 1..(Len(s) + 1)
      /\ \A j \in 1..(Len(s) + 1) : (b \o s)[j] = IF j <= Len(b) THEN b[j] ELSE s[j - Len(b)]
  BY <1>1, <1>2
<1>4. 1 \in 1..(Len(s) + 1) /\ \A j \in 2..(Len(s) + 1) : j \in 1..(Len(s) + 1) /\ ~(j <= 1)
  BY <1>2
<1>5. QED
  BY <1>1, <1>3, <1>4 DEF b

(* A buffer tells any one of its samples and holds the others.               *)
LEMMA PickHas ==
  ASSUME OnceIInv, NEW k \in DOMAIN Chain, NEW buffer \in Seq(Nat), NEW done, Pick(k, buffer, done)
  PROVE  /\ \E x \in Nat : Tell(k, Ok(<<x>>))
         /\ \E held : Becomes(k, held, 0, done)
         /\ DOMAIN (Has(k)') = 1..Len(buffer)
         /\ \E i \in 1..Len(buffer) : \A j \in 1..Len(buffer) :
              Has(k)'[j] = buffer[IF j = 1 THEN i ELSE IF j - 1 < i THEN j - 1 ELSE j]
<1>1. PICK i \in DOMAIN buffer : /\ Tell(k, Ok(<<buffer[i]>>))
                                 /\ Becomes(k, RemoveAt(buffer, i), 0, done)
  BY DEF Pick
<1> DEFINE rest == RemoveAt(buffer, i)
           n == Len(buffer)
<1>2. n \in Nat /\ DOMAIN buffer = 1..n /\ i \in 1..n /\ buffer[i] \in Nat
  OBVIOUS
<1>3. /\ rest \in Seq(Nat) /\ Len(rest) = n - 1
      /\ \A j \in 1..(n - 1) : rest[j] = IF j < i THEN buffer[j] ELSE buffer[j + 1]
  BY RemovedAt
<1>4. ToldNow(k)' = <<buffer[i]>>
  BY <1>1, TellIs DEF Ok
<1>5. stage'[k].held = rest
  BY <1>1, BecomesIs
<1> DEFINE has == <<buffer[i]>> \o rest
<1>6. Has(k)' = has
  BY <1>4, <1>5 DEF Has
<1> HIDE DEF rest
<1>7. /\ DOMAIN has = 1..n /\ has[1] = buffer[i]
      /\ \A j \in 2..n : has[j] = rest[j - 1]
  <2>1. Len(rest) + 1 = n
    BY <1>2, <1>3
  <2> HIDE DEF n
  <2>2. QED
    BY <1>2, <1>3, <2>1, Prepended
<1> HIDE DEF has, n
<1>8. ASSUME NEW j \in 1..n
      PROVE  has[j] = buffer[IF j = 1 THEN i ELSE IF j - 1 < i THEN j - 1 ELSE j]
  <2>1. CASE j = 1
    BY <1>7, <2>1
  <2>2. CASE j # 1
    <3>1. j \in 2..n /\ j - 1 \in 1..(n - 1) /\ (j - 1) + 1 = j
      BY <1>2, <2>2
    <3>2. has[j] = rest[j - 1]
      BY <1>7, <3>1
    <3>3. QED
      BY <1>3, <2>2, <3>1, <3>2
  <2>3. QED
    BY <2>1, <2>2
<1>9. QED
  BY <1>1, <1>2, <1>6, <1>7, <1>8 DEF n

LEMMA PickIsOrderly ==
  ASSUME OnceIInv, NEW k \in DOMAIN Chain, UNCHANGED <<plan, sources>>, Asked(k) \/ Told(k),
         Kind(k) = "shuffle", NEW buffer, NEW done, Pick(k, buffer, done),
         buffer \in {stage[k].held, Had(k)}
  PROVE  Orderly(k)
<1>1. buffer \in Seq(Nat) /\ Had(k) \in Seq(Nat)
  BY AtHandOnce
<1> DEFINE has == Has(k)'
           had == Had(k)
           n == Len(buffer)
<1>2. n \in Nat
  BY <1>1
<1>3. /\ \E x \in Nat : Tell(k, Ok(<<x>>))
      /\ \E held : Becomes(k, held, 0, done)
      /\ DOMAIN has = 1..n
  BY <1>1, PickHas
<1>4. PICK i \in 1..n : \A j \in 1..n :
        has[j] = buffer[IF j = 1 THEN i ELSE IF j - 1 < i THEN j - 1 ELSE j]
  BY <1>1, PickHas
<1>5. /\ mode' = "tell" /\ at' = k /\ out' = out
      /\ \A j \in DOMAIN Chain : j # k => stage'[j] = stage[j]
  BY <1>3, TellIs, BecomesIs
<1>6. Works(k)
  BY <1>5 DEF Works
<1>7. DOMAIN had = 1..Len(had) /\ Len(had) \in Nat /\ n <= Len(had)
      /\ \A j \in 1..n : had[j] = buffer[j]
  <2>1. /\ Len(stage[k].held) \in Nat /\ Len(ToldNow(k - 1)) \in Nat
        /\ Len(Had(k)) = Len(stage[k].held) + Len(ToldNow(k - 1))
        /\ DOMAIN Had(k) = 1..Len(Had(k))
        /\ \A j \in 1..Len(Had(k)) :
             Had(k)[j] = IF j <= Len(stage[k].held) THEN stage[k].held[j]
                         ELSE ToldNow(k - 1)[j - Len(stage[k].held)]
    BY HadIs DEF OnceIInv
  <2> DEFINE held == stage[k].held
             told == ToldNow(k - 1)
  <2> HIDE DEF held, told, had
  <2>2. /\ Len(held) \in Nat /\ Len(told) \in Nat /\ Len(had) = Len(held) + Len(told)
        /\ DOMAIN had = 1..Len(had)
        /\ \A j \in 1..Len(had) : had[j] = IF j <= Len(held) THEN held[j] ELSE told[j - Len(held)]
    BY <2>1 DEF held, told, had
  <2>3. \A j \in 1..Len(held) : j \in 1..Len(had) /\ j <= Len(held)
    BY <2>2
  <2>4. buffer = had \/ buffer = held
    BY DEF held, had
  <2>5. QED
    BY <2>2, <2>3, <2>4
<1> HIDE DEF has, had, n
<1> DEFINE h == [j \in 1..n |-> IF j = 1 THEN i ELSE IF j - 1 < i THEN j - 1 ELSE j]
<1>8. h \in [DOMAIN has -> DOMAIN had]
  BY <1>2, <1>3, <1>7
<1>9. \A j \in 1..n : h[j] = (IF j = 1 THEN i ELSE IF j - 1 < i THEN j - 1 ELSE j) /\ h[j] \in 1..n
  BY <1>2
<1> HIDE DEF h
<1>10. \A j \in 1..n : has[j] = had[h[j]]
  BY <1>4, <1>7, <1>9
<1>11. \A j, m \in 1..n : j < m => h[j] # h[m]
  BY <1>2, <1>9
<1>12. Shuffling # {}
  BY DEF Shuffling
<1>13. Picked(has, had, h)
  BY <1>3, <1>8, <1>10, <1>11, <1>12 DEF Picked
<1>14. QED
  BY <1>6, <1>13 DEF Orderly, has, had

LEMMA EndIsQuiet == ~End.err /\ End.ids = <<>>
BY EndIs

(* Those that keep what they hold and tell the end, or ask.                  *)
LEMMA WaitsOrderly ==
  ASSUME OnceIInv, NEW k \in DOMAIN Chain, Refuse(k) \/ Forward(k) \/ PassEnd(k) \/ PassOver(k)
  PROVE  Orderly(k)
<1>1. UNCHANGED <<plan, sources>> /\ stage' = stage /\ (Asked(k) \/ Told(k))
  BY DEF Refuse, Forward, PassEnd, PassOver, Sample
<1>2. Tell(k, End) \/ \E j : Ask(j)
  BY DEF Refuse, Forward, PassEnd, PassOver
<1>3. QED
  BY <1>1, <1>2, EndIsQuiet, QuietIsOrderly

LEMMA SplitHas ==
  ASSUME OnceIInv, NEW k \in DOMAIN Chain, Split(k) PROVE Has(k)' = stage[k].held
<1>1. /\ stage[k].held # <<>> /\ stage[k].held \in Seq(Nat)
      /\ Tell(k, Ok(<<Head(stage[k].held)>>)) /\ Becomes(k, Tail(stage[k].held), 0, FALSE)
  BY AtHandOnce DEF Split
<1>2. ToldNow(k)' = <<Head(stage[k].held)>>
  BY <1>1, TellIs DEF Ok
<1>3. stage'[k].held = Tail(stage[k].held)
  BY <1>1, BecomesIs
<1> DEFINE s == stage[k].held
<1>4. <<Head(s)>> \o Tail(s) = s
  <2>1. s \in Seq(Nat) /\ s # <<>>
    BY <1>1
  <2> HIDE DEF s
  <2>2. /\ Head(s) \in Nat /\ Head(s) = s[1] /\ Tail(s) \in Seq(Nat) /\ Len(Tail(s)) = Len(s) - 1
        /\ Len(s) \in Nat \ {0} /\ DOMAIN s = 1..Len(s)
    BY <2>1
  <2>3. \A j \in 1..(Len(s) - 1) : Tail(s)[j] = s[j + 1]
    BY <2>1
  <2> DEFINE t == Tail(s)
             x == Head(s)
             u == <<x>> \o t
  <2>4. x \in Nat /\ t \in Seq(Nat) /\ Len(t) + 1 = Len(s)
    BY <2>2
  <2>5. u \in Seq(Nat)
    <3>1. <<x>> \in Seq(Nat)
      BY <2>4
    <3> HIDE DEF x, t
    <3>2. QED
      BY <2>4, <3>1
  <2>6. DOMAIN u = 1..Len(s) /\ u[1] = x /\ \A j \in 2..Len(s) : u[j] = t[j - 1]
    <3> HIDE DEF x, t
    <3>1. QED
      BY <2>4, Prepended
  <2> HIDE DEF u
  <2>7. \A j \in 1..Len(s) : u[j] = s[j]
    <3>1. ASSUME NEW j \in 1..Len(s), j # 1 PROVE u[j] = s[j]
      <4>1. j \in 2..Len(s) /\ j - 1 \in 1..(Len(s) - 1) /\ (j - 1) + 1 = j
        BY <2>2, <3>1
      <4>2. u[j] = t[j - 1] /\ t[j - 1] = s[j]
        BY <2>3, <2>6, <4>1
      <4>3. QED
        BY <4>2
    <3>2. QED
      BY <2>2, <2>6, <3>1
  <2>8. u = s
    <3>1. u \in Seq(Nat) /\ s \in Seq(Nat) /\ DOMAIN u = DOMAIN s /\ \A j \in DOMAIN s : u[j] = s[j]
      BY <2>1, <2>2, <2>5, <2>6, <2>7
    <3>2. QED
      BY <3>1
  <2>9. QED
    BY <2>8 DEF u
<1>5. QED
  BY <1>2, <1>3, <1>4 DEF Has

LEMMA SplitOrderly ==
  ASSUME OnceIInv, NEW k \in DOMAIN Chain, Split(k) PROVE Orderly(k)
<1>1. /\ Asked(k) /\ Kind(k) = "unbatch" /\ UNCHANGED <<plan, sources>>
      /\ Tell(k, Ok(<<Head(stage[k].held)>>)) /\ Becomes(k, Tail(stage[k].held), 0, FALSE)
  BY DEF Split
<1>2. mode' = "tell" /\ at' = k /\ out' = out
  BY <1>1, TellIs
<1>3. \A j \in DOMAIN Chain : j # k => stage'[j] = stage[j]
  BY <1>1, BecomesIs
<1>4. Works(k)
  BY <1>1, <1>2, <1>3 DEF Works
<1>5. QED
  BY <1>1, <1>4, SplitHas, PieceIsOrderly

LEMMA DrainOrderly ==
  ASSUME OnceIInv, NEW k \in DOMAIN Chain, Drain(k) \/ EndBuffer(k) PROVE Orderly(k)
<1>1. /\ UNCHANGED <<plan, sources>> /\ (Asked(k) \/ Told(k)) /\ Kind(k) = "shuffle"
      /\ \/ Tell(k, End) /\ (stage' = stage \/ Becomes(k, <<>>, 0, TRUE))
         \/ Pick(k, stage[k].held, TRUE)
  BY DEF Drain, EndBuffer
<1>2. CASE Tell(k, End) /\ (stage' = stage \/ Becomes(k, <<>>, 0, TRUE))
  BY <1>1, <1>2, EndIsQuiet, QuietIsOrderly
<1>3. CASE Pick(k, stage[k].held, TRUE)
  BY <1>1, <1>3, PickIsOrderly
<1>4. QED
  BY <1>1, <1>2, <1>3

LEMMA PassErrorOrderly ==
  ASSUME OnceIInv, NEW k \in DOMAIN Chain, PassError(k) PROVE Orderly(k)
<1>1. /\ Told(k) /\ answer.err /\ Tell(k, answer) /\ UNCHANGED <<plan, sources>>
      /\ \E held \in {stage[k].held, <<>>} : \E n, done : Becomes(k, held, n, done)
  BY DEF PassError
<1>2. QED
  BY <1>1, QuietIsOrderly

LEMMA ReportEmptyOrderly ==
  ASSUME OnceIInv, NEW k \in DOMAIN Chain, ReportEmpty(k) PROVE Orderly(k)
<1>1. /\ Told(k) /\ Tell(k, Err(<<>>)) /\ Becomes(k, <<>>, 0, TRUE) /\ UNCHANGED <<plan, sources>>
  BY DEF ReportEmpty
<1>2. Err(<<>>).err
  BY DEF Err
<1>3. QED
  BY <1>1, <1>2, QuietIsOrderly

LEMMA EndGroupOrderly ==
  ASSUME OnceIInv, NEW k \in DOMAIN Chain, EndGroup(k) PROVE Orderly(k)
<1>1. /\ Told(k) /\ UNCHANGED <<plan, sources>> /\ Becomes(k, <<>>, 0, plan.async)
      /\ Tell(k, Ok(stage[k].held)) \/ Tell(k, End)
  BY DEF EndGroup
<1>2. CASE Tell(k, Ok(stage[k].held))
  <2>1. /\ ~Ok(stage[k].held).err /\ Ok(stage[k].held).ids = stage[k].held
        /\ stage'[k].held = <<>> /\ \A j \in DOMAIN Chain : j # k => stage'[j] = stage[j]
    BY <1>1, BecomesIs DEF Ok
  <2>2. QED
    BY <1>1, <1>2, <2>1, EmptiedIsOrderly
<1>3. CASE Tell(k, End)
  BY <1>1, <1>3, EndIsQuiet, QuietIsOrderly
<1>4. QED
  BY <1>1, <1>2, <1>3

(* What it is told goes on, or goes away. *)
LEMMA PassesOrderly ==
  ASSUME OnceIInv, NEW k \in DOMAIN Chain, Keep(k) \/ Count(k) \/ SliceItem(k) PROVE Orderly(k)
<1>1. UNCHANGED <<plan, sources>> /\ Told(k) /\ (Tell(k, answer) \/ \E j : Ask(j))
  BY DEF Keep, Count, SliceItem, Sample
<1>2. /\ stage'[k].held = <<>> /\ \A j \in DOMAIN Chain : j # k => stage'[j] = stage[j]
      /\ \/ stage' = stage
         \/ \E held \in {stage[k].held, <<>>} : \E n, done : Becomes(k, held, n, done)
  <2>1. CASE Keep(k)
    BY <2>1, AtHandOnce DEF Keep
  <2>2. CASE Count(k) \/ SliceItem(k)
    <3>1. \E n, done : Becomes(k, <<>>, n, done)
      BY <2>2 DEF Count, SliceItem
    <3>2. QED
      BY <3>1, BecomesIs
  <2>3. QED
    BY <2>1, <2>2
<1>3. CASE Tell(k, answer) /\ ~answer.err
  BY <1>1, <1>2, <1>3, AtHandOnce, EmptiedIsOrderly
<1>4. CASE (Tell(k, answer) /\ answer.err) \/ \E j : Ask(j)
  BY <1>1, <1>2, <1>4, QuietIsOrderly
<1>5. QED
  BY <1>1, <1>3, <1>4

LEMMA FailOrderly ==
  ASSUME OnceIInv, NEW k \in DOMAIN Chain, Fail(k) PROVE Orderly(k)
<1>1. /\ Told(k) /\ UNCHANGED <<plan, sources>>
      /\ \/ Ask(k) /\ stage' = stage
         \/ Tell(k, Err(answer.ids)) /\ stage' = stage
         \/ Tell(k, End) /\ Becomes(k, <<>>, 0, TRUE)
  <2>1. Chain[k].handler \in {"continue", "stop", "reraise"}
    BY PlanIs DEF OnceIInv, ChainIInv, ChainTyped, Stage
  <2>2. QED
    BY <2>1 DEF Fail, Sample
<1>2. Err(answer.ids).err
  BY DEF Err
<1>3. QED
  BY <1>1, <1>2, EndIsQuiet, QuietIsOrderly

LEMMA GroupOrderly ==
  ASSUME OnceIInv, NEW k \in DOMAIN Chain, Group(k) PROVE Orderly(k)
<1> DEFINE group == stage[k].held \o answer.ids
<1>1. Told(k) /\ ~answer.err /\ Kind(k) = "listed" /\ UNCHANGED <<plan, sources>>
  BY DEF Group, Sample
<1>2. group = Had(k)
  BY <1>1, AtHandOnce
<1>3. \/ Tell(k, Ok(group)) /\ Becomes(k, <<>>, 0, FALSE)
      \/ Ask(k - 1) /\ Becomes(k, group, 0, FALSE)
  BY DEF Group
<1> HIDE DEF group
<1>4. CASE Tell(k, Ok(group)) /\ Becomes(k, <<>>, 0, FALSE)
  <2>1. /\ ~Ok(group).err /\ Ok(group).ids = group
        /\ stage'[k].held = <<>> /\ \A j \in DOMAIN Chain : j # k => stage'[j] = stage[j]
    BY <1>4, BecomesIs DEF Ok
  <2>2. QED
    BY <1>1, <1>2, <1>4, <2>1, EmptiedIsOrderly
<1>5. CASE Ask(k - 1) /\ Becomes(k, group, 0, FALSE)
  BY <1>1, <1>2, <1>5, FilledIsOrderly
<1>6. QED
  BY <1>3, <1>4, <1>5

LEMMA BufferOrderly ==
  ASSUME OnceIInv, NEW k \in DOMAIN Chain, Buffer(k) PROVE Orderly(k)
<1> DEFINE buffer == stage[k].held \o answer.ids
<1>1. Told(k) /\ ~answer.err /\ Kind(k) = "shuffle" /\ UNCHANGED <<plan, sources>>
  BY DEF Buffer, Sample
<1>2. buffer = Had(k)
  BY <1>1, AtHandOnce
<1>3. \/ Pick(k, buffer, FALSE)
      \/ Ask(k - 1) /\ \E n : Becomes(k, buffer, n, FALSE)
  BY DEF Buffer
<1> HIDE DEF buffer
<1>4. CASE Pick(k, buffer, FALSE)
  BY <1>1, <1>2, <1>4, PickIsOrderly
<1>5. CASE Ask(k - 1) /\ \E n : Becomes(k, buffer, n, FALSE)
  BY <1>1, <1>2, <1>5, FilledIsOrderly
<1>6. QED
  BY <1>3, <1>4, <1>5

LEMMA UnpackOrderly ==
  ASSUME OnceIInv, NEW k \in DOMAIN Chain, Unpack(k) PROVE Orderly(k)
<1>1. /\ Told(k) /\ ~answer.err /\ Kind(k) = "unbatch" /\ UNCHANGED <<plan, sources>>
      /\ Ask(k) /\ Becomes(k, answer.ids, 0, FALSE)
  BY DEF Unpack, Sample
<1>2. answer.ids = ToldNow(k - 1)
  BY <1>1, AtHandOnce
<1>3. QED
  BY <1>1, <1>2, FilledIsOrderly

LEMMA AdapterOrderly ==
  ASSUME OnceIInv, NEW k \in DOMAIN Chain, Adapter(k) PROVE Orderly(k)
BY WaitsOrderly, SplitOrderly, DrainOrderly, PassErrorOrderly, ReportEmptyOrderly,
   EndGroupOrderly, PassesOrderly, FailOrderly, GroupOrderly, BufferOrderly, UnpackOrderly
   DEF Adapter

LEMMA AdapterOnce ==
  ASSUME OnceIInv, NEW k \in DOMAIN Chain, Adapter(k) PROVE OnceIInv'
<1>1. ChainIInv'
  BY StepKeeps DEF OnceIInv
<1>2. Orderly(k)
  BY AdapterOrderly
<1>3. /\ UNCHANGED <<plan, left, taken>> /\ Chain' = Chain
      /\ \A j \in DOMAIN Chain : j # k => stage'[j] = stage[j]
  BY <1>2 DEF Orderly, Works, sources, Chain
<1>4. AllGiven /\ InLine => AllGiven' /\ InLine'
  BY <1>1, <1>2, WorksInLine DEF Orderly
<1>5. EmptyHanded'
  <2>1. \A j : Kind(j)' = Kind(j)
    BY <1>3 DEF Kind
  <2>2. \A j \in DOMAIN Chain : Kind(j) = "map" => stage'[j].held = <<>>
    BY <1>2, <1>3 DEF Orderly, OnceIInv, EmptyHanded
  <2>3. QED
    BY <1>3, <2>1, <2>2 DEF EmptyHanded
<1>6. GivenOnce => GivenOnce'
  BY <1>3 DEF GivenOnce, Unlike
<1>7. QED
  BY <1>1, <1>3, <1>4, <1>5, <1>6 DEF OnceIInv, Unlike

-----------------------------------------------------------------------------
(* The datasets give each sample once, and what they give is last in line.   *)
LEMMA TakeOnce == ASSUME OnceIInv, Take PROVE OnceIInv'
<1>1. left # <<>> /\ Asked(0) /\ UNCHANGED <<plan, stage>> /\ Chain' = Chain
  BY DEF Take, Chain
<1>2. PICK i \in Eligible :
        /\ left[i] # <<>> /\ left' = [left EXCEPT ![i] = Tail(@)]
        /\ taken' = Append(taken, Head(left[i])) /\ Tell(0, Head(left[i]))
  BY DEF Take
<1>3. /\ left \in Seq(Seq(Item)) /\ taken \in Seq(Item) /\ i \in DOMAIN left
      /\ \A m \in DOMAIN left : \A j \in DOMAIN left[m] :
           left[m][j].err \/ Len(left[m][j].ids) = 1
  BY <1>1, EligibleIs DEF OnceIInv
<1> DEFINE s == left[i]
           new == Head(s)
           n == Len(taken)
<1>4. /\ s \in Seq(Item) /\ s # <<>> /\ new = s[1] /\ new \in Item /\ 1 \in DOMAIN s
      /\ \A j \in DOMAIN Tail(s) : j + 1 \in DOMAIN s /\ Tail(s)[j] = s[j + 1] /\ j + 1 # 1
                                   /\ j \in Nat
  <2>1. s \in Seq(Item) /\ s # <<>>
    BY <1>2, <1>3
  <2> HIDE DEF s
  <2>2. QED
    BY <2>1
<1>5. /\ DOMAIN left' = DOMAIN left
      /\ \A m \in DOMAIN left : left'[m] = IF m = i THEN Tail(s) ELSE left[m]
  BY <1>2, <1>3
<1>6. new.err \/ Len(new.ids) = 1
  BY <1>3, <1>4
<1> HIDE DEF s, new
<1>7. /\ n \in Nat /\ DOMAIN taken = 1..n /\ DOMAIN taken' = 1..(n + 1)
      /\ taken'[n + 1] = new /\ \A k \in 1..n : taken'[k] = taken[k]
  BY <1>2, <1>3, <1>4 DEF s, new
<1> HIDE DEF n
<1>8. mode' = "tell" /\ at' = 0 /\ answer' = new /\ out' = out
  BY <1>2 DEF Tell, s, new
<1>9. ChainIInv'
  BY TakeKeeps DEF OnceIInv
<1>10. EmptyHanded'
  BY <1>1 DEF OnceIInv, EmptyHanded, Kind
(* What is left was left, elsewhere than the one that is taken. *)
<1>11. \A a \in DOMAIN left', j \in Nat : j \in DOMAIN left'[a] =>
         \E m \in Nat : /\ m \in DOMAIN left[a] /\ left'[a][j] = left[a][m]
                        /\ m = (IF a = i THEN j + 1 ELSE j) /\ (a = i => m # 1)
  BY <1>4, <1>5 DEF s
<1>12. \A a \in DOMAIN left' : DOMAIN left'[a] \subseteq Nat /\ DOMAIN left[a] \subseteq Nat
  <2>1. left' \in Seq(Seq(Item))
    BY <1>9 DEF ChainIInv, ChainTyped
  <2>2. ASSUME NEW t \in Seq(Seq(Item)), NEW a \in DOMAIN t PROVE DOMAIN t[a] \subseteq Nat
    <3>1. t[a] \in Seq(Item)
      OBVIOUS
    <3>2. QED
      BY <3>1
  <2>3. QED
    BY <1>3, <1>5, <2>1, <2>2
<1>13. ASSUME GivenOnce PROVE GivenOnce'
  <2>1. Unlike(left')
    <3>1. ASSUME NEW a \in DOMAIN left', NEW b \in DOMAIN left',
                 NEW j \in DOMAIN left'[a], NEW m \in DOMAIN left'[b],
                 ~left'[a][j].err, left'[a][j] = left'[b][m]
          PROVE  a = b /\ j = m
      <4>1. j \in Nat /\ m \in Nat
        BY <1>12, <3>1
      <4>2. PICK jj \in Nat : /\ jj \in DOMAIN left[a] /\ left'[a][j] = left[a][jj]
                              /\ jj = (IF a = i THEN j + 1 ELSE j)
        BY <1>11, <4>1
      <4>3. PICK mm \in Nat : /\ mm \in DOMAIN left[b] /\ left'[b][m] = left[b][mm]
                              /\ mm = (IF b = i THEN m + 1 ELSE m)
        BY <1>11, <4>1
      <4>4. /\ a \in DOMAIN left /\ b \in DOMAIN left
            /\ ~left[a][jj].err /\ left[a][jj] = left[b][mm]
        BY <1>5, <3>1, <4>2, <4>3
      <4>5. a = b /\ jj = mm
        BY <1>13, <4>2, <4>3, <4>4 DEF GivenOnce, Unlike
      <4>6. QED
        BY <4>1, <4>2, <4>3, <4>5
    <3>2. QED
      BY <3>1 DEF Unlike
  <2>2. ASSUME NEW k \in 1..n, NEW a \in DOMAIN left, NEW j \in DOMAIN left'[a], ~taken[k].err
        PROVE  taken[k] # left'[a][j]
    <3>1. \E m \in DOMAIN left[a] : left'[a][j] = left[a][m]
      BY <1>5, <1>11, <1>12
    <3>2. QED
      BY <1>7, <1>13, <2>2, <3>1 DEF GivenOnce
  <2>3. ASSUME NEW a \in DOMAIN left, NEW j \in DOMAIN left'[a], ~new.err
        PROVE  new # left'[a][j]
    <3>1. PICK m \in Nat : /\ m \in DOMAIN left[a] /\ left'[a][j] = left[a][m]
                           /\ (a = i => m # 1)
      BY <1>5, <1>11, <1>12
    <3>2. ASSUME new = left[a][m] PROVE FALSE
      <4>1. left[i][1] = left[a][m] /\ ~left[i][1].err /\ 1 \in DOMAIN left[i]
        BY <1>4, <2>3, <3>2 DEF s
      <4>2. i = a /\ 1 = m
        BY <1>3, <1>13, <3>1, <4>1 DEF GivenOnce, Unlike
      <4>3. QED
        BY <3>1, <4>2
    <3>3. QED
      BY <3>1, <3>2
  <2>4. \A k \in 1..n : ~taken[k].err => taken[k] # new
    <3>1. \A k \in 1..n : ~taken[k].err => \A m \in DOMAIN left[i] : taken[k] # left[i][m]
      BY <1>3, <1>7, <1>13 DEF GivenOnce
    <3>2. QED
      BY <1>4, <3>1 DEF s
  <2>5. \A k, l \in DOMAIN taken' : ~taken'[k].err /\ taken'[k] = taken'[l] => k = l
    <3>1. \A k, l \in 1..n : ~taken[k].err /\ taken[k] = taken[l] => k = l
      BY <1>7, <1>13 DEF GivenOnce
    <3>2. \A k \in 1..(n + 1) : k \in 1..n \/ k = n + 1
      BY <1>7
    <3>3. QED
      BY <1>7, <2>4, <3>1, <3>2
  <2>6. \A k \in DOMAIN taken', a \in DOMAIN left' : ~taken'[k].err =>
          \A m \in DOMAIN left'[a] : taken'[k] # left'[a][m]
    <3>1. \A k \in 1..(n + 1) : k \in 1..n \/ k = n + 1
      BY <1>7
    <3>2. QED
      BY <1>5, <1>7, <2>2, <2>3, <3>1
  <2>7. QED
    BY <2>1, <2>5, <2>6 DEF GivenOnce
(* A place is that of the sample that is taken, or was there before. *)
<1>14. ASSUME NEW p \in Place, NEW x \in Nat, Lies(p, x)'
       PROVE  \/ p.height >= 2 /\ Lies(p, x)
              \/ p.height = 1 /\ p.item = 0 /\ p.index = 1 /\ new = Ok(<<x>>)
  <2>1. Len(Chain) \in Nat /\ DOMAIN Chain = 1..Len(Chain)
    BY PlanIs DEF OnceIInv, ChainIInv, ChainTyped
  <2>2. CASE HandedOut(p, x)'
    <3>1. HandedOut(p, x) /\ p.height = 2 * Len(Chain) + 2
      BY <1>1, <1>8, <2>2 DEF HandedOut
    <3>2. QED
      BY <2>1, <3>1 DEF Lies
  <2>3. CASE OnItsWay(p, x)'
    <3>1. /\ ~new.err /\ p.height = 2 * 0 + 1 /\ p.item = 0 /\ p.index \in DOMAIN new.ids
          /\ x = new.ids[p.index]
      BY <1>8, <2>3 DEF OnItsWay
    <3>2. new.ids \in Seq(Nat) /\ Len(new.ids) = 1 /\ new = [ids |-> new.ids, err |-> FALSE]
      BY <1>4, <1>6, <3>1 DEF Item
    <3>3. p.index = 1
      BY <3>1, <3>2
    <3>4. new.ids = <<x>>
      BY <3>1, <3>2, <3>3
    <3>5. QED
      BY <3>1, <3>2, <3>3, <3>4 DEF Ok
  <2>4. CASE \E k \in DOMAIN Chain : InHand(k, p, x)'
    <3>1. PICK k \in 1..Len(Chain) : InHand(k, p, x)'
      BY <2>1, <2>4
    <3>2. InHand(k, p, x) /\ p.height = 2 * k
      BY <1>1, <3>1 DEF InHand
    <3>3. QED
      BY <2>1, <3>2 DEF Lies
  <2>5. QED
    BY <1>1, <1>14, <2>2, <2>3, <2>4 DEF Lies
<1>15. ASSUME GivenOnce, AllGiven, InLine PROVE AllGiven' /\ InLine'
  <2>1. ASSUME NEW p \in Place, NEW x \in Nat, Lies(p, x)'
        PROVE  \E k \in 1..(n + 1) : taken'[k] = Ok(<<x>>)
    <3>1. CASE p.height >= 2 /\ Lies(p, x)
      <4>1. PICK k \in 1..n : taken[k] = Ok(<<x>>)
        BY <1>7, <1>15, <3>1 DEF AllGiven
      <4>2. k \in 1..(n + 1) /\ taken'[k] = Ok(<<x>>)
        BY <1>7, <4>1
      <4>3. QED
        BY <4>2
    <3>2. CASE new = Ok(<<x>>)
      BY <1>7, <3>2
    <3>3. QED
      BY <1>14, <2>1, <3>1, <3>2
  <2>2. \A x : ~Ok(<<x>>).err
    BY DEF Ok
  <2>3. \A k, l \in 1..(n + 1) : ~taken'[k].err /\ taken'[k] = taken'[l] => k = l
    BY <1>7, <1>13, <1>15 DEF GivenOnce
  <2>4. ASSUME NEW p \in Place, NEW q \in Place, NEW x \in Nat, NEW y \in Nat,
               NEW k \in 1..(n + 1), NEW l \in 1..(n + 1),
               Lies(p, x)', Lies(q, y)', Ahead(p, q),
               taken'[k] = Ok(<<x>>), taken'[l] = Ok(<<y>>)
        PROVE  Apart(k, l)
    <3>1. p.height \in Nat /\ p.item \in Nat /\ p.index \in Nat
          /\ q.height \in Nat /\ q.item \in Nat /\ q.index \in Nat
      BY DEF Place
    <3>2. p.height >= 2 /\ Lies(p, x)
      <4>1. ~(p.height = 1 /\ p.item = 0 /\ p.index = 1)
        <5>1. q.height >= 2 \/ (q.height = 1 /\ q.item = 0 /\ q.index = 1)
          BY <1>14, <2>4
        <5>2. QED
          BY <2>4, <3>1, <5>1 DEF Ahead
      <4>2. QED
        BY <1>14, <2>4, <4>1
    <3>3. PICK kk \in 1..n : taken[kk] = Ok(<<x>>)
      BY <1>7, <1>15, <3>2 DEF AllGiven
    <3>4. kk = k
      <4>1. kk \in 1..(n + 1) /\ taken'[kk] = Ok(<<x>>)
        BY <1>7, <3>3
      <4>2. QED
        BY <2>2, <2>3, <2>4, <4>1
    <3>5. CASE q.height >= 2 /\ Lies(q, y)
      <4>1. PICK ll \in 1..n : taken[ll] = Ok(<<y>>)
        BY <1>7, <1>15, <3>5 DEF AllGiven
      <4>2. ll = l
        <5>1. ll \in 1..(n + 1) /\ taken'[ll] = Ok(<<y>>)
          BY <1>7, <4>1
        <5>2. QED
          BY <2>2, <2>3, <2>4, <5>1
      <4>3. QED
        BY <1>7, <1>15, <2>4, <3>2, <3>3, <3>4, <3>5, <4>1, <4>2 DEF InLine
    <3>6. CASE new = Ok(<<y>>)
      <4>1. n + 1 = l
        <5>1. n + 1 \in 1..(n + 1) /\ taken'[n + 1] = Ok(<<y>>)
          BY <1>7, <3>6
        <5>2. QED
          BY <2>2, <2>3, <2>4, <5>1
      <4>2. QED
        BY <1>7, <3>3, <3>4, <4>1 DEF Apart
    <3>7. QED
      BY <1>14, <2>4, <3>5, <3>6
  <2>5. \A k, l : Apart(k, l)' <=> Apart(k, l)
    BY <1>1 DEF Apart, Shuffling, Kind
  <2>6. AllGiven'
    BY <1>7, <2>1 DEF AllGiven
  <2>7. InLine'
    BY <1>7, <2>4, <2>5 DEF InLine, Ahead
  <2>8. QED
    BY <2>6, <2>7
<1>16. QED
  BY <1>1, <1>9, <1>10, <1>13, <1>15 DEF OnceIInv, Unlike

LEMMA DropDatasetOnce == ASSUME OnceIInv, DropDataset PROVE OnceIInv'
<1>1. left # <<>> /\ Asked(0) /\ UNCHANGED <<plan, stage, taken>> /\ Chain' = Chain
  BY DEF DropDataset, Chain
<1>2. PICK i \in Eligible : left' = RemoveAt(left, i)
  BY DEF DropDataset
<1>3. left \in Seq(Seq(Item)) /\ i \in DOMAIN left
  BY <1>1, EligibleIs DEF OnceIInv
<1> DEFINE n == Len(left)
<1>4. n \in Nat /\ DOMAIN left = 1..n /\ i \in 1..n
  BY <1>3
<1>5. /\ left' \in Seq(Seq(Item)) /\ Len(left') = n - 1
      /\ \A j \in 1..(n - 1) : left'[j] = IF j < i THEN left[j] ELSE left[j + 1]
  BY <1>2, <1>3, RemovedAt
<1> HIDE DEF n
<1>6. DOMAIN left' = 1..(n - 1)
  BY <1>4, <1>5
<1> DEFINE Was(j) == IF j < i THEN j ELSE j + 1
<1>7. /\ \A j \in 1..(n - 1) : Was(j) \in 1..n /\ left'[j] = left[Was(j)]
      /\ \A j, m \in 1..(n - 1) : Was(j) = Was(m) => j = m
  BY <1>4, <1>5
<1> HIDE DEF Was
<1>8. ASSUME GivenOnce PROVE GivenOnce'
  <2>1. Unlike(left')
    <3>1. ASSUME NEW a \in 1..(n - 1), NEW b \in 1..(n - 1),
                 NEW j \in DOMAIN left'[a], NEW m \in DOMAIN left'[b],
                 ~left'[a][j].err, left'[a][j] = left'[b][m]
          PROVE  a = b /\ j = m
      <4>1. /\ Was(a) \in DOMAIN left /\ Was(b) \in DOMAIN left
            /\ j \in DOMAIN left[Was(a)] /\ m \in DOMAIN left[Was(b)]
            /\ ~left[Was(a)][j].err /\ left[Was(a)][j] = left[Was(b)][m]
        BY <1>4, <1>7, <3>1
      <4>2. Was(a) = Was(b) /\ j = m
        BY <1>8, <4>1 DEF GivenOnce, Unlike
      <4>3. QED
        BY <1>7, <4>2
    <3>2. QED
      BY <1>6, <3>1 DEF Unlike
  <2>2. ASSUME NEW k \in DOMAIN taken, NEW a \in 1..(n - 1), ~taken[k].err,
               NEW m \in DOMAIN left'[a]
        PROVE  taken[k] # left'[a][m]
    <3>1. Was(a) \in DOMAIN left /\ left'[a] = left[Was(a)]
      BY <1>4, <1>7
    <3>2. QED
      BY <1>8, <2>2, <3>1 DEF GivenOnce
  <2>3. QED
    BY <1>1, <1>6, <1>8, <2>1, <2>2 DEF GivenOnce
<1>9. \A p \in Place, x \in Nat : Lies(p, x)' => Lies(p, x)
  <2>1. out' = out /\ (mode' = "ask" \/ (mode' = "tell" /\ answer' = End))
    BY <1>1 DEF DropDataset, Tell, Asked
  <2>2. \A p, x : ~OnItsWay(p, x)'
    BY <2>1, EndIsQuiet DEF OnItsWay
  <2>3. QED
    BY <1>1, <2>1, <2>2 DEF Lies, HandedOut, InHand
<1>10. ChainIInv'
  BY DropDatasetKeeps DEF OnceIInv
<1>11. EmptyHanded'
  BY <1>1 DEF OnceIInv, EmptyHanded, Kind
<1>12. QED
  BY <1>1, <1>8, <1>9, <1>10, <1>11, Goes DEF OnceIInv, Unlike

LEMMA RunDryOnce == ASSUME OnceIInv, RunDry PROVE OnceIInv'
<1>1. /\ UNCHANGED <<plan, stage, left, taken>> /\ Chain' = Chain
      /\ out' = out /\ mode' = "tell" /\ answer' = End
  BY DEF RunDry, sources, Tell, Chain
<1>2. \A p \in Place, x \in Nat : Lies(p, x)' => Lies(p, x)
  <2>1. \A p, x : ~OnItsWay(p, x)'
    BY <1>1, EndIsQuiet DEF OnItsWay
  <2>2. QED
    BY <1>1, <2>1 DEF Lies, HandedOut, InHand
<1>3. ChainIInv'
  BY RunDryKeeps DEF OnceIInv
<1>4. EmptyHanded'
  BY <1>1 DEF OnceIInv, EmptyHanded, Kind
<1>5. GivenOnce => GivenOnce'
  BY <1>1 DEF GivenOnce, Unlike
<1>6. QED
  BY <1>1, <1>2, <1>3, <1>4, <1>5, Goes DEF OnceIInv, Unlike

LEMMA StutterOnce == ASSUME OnceIInv, UNCHANGED chainVars PROVE OnceIInv'
<1>1. /\ UNCHANGED <<plan, mode, at, answer, left, stage, taken, out>> /\ Chain' = Chain
  BY DEF chainVars, Chain
<1>2. \A p \in Place, x \in Nat : Lies(p, x)' => Lies(p, x)
  BY <1>1 DEF Lies, HandedOut, OnItsWay, InHand
<1>3. ChainIInv'
  BY StutterKeeps DEF OnceIInv
<1>4. EmptyHanded'
  BY <1>1 DEF OnceIInv, EmptyHanded, Kind
<1>5. GivenOnce => GivenOnce'
  BY <1>1 DEF GivenOnce, Unlike
<1>6. QED
  BY <1>1, <1>2, <1>3, <1>4, <1>5, Goes DEF OnceIInv, Unlike

(* The invariant of a chain's samples: they stand in one line. *)
THEOREM OnceInductive == ChainSpec => []OnceIInv
<1>1. ASSUME OnceIInv, [ChainNext]_chainVars PROVE OnceIInv'
  BY <1>1, DemandOnce, HandOutOnce, TakeOnce, DropDatasetOnce, RunDryOnce, AdapterOnce,
     StutterOnce DEF ChainNext, Datasets, AtEnd
<1>2. QED
  BY <1>1, InitOnce, PTL DEF ChainSpec

(* A chain of adapters, blocking or not and however long, over any mixture   *)
(* of datasets that name no sample twice, hands out no sample twice and none *)
(* that was not given; and without a shuffle in it, in the order given       *)
(* (filters.rs, asynch/filters.rs, mix.rs).                                  *)
THEOREM ChainsRepeatNothing == ChainSpec => []OnceInOrder
<1>1. ASSUME OnceIInv PROVE OnceInOrder
  <2> SUFFICES ASSUME Unlike(plan.data), NEW m \in DOMAIN out, NEW n \in DOMAIN out,
                      ~out[m].err, ~out[n].err,
                      NEW i \in DOMAIN out[m].ids, NEW j \in DOMAIN out[n].ids
               PROVE  \E k, l \in DOMAIN taken :
                        /\ taken[k] = Ok(<<out[m].ids[i]>>) /\ taken[l] = Ok(<<out[n].ids[j]>>)
                        /\ k = l => m = n /\ i = j
                        /\ Shuffling = {} /\ (m < n \/ (m = n /\ i < j)) => k < l
    BY DEF OnceInOrder
  <2> DEFINE x == out[m].ids[i]
             y == out[n].ids[j]
             top == 2 * Len(Chain) + 2
             p == [height |-> top, item |-> m, index |-> i]
             q == [height |-> top, item |-> n, index |-> j]
  <2>1. /\ out \in Seq(Item) /\ taken \in Seq(Item) /\ Len(Chain) \in Nat
        /\ GivenOnce /\ AllGiven /\ InLine
    BY <1>1, PlanIs DEF OnceIInv, ChainIInv, ChainTyped
  <2>2. out[m] \in Item /\ out[n] \in Item /\ m \in Nat /\ n \in Nat
    BY <2>1
  <2>3. x \in Nat /\ y \in Nat /\ i \in Nat /\ j \in Nat
    <3>1. out[m].ids \in Seq(Nat) /\ out[n].ids \in Seq(Nat)
      BY <2>2 DEF Item
    <3>2. QED
      BY <3>1
  <2>4. p \in Place /\ q \in Place
    BY <2>1, <2>2, <2>3 DEF Place
  <2>5. Lies(p, x) /\ Lies(q, y)
    BY DEF Lies, HandedOut
  <2>6. PICK k \in DOMAIN taken : taken[k] = Ok(<<x>>)
    BY <2>1, <2>3, <2>4, <2>5 DEF AllGiven
  <2>7. PICK l \in DOMAIN taken : taken[l] = Ok(<<y>>)
    BY <2>1, <2>3, <2>4, <2>5 DEF AllGiven
  <2>8. (m < n \/ (m = n /\ i < j)) => Ahead(p, q)
    BY DEF Ahead
  <2>9. (n < m \/ (m = n /\ j < i)) => Ahead(q, p)
    BY DEF Ahead
  <2> HIDE DEF p, q, x, y
  <2>10. Ahead(p, q) => Apart(k, l)
    BY <2>1, <2>3, <2>4, <2>5, <2>6, <2>7 DEF InLine
  <2>11. Ahead(q, p) => Apart(l, k)
    BY <2>1, <2>3, <2>4, <2>5, <2>6, <2>7 DEF InLine
  <2>12. k = l => m = n /\ i = j
    BY <2>2, <2>3, <2>8, <2>9, <2>10, <2>11 DEF Apart
  <2>13. Shuffling = {} /\ (m < n \/ (m = n /\ i < j)) => k < l
    BY <2>8, <2>10 DEF Apart
  <2>14. QED
    BY <2>6, <2>7, <2>12, <2>13 DEF x, y
<1>2. QED
  BY <1>1, OnceInductive, PTL

-----------------------------------------------------------------------------
(* A chain that loses nothing: every sample that was taken stands in line;   *)
(* an end that is told leaves nothing behind it; one that will not ask below *)
(* has nothing below it.                                                     *)
Unbroken == \A k \in DOMAIN Chain : Lossless(k)

Blocked(k) == Dead(k) \/ (Kind(k) = "unbatch" /\ stage[k].held # <<>>)

NoneGone ==
  \A n \in DOMAIN taken : ~taken[n].err =>
    \E p \in Place, x \in Nat : taken[n] = Ok(<<x>>) /\ Lies(p, x)

Emptied(k) == \A j \in DOMAIN Chain : j <= k => stage[j].held = <<>>

Swept ==
  /\ mode = "tell" /\ answer = End => Emptied(at)
  /\ mode = "ended" => Emptied(Len(Chain))

InTurn == \A k \in DOMAIN Chain : Blocked(k) /\ mode \in {"ask", "tell"} => at >= k

Shut ==
  \A k \in DOMAIN Chain : Dead(k) => Emptied(k - 1) /\ (Finished(k) => stage[k].held = <<>>)

Simple ==
  \A k \in DOMAIN Chain : /\ Kind(k) = "nonEmpty" => stage[k].held = <<>>
                          /\ Kind(k) = "map" => ~stage[k].done

Faultless ==
  /\ mode = "tell" /\ Errless(at) => ~answer.err
  /\ Errless(0) => \A i \in DOMAIN left : \A j \in DOMAIN left[i] : ~left[i][j].err

Whole == NoneGone /\ Swept /\ InTurn /\ Shut /\ Simple /\ Faultless

WholeIInv == OnceIInv /\ (Unbroken => Whole)

LEMMA InitWhole == ASSUME ChainInit PROVE WholeIInv
<1>1. OnceIInv
  BY InitOnce
<1>2. /\ Chain = plan.chain /\ mode = "idle" /\ taken = <<>> /\ left = plan.data
      /\ \A k \in DOMAIN Chain : stage[k].held = <<>> /\ ~stage[k].done
  BY DEF ChainInit, Chain
<1>3. DOMAIN taken = {}
  BY <1>2
<1>4. NoneGone
  BY <1>3 DEF NoneGone
<1>5. \A k : Emptied(k)
  BY <1>2 DEF Emptied
<1>6. Swept /\ InTurn /\ Shut /\ Simple
  BY <1>2, <1>5 DEF Swept, InTurn, Shut, Simple, Dead, Finished
<1>7. Faultless
  BY <1>2 DEF Faultless, Errless
<1>8. QED
  BY <1>1, <1>4, <1>6, <1>7 DEF WholeIInv, Whole

(* What an adapter of such a chain does to what it has.                      *)
Covers(k) == \A i \in DOMAIN Had(k) : \E j \in DOMAIN (Has(k)') : Has(k)'[j] = Had(k)[i]

Ends(k) == Dead(k) \/ (Told(k) /\ answer = End)

Spares(k) ==
  /\ Covers(k)
  /\ mode' = "tell" /\ answer' = End => stage'[k].held = <<>> /\ Ends(k)
  /\ Dead(k)' => Ends(k)
  /\ Finished(k)' => stage'[k].held = <<>>
  /\ mode' = "ask" => at' = k \/ (at' = k - 1 /\ ~Blocked(k)')
  /\ Kind(k) = "nonEmpty" => stage'[k].held = <<>>
  /\ Kind(k) = "map" => ~stage'[k].done
  /\ mode' = "tell" /\ Errless(k) => ~answer'.err

LEMMA SameCovers == ASSUME NEW k, Has(k)' = Had(k) PROVE Covers(k)
BY DEF Covers

LEMMA PickCovers ==
  ASSUME OnceIInv, NEW k \in DOMAIN Chain, NEW done, Pick(k, Had(k), done)
  PROVE  Covers(k)
<1> DEFINE had == Had(k)
           has == Has(k)'
           n == Len(had)
<1>1. Had(k) \in Seq(Nat)
  BY AtHandOnce
<1>2. n \in Nat /\ DOMAIN had = 1..n
  BY <1>1
<1>3. DOMAIN has = 1..n
  BY <1>1, PickHas
<1>4. PICK i \in 1..n : \A j \in 1..n :
        has[j] = had[IF j = 1 THEN i ELSE IF j - 1 < i THEN j - 1 ELSE j]
  BY <1>1, PickHas
<1> HIDE DEF had, has, n
<1>5. ASSUME NEW m \in 1..n PROVE \E j \in 1..n : has[j] = had[m]
  <2>1. CASE m = i
    BY <1>2, <1>4, <2>1
  <2>2. CASE m < i
    <3>1. m + 1 \in 1..n /\ m + 1 # 1 /\ (m + 1) - 1 = m
      BY <1>2, <2>2
    <3>2. has[m + 1] = had[m]
      BY <1>4, <2>2, <3>1
    <3>3. QED
      BY <3>1, <3>2
  <2>3. CASE m > i
    <3>1. m # 1 /\ ~(m - 1 < i)
      BY <1>2, <2>3
    <3>2. has[m] = had[m]
      BY <1>4, <3>1
    <3>3. QED
      BY <3>2
  <2>4. QED
    BY <1>2, <2>1, <2>2, <2>3
<1>6. QED
  BY <1>2, <1>3, <1>5 DEF Covers, had, has

LEMMA DeadIs ==
  ASSUME NEW k, Kind(k) # "slice"
  PROVE  /\ Dead(k) <=> \/ Kind(k) \in {"map", "listed", "shuffle"} /\ stage[k].done
                        \/ Kind(k) = "nonEmpty" /\ stage[k].done /\ plan.async
         /\ Finished(k) <=> Dead(k) /\ Kind(k) # "shuffle"
BY DEF Dead, Finished

LEMMA DeadNext ==
  ASSUME NEW k, Kind(k) # "slice", plan' = plan
  PROVE  /\ Kind(k)' = Kind(k)
         /\ Dead(k)' <=> \/ Kind(k) \in {"map", "listed", "shuffle"} /\ stage'[k].done
                         \/ Kind(k) = "nonEmpty" /\ stage'[k].done /\ plan.async
         /\ Finished(k)' <=> Dead(k)' /\ Kind(k) # "shuffle"
<1>1. Kind(k)' = Kind(k)
  BY DEF Kind, Chain
<1>2. QED
  BY <1>1 DEF Dead, Finished

(* What such an adapter is, and what it is asked or told. *)
LEMMA KindsAre ==
  ASSUME WholeIInv, Unbroken, NEW k \in DOMAIN Chain
  PROVE  /\ OnceIInv /\ Whole /\ Lossless(k) /\ Kind(k) # "slice"
         /\ Kind(k) = "map" => /\ Chain[k].drops = {} /\ Chain[k].fails = {}
                               /\ stage[k].held = <<>> /\ ~stage[k].done
         /\ Kind(k) = "listed" => Chain[k].partial
         /\ Kind(k) = "nonEmpty" => stage[k].held = <<>> /\ ~Errless(k)
<1>1. OnceIInv /\ Whole
  BY DEF WholeIInv
<1>2. plan \in Plans
  BY <1>1 DEF OnceIInv, ChainIInv, ChainTyped
<1>3. k \in Nat \ {0}
  BY <1>2, PlanIs
<1>4. Lossless(k)
  BY DEF Unbroken
<1>5. /\ Kind(k) # "slice"
      /\ Kind(k) = "map" => Chain[k].drops \cup Chain[k].fails = {}
      /\ Kind(k) = "listed" => Chain[k].partial
  BY <1>4 DEF Lossless
<1>6. Kind(k) = "map" => stage[k].held = <<>> /\ ~stage[k].done
  BY <1>1 DEF Whole, Simple, OnceIInv, EmptyHanded
<1>7. Kind(k) = "nonEmpty" => stage[k].held = <<>> /\ ~Errless(k)
  BY <1>1, <1>3 DEF Whole, Simple, Errless
<1>8. QED
  BY <1>1, <1>4, <1>5, <1>6, <1>7

LEMMA ToldIs ==
  ASSUME WholeIInv, Unbroken, NEW k \in DOMAIN Chain
  PROVE  /\ Told(k) => ~Blocked(k)
         /\ Errless(k) \/ Kind(k) = "listed" => Errless(k - 1)
         /\ Told(k) /\ (Errless(k) \/ Kind(k) = "listed") => ~answer.err
<1>1. Whole /\ Lossless(k) /\ OnceIInv
  BY KindsAre
<1>2. k \in Nat \ {0}
  BY <1>1, PlanIs DEF OnceIInv, ChainIInv, ChainTyped
<1>3. Told(k) => ~Blocked(k)
  <2>1. Told(k) => ~(at >= k) /\ mode = "tell"
    BY <1>2 DEF Told
  <2>2. QED
    BY <1>1, <2>1 DEF Whole, InTurn
<1>4. Errless(k) => Errless(k - 1)
  BY <1>2 DEF Errless
<1>5. Kind(k) = "listed" => Errless(k - 1)
  BY <1>1 DEF Lossless
<1>6. Told(k) /\ Errless(k - 1) => ~answer.err
  BY <1>1 DEF Whole, Faultless, Told
<1>7. QED
  BY <1>3, <1>4, <1>5, <1>6

LEMMA HadNow ==
  ASSUME OnceIInv, NEW k \in DOMAIN Chain
  PROVE  /\ Asked(k) \/ (Told(k) /\ (answer.err \/ answer = End)) => Had(k) = stage[k].held
         /\ stage[k].held \in Seq(Nat)
<1>1. stage[k].held \in Seq(Nat)
  BY AtHandOnce
<1>2. Asked(k) \/ (Told(k) /\ (answer.err \/ answer = End)) => ToldNow(k - 1) = <<>>
  BY EndIsQuiet DEF Asked, Told, ToldNow
<1>3. stage[k].held \o <<>> = stage[k].held
  BY <1>1
<1>4. QED
  BY <1>1, <1>2, <1>3 DEF Had

(* What is told to one that holds nothing is what it has. *)
LEMMA HadTold ==
  ASSUME OnceIInv, NEW k \in DOMAIN Chain, Told(k), ~answer.err, stage[k].held = <<>>
  PROVE  Had(k) = answer.ids /\ answer.ids \in Seq(Nat)
<1>1. answer.ids \in Seq(Nat) /\ Had(k) = stage[k].held \o answer.ids
  BY AtHandOnce, AtHand DEF OnceIInv
<1>2. <<>> \o answer.ids = answer.ids
  BY <1>1
<1>3. QED
  BY <1>1, <1>2

LEMMA SizeIs ==
  ASSUME OnceIInv, NEW k \in DOMAIN Chain, Kind(k) = "listed"
  PROVE  Chain[k].size \in Nat \ {0}
BY SizesAre DEF OnceIInv, ChainIInv, ChainTyped

(* It tells no sample and keeps what it holds. *)
LEMMA QuietHas ==
  ASSUME WholeIInv, Unbroken, NEW k \in DOMAIN Chain, plan' = plan,
         \/ \E j : Ask(j)
         \/ \E item : Tell(k, item) /\ (item.err \/ item.ids = <<>>),
         stage'[k].held = stage[k].held
  PROVE  Has(k)' = stage[k].held
<1>1. ToldNow(k)' = <<>> /\ stage[k].held \in Seq(Nat)
  BY AskIs, TellIs, HadNow DEF WholeIInv
<1>2. QED
  BY <1>1, HasPart

(* It tells what it has been told, holding nothing. *)
LEMMA PassedHas ==
  ASSUME OnceIInv, NEW k \in DOMAIN Chain, NEW item, Tell(k, item), ~item.err,
         item.ids \in Seq(Nat), stage'[k].held = <<>>
  PROVE  Has(k)' = item.ids
<1>1. ToldNow(k)' = item.ids
  BY TellIs
<1>2. QED
  BY <1>1, HasPart

LEMMA RefuseSpares ==
  ASSUME WholeIInv, Unbroken, NEW k \in DOMAIN Chain, Refuse(k) PROVE Spares(k)
<1>1. Asked(k) /\ Finished(k) /\ Tell(k, End) /\ plan' = plan /\ stage' = stage
  BY DEF Refuse
<1>2. Kind(k) # "slice" /\ Had(k) = stage[k].held
  BY <1>1, KindsAre, ToldIs, HadNow
<1>3. Dead(k) /\ stage[k].held = <<>> /\ Ends(k)
  BY <1>1 DEF WholeIInv, Whole, Shut, Dead, Ends
<1>4. Has(k)' = Had(k)
  BY <1>1, <1>2, EndIsQuiet, QuietHas
<1>5. Covers(k)
  BY <1>4, SameCovers
<1>6. mode' = "tell" /\ answer' = End /\ ~End.err
  BY <1>1, EndIsQuiet DEF Tell
<1>7. Kind(k) = "map" => ~stage[k].done
  BY <1>1, KindsAre, ToldIs, HadNow
<1>8. QED
  BY <1>1, <1>3, <1>5, <1>6, <1>7 DEF Spares

LEMMA ForwardSpares ==
  ASSUME WholeIInv, Unbroken, NEW k \in DOMAIN Chain, Forward(k) PROVE Spares(k)
<1>1. Asked(k) /\ Ask(k - 1) /\ plan' = plan /\ stage' = stage
  BY DEF Forward
<1>2. ~Blocked(k)
  BY DEF Forward, Blocked, Dead
<1>3. /\ Kind(k) # "slice" /\ Had(k) = stage[k].held
      /\ Kind(k) = "nonEmpty" => stage[k].held = <<>>
      /\ Kind(k) = "map" => ~stage[k].done
  BY <1>1, KindsAre, ToldIs, HadNow
<1>4. Has(k)' = Had(k)
  BY <1>1, <1>3, QuietHas
<1>5. Covers(k)
  BY <1>4, SameCovers
<1>6. ~Dead(k)' /\ ~Finished(k)' /\ ~Blocked(k)'
  BY <1>1, <1>2, <1>3, DeadIs, DeadNext DEF Blocked
<1>7. mode' = "ask" /\ at' = k - 1
  BY <1>1 DEF Ask
<1>8. QED
  BY <1>1, <1>3, <1>5, <1>6, <1>7 DEF Spares

LEMMA PassEndSpares ==
  ASSUME WholeIInv, Unbroken, NEW k \in DOMAIN Chain, PassEnd(k) PROVE Spares(k)
<1>1. /\ Told(k) /\ answer = End /\ Tell(k, End) /\ plan' = plan /\ stage' = stage
      /\ Kind(k) \in {"map", "unbatch", "slice", "nonEmpty"}
  BY DEF PassEnd
<1>2. /\ Kind(k) # "slice" /\ Had(k) = stage[k].held /\ ~Blocked(k)
      /\ Kind(k) = "nonEmpty" => stage[k].held = <<>>
      /\ Kind(k) = "map" => stage[k].held = <<>> /\ ~stage[k].done
  BY <1>1, KindsAre, ToldIs, HadNow
<1>3. stage[k].held = <<>> /\ Ends(k)
  BY <1>1, <1>2 DEF Blocked, Ends
<1>4. Has(k)' = Had(k)
  BY <1>1, <1>2, EndIsQuiet, QuietHas
<1>5. Covers(k)
  BY <1>4, SameCovers
<1>6. mode' = "tell" /\ answer' = End /\ ~End.err
  BY <1>1, EndIsQuiet DEF Tell
<1>7. QED
  BY <1>1, <1>2, <1>3, <1>5, <1>6 DEF Spares

LEMMA SplitSpares ==
  ASSUME WholeIInv, Unbroken, NEW k \in DOMAIN Chain, Split(k) PROVE Spares(k)
<1>1. /\ Asked(k) /\ Kind(k) = "unbatch" /\ plan' = plan
      /\ Tell(k, Ok(<<Head(stage[k].held)>>))
  BY DEF Split
<1>2. OnceIInv /\ Had(k) = stage[k].held
  BY <1>1, KindsAre, ToldIs, HadNow
<1>3. Covers(k)
  BY <1>2, SplitHas, SameCovers
<1>4. mode' = "tell" /\ answer' # End /\ ~answer'.err
  BY <1>1 DEF Tell, Ok, End
<1>5. ~Dead(k)' /\ ~Finished(k)'
  BY <1>1, DeadNext
<1>6. QED
  BY <1>1, <1>3, <1>4, <1>5 DEF Spares

LEMMA DrainSpares ==
  ASSUME WholeIInv, Unbroken, NEW k \in DOMAIN Chain, Drain(k) \/ EndBuffer(k) PROVE Spares(k)
<1>1. /\ plan' = plan /\ Kind(k) = "shuffle"
      /\ \/ Asked(k) /\ stage[k].done
         \/ Told(k) /\ answer = End
      /\ \/ stage[k].held = <<>> /\ Tell(k, End) /\ (stage' = stage \/ Becomes(k, <<>>, 0, TRUE))
         \/ Pick(k, stage[k].held, TRUE)
  BY DEF Drain, EndBuffer
<1>2. OnceIInv /\ Had(k) = stage[k].held /\ stage[k].held \in Seq(Nat)
  BY <1>1, KindsAre, ToldIs, HadNow
<1>3. Ends(k)
  BY <1>1 DEF Ends, Dead
<1>4. ~Finished(k)'
  BY <1>1, DeadNext
<1>5. CASE stage[k].held = <<>> /\ Tell(k, End) /\ (stage' = stage \/ Becomes(k, <<>>, 0, TRUE))
  <2>1. stage'[k].held = <<>>
    BY <1>2, <1>5, BecomesIs
  <2>2. Has(k)' = Had(k)
    BY <1>1, <1>2, <1>5, <2>1, EndIsQuiet, QuietHas
  <2>3. Covers(k)
    BY <2>2, SameCovers
  <2>4. mode' = "tell" /\ answer' = End /\ ~End.err
    BY <1>5, EndIsQuiet DEF Tell
  <2>5. QED
    BY <1>1, <1>3, <1>4, <2>1, <2>3, <2>4 DEF Spares
<1>6. CASE Pick(k, stage[k].held, TRUE)
  <2>1. Covers(k)
    BY <1>2, <1>6, PickCovers
  <2>2. PICK x \in Nat : Tell(k, Ok(<<x>>))
    BY <1>2, <1>6, PickHas
  <2>3. mode' = "tell" /\ answer' # End /\ ~answer'.err
    BY <2>2 DEF Tell, Ok, End
  <2>4. QED
    BY <1>1, <1>3, <1>4, <2>1, <2>3 DEF Spares
<1>7. QED
  BY <1>1, <1>5, <1>6

LEMMA PassErrorSpares ==
  ASSUME WholeIInv, Unbroken, NEW k \in DOMAIN Chain, PassError(k) PROVE Spares(k)
<1>1. /\ Told(k) /\ answer.err /\ Tell(k, answer) /\ plan' = plan
      /\ \E n : Becomes(k, IF Kind(k) = "listed" THEN <<>> ELSE stage[k].held, n, stage[k].done)
  BY DEF PassError
<1>2. /\ OnceIInv /\ Kind(k) \notin {"slice", "listed"} /\ Had(k) = stage[k].held /\ ~Blocked(k)
      /\ Kind(k) = "nonEmpty" => stage[k].held = <<>>
      /\ Kind(k) = "map" => ~stage[k].done
      /\ ~Errless(k)
  BY <1>1, KindsAre, ToldIs, HadNow
<1>3. stage'[k].held = stage[k].held
  BY <1>1, <1>2, BecomesIs
<1>4. stage'[k].done = stage[k].done
  BY <1>1 DEF Becomes, OnceIInv, ChainIInv, ChainTyped
<1>5. Has(k)' = Had(k)
  BY <1>1, <1>2, <1>3, QuietHas
<1>6. Covers(k)
  BY <1>5, SameCovers
<1>7. ~Dead(k)' /\ ~Finished(k)'
  BY <1>1, <1>2, <1>4, DeadIs, DeadNext DEF Blocked
<1>8. mode' = "tell" /\ answer' = answer /\ answer # End
  BY <1>1, EndIsQuiet DEF Tell
<1>9. QED
  BY <1>2, <1>3, <1>4, <1>6, <1>7, <1>8 DEF Spares

LEMMA ReportEmptySpares ==
  ASSUME WholeIInv, Unbroken, NEW k \in DOMAIN Chain, ReportEmpty(k) PROVE Spares(k)
<1>1. /\ Told(k) /\ answer = End /\ Kind(k) = "nonEmpty" /\ plan' = plan
      /\ Tell(k, Err(<<>>)) /\ Becomes(k, <<>>, 0, TRUE)
  BY DEF ReportEmpty
<1>2. OnceIInv /\ Had(k) = stage[k].held /\ stage[k].held = <<>> /\ ~Errless(k)
  BY <1>1, KindsAre, ToldIs, HadNow
<1>3. stage'[k].held = <<>>
  BY <1>1, <1>2, BecomesIs
<1>4. Err(<<>>).err
  BY DEF Err
<1>5. Has(k)' = Had(k)
  BY <1>1, <1>2, <1>3, <1>4, QuietHas
<1>6. Covers(k)
  BY <1>5, SameCovers
<1>7. mode' = "tell" /\ answer' # End
  BY <1>1, <1>4, EndIsQuiet DEF Tell
<1>8. QED
  BY <1>1, <1>2, <1>3, <1>6, <1>7 DEF Spares, Ends

LEMMA EndGroupSpares ==
  ASSUME WholeIInv, Unbroken, NEW k \in DOMAIN Chain, EndGroup(k) PROVE Spares(k)
<1> DEFINE group == stage[k].held
<1>1. /\ Told(k) /\ answer = End /\ Kind(k) = "listed" /\ plan' = plan
      /\ Tell(k, IF Complete(Chain[k], group) THEN Ok(group) ELSE End)
      /\ Becomes(k, <<>>, 0, plan.async)
  BY DEF EndGroup
<1>2. /\ OnceIInv /\ Had(k) = group /\ group \in Seq(Nat) /\ Chain[k].partial
      /\ Chain[k].size \in Nat \ {0}
  BY <1>1, KindsAre, HadNow, SizeIs
<1>3. stage'[k].held = <<>>
  BY <1>1, <1>2, BecomesIs
<1>4. Complete(Chain[k], group) <=> group # <<>>
  <2>1. Len(<<>>) = 0
    OBVIOUS
  <2>2. group = <<>> => ~(Len(group) = Chain[k].size)
    BY <1>2, <2>1
  <2>3. QED
    BY <1>2, <2>2 DEF Complete
<1> HIDE DEF group
<1>5. Covers(k)
  <2>1. CASE group = <<>>
    <3>1. Tell(k, End)
      BY <1>1, <1>4, <2>1
    <3>2. Has(k)' = group
      BY <1>1, <1>3, <2>1, <3>1, EndIsQuiet, QuietHas DEF group
    <3>3. QED
      BY <1>2, <3>2, SameCovers
  <2>2. CASE group # <<>>
    <3>1. Tell(k, Ok(group)) /\ ~Ok(group).err /\ Ok(group).ids = group
      BY <1>1, <1>4, <2>2 DEF Ok
    <3>2. Has(k)' = group
      BY <1>2, <1>3, <3>1, PassedHas
    <3>3. QED
      BY <1>2, <3>2, SameCovers
  <2>3. QED
    BY <2>1, <2>2
<1>6. mode' = "tell" /\ ~answer'.err
  BY <1>1 DEF Tell, Ok, End
<1>7. QED
  BY <1>1, <1>3, <1>5, <1>6 DEF Spares, Ends

LEMMA PassesSpares ==
  ASSUME WholeIInv, Unbroken, NEW k \in DOMAIN Chain, Keep(k) \/ Count(k) PROVE Spares(k)
<1>1. /\ Told(k) /\ ~answer.err /\ answer # End /\ Kind(k) \in {"map", "nonEmpty"}
      /\ plan' = plan /\ Tell(k, answer)
      /\ stage' = stage \/ \E n : Becomes(k, <<>>, n, stage[k].done)
  BY DEF Keep, Count, Sample
<1>2. /\ OnceIInv /\ stage[k].held = <<>> /\ ~Blocked(k) /\ answer.ids \in Seq(Nat)
      /\ Had(k) = answer.ids /\ (Kind(k) = "map" => ~stage[k].done)
  BY <1>1, KindsAre, ToldIs, HadTold
<1>3. stage'[k].held = <<>>
  BY <1>1, <1>2, BecomesIs
<1>4. stage'[k].done = stage[k].done
  BY <1>1, <1>2 DEF Becomes, OnceIInv, ChainIInv, ChainTyped
<1>5. Has(k)' = Had(k)
  BY <1>1, <1>2, <1>3, PassedHas
<1>6. Covers(k)
  BY <1>5, SameCovers
<1>7. ~Dead(k)' /\ ~Finished(k)'
  BY <1>1, <1>2, <1>4, DeadIs, DeadNext DEF Blocked
<1>8. mode' = "tell" /\ answer' = answer
  BY <1>1 DEF Tell
<1>9. QED
  BY <1>1, <1>2, <1>3, <1>4, <1>6, <1>7, <1>8 DEF Spares

LEMMA GroupSpares ==
  ASSUME WholeIInv, Unbroken, NEW k \in DOMAIN Chain, Group(k) PROVE Spares(k)
<1> DEFINE group == stage[k].held \o answer.ids
<1>1. Told(k) /\ ~answer.err /\ Kind(k) = "listed" /\ plan' = plan
  BY DEF Group, Sample
<1>2. OnceIInv /\ Had(k) = group /\ Had(k) \in Seq(Nat) /\ Chain[k].size \in Nat \ {0}
  BY <1>1, AtHandOnce, SizeIs DEF WholeIInv
<1>3. \/ Len(group) = Chain[k].size /\ Tell(k, Ok(group)) /\ Becomes(k, <<>>, 0, FALSE)
      \/ Ask(k - 1) /\ Becomes(k, group, 0, FALSE)
  BY DEF Group
<1> HIDE DEF group
<1>4. stage'[k].done = FALSE
  BY <1>2, <1>3 DEF Becomes, OnceIInv, ChainIInv, ChainTyped
<1>5. ~Dead(k)' /\ ~Finished(k)' /\ ~Blocked(k)'
  BY <1>1, <1>4, DeadNext DEF Blocked
<1>6. CASE Len(group) = Chain[k].size /\ Tell(k, Ok(group)) /\ Becomes(k, <<>>, 0, FALSE)
  <2>1. ~Ok(group).err /\ Ok(group).ids = group /\ stage'[k].held = <<>>
    BY <1>2, <1>6, BecomesIs DEF Ok
  <2>2. Has(k)' = Had(k)
    BY <1>2, <1>6, <2>1, PassedHas
  <2>3. Covers(k)
    BY <2>2, SameCovers
  <2>4. group # <<>>
    <3>1. Len(<<>>) = 0
      OBVIOUS
    <3>2. QED
      BY <1>2, <1>6, <3>1
  <2>5. mode' = "tell" /\ answer' # End /\ ~answer'.err
    BY <1>6, <2>1, <2>4, EndIsQuiet DEF Tell
  <2>6. QED
    BY <1>1, <1>5, <2>3, <2>5 DEF Spares
<1>7. CASE Ask(k - 1) /\ Becomes(k, group, 0, FALSE)
  <2>1. ToldNow(k)' = <<>> /\ stage'[k].held = group
    BY <1>2, <1>7, AskIs, BecomesIs
  <2>2. Has(k)' = Had(k)
    BY <1>2, <2>1, HasPart
  <2>3. Covers(k)
    BY <2>2, SameCovers
  <2>4. mode' = "ask" /\ at' = k - 1
    BY <1>7 DEF Ask
  <2>5. QED
    BY <1>1, <1>5, <2>3, <2>4 DEF Spares
<1>8. QED
  BY <1>3, <1>6, <1>7

LEMMA BufferSpares ==
  ASSUME WholeIInv, Unbroken, NEW k \in DOMAIN Chain, Buffer(k) PROVE Spares(k)
<1> DEFINE buffer == stage[k].held \o answer.ids
<1>1. Told(k) /\ ~answer.err /\ Kind(k) = "shuffle" /\ plan' = plan
  BY DEF Buffer, Sample
<1>2. OnceIInv /\ Had(k) = buffer /\ Had(k) \in Seq(Nat)
  BY <1>1, AtHandOnce DEF WholeIInv
<1>3. \/ Pick(k, buffer, FALSE)
      \/ Ask(k - 1) /\ \E n : Becomes(k, buffer, n, FALSE)
  BY DEF Buffer
<1> HIDE DEF buffer
<1>4. stage'[k].done = FALSE
  <2>1. \E held, n : Becomes(k, held, n, FALSE)
    BY <1>2, <1>3, PickHas
  <2>2. QED
    BY <1>2, <2>1 DEF Becomes, OnceIInv, ChainIInv, ChainTyped
<1>5. ~Dead(k)' /\ ~Finished(k)' /\ ~Blocked(k)'
  BY <1>1, <1>4, DeadNext DEF Blocked
<1>6. CASE Pick(k, buffer, FALSE)
  <2>1. Covers(k)
    BY <1>2, <1>6, PickCovers
  <2>2. PICK x \in Nat : Tell(k, Ok(<<x>>))
    BY <1>2, <1>6, PickHas
  <2>3. mode' = "tell" /\ answer' # End /\ ~answer'.err
    BY <2>2 DEF Tell, Ok, End
  <2>4. QED
    BY <1>1, <1>5, <2>1, <2>3 DEF Spares
<1>7. CASE Ask(k - 1) /\ \E n : Becomes(k, buffer, n, FALSE)
  <2>1. ToldNow(k)' = <<>> /\ stage'[k].held = buffer
    BY <1>2, <1>7, AskIs, BecomesIs
  <2>2. Has(k)' = Had(k)
    BY <1>2, <2>1, HasPart
  <2>3. Covers(k)
    BY <2>2, SameCovers
  <2>4. mode' = "ask" /\ at' = k - 1
    BY <1>7 DEF Ask
  <2>5. QED
    BY <1>1, <1>5, <2>3, <2>4 DEF Spares
<1>8. QED
  BY <1>3, <1>6, <1>7

LEMMA UnpackSpares ==
  ASSUME WholeIInv, Unbroken, NEW k \in DOMAIN Chain, Unpack(k) PROVE Spares(k)
<1>1. /\ Told(k) /\ ~answer.err /\ Kind(k) = "unbatch" /\ plan' = plan
      /\ Ask(k) /\ Becomes(k, answer.ids, 0, FALSE)
  BY DEF Unpack, Sample
<1>2. OnceIInv /\ stage[k].held = <<>>
  BY <1>1, ToldIs DEF WholeIInv, Blocked
<1>3. Had(k) = answer.ids /\ answer.ids \in Seq(Nat)
  BY <1>1, <1>2, HadTold
<1>4. ToldNow(k)' = <<>> /\ stage'[k].held = answer.ids
  BY <1>1, <1>2, AskIs, BecomesIs
<1>5. Covers(k)
  BY <1>3, <1>4, HasPart, SameCovers
<1>6. mode' = "ask" /\ at' = k
  BY <1>1 DEF Ask
<1>7. ~Dead(k)' /\ ~Finished(k)'
  BY <1>1, DeadNext
<1>8. QED
  BY <1>1, <1>5, <1>6, <1>7 DEF Spares

(* Nothing is dropped, failed on or cut off. *)
LEMMA NoneOfThese ==
  ASSUME WholeIInv, Unbroken, NEW k \in DOMAIN Chain
  PROVE  ~PassOver(k) /\ ~Fail(k) /\ ~SliceItem(k)
<1>1. /\ Kind(k) # "slice"
      /\ Kind(k) = "map" => Chain[k].drops = {} /\ Chain[k].fails = {}
  BY KindsAre
<1>2. QED
  BY <1>1 DEF PassOver, Fail, SliceItem, Sample

LEMMA AdapterSpares ==
  ASSUME WholeIInv, Unbroken, NEW k \in DOMAIN Chain, Adapter(k) PROVE Spares(k)
BY RefuseSpares, ForwardSpares, PassEndSpares, SplitSpares, DrainSpares, PassErrorSpares,
   ReportEmptySpares, EndGroupSpares, PassesSpares, GroupSpares, BufferSpares, UnpackSpares,
   NoneOfThese DEF Adapter

-----------------------------------------------------------------------------
(* Each step of an unbroken chain loses nothing.                             *)
LEMMA SamePlan ==
  ASSUME plan' = plan
  PROVE  /\ Unbroken' <=> Unbroken
         /\ Chain' = Chain
         /\ \A k : (Errless(k)' <=> Errless(k)) /\ Kind(k)' = Kind(k)
<1>1. Chain' = Chain
  BY DEF Chain
<1>2. \A k : Kind(k)' = Kind(k)
  BY <1>1 DEF Kind
<1>3. \A k : Errless(k)' <=> Errless(k)
  BY <1>2 DEF Errless
<1>4. \A k : Lossless(k)' <=> Lossless(k)
  BY <1>1, <1>2, <1>3 DEF Lossless
<1>5. QED
  BY <1>1, <1>2, <1>3, <1>4 DEF Unbroken

LEMMA SameStage ==
  ASSUME NEW k, plan' = plan, stage'[k] = stage[k]
  PROVE  (Dead(k)' <=> Dead(k)) /\ (Finished(k)' <=> Finished(k)) /\ (Blocked(k)' <=> Blocked(k))
<1>1. Chain' = Chain /\ Kind(k)' = Kind(k)
  BY SamePlan
<1>2. Finished(k)' <=> Finished(k)
  BY <1>1 DEF Finished
<1>3. Dead(k)' <=> Dead(k)
  BY <1>1, <1>2 DEF Dead
<1>4. QED
  BY <1>1, <1>2, <1>3 DEF Blocked

(* What an adapter had is told or held: nothing else has moved. *)
LEMMA AdapterKeepsAll ==
  ASSUME OnceIInv, ChainIInv', NEW k \in DOMAIN Chain, Works(k), Covers(k), NoneGone
  PROVE  NoneGone'
<1>1. /\ UNCHANGED <<plan, taken, out>> /\ Chain' = Chain
      /\ \A j \in DOMAIN Chain : j # k => stage'[j] = stage[j]
  BY DEF Works, sources, Chain
<1>2. k \in Nat \ {0}
  BY PlanIs DEF OnceIInv, ChainIInv, ChainTyped
<1> SUFFICES ASSUME NEW n \in DOMAIN taken, ~taken[n].err
             PROVE  \E p \in Place, x \in Nat : taken[n] = Ok(<<x>>) /\ Lies(p, x)'
  BY <1>1 DEF NoneGone
<1>3. PICK p \in Place, x \in Nat : taken[n] = Ok(<<x>>) /\ Lies(p, x)
  BY DEF NoneGone
<1> SUFFICES \E q \in Place : Lies(q, x)'
  BY <1>3
<1>4. CASE HandedOut(p, x)
  BY <1>1, <1>4 DEF HandedOut, Lies
<1>5. CASE \E j \in DOMAIN Chain : j # k /\ InHand(j, p, x)
  <2>1. PICK j \in DOMAIN Chain : j # k /\ InHand(j, p, x)
    BY <1>5
  <2>2. InHand(j, p, x)'
    BY <1>1, <2>1 DEF InHand
  <2>3. QED
    BY <1>1, <2>2 DEF Lies
<1>6. CASE OnItsWay(p, x) \/ InHand(k, p, x)
  <2> DEFINE held == stage[k].held
             below == ToldNow(k - 1)
             had == Had(k)
             told == ToldNow(k)'
             stays == stage'[k].held
             has == Has(k)'
  <2>1. /\ DOMAIN held = 1..Len(held) /\ DOMAIN below = 1..Len(below)
        /\ Len(held) \in Nat /\ Len(below) \in Nat
        /\ DOMAIN had = 1..Len(had) /\ Len(had) = Len(held) + Len(below)
        /\ \A i \in 1..Len(had) :
             had[i] = IF i <= Len(held) THEN held[i] ELSE below[i - Len(held)]
    BY HadIs DEF OnceIInv
  <2>2. /\ DOMAIN told = 1..Len(told) /\ DOMAIN stays = 1..Len(stays)
        /\ Len(told) \in Nat /\ Len(stays) \in Nat
        /\ DOMAIN has = 1..Len(has) /\ Len(has) = Len(told) + Len(stays)
        /\ \A i \in 1..Len(told) : has[i] = told[i]
        /\ \A i \in 1..Len(stays) : has[Len(told) + i] = stays[i]
    BY <1>1, HasIs
  <2>3. OnItsWay(p, x) => p.index \in DOMAIN below /\ x = below[p.index]
    <3>1. Asked(k) \/ Told(k)
      BY DEF Works
    <3>2. QED
      BY <3>1 DEF OnItsWay, Asked, Told, ToldNow
  <2>4. InHand(k, p, x) => p.index \in DOMAIN held /\ x = held[p.index]
    BY DEF InHand
  <2>5. \A j \in DOMAIN had : \E i \in DOMAIN has : has[i] = had[j]
    BY DEF Covers
  <2>6. \A i \in DOMAIN told : mode' = "tell" /\ at' = k /\ ~answer'.err /\ told = answer'.ids
    BY DEF ToldNow
  <2> HIDE DEF held, below, had, told, has
  <2>7. PICK j \in 1..Len(had) : had[j] = x
    <3>1. CASE OnItsWay(p, x)
      <4>1. p.index \in 1..Len(below) /\ x = below[p.index]
        BY <2>1, <2>3, <3>1
      <4>2. Len(held) + p.index \in 1..Len(had) /\ ~(Len(held) + p.index <= Len(held))
            /\ (Len(held) + p.index) - Len(held) = p.index
        BY <2>1, <4>1
      <4>3. QED
        BY <2>1, <4>1, <4>2
    <3>2. CASE InHand(k, p, x)
      <4>1. p.index \in 1..Len(held) /\ x = held[p.index]
        BY <2>1, <2>4, <3>2
      <4>2. p.index \in 1..Len(had) /\ p.index <= Len(held)
        BY <2>1, <4>1
      <4>3. QED
        BY <2>1, <4>1, <4>2
    <3>3. QED
      BY <1>6, <3>1, <3>2
  <2>8. PICK i \in 1..Len(has) : has[i] = x
    BY <2>1, <2>2, <2>5, <2>7
  <2>9. CASE i <= Len(told)
    <3> DEFINE q == [height |-> 2 * k + 1, item |-> 0, index |-> i]
    <3>1. q \in Place
      BY <1>2, <2>2 DEF Place
    <3>2. i \in DOMAIN told /\ told[i] = x
      BY <2>2, <2>8, <2>9
    <3>3. OnItsWay(q, x)'
      BY <2>6, <3>2 DEF OnItsWay
    <3> HIDE DEF q
    <3>4. QED
      BY <3>1, <3>3 DEF Lies
  <2>10. CASE i > Len(told)
    <3>1. /\ i - Len(told) \in 1..Len(stays) /\ Len(told) + (i - Len(told)) = i
      BY <2>2, <2>10
    <3>2. [height |-> 2 * k, item |-> 0, index |-> i - Len(told)] \in Place
      BY <1>2, <3>1 DEF Place
    <3>3. PICK q \in Place : q.height = 2 * k /\ q.item = 0 /\ q.index = i - Len(told)
      BY <3>2
    <3>4. q.index \in DOMAIN stays /\ stays[q.index] = x
      BY <2>2, <2>8, <3>1, <3>3
    <3>5. InHand(k, q, x)'
      BY <3>3, <3>4 DEF InHand
    <3>6. QED
      BY <1>1, <3>5 DEF Lies
  <2>11. QED
    BY <2>2, <2>9, <2>10
<1>7. QED
  BY <1>3, <1>4, <1>5, <1>6 DEF Lies

LEMMA AdapterWhole ==
  ASSUME WholeIInv, NEW k \in DOMAIN Chain, Adapter(k) PROVE WholeIInv'
<1>1. OnceIInv /\ OnceIInv'
  BY AdapterOnce DEF WholeIInv
<1>2. Works(k) /\ ChainIInv'
  BY <1>1, AdapterOrderly DEF Orderly, OnceIInv
<1>3. /\ UNCHANGED <<plan, left, taken, out>>
      /\ \A j \in DOMAIN Chain : j # k => stage'[j] = stage[j]
      /\ (mode = "ask" /\ at = k) \/ (mode = "tell" /\ at = k - 1)
      /\ mode' = "ask" \/ (mode' = "tell" /\ at' = k)
  BY <1>2 DEF Works, sources, Asked, Told
<1>4. /\ Unbroken' <=> Unbroken
      /\ Chain' = Chain /\ \A j : (Errless(j)' <=> Errless(j)) /\ Kind(j)' = Kind(j)
  BY <1>3, SamePlan
<1>5. DOMAIN Chain = 1..Len(Chain) /\ Len(Chain) \in Nat /\ k \in 1..Len(Chain)
  BY <1>1, PlanIs DEF OnceIInv, ChainIInv, ChainTyped
<1> SUFFICES ASSUME Unbroken PROVE Whole'
  BY <1>1, <1>4 DEF WholeIInv
<1>6. Whole /\ Spares(k)
  BY AdapterSpares DEF WholeIInv
<1>7. NoneGone'
  BY <1>1, <1>2, <1>6, AdapterKeepsAll DEF Whole, Spares
(* The others are as dead, and as empty, as they were. *)
<1>8. \A j \in DOMAIN Chain : j # k => /\ (Dead(j)' <=> Dead(j)) /\ (Finished(j)' <=> Finished(j))
                                       /\ (Blocked(j)' <=> Blocked(j))
  BY <1>3, SameStage
<1>9. \A j \in DOMAIN Chain : j > k => ~Blocked(j)
  BY <1>3, <1>5, <1>6 DEF Whole, InTurn
<1>10. ASSUME NEW j \in 1..k, Emptied(j - 1) PROVE Emptied(j - 1)'
  BY <1>3, <1>4, <1>5, <1>10 DEF Emptied
<1>11. Ends(k) => Emptied(k - 1)
  BY <1>3, <1>6 DEF Ends, Told, Whole, Swept, Shut
<1>12. Swept'
  <2>1. ASSUME mode' = "tell", answer' = End PROVE Emptied(k)'
    <3>1. stage'[k].held = <<>> /\ Emptied(k - 1)'
      BY <1>5, <1>6, <1>10, <1>11, <2>1 DEF Spares
    <3>2. \A j \in DOMAIN Chain : j <= k => j = k \/ j <= k - 1
      BY <1>5
    <3>3. QED
      BY <1>4, <3>1, <3>2 DEF Emptied
  <2>2. QED
    BY <1>3, <2>1 DEF Swept
<1>13. InTurn'
  <2>1. ASSUME NEW j \in DOMAIN Chain, Blocked(j)', mode' \in {"ask", "tell"} PROVE at' >= j
    <3>1. at' = k \/ (at' = k - 1 /\ ~Blocked(k)')
      BY <1>3, <1>6 DEF Spares
    <3>2. j <= k
      BY <1>5, <1>8, <1>9, <2>1
    <3>3. CASE j = k
      BY <1>5, <2>1, <3>1, <3>3
    <3>4. CASE j < k
      BY <1>5, <3>1, <3>4
    <3>5. QED
      BY <1>5, <3>2, <3>3, <3>4
  <2>2. QED
    BY <1>4, <2>1 DEF InTurn
<1>14. Shut'
  <2>1. ASSUME NEW j \in DOMAIN Chain, Dead(j)'
        PROVE  Emptied(j - 1)' /\ (Finished(j)' => stage'[j].held = <<>>)
    <3>1. CASE j = k
      BY <1>5, <1>6, <1>10, <1>11, <2>1, <3>1 DEF Spares
    <3>2. CASE j # k
      <4>1. Dead(j) /\ Blocked(j)
        BY <1>8, <2>1, <3>2 DEF Blocked
      <4>2. j \in 1..k
        BY <1>5, <1>9, <4>1
      <4>3. Emptied(j - 1) /\ (Finished(j) => stage[j].held = <<>>)
        BY <1>6, <4>1 DEF Whole, Shut
      <4>4. QED
        BY <1>3, <1>8, <1>10, <3>2, <4>2, <4>3
    <3>3. QED
      BY <3>1, <3>2
  <2>2. QED
    BY <1>4, <2>1 DEF Shut
<1>15. Simple'
  <2>1. \A j \in DOMAIN Chain : /\ Kind(j) = "nonEmpty" => stage'[j].held = <<>>
                                /\ Kind(j) = "map" => ~stage'[j].done
    BY <1>3, <1>6 DEF Whole, Simple, Spares
  <2>2. QED
    BY <1>4, <2>1 DEF Simple
<1>16. Faultless'
  BY <1>3, <1>4, <1>6 DEF Faultless, Whole, Spares
<1>17. QED
  BY <1>7, <1>12, <1>13, <1>14, <1>15, <1>16 DEF Whole

(* Steps that leave the adapters alone.                                      *)
LEMMA StageStays ==
  ASSUME UNCHANGED <<plan, stage>>
  PROVE  /\ Simple => Simple'
         /\ Shut => Shut'
         /\ \A k : (Emptied(k)' <=> Emptied(k)) /\ (Blocked(k)' <=> Blocked(k))
<1>1. Chain' = Chain /\ \A k : Kind(k)' = Kind(k)
  BY SamePlan
<1>2. \A k : Emptied(k)' <=> Emptied(k)
  BY <1>1 DEF Emptied
<1>3. \A k : /\ (Dead(k)' <=> Dead(k)) /\ (Finished(k)' <=> Finished(k))
             /\ (Blocked(k)' <=> Blocked(k))
  BY SameStage
<1>4. Shut => Shut'
  BY <1>1, <1>2, <1>3 DEF Shut
<1>5. Simple => Simple'
  BY <1>1 DEF Simple
<1>6. QED
  BY <1>2, <1>3, <1>4, <1>5

LEMMA DemandWhole == ASSUME WholeIInv, Demand PROVE WholeIInv'
<1>1. /\ mode = "idle" /\ mode' = "ask" /\ at' = Len(Chain)
      /\ UNCHANGED <<plan, answer, out, left, taken, stage>>
  BY DEF Demand, Ask, sources
<1>2. OnceIInv /\ OnceIInv'
  BY DemandOnce DEF WholeIInv
<1>3. (Unbroken' <=> Unbroken) /\ Chain' = Chain /\ \A k : Errless(k)' <=> Errless(k)
  BY <1>1, SamePlan
<1> SUFFICES ASSUME Unbroken PROVE Whole'
  BY <1>2, <1>3 DEF WholeIInv
<1>4. Whole
  BY DEF WholeIInv
<1>5. NoneGone'
  <2>1. \A p, x : Lies(p, x) => Lies(p, x)'
    BY <1>1, <1>3 DEF Lies, HandedOut, OnItsWay, InHand
  <2>2. QED
    BY <1>1, <1>4, <2>1 DEF Whole, NoneGone
<1>6. InTurn'
  <2>1. \A k \in DOMAIN Chain : Len(Chain) >= k
    BY <1>2, PlanIs DEF OnceIInv, ChainIInv, ChainTyped
  <2>2. QED
    BY <1>1, <1>3, <2>1 DEF InTurn
<1>7. QED
  BY <1>1, <1>3, <1>4, <1>5, <1>6, StageStays DEF Whole, Swept, Faultless

LEMMA HandOutWhole == ASSUME WholeIInv, HandOut PROVE WholeIInv'
<1>1. /\ mode = "tell" /\ at = Len(Chain) /\ UNCHANGED <<plan, at, answer, left, taken, stage>>
      /\ mode' = (IF answer = End THEN "ended" ELSE "idle")
      /\ out' = IF answer = End THEN out ELSE Append(out, answer)
  BY DEF HandOut, sources
<1>2. OnceIInv /\ OnceIInv'
  BY HandOutOnce DEF WholeIInv
<1>3. (Unbroken' <=> Unbroken) /\ Chain' = Chain /\ \A k : Errless(k)' <=> Errless(k)
  BY <1>1, SamePlan
<1> SUFFICES ASSUME Unbroken PROVE Whole'
  BY <1>2, <1>3 DEF WholeIInv
<1>4. Whole
  BY DEF WholeIInv
<1>5. NoneGone'
  <2>1. /\ out \in Seq(Item) /\ answer \in Item /\ Len(Chain) \in Nat /\ Len(out) \in Nat
        /\ DOMAIN out = 1..Len(out)
    BY <1>2, PlanIs DEF OnceIInv, ChainIInv, ChainTyped
  <2>2. \A m \in DOMAIN out : m \in DOMAIN out' /\ out'[m] = out[m]
    BY <1>1, <2>1
  <2>3. ASSUME NEW p \in Place, NEW x \in Nat, Lies(p, x) PROVE \E q \in Place : Lies(q, x)'
    <3>1. CASE HandedOut(p, x)
      <4>1. HandedOut(p, x)'
        BY <1>3, <2>2, <3>1 DEF HandedOut
      <4>2. QED
        BY <4>1 DEF Lies
    <3>2. CASE \E k \in DOMAIN Chain : InHand(k, p, x)
      <4>1. \E k \in DOMAIN Chain : InHand(k, p, x)'
        BY <1>1, <3>2 DEF InHand
      <4>2. QED
        BY <1>3, <4>1 DEF Lies
    <3>3. CASE OnItsWay(p, x)
      <4>1. ~answer.err /\ p.index \in DOMAIN answer.ids /\ x = answer.ids[p.index]
        BY <3>3 DEF OnItsWay
      <4>2. answer # End
        BY <4>1, EndIsQuiet
      <4>3. PICK q \in Place : q.height = 2 * Len(Chain) + 2 /\ q.item = Len(out) + 1
                              /\ q.index = p.index
        <5>1. [height |-> 2 * Len(Chain) + 2, item |-> Len(out) + 1, index |-> p.index] \in Place
          BY <2>1 DEF Place
        <5>2. QED
          BY <5>1
      <4>4. q.item \in DOMAIN out' /\ out'[q.item] = answer
        BY <1>1, <2>1, <4>2, <4>3
      <4>5. HandedOut(q, x)'
        BY <1>3, <4>1, <4>3, <4>4 DEF HandedOut
      <4>6. QED
        BY <4>5 DEF Lies
    <3>4. QED
      BY <2>3, <3>1, <3>2, <3>3 DEF Lies
  <2>4. QED
    BY <1>1, <1>4, <2>3 DEF Whole, NoneGone
<1>6. Swept'
  BY <1>1, <1>3, <1>4, StageStays DEF Whole, Swept
<1>7. QED
  BY <1>1, <1>3, <1>4, <1>5, <1>6, StageStays DEF Whole, InTurn, Faultless

LEMMA TakeWhole == ASSUME WholeIInv, Take PROVE WholeIInv'
<1>1. mode = "ask" /\ at = 0 /\ left # <<>> /\ UNCHANGED <<plan, stage>>
  BY DEF Take, Asked
<1>2. PICK i \in Eligible :
        /\ left[i] # <<>> /\ left' = [left EXCEPT ![i] = Tail(@)]
        /\ taken' = Append(taken, Head(left[i])) /\ Tell(0, Head(left[i]))
  BY DEF Take
<1> DEFINE new == Head(left[i])
           n == Len(taken)
<1>3. OnceIInv /\ OnceIInv'
  BY TakeOnce DEF WholeIInv
<1>4. (Unbroken' <=> Unbroken) /\ Chain' = Chain /\ \A k : Errless(k)' <=> Errless(k)
  BY <1>1, SamePlan
<1>5. /\ left \in Seq(Seq(Item)) /\ taken \in Seq(Item) /\ i \in DOMAIN left
      /\ \A m \in DOMAIN left : \A j \in DOMAIN left[m] :
           left[m][j].err \/ Len(left[m][j].ids) = 1
  BY <1>1, <1>3, EligibleIs DEF OnceIInv
<1>6. left[i] \in Seq(Item) /\ left[i] # <<>>
  BY <1>2, <1>5
<1>7. /\ new \in Item /\ new = left[i][1] /\ 1 \in DOMAIN left[i]
      /\ \A j \in DOMAIN Tail(left[i]) : j + 1 \in DOMAIN left[i] /\ Tail(left[i])[j] = left[i][j + 1]
  BY <1>6
<1>8. new.err \/ Len(new.ids) = 1
  BY <1>5, <1>7
<1>9. /\ DOMAIN left' = DOMAIN left
      /\ \A m \in DOMAIN left : left'[m] = IF m = i THEN Tail(left[i]) ELSE left[m]
  BY <1>2, <1>5
<1>10. mode' = "tell" /\ at' = 0 /\ answer' = new /\ out' = out
  BY <1>2 DEF Tell
<1>11. /\ DOMAIN taken' = 1..(n + 1) /\ taken'[n + 1] = new /\ n \in Nat
       /\ \A k \in 1..n : taken'[k] = taken[k] /\ k \in DOMAIN taken
  BY <1>2, <1>5, <1>7
<1> HIDE DEF new, n
<1> SUFFICES ASSUME Unbroken PROVE Whole'
  BY <1>3, <1>4 DEF WholeIInv
<1>12. Whole
  BY DEF WholeIInv
(* The sample that is taken is what the datasets tell. *)
<1>13. NoneGone'
  <2>1. ASSUME NEW k \in 1..(n + 1), ~taken'[k].err
        PROVE  \E p \in Place, x \in Nat : taken'[k] = Ok(<<x>>) /\ Lies(p, x)'
    <3>1. CASE k \in 1..n
      <4>1. PICK p \in Place, x \in Nat : taken[k] = Ok(<<x>>) /\ Lies(p, x)
        BY <1>11, <1>12, <2>1, <3>1 DEF Whole, NoneGone
      <4>2. Lies(p, x)'
        BY <1>1, <1>4, <1>10, <4>1 DEF Lies, HandedOut, OnItsWay, InHand
      <4>3. QED
        BY <1>11, <3>1, <4>1, <4>2
    <3>2. CASE k = n + 1
      <4>1. ~new.err /\ new.ids \in Seq(Nat) /\ Len(new.ids) = 1
            /\ new = [ids |-> new.ids, err |-> FALSE]
        BY <1>7, <1>8, <1>11, <2>1, <3>2 DEF Item
      <4>2. PICK x \in Nat : x = new.ids[1] /\ new.ids = <<x>> /\ 1 \in DOMAIN new.ids
        BY <4>1
      <4>3. [height |-> 1, item |-> 0, index |-> 1] \in Place
        BY DEF Place
      <4>4. PICK p \in Place : p.height = 2 * 0 + 1 /\ p.item = 0 /\ p.index = 1
        BY <4>3
      <4>5. OnItsWay(p, x)'
        BY <1>10, <4>1, <4>2, <4>4 DEF OnItsWay
      <4>6. taken'[k] = Ok(<<x>>)
        BY <1>11, <3>2, <4>1, <4>2 DEF Ok
      <4>7. QED
        BY <4>5, <4>6 DEF Lies
    <3>3. QED
      BY <1>11, <3>1, <3>2
  <2>2. QED
    BY <1>11, <2>1 DEF NoneGone
<1>14. Swept'
  <2>1. new # End
    BY <1>8, EndIsQuiet
  <2>2. QED
    BY <1>10, <2>1 DEF Swept
<1>15. InTurn'
  BY <1>1, <1>4, <1>10, <1>12, StageStays DEF Whole, InTurn
<1>16. Faultless'
  <2>1. ASSUME Errless(0) PROVE \A m \in DOMAIN left : \A j \in DOMAIN left[m] : ~left[m][j].err
    BY <1>12, <2>1 DEF Whole, Faultless
  <2>2. ASSUME Errless(0) PROVE ~new.err
    BY <1>5, <1>7, <2>1, <2>2
  <2>3. ASSUME Errless(0), NEW m \in DOMAIN left', NEW j \in DOMAIN left'[m]
        PROVE  ~left'[m][j].err
    <3>1. m \in DOMAIN left /\ left'[m] = IF m = i THEN Tail(left[i]) ELSE left[m]
      BY <1>9, <2>3
    <3>2. CASE m = i
      <4>1. j + 1 \in DOMAIN left[i] /\ left'[m][j] = left[i][j + 1]
        BY <1>7, <2>3, <3>1, <3>2
      <4>2. QED
        BY <1>5, <2>1, <2>3, <4>1
    <3>3. CASE m # i
      BY <2>1, <2>3, <3>1, <3>3
    <3>4. QED
      BY <3>2, <3>3
  <2>4. QED
    BY <1>4, <1>10, <2>2, <2>3 DEF Faultless
<1>17. QED
  BY <1>1, <1>12, <1>13, <1>14, <1>15, <1>16, StageStays DEF Whole

(* The datasets tell the end, or drop one of them: nothing was on its way,   *)
(* and below them there is nothing.                                          *)
LEMMA DryWhole ==
  ASSUME WholeIInv, OnceIInv', UNCHANGED <<plan, stage, taken, out>>, Asked(0),
         \/ mode' = "tell" /\ at' = 0 /\ answer' = End
         \/ UNCHANGED <<mode, at, answer>>,
         \A m \in DOMAIN left' : \E j \in DOMAIN left : left'[m] = left[j]
  PROVE  WholeIInv'
<1>1. mode = "ask" /\ at = 0
  BY DEF Asked
<1>2. (Unbroken' <=> Unbroken) /\ Chain' = Chain /\ \A k : Errless(k)' <=> Errless(k)
  BY SamePlan
<1>3. DOMAIN Chain = 1..Len(Chain)
  BY PlanIs DEF WholeIInv, OnceIInv, ChainIInv, ChainTyped
<1> SUFFICES ASSUME Unbroken PROVE Whole'
  BY <1>2 DEF WholeIInv
<1>4. Whole
  BY DEF WholeIInv
<1>5. NoneGone'
  <2>1. \A p, x : Lies(p, x) => Lies(p, x)'
    BY <1>1, <1>2 DEF Lies, HandedOut, OnItsWay, InHand
  <2>2. QED
    BY <1>4, <2>1 DEF Whole, NoneGone
<1>6. Swept'
  <2>1. Emptied(0)'
    BY <1>2, <1>3 DEF Emptied
  <2>2. QED
    BY <1>1, <2>1 DEF Swept
<1>7. InTurn'
  BY <1>1, <1>2, <1>4, StageStays DEF Whole, InTurn
<1>8. Faultless'
  <2>1. Errless(0) => \A m \in DOMAIN left' : \A j \in DOMAIN left'[m] : ~left'[m][j].err
    BY <1>4 DEF Whole, Faultless
  <2>2. mode' = "tell" => ~answer'.err
    BY <1>1, EndIsQuiet
  <2>3. QED
    BY <1>2, <2>1, <2>2 DEF Faultless
<1>9. QED
  BY <1>4, <1>5, <1>6, <1>7, <1>8, StageStays DEF Whole

LEMMA DropDatasetWhole == ASSUME WholeIInv, DropDataset PROVE WholeIInv'
<1>1. left # <<>> /\ UNCHANGED <<plan, stage, taken>> /\ Asked(0)
  BY DEF DropDataset
<1>2. PICK i \in Eligible : left' = RemoveAt(left, i)
  BY DEF DropDataset
<1>3. OnceIInv /\ OnceIInv'
  BY DropDatasetOnce DEF WholeIInv
<1>4. left \in Seq(Seq(Item)) /\ i \in DOMAIN left
  BY <1>1, <1>3, EligibleIs DEF OnceIInv
<1>5. \A m \in DOMAIN left' : \E j \in DOMAIN left : left'[m] = left[j]
  BY <1>2, <1>4, RemoveAtIs
<1>6. out' = out /\ (UNCHANGED <<mode, at, answer>> \/ (mode' = "tell" /\ at' = 0 /\ answer' = End))
  BY DEF DropDataset, Tell
<1>7. QED
  BY <1>1, <1>3, <1>5, <1>6, DryWhole

LEMMA RunDryWhole == ASSUME WholeIInv, RunDry PROVE WholeIInv'
<1>1. /\ UNCHANGED <<plan, stage, taken, out, left>> /\ Asked(0)
      /\ mode' = "tell" /\ at' = 0 /\ answer' = End
  BY DEF RunDry, Tell, sources
<1>2. OnceIInv'
  BY RunDryOnce DEF WholeIInv
<1>3. QED
  BY <1>1, <1>2, DryWhole

LEMMA StutterWhole == ASSUME WholeIInv, UNCHANGED chainVars PROVE WholeIInv'
<1>1. UNCHANGED <<plan, mode, at, answer, left, stage, taken, out>>
  BY DEF chainVars
<1>2. OnceIInv'
  BY StutterOnce DEF WholeIInv
<1>3. (Unbroken' <=> Unbroken) /\ Chain' = Chain /\ \A k : Errless(k)' <=> Errless(k)
  BY <1>1, SamePlan
<1>4. NoneGone => NoneGone'
  BY <1>1, <1>3 DEF NoneGone, Lies, HandedOut, OnItsWay, InHand
<1>5. QED
  BY <1>1, <1>2, <1>3, <1>4, StageStays DEF WholeIInv, Whole, Swept, InTurn, Faultless

(* The invariant of an unbroken chain: whoever tells the end, or will ask no *)
(* more, has nothing left, nor has anyone below it.                          *)
THEOREM WholeInductive == ChainSpec => []WholeIInv
<1>1. ASSUME WholeIInv, [ChainNext]_chainVars PROVE WholeIInv'
  BY <1>1, DemandWhole, HandOutWhole, TakeWhole, DropDatasetWhole, RunDryWhole, AdapterWhole,
     StutterWhole DEF ChainNext, Datasets, AtEnd
<1>2. QED
  BY <1>1, InitWhole, PTL DEF ChainSpec

(* A chain of adapters that drop nothing, fail on nothing and cut nothing    *)
(* off, blocking or not and however long, has handed out every sample it was *)
(* given when it ends (filters.rs, asynch/filters.rs, mix.rs).               *)
THEOREM ChainsLoseNothing == ChainSpec => []NothingIsLost
<1>1. ASSUME WholeIInv PROVE NothingIsLost
  <2> SUFFICES ASSUME mode = "ended", \A k \in DOMAIN Chain : Lossless(k),
                      NEW n \in DOMAIN taken, ~taken[n].err
               PROVE  \E m \in DOMAIN out : ~out[m].err /\ \E i \in DOMAIN out[m].ids :
                        taken[n] = Ok(<<out[m].ids[i]>>)
    BY DEF NothingIsLost
  <2>1. Whole /\ DOMAIN Chain = 1..Len(Chain)
    BY <1>1, PlanIs DEF WholeIInv, Unbroken, OnceIInv, ChainIInv, ChainTyped
  <2>2. PICK p \in Place, x \in Nat : taken[n] = Ok(<<x>>) /\ Lies(p, x)
    BY <2>1 DEF Whole, NoneGone
  <2>3. \A k \in DOMAIN Chain : stage[k].held = <<>>
    BY <2>1 DEF Whole, Swept, Emptied
  <2>4. HandedOut(p, x)
    BY <2>2, <2>3 DEF Lies, OnItsWay, InHand
  <2>5. QED
    BY <2>2, <2>4 DEF HandedOut
<1>2. QED
  BY <1>1, WholeInductive, PTL
=============================================================================
