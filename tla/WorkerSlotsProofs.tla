-------------------------- MODULE WorkerSlotsProofs --------------------------
(***************************************************************************)
(* What holds of WorkerSlots for any number of slots and contexts, if      *)
(* there is a slot for every context: no search for a slot fails, and the  *)
(* table implements a thread-local.                                        *)
(***************************************************************************)
EXTENDS WorkerSlots, FiniteSetTheorems, TLAPS

Found == {"loadWorker", "loadNum", "loaded", "storeWorker", "release"}

(* What a call is looking at: a slot that is not its own, or its own cell. *)
CellOK ==
  \A c \in Contexts :
    /\ pc[c] # "run" => c \in live
    /\ pc[c] = "claim" =>
         hooked /\ cell[c] \in Slots /\ \A s \in Slots : token[s] # c
    /\ pc[c] \in Found =>
         IF hooked THEN cell[c] \in Slots /\ token[cell[c]] = c ELSE cell[c] = 0

TokenOK == \A s \in Slots : token[s] # Unset => hooked /\ token[s] \in live

(* The cell s of context c holds what c bound last, but for the two stores *)
(* of a replace that is under way.                                         *)
Contains(c, s) ==
  /\ worker[s] = IF pc[c] = "release" THEN Unset ELSE own[c].worker
  /\ own[c] # None /\ pc[c] # "storeWorker" => num[s] = own[c].num

(* A slot given back is empty: this is what Forget before Release is for. *)
ContentsOK ==
  /\ \A s \in Slots : token[s] = Unset => worker[s] = Unset
  /\ \A s \in Slots, c \in Contexts : token[s] = c => Contains(c, s)
  /\ ~hooked => \A c \in live : Contains(c, 0)

HeldOK ==
  hooked => \A c \in live :
    /\ own[c] # None => \E s \in Slots : token[s] = c
    /\ pc[c] = "run" /\ own[c] = None => \A s \in Slots : token[s] # c

PrevOK ==
  \A c \in Contexts :
    /\ pc[c] = "loadNum" =>
         own[c] # None /\ prev[c] = [worker |-> own[c].worker, num |-> 1]
    /\ pc[c] \in {"loaded", "storeWorker", "release"} => prev[c] = own[c]

(* Between the two stores of a replace the number is there already. *)
StoredOK ==
  \A c \in Contexts :
    pc[c] = "storeWorker" /\ next[c] # None => num[cell[c]] = next[c].num

CallOK ==
  \A c \in Contexts :
    /\ own[c] \in Bound(c) /\ scopes[c] \in Seq(Bound(c))
    /\ op[c] = "none" <=> pc[c] = "run"
    /\ op[c] = "enter" => next[c] \in Identities[c] /\ Len(scopes[c]) < MaxDepth[c]
    /\ op[c] = "leave" =>
         scopes[c] # <<>> /\ next[c] = scopes[c][Len(scopes[c])]
    /\ op[c] = "rebind" => c \in Callers /\ next[c] \in Bound(c)
    /\ op[c] = "current" =>
         /\ c \in Callers /\ pc[c] \in {"loadWorker", "loadNum", "loaded"}
         /\ hooked => own[c] # None
    /\ pc[c] = "storeWorker" => next[c] # None \/ ~hooked
    /\ pc[c] = "release" => next[c] = None /\ hooked

(* The contexts at a slot after i, searching there or holding it. *)
Beyond(i) ==
  {c \in live : \E s \in Slots :
     s > i /\ (token[s] = c \/ (pc[c] = "claim" /\ cell[c] = s))}

(* A search moves on past a slot only while another context holds it, which *)
(* is then not beyond it: so at most MaxThreads - i contexts are beyond i.  *)
Spread ==
  hooked => \A i \in 0..MaxThreads : Cardinality(Beyond(i)) <= MaxThreads - i

LocalInv ==
  /\ TypeOK /\ Room
  /\ CellOK /\ TokenOK /\ ContentsOK /\ HeldOK /\ PrevOK /\ CallOK

IInv == LocalInv /\ StoredOK /\ Spread

-----------------------------------------------------------------------------
(* How many contexts are beyond a slot. *)

LEMMA BeyondFinite ==
  ASSUME live \in SUBSET Contexts, NEW i \in 0..MaxThreads
  PROVE  /\ IsFiniteSet(Beyond(i)) /\ Cardinality(Beyond(i)) \in Nat
         /\ Cardinality(Beyond(i)) <= Cardinality(live)
         /\ IsFiniteSet(live) /\ Cardinality(live) \in Nat
<1>1. IsFiniteSet(live)
  BY FS_Subset, SlotsAssumption
<1>2. Beyond(i) \in SUBSET live
  BY DEF Beyond
<1>3. QED
  BY <1>1, <1>2, FS_Subset, FS_CardinalityType

LEMMA SmallerSet ==
  ASSUME NEW S, NEW T, IsFiniteSet(T), S \subseteq T, NEW n \in Int,
         Cardinality(T) <= n
  PROVE  IsFiniteSet(S) /\ Cardinality(S) <= n
  BY FS_Subset, FS_CardinalityType

LEMMA WithoutOne ==
  ASSUME NEW S, NEW T, IsFiniteSet(T), NEW x \in T, S \subseteq T \ {x},
         NEW n \in Int, Cardinality(T) <= n
  PROVE  IsFiniteSet(S) /\ Cardinality(S) <= n - 1
<1>1. IsFiniteSet(T \ {x}) /\ Cardinality(T \ {x}) = Cardinality(T) - 1
  BY FS_RemoveElement
<1>2. Cardinality(T) \in Nat /\ Cardinality(T \ {x}) \in Nat
  BY <1>1, FS_CardinalityType
<1>3. QED
  BY <1>1, <1>2, SmallerSet

(* No search runs off the end: the holder of the last slot, were it taken, *)
(* would be a second context beyond the last but one.                      *)
LEMMA SearchGoesOn ==
  ASSUME IInv, NEW c \in Contexts, Claim(c), token[cell[c]] # Unset
  PROVE  cell[c] < MaxThreads /\ Spread'
<1> DEFINE i == cell[c]
           q == token[i]
<1>1. /\ hooked /\ i \in Slots /\ c \in live /\ q \in live /\ q # c
      /\ \A s \in Slots : token[s] # c
      /\ \A s \in Slots : token[s] = q => s = i
      /\ pc[q] # "claim" /\ live \in SUBSET Contexts /\ MaxThreads \in Nat
  BY SlotsAssumption DEF IInv, LocalInv, Claim, CellOK, TokenOK, TypeOK, Slots
<1>2. Cardinality(Beyond(i - 1)) <= MaxThreads - (i - 1)
  BY <1>1, SlotsAssumption DEF IInv, Spread, Slots
<1>3. /\ IsFiniteSet(Beyond(i - 1)) /\ q \in Beyond(i - 1)
      /\ c \in Beyond(i - 1)
  <2>1. IsFiniteSet(Beyond(i - 1))
    <3>1. i - 1 \in 0..MaxThreads
      BY <1>1 DEF Slots
    <3>2. QED
      BY <1>1, <3>1, BeyondFinite
  <2>2. i > i - 1 /\ pc[c] = "claim" /\ token[i] = q
    BY <1>1 DEF Slots, Claim
  <2>3. QED
    BY <1>1, <2>1, <2>2 DEF Beyond
<1>4. /\ live' = live /\ hooked' = hooked /\ token' = token
      /\ cell' = [cell EXCEPT ![c] = IF i < MaxThreads THEN i + 1 ELSE 0]
      /\ pc' = [pc EXCEPT ![c] = IF i < MaxThreads THEN "claim" ELSE "loadWorker"]
  BY DEF Claim, Goto
<1>5. i < MaxThreads
  <2>1. SUFFICES ASSUME i = MaxThreads PROVE FALSE
    BY <1>1 DEF Slots
  <2>2. {c} \subseteq Beyond(i - 1) \ {q}
    BY <1>1, <1>3
  <2>3. Cardinality(Beyond(i - 1)) <= 1 /\ 1 \in Int
    BY <1>1, <1>2, <2>1
  <2>4. Cardinality({c}) <= 0
    BY <1>3, <2>2, <2>3, WithoutOne
  <2>5. QED
    BY <2>4, FS_Singleton
<1>6. ASSUME NEW j \in 0..MaxThreads
      PROVE  Cardinality(Beyond(j)') <= MaxThreads - j
  <2>1. /\ pc' = [pc EXCEPT ![c] = "claim"]
        /\ cell' = [cell EXCEPT ![c] = i + 1]
    BY <1>4, <1>5
  <2>2. IsFiniteSet(Beyond(j)) /\ Cardinality(Beyond(j)) <= MaxThreads - j
    BY <1>1, BeyondFinite DEF IInv, Spread
  <2>3. CASE j = i
    <3>1. ASSUME NEW d \in Beyond(j)'
          PROVE  d \in Beyond(i - 1) /\ d # q
      <4>1. PICK s \in Slots : /\ d \in live /\ s > j
                               /\ token[s] = d \/ (pc'[d] = "claim" /\ cell'[d] = s)
        BY <1>4 DEF Beyond, Slots
      <4>2. s > i - 1 /\ i - 1 < i
        BY <1>1, <2>3, <4>1 DEF Slots
      <4>3. CASE token[s] = d
        BY <1>1, <2>3, <4>1, <4>2, <4>3 DEF Beyond, Slots
      <4>4. CASE token[s] # d /\ d = c
        BY <1>1, <1>3, <4>4
      <4>5. CASE token[s] # d /\ d # c
        <5>1. pc[d] = "claim" /\ cell[d] = s
          BY <2>1, <4>1, <4>5 DEF IInv, LocalInv, TypeOK
        <5>2. QED
          BY <1>1, <4>1, <4>2, <5>1 DEF Beyond
      <4>6. QED
        BY <4>3, <4>4, <4>5
    <3>2. Beyond(j)' \subseteq Beyond(i - 1) \ {q}
      BY <3>1
    <3>3. Cardinality(Beyond(j)') <= MaxThreads - (i - 1) - 1
      BY <1>1, <1>2, <1>3, <3>2, WithoutOne DEF Slots
    <3>4. MaxThreads - (i - 1) - 1 = MaxThreads - j
      BY <1>1, <2>3 DEF Slots
    <3>5. QED
      BY <3>3, <3>4
  <2>4. CASE j # i
    <3>1. ASSUME NEW d \in Beyond(j)'
          PROVE  d \in Beyond(j)
      <4>1. PICK s \in Slots : /\ d \in live /\ s > j
                               /\ token[s] = d \/ (pc'[d] = "claim" /\ cell'[d] = s)
        BY <1>4 DEF Beyond, Slots
      <4>2. CASE token[s] = d
        BY <4>1, <4>2 DEF Beyond
      <4>3. CASE token[s] # d /\ d # c
        <5>1. pc[d] = "claim" /\ cell[d] = s
          BY <2>1, <4>1, <4>3 DEF IInv, LocalInv, TypeOK
        <5>2. QED
          BY <4>1, <5>1 DEF Beyond
      <4>4. CASE token[s] # d /\ d = c
        <5>1. s = i + 1
          BY <1>1, <2>1, <4>1, <4>4 DEF IInv, LocalInv, TypeOK
        <5>2. i > j
          BY <1>1, <2>4, <4>1, <5>1 DEF Slots
        <5>3. pc[c] = "claim"
          BY DEF Claim
        <5>4. QED
          BY <1>1, <4>4, <5>2, <5>3 DEF Beyond
      <4>5. QED
        BY <4>2, <4>3, <4>4
    <3>2. Beyond(j)' \subseteq Beyond(j) /\ MaxThreads - j \in Int
      BY <1>1, <3>1
    <3>3. QED
      BY <2>2, <3>2, SmallerSet
  <2>5. QED
    BY <2>3, <2>4
<1>7. QED
  BY <1>4, <1>5, <1>6 DEF Spread

(* A step that puts no context further on keeps the spread. *)
LEMMA SpreadShrinks ==
  ASSUME IInv, live' = live, hooked' = hooked,
         \A i \in 1..MaxThreads : Beyond(i)' \subseteq Beyond(i)
  PROVE  Spread'
<1>1. SUFFICES ASSUME hooked, NEW i \in 0..MaxThreads
               PROVE  Cardinality(Beyond(i)') <= MaxThreads - i
  BY DEF Spread
<1>2. /\ live \in SUBSET Contexts /\ Cardinality(live) <= MaxThreads
      /\ MaxThreads \in Nat /\ Cardinality(Beyond(i)) <= MaxThreads - i
  BY <1>1, SlotsAssumption DEF IInv, LocalInv, TypeOK, Room, Spread
<1>3. CASE i = 0
  <2>1. Beyond(i)' \subseteq live
    BY DEF Beyond
  <2>2. QED
    BY <1>2, <1>3, <2>1, BeyondFinite, SmallerSet
<1>4. CASE i # 0
  <2>1. Beyond(i)' \subseteq Beyond(i)
    BY <1>1, <1>2, <1>4
  <2>2. IsFiniteSet(Beyond(i)) /\ MaxThreads - i \in Int
    BY <1>1, <1>2, BeyondFinite
  <2>3. QED
    BY <1>2, <2>1, <2>2, SmallerSet
<1>5. QED
  BY <1>3, <1>4

-----------------------------------------------------------------------------
(* The invariant. *)

LEMMA InitInv ==
  ASSUME Init, Room
  PROVE  IInv
<1> USE SlotsAssumption DEF Init
<1>1. TypeOK
  BY DEF TypeOK, Slots, None, Steps, Ident
<1>2. /\ CellOK /\ TokenOK /\ ContentsOK /\ HeldOK /\ PrevOK
  BY DEF CellOK, TokenOK, ContentsOK, Contains, HeldOK, PrevOK, Found, Slots, None
<1>3. CallOK
  BY DEF CallOK, Bound, None
<1>4. ASSUME hooked, NEW i \in 0..MaxThreads
      PROVE  Cardinality(Beyond(i)) <= MaxThreads - i
  <2>1. Beyond(i) = {}
    BY DEF Beyond, Slots
  <2>2. QED
    BY <2>1, FS_EmptySet
<1>5. QED
  BY <1>1, <1>2, <1>3, <1>4 DEF IInv, LocalInv, StoredOK, Spread

LEMMA BoundIsIdent ==
  ASSUME NEW c \in Contexts, NEW id \in Bound(c)
  PROVE  /\ id \in Ident
         /\ id = None <=> id.worker = Unset
         /\ id = [worker |-> id.worker, num |-> id.num]
  BY SlotsAssumption DEF Bound, Ident, None

(* Where a call goes first. *)
LEMMA Looked ==
  ASSUME NEW c \in Contexts,
         \/ Look(c) /\ Goto(c, "loadWorker")
         \/ /\ hooked /\ Held(c) = {}
            /\ cell' = [cell EXCEPT ![c] = 1]
            /\ Goto(c, "claim")
  PROVE  \E s \in 0..MaxThreads, w \in {"claim", "loadWorker"} :
           /\ cell' = [cell EXCEPT ![c] = s] /\ pc' = [pc EXCEPT ![c] = w]
           /\ w = "claim" =>
                hooked /\ s \in Slots /\ s = 1 /\ \A t \in Slots : token[t] # c
           /\ w = "loadWorker" =>
                IF hooked THEN s \in Slots /\ token[s] = c ELSE s = 0
  BY SlotsAssumption DEF Look, Goto, Held, Slots

(* What a step does not touch keeps to its invariant. *)
LEMMA BeginKeeps ==
  ASSUME IInv, NEW c \in Contexts, NEW o \in {"enter", "leave", "rebind"},
         NEW id \in Bound(c), Begin(c, o, id),
         o = "enter" => id \in Identities[c] /\ Len(scopes[c]) < MaxDepth[c],
         o = "leave" => scopes[c] # <<>> /\ id = scopes[c][Len(scopes[c])],
         o = "rebind" => c \in Callers
  PROVE  LocalInv'
<1>1. PICK s \in 0..MaxThreads, w \in {"claim", "loadWorker"} :
        /\ cell' = [cell EXCEPT ![c] = s] /\ pc' = [pc EXCEPT ![c] = w]
        /\ w = "claim" =>
             hooked /\ s \in Slots /\ s = 1 /\ \A t \in Slots : token[t] # c
        /\ w = "loadWorker" =>
             IF hooked THEN s \in Slots /\ token[s] = c ELSE s = 0
  BY Looked DEF Begin
<1>2. /\ pc[c] = "run" /\ c \in live
      /\ op' = [op EXCEPT ![c] = o] /\ next' = [next EXCEPT ![c] = id]
      /\ UNCHANGED <<hooked, live, table, prev, scopes, own, seen>>
  BY DEF Begin
<1>3. id \in Ident
  BY BoundIsIdent
<1>4. TypeOK
  BY DEF IInv, LocalInv
<1>5. TypeOK'
  BY <1>1, <1>2, <1>3, <1>4 DEF TypeOK, Steps, table
<1>6. CellOK' /\ TokenOK' /\ HeldOK' /\ PrevOK' /\ Room'
  <2>1. CellOK'
    BY <1>1, <1>2, <1>4 DEF IInv, LocalInv, CellOK, TypeOK, table, Found
  <2>2. TokenOK' /\ Room'
    BY <1>2 DEF IInv, LocalInv, TokenOK, Room, table
  <2>3. HeldOK'
    BY <1>1, <1>2, <1>4 DEF IInv, LocalInv, HeldOK, TypeOK, table
  <2>4. PrevOK'
    BY <1>1, <1>2, <1>4 DEF IInv, LocalInv, PrevOK, TypeOK, table
  <2>5. QED
    BY <2>1, <2>2, <2>3, <2>4
<1>7. ContentsOK'
  BY <1>1, <1>2, <1>4 DEF IInv, LocalInv, ContentsOK, Contains, TypeOK, table
<1>8. CallOK'
  BY <1>1, <1>2, <1>4 DEF IInv, LocalInv, CallOK, TypeOK, Bound, table
<1>9. QED
  BY <1>5, <1>6, <1>7, <1>8 DEF LocalInv

(* Every other step is one of context c at the cell it has found. *)

LEMMA AskKeeps ==
  ASSUME IInv, NEW c \in Contexts, Ask(c)
  PROVE  LocalInv'
<1>1. TypeOK /\ IInv
  BY DEF IInv, LocalInv
<1>2. CASE hooked /\ Held(c) = {}
  <2>1. /\ seen' = [seen EXCEPT ![c] = {None}]
        /\ UNCHANGED <<pc, op, cell, hooked, live, table, next, prev, scopes, own>>
    BY <1>2 DEF Ask, Look
  <2>2. TypeOK'
    <3>1. {None} \in SUBSET Ident
      BY DEF None, Ident
    <3>2. seen' \in [Contexts -> SUBSET Ident]
      BY <1>1, <2>1, <3>1 DEF TypeOK
    <3>3. QED
      BY <1>1, <2>1, <3>2 DEF TypeOK, table
  <2>3. QED
    BY <1>1, <2>1, <2>2 DEF IInv, LocalInv, CellOK, TokenOK, ContentsOK, Contains,
      HeldOK, PrevOK, CallOK, Room, table
<1>3. CASE ~(hooked /\ Held(c) = {})
  <2>1. /\ Look(c) /\ Goto(c, "loadWorker") /\ pc[c] = "run" /\ c \in live
        /\ c \in Callers /\ op' = [op EXCEPT ![c] = "current"]
        /\ UNCHANGED <<seen, hooked, live, table, next, prev, scopes, own>>
    BY <1>3 DEF Ask
  <2>2. PICK s \in 0..MaxThreads :
          /\ cell' = [cell EXCEPT ![c] = s]
          /\ pc' = [pc EXCEPT ![c] = "loadWorker"]
          /\ IF hooked THEN s \in Slots /\ token[s] = c ELSE s = 0
    BY <2>1, SlotsAssumption DEF Look, Goto, Held, Slots
  <2>3. TypeOK'
    BY <1>1, <2>1, <2>2 DEF TypeOK, Steps, table
  <2>4. CellOK' /\ TokenOK' /\ Room'
    BY <1>1, <2>1, <2>2 DEF IInv, LocalInv, CellOK, TokenOK, Room, TypeOK, table, Found
  <2>5. HeldOK' /\ PrevOK' /\ ContentsOK'
    BY <1>1, <2>1, <2>2 DEF IInv, LocalInv, HeldOK, PrevOK, ContentsOK, Contains,
      TypeOK, table
  <2>6. hooked => own[c] # None
    BY <2>1, <2>2 DEF IInv, LocalInv, HeldOK
  <2>7. CallOK'
    BY <1>1, <2>1, <2>2, <2>6 DEF IInv, LocalInv, CallOK, TypeOK, table
  <2>8. QED
    BY <2>3, <2>4, <2>5, <2>7 DEF LocalInv
<1>4. QED
  BY <1>2, <1>3

LEMMA ClaimKeeps ==
  ASSUME IInv, NEW c \in Contexts, Claim(c)
  PROVE  LocalInv'
<1>1. TypeOK /\ IInv /\ MaxThreads \in Nat \ {0}
  BY SlotsAssumption DEF IInv, LocalInv
<1>2. /\ pc[c] = "claim" /\ c \in live /\ hooked /\ cell[c] \in Slots
      /\ \A s \in Slots : token[s] # c
      /\ UNCHANGED <<hooked, live, worker, num, op, next, prev, scopes, own, seen>>
  BY DEF IInv, LocalInv, CellOK, Claim
<1>3. CASE token[cell[c]] = Unset
  <2>1. /\ token' = [token EXCEPT ![cell[c]] = c] /\ cell' = cell
        /\ pc' = [pc EXCEPT ![c] = "loadWorker"]
    BY <1>3 DEF Claim, Goto
  <2>2. own[c] = None /\ worker[cell[c]] = Unset
    BY <1>2, <1>3 DEF IInv, LocalInv, HeldOK, ContentsOK
  <2>3. TypeOK'
    BY <1>1, <1>2, <2>1 DEF TypeOK, Steps
  <2>4. CellOK'
    BY <1>1, <1>2, <1>3, <2>1, SlotsAssumption
    DEF IInv, LocalInv, CellOK, TypeOK, Found
  <2>5. TokenOK' /\ Room' /\ PrevOK'
    BY <1>1, <1>2, <2>1 DEF IInv, LocalInv, TokenOK, Room, PrevOK, TypeOK
  <2>6. HeldOK'
    BY <1>1, <1>2, <1>3, <2>1, <2>2, SlotsAssumption
    DEF IInv, LocalInv, HeldOK, TypeOK
  <2>7. ContentsOK'
    BY <1>1, <1>2, <1>3, <2>1, <2>2, SlotsAssumption
    DEF IInv, LocalInv, ContentsOK, Contains, TypeOK, None
  <2>8. CallOK'
    BY <1>1, <1>2, <2>1 DEF IInv, LocalInv, CallOK, TypeOK
  <2>9. QED
    BY <2>3, <2>4, <2>5, <2>6, <2>7, <2>8 DEF LocalInv
<1>4. CASE token[cell[c]] # Unset
  <2>1. cell[c] < MaxThreads
    BY <1>4, SearchGoesOn
  <2>2. /\ token' = token /\ cell' = [cell EXCEPT ![c] = cell[c] + 1]
        /\ pc' = [pc EXCEPT ![c] = "claim"] /\ cell[c] + 1 \in Slots
        /\ cell[c] + 1 \in 0..MaxThreads
    BY <1>1, <1>2, <1>4, <2>1 DEF Claim, Goto, Slots
  <2>3. pc' = pc
    BY <1>1, <1>2, <2>2 DEF TypeOK
  <2>4. TypeOK'
    BY <1>1, <1>2, <2>2, <2>3 DEF TypeOK
  <2>5. CellOK'
    BY <1>1, <1>2, <2>2, <2>3 DEF IInv, LocalInv, CellOK, TypeOK, Found
  <2>6. TokenOK' /\ Room' /\ PrevOK' /\ HeldOK' /\ ContentsOK' /\ CallOK'
    BY <1>1, <1>2, <2>2, <2>3
    DEF IInv, LocalInv, TokenOK, Room, PrevOK, HeldOK, ContentsOK, Contains, CallOK
  <2>7. QED
    BY <2>4, <2>5, <2>6 DEF LocalInv
<1>5. QED
  BY <1>3, <1>4

LEMMA AtOwnCell ==
  ASSUME IInv, NEW c \in Contexts, pc[c] \in Found
  PROVE  /\ c \in live /\ cell[c] \in 0..MaxThreads /\ Contains(c, cell[c])
         /\ IF hooked THEN cell[c] \in Slots /\ token[cell[c]] = c ELSE cell[c] = 0
         /\ ~hooked => live = {c}
         /\ own[c] \in Bound(c) /\ own[c] \in Ident
         /\ own[c] = None <=> own[c].worker = Unset
<1>1. /\ c \in live
      /\ IF hooked THEN cell[c] \in Slots /\ token[cell[c]] = c ELSE cell[c] = 0
  BY DEF IInv, LocalInv, CellOK, Found
<1>2. ~hooked => live = {c}
  BY <1>1 DEF IInv, LocalInv, Room
<1>3. own[c] \in Bound(c)
  BY DEF IInv, LocalInv, CallOK
<1>4. Contains(c, cell[c]) /\ cell[c] \in 0..MaxThreads
  BY <1>1 DEF IInv, LocalInv, ContentsOK, TypeOK
<1>5. QED
  BY <1>1, <1>2, <1>3, <1>4, BoundIsIdent

LEMMA LoadKeeps ==
  ASSUME IInv, NEW c \in Contexts, LoadWorker(c) \/ LoadNum(c)
  PROVE  LocalInv'
<1>1. TypeOK /\ IInv /\ pc[c] \in Found
  BY DEF IInv, LocalInv, LoadWorker, LoadNum, Found
<1>2. UNCHANGED <<hooked, live, table, op, next, cell, scopes, own, seen>>
  BY DEF LoadWorker, LoadNum
<1>3. /\ worker[cell[c]] = own[c].worker
      /\ own[c] # None => num[cell[c]] = own[c].num
      /\ own[c] \in Ident
      /\ own[c] = [worker |-> own[c].worker, num |-> own[c].num]
      /\ own[c] = None <=> own[c].worker = Unset
  BY <1>1, AtOwnCell, BoundIsIdent DEF Contains, LoadWorker, LoadNum
<1>4. PICK w \in {"loadNum", "loaded"}, id \in Ident :
        /\ pc' = [pc EXCEPT ![c] = w] /\ prev' = [prev EXCEPT ![c] = id]
        /\ w = "loadNum" =>
             own[c] # None /\ id = [worker |-> own[c].worker, num |-> 1]
        /\ w = "loaded" => id = own[c]
  <2>1. CASE LoadWorker(c)
    BY <1>1, <1>3, <2>1 DEF LoadWorker, Goto, Ident, None
  <2>2. CASE LoadNum(c)
    <3>1. /\ prev[c] = [worker |-> own[c].worker, num |-> 1] /\ own[c] # None
      BY <2>2 DEF LoadNum, IInv, LocalInv, PrevOK
    <3>2. [prev[c] EXCEPT !.num = num[cell[c]]] = own[c]
      <4>1. [prev[c] EXCEPT !.num = num[cell[c]]]
              = [worker |-> own[c].worker, num |-> own[c].num]
        BY <1>3, <3>1
      <4>2. QED
        BY <1>3, <4>1
    <3>3. prev' = [prev EXCEPT ![c] = [prev[c] EXCEPT !.num = num[cell[c]]]]
      BY <2>2 DEF LoadNum
    <3>4. prev' = [prev EXCEPT ![c] = own[c]] /\ pc' = [pc EXCEPT ![c] = "loaded"]
      BY <2>2, <3>2, <3>3 DEF LoadNum, Goto
    <3>5. QED
      BY <1>3, <3>4
  <2>3. QED
    BY <2>1, <2>2
<1>5. TypeOK'
  BY <1>1, <1>2, <1>4 DEF TypeOK, Steps, table
<1>6. CellOK' /\ TokenOK' /\ Room'
  BY <1>1, <1>2, <1>4 DEF IInv, LocalInv, CellOK, TokenOK, Room, TypeOK, table, Found
<1>7. HeldOK'
  BY <1>1, <1>2, <1>4 DEF IInv, LocalInv, HeldOK, TypeOK, table
<1>8. PrevOK'
  BY <1>1, <1>2, <1>4 DEF IInv, LocalInv, PrevOK, TypeOK
<1>9. ContentsOK'
  BY <1>1, <1>2, <1>4 DEF IInv, LocalInv, ContentsOK, Contains, TypeOK, table,
    LoadWorker, LoadNum
<1>10. CallOK'
  BY <1>1, <1>2, <1>4 DEF IInv, LocalInv, CallOK, TypeOK, Found, LoadWorker, LoadNum
<1>11. QED
  BY <1>5, <1>6, <1>7, <1>8, <1>9, <1>10 DEF LocalInv

LEMMA AnswerKeeps ==
  ASSUME IInv, NEW c \in Contexts, Answer(c)
  PROVE  LocalInv' /\ seen' = [seen EXCEPT ![c] = {own[c]}] /\ c \in Callers
<1>1. /\ TypeOK /\ IInv /\ pc[c] \in Found /\ c \in Callers
      /\ prev[c] = own[c] /\ own[c] \in Ident
  BY AtOwnCell DEF IInv, LocalInv, Answer, Found, PrevOK, CallOK
<1>2. /\ pc' = [pc EXCEPT ![c] = "run"] /\ op' = [op EXCEPT ![c] = "none"]
      /\ next' = [next EXCEPT ![c] = None] /\ cell' = [cell EXCEPT ![c] = 0]
      /\ prev' = [prev EXCEPT ![c] = None]
      /\ seen' = [seen EXCEPT ![c] = {own[c]}]
      /\ UNCHANGED <<hooked, live, table, scopes, own>>
      /\ pc[c] = "loaded"
  BY <1>1 DEF Answer, Over, Goto
<1>3. None \in Ident /\ {own[c]} \in SUBSET Ident /\ 0 \in 0..MaxThreads
  BY <1>1, SlotsAssumption DEF None, Ident
<1>4. TypeOK'
  BY <1>1, <1>2, <1>3 DEF TypeOK, Steps, table
<1>5. CellOK' /\ TokenOK' /\ Room'
  BY <1>1, <1>2 DEF IInv, LocalInv, CellOK, TokenOK, Room, TypeOK, table, Found
<1>6. HeldOK'
  <2>1. hooked => \E s \in Slots : token[s] = c
    BY <1>1, AtOwnCell
  <2>2. hooked => own[c] # None
    BY DEF IInv, LocalInv, CallOK, Answer
  <2>3. QED
    BY <1>1, <1>2, <2>1, <2>2 DEF IInv, LocalInv, HeldOK, TypeOK, table
<1>7. PrevOK' /\ ContentsOK'
  BY <1>1, <1>2 DEF IInv, LocalInv, PrevOK, ContentsOK, Contains, TypeOK, table
<1>8. CallOK'
  BY <1>1, <1>2 DEF IInv, LocalInv, CallOK, TypeOK
<1>9. QED
  BY <1>1, <1>2, <1>4, <1>5, <1>6, <1>7, <1>8 DEF LocalInv

LEMMA StoreNumKeeps ==
  ASSUME IInv, NEW c \in Contexts, StoreNum(c)
  PROVE  LocalInv'
<1>1. /\ TypeOK /\ IInv /\ pc[c] \in Found /\ pc[c] = "loaded"
      /\ op[c] # "current" /\ prev[c] = own[c]
      /\ c \in live /\ cell[c] \in 0..MaxThreads
      /\ IF hooked THEN cell[c] \in Slots /\ token[cell[c]] = c ELSE cell[c] = 0
      /\ ~hooked => live = {c}
  BY AtOwnCell DEF IInv, LocalInv, StoreNum, Replacing, Found, PrevOK
<1>2. /\ pc' = [pc EXCEPT ![c] = "storeWorker"]
      /\ num' = [num EXCEPT ![cell[c]] = next[c].num] /\ next[c].num \in Nat
      /\ UNCHANGED <<hooked, live, token, worker, op, next, cell, prev, scopes, own,
                     seen>>
      /\ next[c] # None \/ cell[c] = 0
  BY <1>1 DEF StoreNum, Goto, TypeOK, Ident, locals
<1>3. TypeOK'
  BY <1>1, <1>2 DEF TypeOK, Steps
<1>4. CellOK' /\ TokenOK' /\ Room'
  BY <1>1, <1>2 DEF IInv, LocalInv, CellOK, TokenOK, Room, TypeOK, Found
<1>5. HeldOK' /\ PrevOK'
  BY <1>1, <1>2 DEF IInv, LocalInv, HeldOK, PrevOK, TypeOK
<1>6. ContentsOK'
  <2>1. cell[c] \notin {s \in Slots : token[s] # c}
    BY <1>1, SlotsAssumption DEF Slots
  <2>2. ASSUME NEW d \in Contexts, NEW s \in Slots, token[s] = d
        PROVE  Contains(d, s)'
    <3>1. Contains(d, s)
      BY <2>2 DEF IInv, LocalInv, ContentsOK
    <3>2. CASE d = c
      BY <1>1, <1>2, <3>1, <3>2 DEF Contains, TypeOK
    <3>3. CASE d # c
      BY <1>1, <1>2, <2>1, <2>2, <3>1, <3>3 DEF Contains, TypeOK
    <3>4. QED
      BY <3>2, <3>3
  <2>3. ASSUME ~hooked, NEW d \in live
        PROVE  Contains(d, 0)'
    <3>1. Contains(d, 0) /\ d \in Contexts
      BY <2>3, <1>1 DEF IInv, LocalInv, ContentsOK, TypeOK
    <3>2. QED
      BY <1>1, <1>2, <2>3, <3>1 DEF Contains, TypeOK
  <2>4. QED
    BY <1>2, <2>2, <2>3 DEF IInv, LocalInv, ContentsOK
<1>7. CallOK'
  <2>1. next[c] # None \/ ~hooked
    BY <1>1, <1>2, SlotsAssumption DEF Slots
  <2>2. QED
    BY <1>1, <1>2, <2>1 DEF IInv, LocalInv, CallOK, TypeOK
<1>8. QED
  BY <1>3, <1>4, <1>5, <1>6, <1>7 DEF LocalInv

LEMMA ForgetKeeps ==
  ASSUME IInv, NEW c \in Contexts, Forget(c)
  PROVE  LocalInv'
<1>1. /\ TypeOK /\ IInv /\ pc[c] \in Found /\ pc[c] = "loaded"
      /\ op[c] # "current" /\ prev[c] = own[c]
      /\ c \in live /\ cell[c] \in 0..MaxThreads
      /\ IF hooked THEN cell[c] \in Slots /\ token[cell[c]] = c ELSE cell[c] = 0
  BY AtOwnCell DEF IInv, LocalInv, Forget, Replacing, Found, PrevOK
<1>2. /\ pc' = [pc EXCEPT ![c] = "release"]
      /\ worker' = [worker EXCEPT ![cell[c]] = Unset]
      /\ UNCHANGED <<hooked, live, token, num, op, next, cell, prev, scopes, own,
                     seen>>
      /\ next[c] = None /\ hooked
  BY <1>1 DEF Forget, Goto, locals
<1>3. TypeOK'
  BY <1>1, <1>2 DEF TypeOK, Steps
<1>4. CellOK' /\ TokenOK' /\ Room'
  BY <1>1, <1>2 DEF IInv, LocalInv, CellOK, TokenOK, Room, TypeOK, Found
<1>5. HeldOK' /\ PrevOK'
  BY <1>1, <1>2 DEF IInv, LocalInv, HeldOK, PrevOK, TypeOK
<1>6. ContentsOK'
  BY <1>1, <1>2, SlotsAssumption
  DEF IInv, LocalInv, ContentsOK, Contains, TypeOK, Slots
<1>7. CallOK'
  BY <1>1, <1>2 DEF IInv, LocalInv, CallOK, TypeOK
<1>8. QED
  BY <1>3, <1>4, <1>5, <1>6, <1>7 DEF LocalInv

(* What with_worker, set_worker and clear_worker leave behind. *)
Swapped(c) ==
  \/ /\ Len(scopes[c]) < MaxDepth[c] /\ next[c] \in Identities[c]
     /\ scopes' = [scopes EXCEPT ![c] = Append(scopes[c], own[c])]
  \/ /\ scopes[c] # <<>> /\ next[c] = scopes[c][Len(scopes[c])]
     /\ scopes' = [scopes EXCEPT ![c] = SubSeq(scopes[c], 1, Len(scopes[c]) - 1)]
  \/ /\ c \in Callers /\ next[c] \in Bound(c)
     /\ scopes' = scopes

LEMMA ReturnSwaps ==
  ASSUME IInv, NEW c \in Contexts, Return(c), pc[c] \in {"storeWorker", "release"}
  PROVE  /\ Swapped(c) /\ next[c] \in Bound(c)
         /\ scopes' = [scopes EXCEPT ![c] = scopes'[c]]
         /\ scopes'[c] \in Seq(Bound(c))
<1>1. /\ prev[c] = own[c] /\ own[c] \in Bound(c) /\ scopes[c] \in Seq(Bound(c))
      /\ op[c] \in {"enter", "leave", "rebind"} /\ scopes \in [Contexts -> Seq(Ident)]
  BY DEF IInv, LocalInv, PrevOK, CallOK, TypeOK
<1>2. CASE op[c] = "enter"
  <2>1. scopes' = [scopes EXCEPT ![c] = Append(scopes[c], own[c])]
    BY <1>1, <1>2 DEF Return
  <2>2. next[c] \in Identities[c] /\ Len(scopes[c]) < MaxDepth[c]
    BY <1>2 DEF IInv, LocalInv, CallOK
  <2>3. scopes'[c] = Append(scopes[c], own[c])
    BY <1>1, <2>1
  <2>4. Append(scopes[c], own[c]) \in Seq(Bound(c))
    BY <1>1
  <2>5. QED
    BY <2>1, <2>2, <2>3, <2>4 DEF Swapped, Bound
<1>3. CASE op[c] = "leave"
  <2>1. scopes' = [scopes EXCEPT ![c] = SubSeq(scopes[c], 1, Len(scopes[c]) - 1)]
    BY <1>1, <1>3 DEF Return
  <2>2. scopes[c] # <<>> /\ next[c] = scopes[c][Len(scopes[c])]
    BY <1>3 DEF IInv, LocalInv, CallOK
  <2>3. scopes'[c] = SubSeq(scopes[c], 1, Len(scopes[c]) - 1)
    BY <1>1, <2>1
  <2>4. /\ SubSeq(scopes[c], 1, Len(scopes[c]) - 1) \in Seq(Bound(c))
        /\ scopes[c][Len(scopes[c])] \in Bound(c)
    BY <1>1, <2>2
  <2>5. QED
    BY <2>1, <2>2, <2>3, <2>4 DEF Swapped
<1>4. CASE op[c] = "rebind"
  <2>1. scopes' = scopes
    BY <1>1, <1>4 DEF Return
  <2>2. QED
    BY <1>1, <1>4, <2>1 DEF Swapped, IInv, LocalInv, CallOK
<1>5. QED
  BY <1>1, <1>2, <1>3, <1>4

LEMMA ReturnKeeps ==
  ASSUME IInv, NEW c \in Contexts, Return(c), pc[c] \in {"storeWorker", "release"}
  PROVE  /\ pc' = [pc EXCEPT ![c] = "run"] /\ own' = [own EXCEPT ![c] = next[c]]
         /\ cell' = [cell EXCEPT ![c] = 0]
         /\ UNCHANGED <<hooked, live>>
         /\ CallOK' /\ PrevOK'
         /\ hooked' \in BOOLEAN /\ live' \in SUBSET Contexts
         /\ pc' \in [Contexts -> Steps]
         /\ op' \in [Contexts -> {"none", "enter", "leave", "rebind", "current"}]
         /\ next' \in [Contexts -> Ident] /\ cell' \in [Contexts -> 0..MaxThreads]
         /\ prev' \in [Contexts -> Ident] /\ scopes' \in [Contexts -> Seq(Ident)]
         /\ own' \in [Contexts -> Ident] /\ seen' \in [Contexts -> SUBSET Ident]
<1>1. TypeOK /\ IInv
  BY DEF IInv, LocalInv
<1>2. /\ pc' = [pc EXCEPT ![c] = "run"] /\ op' = [op EXCEPT ![c] = "none"]
      /\ next' = [next EXCEPT ![c] = None] /\ cell' = [cell EXCEPT ![c] = 0]
      /\ prev' = [prev EXCEPT ![c] = None] /\ own' = [own EXCEPT ![c] = next[c]]
      /\ seen' = [seen EXCEPT ![c] = {}]
      /\ UNCHANGED <<hooked, live>>
  BY DEF Return, Over, Goto
<1>3. /\ next[c] \in Bound(c)
      /\ scopes' = [scopes EXCEPT ![c] = scopes'[c]]
      /\ scopes'[c] \in Seq(Bound(c))
  BY ReturnSwaps
<1>4. Bound(c) \subseteq Ident
  BY BoundIsIdent
<1>5. next[c] \in Ident /\ scopes'[c] \in Seq(Ident) /\ None \in Ident
  <2>1. None \in Ident
    BY DEF None, Ident
  <2>2. QED
    BY <1>3, <1>4, <2>1
<1>6. 0 \in 0..MaxThreads
  BY SlotsAssumption
<1>7. /\ pc' \in [Contexts -> Steps]
      /\ op' \in [Contexts -> {"none", "enter", "leave", "rebind", "current"}]
      /\ next' \in [Contexts -> Ident] /\ cell' \in [Contexts -> 0..MaxThreads]
      /\ prev' \in [Contexts -> Ident]
      /\ own' \in [Contexts -> Ident] /\ seen' \in [Contexts -> SUBSET Ident]
  BY <1>1, <1>2, <1>5, <1>6 DEF TypeOK, Steps
<1>8. scopes' \in [Contexts -> Seq(Ident)]
  BY <1>1, <1>3, <1>5 DEF TypeOK
<1>9. PrevOK'
  BY <1>1, <1>2 DEF IInv, LocalInv, PrevOK, TypeOK
<1>10. CallOK'
  <2>1. \A d \in Contexts : d # c => scopes'[d] = scopes[d]
    BY <1>1, <1>3 DEF TypeOK
  <2>2. QED
    BY <1>1, <1>2, <1>3, <2>1 DEF IInv, LocalInv, CallOK, TypeOK, Bound
<1>11. QED
  BY <1>1, <1>2, <1>7, <1>8, <1>9, <1>10 DEF TypeOK

LEMMA StoreWorkerKeeps ==
  ASSUME IInv, NEW c \in Contexts, StoreWorker(c)
  PROVE  LocalInv' /\ Swapped(c) /\ own' = [own EXCEPT ![c] = next[c]]
<1>1. /\ TypeOK /\ IInv /\ pc[c] \in Found /\ pc[c] = "storeWorker"
      /\ c \in live /\ cell[c] \in 0..MaxThreads
      /\ IF hooked THEN cell[c] \in Slots /\ token[cell[c]] = c ELSE cell[c] = 0
      /\ ~hooked => live = {c}
  BY AtOwnCell DEF IInv, LocalInv, StoreWorker, Found
<1>2. /\ Return(c) /\ token' = token /\ num' = num
      /\ worker' = [worker EXCEPT ![cell[c]] = next[c].worker]
      /\ next[c].worker \in Nat \cup {Unset}
  BY <1>1 DEF StoreWorker, TypeOK, Ident
<1>3. /\ pc' = [pc EXCEPT ![c] = "run"] /\ own' = [own EXCEPT ![c] = next[c]]
      /\ cell' = [cell EXCEPT ![c] = 0] /\ UNCHANGED <<hooked, live>>
      /\ CallOK' /\ PrevOK'
  BY <1>1, <1>2, ReturnKeeps
<1>4. TypeOK'
  <2>1. worker' \in [0..MaxThreads -> Nat \cup {Unset}]
    BY <1>1, <1>2 DEF TypeOK
  <2>2. QED
    BY <1>1, <1>2, <2>1, ReturnKeeps DEF TypeOK
<1>5. CellOK' /\ TokenOK' /\ Room'
  BY <1>1, <1>2, <1>3 DEF IInv, LocalInv, CellOK, TokenOK, Room, TypeOK, Found
<1>6. next[c] # None \/ ~hooked
  BY <1>1 DEF IInv, LocalInv, CallOK
<1>7. HeldOK'
  BY <1>1, <1>2, <1>3, <1>6 DEF IInv, LocalInv, HeldOK, TypeOK
<1>8. next[c] # None => num[cell[c]] = next[c].num
  BY <1>1 DEF IInv, StoredOK
<1>9. ContentsOK'
  <2>1. ASSUME NEW s \in 0..MaxThreads, s = cell[c]
        PROVE  Contains(c, s)'
    BY <1>1, <1>2, <1>3, <1>8, <2>1 DEF Contains, TypeOK
  <2>2. ASSUME NEW d \in Contexts, d # c, NEW s \in 0..MaxThreads, s # cell[c],
               Contains(d, s)
        PROVE  Contains(d, s)'
    BY <1>1, <1>2, <1>3, <2>2 DEF Contains, TypeOK
  <2>3. \A s \in Slots : s \in 0..MaxThreads /\ s # 0
    BY SlotsAssumption DEF Slots
  <2>4. ASSUME NEW s \in Slots, token'[s] = Unset
        PROVE  worker'[s] = Unset
    <3>1. s # cell[c]
      BY <1>1, <1>2, <2>3, <2>4, SlotsAssumption
    <3>2. QED
      BY <1>1, <1>2, <2>3, <2>4, <3>1 DEF IInv, LocalInv, ContentsOK, TypeOK
  <2>5. ASSUME NEW s \in Slots, NEW d \in Contexts, token'[s] = d
        PROVE  Contains(d, s)'
    <3>1. token[s] = d /\ token[s] # Unset /\ hooked
      BY <1>2, <2>5, SlotsAssumption DEF IInv, LocalInv, TokenOK
    <3>2. CASE d = c
      <4>1. s = cell[c]
        BY <1>1, <3>1, <3>2 DEF TypeOK
      <4>2. QED
        BY <2>1, <2>3, <3>2, <4>1
    <3>3. CASE d # c
      BY <1>1, <2>2, <2>3, <3>1, <3>3 DEF IInv, LocalInv, ContentsOK
    <3>4. QED
      BY <3>2, <3>3
  <2>6. ~hooked' => \A d \in live' : Contains(d, 0)'
    BY <1>1, <1>3, <2>1
  <2>7. QED
    BY <2>4, <2>5, <2>6 DEF ContentsOK
<1>10. QED
  BY <1>1, <1>2, <1>3, <1>4, <1>5, <1>7, <1>9, ReturnSwaps DEF LocalInv

LEMMA ReleaseKeeps ==
  ASSUME IInv, NEW c \in Contexts, Release(c)
  PROVE  LocalInv' /\ Swapped(c) /\ own' = [own EXCEPT ![c] = next[c]]
<1>1. /\ TypeOK /\ IInv /\ pc[c] \in Found /\ pc[c] = "release"
      /\ c \in live /\ hooked /\ next[c] = None
      /\ cell[c] \in Slots /\ token[cell[c]] = c
      /\ worker[cell[c]] = Unset
  BY AtOwnCell DEF IInv, LocalInv, Release, Found, CallOK, Contains
<1>2. /\ Return(c) /\ worker' = worker /\ num' = num
      /\ token' = [token EXCEPT ![cell[c]] = Unset]
  BY DEF Release
<1>3. /\ pc' = [pc EXCEPT ![c] = "run"] /\ own' = [own EXCEPT ![c] = None]
      /\ cell' = [cell EXCEPT ![c] = 0] /\ UNCHANGED <<hooked, live>>
      /\ CallOK' /\ PrevOK'
  BY <1>1, <1>2, ReturnKeeps
<1>4. TypeOK'
  <2>1. /\ token' \in [Slots -> Contexts \cup {Unset}]
        /\ \A s, t \in Slots : token'[s] = token'[t] => s = t \/ token'[s] = Unset
    BY <1>1, <1>2 DEF TypeOK
  <2>2. QED
    BY <1>1, <1>2, <2>1, ReturnKeeps DEF TypeOK
<1>5. \A s \in Slots : token'[s] # c
  BY <1>1, <1>2, SlotsAssumption DEF TypeOK
<1>6. CellOK' /\ TokenOK' /\ Room'
  BY <1>1, <1>2, <1>3, SlotsAssumption
  DEF IInv, LocalInv, CellOK, TokenOK, Room, TypeOK, Found
<1>7. HeldOK'
  BY <1>1, <1>2, <1>3, <1>5, SlotsAssumption DEF IInv, LocalInv, HeldOK, TypeOK
<1>8. ContentsOK'
  BY <1>1, <1>2, <1>3, <1>5, SlotsAssumption
  DEF IInv, LocalInv, ContentsOK, Contains, TypeOK
<1>9. QED
  BY <1>1, <1>2, <1>3, <1>4, <1>6, <1>7, <1>8, ReturnSwaps DEF LocalInv

-----------------------------------------------------------------------------
(* Only StoreNum stores a number, and only in the cell of the context. *)
LEMMA StoredStep ==
  ASSUME IInv, NEW c \in Contexts, BodyStep(c) \/ CallStep(c)
  PROVE  StoredOK'
<1>1. TypeOK
  BY DEF IInv, LocalInv
<1>2. \A d \in Contexts : d # c =>
        pc'[d] = pc[d] /\ next'[d] = next[d] /\ cell'[d] = cell[d]
  <2>1. CASE BodyStep(c)
    BY <1>1, <2>1 DEF BodyStep, Enter, Leave, Rebind, Begin, Ask, Look, Goto, TypeOK
  <2>2. CASE Claim(c) \/ LoadWorker(c) \/ LoadNum(c) \/ Answer(c)
    BY <1>1, <2>2 DEF Claim, LoadWorker, LoadNum, Answer, Over, Goto, TypeOK
  <2>3. CASE StoreNum(c) \/ Forget(c) \/ StoreWorker(c) \/ Release(c)
    BY <1>1, <2>3
    DEF StoreNum, Forget, StoreWorker, Release, Return, Over, Goto, TypeOK, locals
  <2>4. QED
    BY <2>1, <2>2, <2>3 DEF CallStep
<1>3. StoreNum(c) \/ (num' = num /\ pc'[c] # "storeWorker")
  <2>1. CASE BodyStep(c)
    BY <1>1, <2>1
    DEF BodyStep, Enter, Leave, Rebind, Begin, Ask, Look, Goto, TypeOK, table
  <2>2. CASE Claim(c) \/ LoadWorker(c) \/ LoadNum(c) \/ Answer(c)
    BY <1>1, <2>2 DEF Claim, LoadWorker, LoadNum, Answer, Over, Goto, TypeOK, table
  <2>3. CASE Forget(c) \/ StoreWorker(c) \/ Release(c)
    BY <1>1, <2>3
    DEF Forget, StoreWorker, Release, Return, Over, Goto, TypeOK
  <2>4. QED
    BY <2>1, <2>2, <2>3 DEF CallStep
<1>4. SUFFICES ASSUME NEW d \in Contexts, pc'[d] = "storeWorker", next'[d] # None
               PROVE  num'[cell'[d]] = next'[d].num
  BY DEF StoredOK
<1>5. CASE d = c
  <2>1. StoreNum(c)
    BY <1>3, <1>4, <1>5
  <2>2. QED
    BY <1>1, <1>5, <2>1 DEF StoreNum, TypeOK, locals
<1>6. CASE d # c
  <2>1. pc[d] = "storeWorker" /\ num[cell[d]] = next[d].num /\ pc[d] \in Found
    BY <1>2, <1>4, <1>6 DEF IInv, StoredOK, Found
  <2>2. CASE num' = num
    BY <1>2, <1>6, <2>1, <2>2
  <2>3. CASE StoreNum(c)
    <3>1. pc[c] \in Found
      BY <2>3 DEF StoreNum, Replacing, Found
    <3>2. cell[c] # cell[d]
      BY <1>6, <2>1, <3>1, AtOwnCell
    <3>3. num'[cell[d]] = num[cell[d]]
      BY <1>1, <2>3, <3>2 DEF StoreNum, TypeOK
    <3>4. QED
      BY <1>2, <1>6, <2>1, <3>3
  <2>4. QED
    BY <1>3, <2>2, <2>3
<1>7. QED
  BY <1>5, <1>6

LEMMA LocalStep ==
  ASSUME IInv, NEW c \in Contexts, BodyStep(c) \/ CallStep(c)
  PROVE  LocalInv'
<1>1. CASE Enter(c)
  <2>1. PICK id \in Identities[c] : Begin(c, "enter", id)
    BY <1>1 DEF Enter
  <2>2. id \in Bound(c) /\ Len(scopes[c]) < MaxDepth[c]
    BY <1>1 DEF Enter, Bound
  <2>3. QED
    BY <2>1, <2>2, BeginKeeps
<1>2. CASE Leave(c)
  <2>1. scopes[c] # <<>> /\ Begin(c, "leave", scopes[c][Len(scopes[c])])
    BY <1>2 DEF Leave
  <2>2. scopes[c] \in Seq(Bound(c))
    BY DEF IInv, LocalInv, CallOK
  <2>3. scopes[c][Len(scopes[c])] \in Bound(c)
    BY <2>1, <2>2
  <2>4. QED
    BY <2>1, <2>3, BeginKeeps
<1>3. CASE Rebind(c)
  BY <1>3, BeginKeeps DEF Rebind
<1>4. CASE Ask(c)
  BY <1>4, AskKeeps
<1>5. CASE CallStep(c)
  BY <1>5, ClaimKeeps, LoadKeeps, AnswerKeeps, StoreNumKeeps, ForgetKeeps,
    StoreWorkerKeeps, ReleaseKeeps DEF CallStep
<1>6. QED
  BY <1>1, <1>2, <1>3, <1>4, <1>5 DEF BodyStep

LEMMA SpreadStep ==
  ASSUME IInv, NEW c \in Contexts, BodyStep(c) \/ CallStep(c)
  PROVE  Spread'
<1>1. TypeOK /\ MaxThreads \in Nat \ {0}
  BY SlotsAssumption DEF IInv, LocalInv
<1>2. CASE Claim(c) /\ token[cell[c]] # Unset
  BY <1>2, SearchGoesOn
<1>3. CASE Claim(c) /\ token[cell[c]] = Unset
  <2>1. /\ token' = [token EXCEPT ![cell[c]] = c] /\ cell' = cell
        /\ pc' = [pc EXCEPT ![c] = "loadWorker"] /\ pc[c] = "claim"
        /\ live' = live /\ hooked' = hooked
    BY <1>3 DEF Claim, Goto
  <2>2. \A i \in 1..MaxThreads : Beyond(i)' \subseteq Beyond(i)
    BY <1>1, <2>1 DEF Beyond, TypeOK, Slots
  <2>3. QED
    BY <2>1, <2>2, SpreadShrinks
<1>4. CASE ~Claim(c)
  <2>1. live' = live /\ hooked' = hooked
    BY <1>4 DEF BodyStep, CallStep, Enter, Leave, Rebind, Begin, Ask, LoadWorker,
      LoadNum, Answer, StoreNum, Forget, StoreWorker, Release, Return
  <2>2. \A s \in Slots : token'[s] \in {token[s], Unset}
    <3>1. token' = token \/ Release(c)
      BY <1>4 DEF BodyStep, CallStep, Enter, Leave, Rebind, Begin, Ask, LoadWorker,
        LoadNum, Answer, StoreNum, Forget, StoreWorker, table
    <3>2. QED
      BY <1>1, <3>1 DEF Release, TypeOK
  <2>3. \A d \in Contexts : pc'[d] = "claim" =>
          \/ pc[d] = "claim" /\ cell'[d] = cell[d]
          \/ cell'[d] = 1
    <3>1. CASE BodyStep(c)
      BY <1>1, <3>1 DEF BodyStep, Enter, Leave, Rebind, Begin, Ask, Look, Goto, TypeOK
    <3>2. CASE LoadWorker(c) \/ LoadNum(c) \/ Answer(c)
      BY <1>1, <3>2 DEF LoadWorker, LoadNum, Answer, Over, Goto, TypeOK
    <3>3. CASE StoreNum(c) \/ Forget(c) \/ StoreWorker(c) \/ Release(c)
      BY <1>1, <3>3
      DEF StoreNum, Forget, StoreWorker, Release, Return, Over, Goto, TypeOK, locals
    <3>4. QED
      BY <1>4, <3>1, <3>2, <3>3 DEF CallStep
  <2>4. \A i \in 1..MaxThreads : Beyond(i)' \subseteq Beyond(i)
    <3>1. SUFFICES ASSUME NEW i \in 1..MaxThreads, NEW d \in Beyond(i)'
                   PROVE  d \in Beyond(i)
      OBVIOUS
    <3>2. PICK s \in Slots : /\ d \in live /\ d \in Contexts /\ s > i
                             /\ token'[s] = d \/ (pc'[d] = "claim" /\ cell'[d] = s)
      BY <1>1, <2>1 DEF Beyond, Slots, TypeOK
    <3>3. CASE token'[s] = d
      BY <2>2, <3>2, <3>3, SlotsAssumption DEF Beyond
    <3>4. CASE pc'[d] = "claim" /\ cell'[d] = s
      BY <1>1, <2>3, <3>2, <3>4 DEF Beyond
    <3>5. QED
      BY <3>2, <3>3, <3>4
  <2>5. QED
    BY <2>1, <2>4, SpreadShrinks
<1>5. QED
  BY <1>2, <1>3, <1>4

LEMMA StutterKeeps ==
  ASSUME IInv, UNCHANGED vars
  PROVE  IInv'
<1>1. UNCHANGED <<hooked, live, token, worker, num, pc, op, next, cell, prev, scopes,
                   own, seen>>
  BY DEF vars, table, locals
<1>2. TypeOK' /\ Room'
  BY <1>1 DEF IInv, LocalInv, TypeOK, Room
<1>3. CellOK' /\ TokenOK' /\ HeldOK' /\ PrevOK' /\ StoredOK'
  BY <1>1 DEF IInv, LocalInv, CellOK, TokenOK, HeldOK, PrevOK, StoredOK
<1>4. ContentsOK' /\ CallOK'
  BY <1>1 DEF IInv, LocalInv, ContentsOK, Contains, CallOK
<1>5. Spread'
  BY <1>1 DEF IInv, Spread, Beyond
<1>6. QED
  BY <1>2, <1>3, <1>4, <1>5 DEF IInv, LocalInv

THEOREM Invariant == RoomSpec => []IInv
<1>1. Init /\ Room => IInv
  BY InitInv
<1>2. IInv /\ [Next]_vars => IInv'
  BY LocalStep, StoredStep, SpreadStep, StutterKeeps DEF Next, IInv
<1>3. QED
  BY <1>1, <1>2, PTL DEF RoomSpec, RoomInit

-----------------------------------------------------------------------------
(* Every variable has its type, and no two slots the same token. *)
THEOREM TypeCorrect == RoomSpec => []TypeOK
<1>1. IInv => TypeOK
  BY DEF IInv, LocalInv
<1>2. QED
  BY <1>1, Invariant, PTL

(* `replace` comes to its fallback for no number of contexts and slots that *)
(* leaves a slot for each context.                                         *)
THEOREM SearchesFind == RoomSpec => []EverySearchFinds
<1>1. ASSUME IInv, hooked, NEW c \in live, pc[c] # "run"
      PROVE  cell[c] # 0
  <2>1. c \in Contexts /\ pc[c] \in Found \cup {"claim"}
    BY <1>1 DEF IInv, LocalInv, TypeOK, Steps, Found
  <2>2. cell[c] \in Slots
    BY <1>1, <2>1 DEF IInv, LocalInv, CellOK
  <2>3. QED
    BY <2>2, SlotsAssumption DEF Slots
<1>2. IInv => EverySearchFinds
  BY <1>1 DEF EverySearchFinds
<1>3. QED
  BY <1>2, Invariant, PTL

(* Between calls a context has a slot exactly while an identity is bound:   *)
(* a scope that ends gives its slot back, and none is taken by mistake.    *)
THEOREM Returned == RoomSpec => []SlotsAreReturned
<1>1. IInv => SlotsAreReturned
  BY DEF IInv, LocalInv, HeldOK, SlotsAreReturned, Held
<1>2. QED
  BY <1>1, Invariant, PTL

-----------------------------------------------------------------------------
(* The stores and exchanges of all contexts, in any order, amount to one    *)
(* thread-local per context: the slot table implements it.                 *)

LEMMA SwapImplements ==
  ASSUME NEW c \in Contexts, Swapped(c), own' = [own EXCEPT ![c] = next[c]],
         seen' = [seen EXCEPT ![c] = {}]
  PROVE  Local!Next
<1>1. CASE /\ Len(scopes[c]) < MaxDepth[c] /\ next[c] \in Identities[c]
           /\ scopes' = [scopes EXCEPT ![c] = Append(scopes[c], own[c])]
  BY <1>1 DEF Local!Next, Local!Enter, Local!Replace
<1>2. CASE /\ scopes[c] # <<>> /\ next[c] = scopes[c][Len(scopes[c])]
           /\ scopes' = [scopes EXCEPT ![c] = SubSeq(scopes[c], 1, Len(scopes[c]) - 1)]
  BY <1>2 DEF Local!Next, Local!Leave, Local!Replace
<1>3. CASE c \in Callers /\ next[c] \in Bound(c) /\ scopes' = scopes
  BY <1>3 DEF Local!Next, Local!Rebind, Local!Replace, Local!Bound, Bound
<1>4. QED
  BY <1>1, <1>2, <1>3 DEF Swapped

LEMMA StepImplements ==
  ASSUME IInv, NEW c \in Contexts, BodyStep(c) \/ CallStep(c)
  PROVE  Local!Next \/ UNCHANGED Local!vars
<1>1. CASE StoreWorker(c) \/ Release(c)
  <2>1. Swapped(c) /\ own' = [own EXCEPT ![c] = next[c]]
    BY <1>1, StoreWorkerKeeps, ReleaseKeeps
  <2>2. seen' = [seen EXCEPT ![c] = {}]
    BY <1>1 DEF StoreWorker, Release, Return
  <2>3. QED
    BY <2>1, <2>2, SwapImplements
<1>2. CASE Answer(c)
  <2>1. /\ seen' = [seen EXCEPT ![c] = {own[c]}] /\ c \in Callers
        /\ UNCHANGED <<own, scopes>>
    BY <1>2, AnswerKeeps DEF Answer
  <2>2. QED
    BY <2>1 DEF Local!Next, Local!Current
<1>3. CASE Ask(c)
  <2>1. CASE seen' = seen
    BY <1>3, <2>1 DEF Ask, Local!vars
  <2>2. CASE seen' # seen
    <3>1. /\ hooked /\ Held(c) = {} /\ c \in live /\ c \in Callers
          /\ seen' = [seen EXCEPT ![c] = {None}] /\ UNCHANGED <<own, scopes>>
      BY <1>3, <2>2 DEF Ask
    <3>2. own[c] = None
      BY <3>1 DEF IInv, LocalInv, HeldOK, Held
    <3>3. QED
      BY <3>1, <3>2 DEF Local!Next, Local!Current
  <2>3. QED
    BY <2>1, <2>2
<1>4. CASE \/ Enter(c) \/ Leave(c) \/ Rebind(c) \/ Claim(c)
           \/ LoadWorker(c) \/ LoadNum(c) \/ StoreNum(c) \/ Forget(c)
  BY <1>4 DEF Enter, Leave, Rebind, Begin, Claim, LoadWorker, LoadNum, StoreNum,
    Forget, Local!vars
<1>5. QED
  BY <1>1, <1>2, <1>3, <1>4 DEF BodyStep, CallStep

THEOREM Implements == RoomSpec => KeepsContextsApart
<1>1. Init => Local!Init
  BY DEF Init, Local!Init
<1>2. IInv /\ [Next]_vars => [Local!Next]_(Local!vars)
  <2>1. CASE UNCHANGED vars
    BY <2>1 DEF vars, Local!vars
  <2>2. QED
    BY <2>1, StepImplements DEF Next
<1>3. QED
  BY <1>1, <1>2, Invariant, PTL DEF RoomSpec, RoomInit, KeepsContextsApart, Local!Spec
=============================================================================
