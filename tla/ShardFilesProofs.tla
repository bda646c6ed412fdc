-------------------------- MODULE ShardFilesProofs --------------------------
(***************************************************************************)
(* The files that shards are: the iterators that claim them in a directory *)
(* (DirectoryShards), for any number of processes, iterators and shards,   *)
(* and the writer that makes them (ShardWriter), for any samples, limits   *)
(* and failures.                                                           *)
(*                                                                         *)
(* Directory: a shard that was handed out stays its holder's, no running   *)
(* process loses a claim, and a shard that is not to be resampled is       *)
(* handed out once.  What has to be known besides: every claim carries the *)
(* pid of a process that runs or has exited, the two kinds of pids do not  *)
(* meet, and what recover_abandoned is about to dispose of carries a pid   *)
(* of the second kind, so that it is nobody's any more, however long ago   *)
(* it was looked at.                                                       *)
(*                                                                         *)
(* Writer: an accepted sample is whole, an archive is as full as its       *)
(* limits say, and the hook is called once on each one that is complete.   *)
(* What has to be known besides: what the call that is going on has put so *)
(* far, that count and size are those of the accepted samples of the       *)
(* archive that is open, and that only the newest archive can be without   *)
(* its trailer before an error was reported.                               *)
(***************************************************************************)
EXTENDS DirectoryShards, ShardWriter, FiniteSetTheorems, TLAPS

-----------------------------------------------------------------------------
(* The directory.                                                          *)

Live == {pid[p] : p \in alive}

PidsApart ==
  /\ \A p, q \in alive : pid[p] = pid[q] => p = q
  /\ Live \cap spent = {}

ClaimsAreKnown ==
  \A s \in Shards, q \in Pids : place[s] = Claim(q) => q \in Live \cup spent

EntriesAreKnown ==
  \A r \in Readers : /\ \A e \in entries[r] : e.by \in Live \cup spent
                     /\ \A e \in target[r] : e.by \in spent

OnlyTheRunningHold == \A r \in Readers : claimed[r] # {} => Runs(r)

HandedIsGone ==
  disposal # "resample" =>
    \A s \in Shards :
      \/ handed[s] = 0
      \/ handed[s] = 1 /\ place[s] \notin {Name("absent"), Name("plain")}

IInv ==
  /\ TypeOK
  /\ PidsApart
  /\ ClaimsAreKnown
  /\ EntriesAreKnown
  /\ OnlyTheRunningHold
  /\ HolderOwnsItsShard
  /\ HandedIsGone

-----------------------------------------------------------------------------
(* A claim is told from the other names by its state, and from other claims *)
(* by its pid.                                                              *)
LEMMA NamesDiffer ==
  /\ \A q, p : Claim(q) = Claim(p) => q = p
  /\ \A q, state : state # "claimed" => Claim(q) # Name(state)
  /\ \A q \in Pids : Claim(q) \in Places
  /\ \A state \in {"absent", "plain", "done", "deleted"} : Name(state) \in Places
  /\ \A a, b : Name(a) = Name(b) => a = b
<1>1. \A q, p : Claim(q) = Claim(p) => Claim(q).by = Claim(p).by
  OBVIOUS
<1>2. \A q, a : Claim(q) = Name(a) => Claim(q).state = Name(a).state
  OBVIOUS
<1>3. \A a, b : Name(a) = Name(b) => Name(a).state = Name(b).state
  OBVIOUS
<1>4. /\ \A q : Claim(q).by = q /\ Claim(q).state = "claimed"
      /\ \A a : Name(a).state = a
  BY DEF Claim, Name
<1>5. QED
  BY <1>1, <1>2, <1>3, <1>4 DEF Places

(* What a disposal leaves behind. *)
LEMMA DisposedIsPlace ==
  ASSUME disposal \in {"resample", "keep", "unlink"}
  PROVE  /\ Disposed \in Places
         /\ \A q : Disposed # Claim(q)
         /\ disposal # "resample" => Disposed \notin {Name("absent"), Name("plain")}
  BY NamesDiffer DEF Disposed

LEMMA InitInv == Init => IInv
<1> SUFFICES ASSUME Init PROVE IInv
  OBVIOUS
<1> USE DirectoryAssumption DEF Init
<1>1. TypeOK
  BY NamesDiffer DEF TypeOK, Inside
<1>2. PidsApart /\ EntriesAreKnown /\ OnlyTheRunningHold
  BY DEF PidsApart, Live, EntriesAreKnown, OnlyTheRunningHold
<1>3. ClaimsAreKnown
  BY NamesDiffer DEF ClaimsAreKnown
<1>4. HolderOwnsItsShard /\ HandedIsGone
  BY DEF HolderOwnsItsShard, HandedIsGone
<1>5. QED
  BY <1>1, <1>2, <1>3, <1>4 DEF IInv

-----------------------------------------------------------------------------
(* Steps of an iterator that touch no file and hold no shard. *)
Quiet(r) ==
  \/ Call(r) \/ ReadDir(r) \/ Inspect(r) \/ Recovered(r) \/ TimeOut(r)
  \/ Glob(r) \/ Choose(r) \/ Empty(r)

(* They leave claims alone; what they note of the directory is what is there. *)
LEMMA QuietKeeps ==
  ASSUME IInv, NEW r \in Readers, Quiet(r)
  PROVE  IInv'
<1> USE DEF IInv
<1>1. UNCHANGED <<settings, place, system, claimed, handed>>
  BY DEF Quiet, Call, ReadDir, Inspect, Recovered, TimeOut, Glob, Choose, Empty
<1>2. TypeOK'
  <2>1. listed' \in [Readers -> SUBSET Shards]
    BY DEF TypeOK, Quiet, Call, ReadDir, Inspect, Recovered, TimeOut, Glob, Choose,
           Empty, Plain, Candidates
  <2>2. /\ entries' \in [Readers -> SUBSET Entries]
        /\ target' \in [Readers -> SUBSET Entries]
    BY DEF TypeOK, Quiet, Call, ReadDir, Inspect, Recovered, TimeOut, Glob, Choose,
           Empty
  <2>3. \E where \in {"idle"} \cup Inside : Goto(r, where)
    BY DEF Quiet, Call, ReadDir, Inspect, Recovered, TimeOut, Glob, Choose, Empty,
           Inside
  <2>4. pc[r] \in {"idle"} \cup Inside
    BY DEF Quiet, Call, ReadDir, Inspect, Recovered, TimeOut, Glob, Choose, Empty,
           Inside, At
  <2>5. \A where \in {"idle"} \cup Inside : where \notin {"holding", "finished"}
    BY DEF Inside
  <2>6. /\ pc' \in [Readers -> {"idle", "holding", "finished"} \cup Inside]
        /\ \A t \in Readers :
             (pc'[t] \in {"holding", "finished"}) <=> (claimed[t] # {})
    BY <2>3, <2>4, <2>5 DEF TypeOK, Goto
  <2>7. QED
    BY <1>1, <2>1, <2>2, <2>6 DEF TypeOK, settings, system
<1>3. EntriesAreKnown'
  <2>1. Live' = Live /\ spent' = spent
    BY <1>1 DEF Live, system
  <2>2. CASE ReadDir(r)
    <3>1. \A e \in entries'[r] : e.by \in Live \cup spent
      BY <2>2 DEF ReadDir, ClaimsAreKnown, Entries, TypeOK
    <3>2. QED
      BY <2>1, <2>2, <3>1 DEF ReadDir, EntriesAreKnown, TypeOK
  <2>3. CASE Inspect(r)
    <3>1. PICK e \in entries[r] :
            /\ entries' = [entries EXCEPT ![r] = @ \ {e}]
            /\ target' = [target EXCEPT ![r] = IF Running(e.by) THEN {} ELSE {e}]
      BY <2>3 DEF Inspect
    <3>2. ~Running(e.by) => e.by \in spent
      BY DEF EntriesAreKnown, Running, Live
    <3>3. QED
      BY <2>1, <3>1, <3>2 DEF EntriesAreKnown, TypeOK
  <2>4. CASE ~ReadDir(r) /\ ~Inspect(r)
    <3>1. UNCHANGED <<entries, target>>
      BY <2>4 DEF Quiet, Call, Recovered, TimeOut, Glob, Choose, Empty
    <3>2. QED
      BY <2>1, <3>1 DEF EntriesAreKnown
  <2>5. QED
    BY <2>2, <2>3, <2>4
<1>4. QED
  BY <1>1, <1>2, <1>3 DEF PidsApart, Live, ClaimsAreKnown, OnlyTheRunningHold,
     HolderOwnsItsShard, HandedIsGone, Runs, Pid, settings, system

(* The iterator disposes of its own shard, and of no other's. *)
LEMMA CallAgainKeeps ==
  ASSUME IInv, NEW r \in Readers, CallAgain(r)
  PROVE  IInv'
<1> USE DEF IInv
<1>1. /\ UNCHANGED <<settings, system, listed, entries, target, handed>>
      /\ claimed' = [claimed EXCEPT ![r] = {}]
      /\ pc' = [pc EXCEPT ![r] = "recover"]
  BY DEF CallAgain, Goto
<1>2. PICK s \in claimed[r] : Dispose(s, Pid(r))
  BY DEF CallAgain
<1>3. s \in Shards /\ place[s] = Claim(Pid(r))
  BY DEF TypeOK, HolderOwnsItsShard
<1>4. place' = [place EXCEPT ![s] = Disposed]
  BY <1>2, <1>3 DEF Dispose
<1>5. disposal \in {"resample", "keep", "unlink"}
  BY DirectoryAssumption DEF TypeOK
<1>6. TypeOK'
  BY <1>1, <1>3, <1>4, <1>5, DisposedIsPlace DEF TypeOK, Inside, settings, system
<1>7. PidsApart' /\ EntriesAreKnown' /\ OnlyTheRunningHold'
  BY <1>1 DEF PidsApart, Live, EntriesAreKnown, OnlyTheRunningHold, TypeOK, Runs, system
<1>8. ClaimsAreKnown'
  BY <1>1, <1>3, <1>4, <1>5, DisposedIsPlace DEF ClaimsAreKnown, Live, TypeOK, system
<1>9. HolderOwnsItsShard'
  <2>1. \A t \in Readers : claimed'[t] \subseteq claimed[t]
    BY <1>1 DEF TypeOK
  <2>2. \A t \in Readers : s \notin claimed'[t]
    BY <1>1 DEF TypeOK, HolderOwnsItsShard
  <2>3. \A t \in Shards : t # s => place'[t] = place[t]
    BY <1>4 DEF TypeOK
  <2>4. QED
    BY <1>1, <2>1, <2>2, <2>3 DEF HolderOwnsItsShard, TypeOK, Pid, system
<1>10. HandedIsGone'
  BY <1>1, <1>3, <1>4, <1>5, DisposedIsPlace DEF HandedIsGone, TypeOK, settings
<1>11. QED
  BY <1>6, <1>7, <1>8, <1>9, <1>10

(* Recovery disposes of a claim only under the pid of a process that is gone. *)
LEMMA DisposeAbandonedKeeps ==
  ASSUME IInv, NEW r \in Readers, DisposeAbandoned(r)
  PROVE  IInv'
<1> USE DEF IInv
<1>1. /\ UNCHANGED <<settings, system, claimed, listed, entries, handed>>
      /\ target' = [target EXCEPT ![r] = {}]
      /\ pc' = [pc EXCEPT ![r] = "inspect"] /\ pc[r] = "dispose"
  BY DEF DisposeAbandoned, Goto, At
<1>2. PICK e \in target[r] : Dispose(e.shard, e.by)
  BY DEF DisposeAbandoned
<1>3. e.shard \in Shards /\ e.by \in spent
  BY DEF TypeOK, Entries, EntriesAreKnown
<1>4. \/ place' = place
      \/ /\ place[e.shard] = Claim(e.by)
         /\ place' = [place EXCEPT ![e.shard] = Disposed]
  BY <1>2 DEF Dispose
<1>5. disposal \in {"resample", "keep", "unlink"}
  BY DirectoryAssumption DEF TypeOK
<1>6. TypeOK'
  <2>1. place' \in [Shards -> Places]
    BY <1>4, <1>5, DisposedIsPlace DEF TypeOK
  <2>2. QED
    BY <1>1, <2>1 DEF TypeOK, Inside, settings, system
<1>7. PidsApart' /\ EntriesAreKnown' /\ OnlyTheRunningHold'
  BY <1>1 DEF PidsApart, Live, EntriesAreKnown, OnlyTheRunningHold, TypeOK, Runs, system
<1>8. ClaimsAreKnown'
  BY <1>1, <1>3, <1>4, <1>5, DisposedIsPlace DEF ClaimsAreKnown, Live, TypeOK, system
<1>9. HolderOwnsItsShard'
  <2>1. \A t \in Readers : claimed[t] # {} => Pid(t) # e.by
    BY <1>3 DEF OnlyTheRunningHold, Runs, Pid, PidsApart, Live
  <2>2. \A t \in Readers : \A s \in claimed[t] : s \in Shards /\ place'[s] = place[s]
    <3>1. \A t \in Readers : \A s \in claimed[t] :
            s \in Shards /\ place[s] = Claim(Pid(t)) /\ Pid(t) # e.by
      BY <2>1 DEF HolderOwnsItsShard, TypeOK
    <3>2. QED
      BY <1>3, <1>4, <3>1, NamesDiffer DEF TypeOK
  <2>3. QED
    BY <1>1, <2>2 DEF HolderOwnsItsShard, Pid, system
<1>10. HandedIsGone'
  BY <1>1, <1>3, <1>4, <1>5, DisposedIsPlace DEF HandedIsGone, TypeOK, settings
<1>11. QED
  BY <1>6, <1>7, <1>8, <1>9, <1>10

(* A rename that succeeds takes a shard that nobody had. *)
LEMMA RenameKeeps ==
  ASSUME IInv, NEW r \in Readers, Rename(r)
  PROVE  IInv'
<1> USE DEF IInv
<1>1. /\ UNCHANGED <<settings, system, entries, target>>
      /\ listed' = [listed EXCEPT ![r] = {}]
      /\ Runs(r) /\ pc[r] = "claim"
  BY DEF Rename, At
<1>2. PidsApart' /\ EntriesAreKnown'
  BY <1>1 DEF PidsApart, Live, EntriesAreKnown, system
<1>3. CASE UNCHANGED <<place, claimed, handed>> /\ Goto(r, "loop")
  <2>1. TypeOK'
    BY <1>1, <1>3 DEF TypeOK, Goto, Inside, settings, system
  <2>2. QED
    BY <1>1, <1>2, <1>3, <2>1 DEF ClaimsAreKnown, Live, OnlyTheRunningHold, Runs,
       HolderOwnsItsShard, Pid, HandedIsGone, settings, system
<1>4. CASE \E s \in listed[r] \cap Plain : Win(r, s)
  <2>1. PICK s \in Shards : place[s] = Name("plain") /\ Win(r, s)
    BY <1>4 DEF Plain
  <2>2. /\ place' = [place EXCEPT ![s] = Claim(Pid(r))]
        /\ claimed' = [claimed EXCEPT ![r] = {s}]
        /\ handed' = [handed EXCEPT ![s] = More(@)]
        /\ pc' = [pc EXCEPT ![r] = "holding"]
    BY <2>1 DEF Win, Goto
  <2>3. Pid(r) \in Pids /\ Pid(r) \in Live
    BY <1>1, DirectoryAssumption DEF Pid, Live, Runs, TypeOK
  <2>4. TypeOK'
    <3>1. More(handed[s]) \in 0..2
      BY DEF More, TypeOK
    <3>2. place' \in [Shards -> Places]
      BY <2>2, <2>3, NamesDiffer DEF TypeOK
    <3>3. QED
      BY <1>1, <2>2, <3>1, <3>2 DEF TypeOK, Inside, settings, system
  <2>5. \A t \in Readers : s \notin claimed[t]
    BY <2>1, NamesDiffer DEF HolderOwnsItsShard
  <2>6. HolderOwnsItsShard'
    <3>1. \A t \in Readers : Pid(t)' = Pid(t)
      BY <1>1 DEF Pid, system
    <3>2. \A t \in Readers : \A u \in claimed'[t] : place'[u] = Claim(Pid(t))
      BY <2>2, <2>5 DEF HolderOwnsItsShard, TypeOK
    <3>3. \A t, u \in Readers : t # u => claimed'[t] \cap claimed'[u] = {}
      BY <2>2, <2>5 DEF HolderOwnsItsShard, TypeOK
    <3>4. QED
      BY <3>1, <3>2, <3>3 DEF HolderOwnsItsShard
  <2>7. ClaimsAreKnown'
    BY <1>1, <2>2, <2>3, NamesDiffer DEF ClaimsAreKnown, Live, TypeOK, system
  <2>8. OnlyTheRunningHold'
    BY <1>1, <2>2 DEF OnlyTheRunningHold, Runs, TypeOK, system
  <2>9. HandedIsGone'
    BY <1>1, <2>1, <2>2, NamesDiffer DEF HandedIsGone, More, TypeOK, settings
  <2>10. QED
    BY <1>2, <2>4, <2>6, <2>7, <2>8, <2>9
<1>5. QED
  BY <1>3, <1>4 DEF Rename

-----------------------------------------------------------------------------
(* What happens around next(). *)

(* Reading a shard to its end, or dropping the iterator, touches no file. *)
LEMMA ConsumerKeeps ==
  ASSUME IInv, NEW r \in Readers, Finish(r) \/ Leave(r)
  PROVE  IInv'
<1> USE DEF IInv
<1>1. /\ UNCHANGED <<settings, place, system, listed, entries, target, handed>>
      /\ pc[r] \in {"holding", "finished"}
      /\ \/ /\ pc' = [pc EXCEPT ![r] = "finished"]
            /\ claimed' = claimed
         \/ /\ pc' = [pc EXCEPT ![r] = "idle"]
            /\ claimed' = [claimed EXCEPT ![r] = {}]
  BY DEF Finish, Leave, Goto, At
<1>2. TypeOK'
  BY <1>1 DEF TypeOK, settings, system
<1>3. \A t \in Readers : claimed'[t] \subseteq claimed[t]
  BY <1>1 DEF TypeOK
<1>4. PidsApart' /\ EntriesAreKnown' /\ ClaimsAreKnown' /\ HandedIsGone'
  BY <1>1 DEF PidsApart, Live, EntriesAreKnown, ClaimsAreKnown, HandedIsGone,
     settings, system
<1>5. HolderOwnsItsShard' /\ OnlyTheRunningHold'
  BY <1>1, <1>3 DEF HolderOwnsItsShard, OnlyTheRunningHold, Runs, Pid, system
<1>6. QED
  BY <1>2, <1>4, <1>5

(* An exit turns a live pid into a spent one and empties its iterators' hands. *)
LEMMA ExitKeeps ==
  ASSUME IInv, NEW p \in Procs, Exit(p)
  PROVE  IInv'
<1> USE DEF IInv
<1> DEFINE own == {r \in Readers : Owner[r] = p}
           None(f) == [r \in Readers |-> IF r \in own THEN {} ELSE f[r]]
<1>1. /\ p \in alive /\ alive' = alive \ {p} /\ spent' = spent \cup {pid[p]}
      /\ pc' = [r \in Readers |-> IF r \in own THEN "idle" ELSE pc[r]]
      /\ claimed' = None(claimed) /\ listed' = None(listed)
      /\ entries' = None(entries) /\ target' = None(target)
      /\ UNCHANGED <<settings, place, pid, handed>>
  BY DEF Exit
<1>2. TypeOK'
  BY <1>1 DEF TypeOK, Inside, settings
<1>3. Live' \cup spent' = Live \cup spent /\ spent \subseteq spent'
  BY <1>1 DEF Live
<1>4. PidsApart'
  BY <1>1 DEF PidsApart, Live, TypeOK
<1>5. ClaimsAreKnown' /\ EntriesAreKnown'
  <2>1. ClaimsAreKnown'
    BY <1>1, <1>3 DEF ClaimsAreKnown
  <2>2. \A r \in Readers : entries'[r] \subseteq entries[r] /\ target'[r] \subseteq target[r]
    BY <1>1 DEF TypeOK
  <2>3. QED
    BY <1>3, <2>1, <2>2 DEF EntriesAreKnown
<1>6. OnlyTheRunningHold'
  BY <1>1, DirectoryAssumption DEF OnlyTheRunningHold, Runs
<1>7. HolderOwnsItsShard' /\ HandedIsGone'
  BY <1>1 DEF HolderOwnsItsShard, HandedIsGone, Pid, settings
<1>8. QED
  BY <1>2, <1>4, <1>5, <1>6, <1>7

(* A process starts under a pid that no claim has. *)
LEMMA StartKeeps ==
  ASSUME IInv, NEW p \in Procs, Start(p)
  PROVE  IInv'
<1> USE DEF IInv
<1>1. PICK q \in Pids \ (spent \cup Live) : pid' = [pid EXCEPT ![p] = q]
  BY DEF Start, Live
<1>2. /\ p \notin alive /\ alive' = alive \cup {p}
      /\ UNCHANGED <<settings, place, spent, pc, claimed, listed, entries, target, handed>>
  BY DEF Start
<1>3. TypeOK'
  BY <1>1, <1>2 DEF TypeOK, settings
<1>4. \A o \in alive : pid'[o] = pid[o]
  BY <1>1, <1>2 DEF TypeOK
<1>5. pid'[p] = q
  BY <1>1 DEF TypeOK
<1>6. Live' = Live \cup {q}
  BY <1>2, <1>4, <1>5 DEF Live
<1>7. PidsApart'
  <2>1. \A o \in alive : pid[o] \in Live
    BY DEF Live
  <2>2. QED
    BY <1>1, <1>2, <1>4, <1>5, <1>6, <2>1 DEF PidsApart
<1>8. ClaimsAreKnown' /\ EntriesAreKnown'
  BY <1>2, <1>6 DEF ClaimsAreKnown, EntriesAreKnown
<1>9. HandedIsGone'
  BY <1>2 DEF HandedIsGone, settings
<1>10. HolderOwnsItsShard' /\ OnlyTheRunningHold'
  <2>1. \A r \in Readers : claimed[r] # {} => Pid(r)' = Pid(r)
    BY <1>4 DEF OnlyTheRunningHold, Runs, Pid
  <2>2. QED
    BY <1>2, <2>1 DEF HolderOwnsItsShard, OnlyTheRunningHold, Runs
<1>11. QED
  BY <1>3, <1>7, <1>8, <1>9, <1>10

LEMMA ArriveKeeps ==
  ASSUME IInv, NEW s \in Shards, Arrive(s)
  PROVE  IInv'
<1> USE DEF IInv
<1>1. /\ place[s] = Name("absent") /\ place' = [place EXCEPT ![s] = Name("plain")]
      /\ UNCHANGED <<settings, system, pc, claimed, listed, entries, target, handed>>
  BY DEF Arrive
<1>2. TypeOK'
  BY <1>1, NamesDiffer DEF TypeOK, settings, system
<1>3. PidsApart' /\ EntriesAreKnown' /\ OnlyTheRunningHold'
  BY <1>1 DEF PidsApart, Live, EntriesAreKnown, OnlyTheRunningHold, Runs, system
<1>4. ClaimsAreKnown' /\ HandedIsGone'
  BY <1>1, NamesDiffer DEF ClaimsAreKnown, HandedIsGone, Live, TypeOK, settings, system
<1>5. HolderOwnsItsShard'
  BY <1>1, NamesDiffer DEF HolderOwnsItsShard, TypeOK, Pid, system
<1>6. QED
  BY <1>2, <1>3, <1>4, <1>5

LEMMA NextInv == IInv /\ [Next]_vars => IInv'
<1> SUFFICES ASSUME IInv, [Next]_vars PROVE IInv'
  OBVIOUS
<1>1. ASSUME NEW r \in Readers, NextStep(r) \/ ConsumerStep(r) PROVE IInv'
  BY <1>1, QuietKeeps, CallAgainKeeps, DisposeAbandonedKeeps, RenameKeeps, ConsumerKeeps
     DEF NextStep, ConsumerStep, Quiet
<1>2. ASSUME NEW p \in Procs, Exit(p) \/ Start(p) PROVE IInv'
  BY <1>2, ExitKeeps, StartKeeps
<1>3. ASSUME NEW s \in Shards, Arrive(s) PROVE IInv'
  BY <1>3, ArriveKeeps
<1>4. CASE UNCHANGED vars
  BY <1>4 DEF IInv, vars, settings, system, TypeOK, PidsApart, Live, ClaimsAreKnown,
     EntriesAreKnown, OnlyTheRunningHold, Runs, HolderOwnsItsShard, Pid, HandedIsGone
<1>5. QED
  BY <1>1, <1>2, <1>3, <1>4 DEF Next

-----------------------------------------------------------------------------
LEMMA Invariant == Spec => []IInv
  BY InitInv, NextInv, PTL DEF Spec

(* The variables keep their types: DirectoryShardList's state in every call. *)
THEOREM TypeCorrect == Spec => []TypeOK
<1>1. IInv => TypeOK
  BY DEF IInv
<1>2. QED
  BY Invariant, <1>1, PTL

(* A shard that next() returned stays under its process's name, and is        *)
(* nobody else's, until its iterator disposes of it: any number of processes, *)
(* recoveries, exits and restarts.                                            *)
THEOREM HoldersOwn == Spec => []HolderOwnsItsShard
<1>1. IInv => HolderOwnsItsShard
  BY DEF IInv
<1>2. QED
  BY Invariant, <1>1, PTL

(* A shard that is kept or unlinked is returned by one call of next(), if it  *)
(* ever is: Disposal::Keep and Unlink.                                        *)
THEOREM HandedOnce == Spec => []NotPickedUpAgain
<1>1. IInv => NotPickedUpAgain
  BY DEF IInv, HandedIsGone, NotPickedUpAgain
<1>2. QED
  BY Invariant, <1>1, PTL

(* No step of recover_abandoned, or of anyone else, takes a claim from a      *)
(* process that runs; it gives one up itself, when it asks for another shard. *)
THEOREM LivingKeepTheirClaims == Spec => ClaimsOfTheLivingStay
<1> DEFINE Kept ==
      \A s \in Shards, q \in Pids :
        place[s] = Claim(q) /\ place'[s] # Claim(q) =>
          \/ ~Running(q)
          \/ \E r \in Readers : Pid(r) = q /\ At(r, "finished") /\ s \in claimed[r]
<1>1. IInv /\ [Next]_vars => [Kept]_vars
  <2> SUFFICES ASSUME IInv, [Next]_vars, NEW s \in Shards, NEW q \in Pids,
                      place[s] = Claim(q), place'[s] # Claim(q)
               PROVE  \/ ~Running(q)
                      \/ \E r \in Readers : /\ Pid(r) = q /\ At(r, "finished")
                                            /\ s \in claimed[r]
    OBVIOUS
  <2> USE DEF IInv
  <2>1. ASSUME NEW r \in Readers, NextStep(r) PROVE ~Running(q)
    <3>1. CASE DisposeAbandoned(r)
      <4>1. PICK e \in target[r] : Dispose(e.shard, e.by)
        BY <3>1 DEF DisposeAbandoned
      <4>2. e.shard = s /\ e.by = q
        BY <4>1, NamesDiffer DEF Dispose, TypeOK
      <4>3. q \in spent
        BY <4>2 DEF EntriesAreKnown
      <4>4. QED
        BY <4>3 DEF PidsApart, Live, Running
    <3>2. CASE Rename(r)
      BY <3>2, NamesDiffer DEF Rename, Win, Plain, TypeOK
    <3>3. CASE Quiet(r)
      BY <3>3 DEF Quiet, Call, ReadDir, Inspect, Recovered, TimeOut, Glob, Choose, Empty
    <3>4. QED
      BY <2>1, <3>1, <3>2, <3>3 DEF NextStep, Quiet
  <2>2. ASSUME NEW r \in Readers, ConsumerStep(r)
        PROVE  Pid(r) = q /\ At(r, "finished") /\ s \in claimed[r]
    <3>1. CASE CallAgain(r)
      <4>1. PICK u \in claimed[r] : Dispose(u, Pid(r))
        BY <3>1 DEF CallAgain
      <4>2. u = s /\ Pid(r) = q
        BY <4>1, NamesDiffer DEF Dispose, TypeOK
      <4>3. QED
        BY <3>1, <4>1, <4>2 DEF CallAgain
    <3>2. CASE ~CallAgain(r)
      BY <2>2, <3>2 DEF ConsumerStep, Call, Finish, Leave
    <3>3. QED
      BY <3>1, <3>2
  (* Whoever is no reader takes no claim away. *)
  <2>3. /\ \A u \in Shards : ~Arrive(u)
        /\ \A p \in Procs : ~Exit(p) /\ ~Start(p)
        /\ vars' # vars
    <3>1. \A u \in Shards : ~Arrive(u)
      BY NamesDiffer DEF Arrive, TypeOK
    <3>2. \A p \in Procs : ~Exit(p) /\ ~Start(p)
      BY DEF Exit, Start
    <3>3. QED
      BY <3>1, <3>2 DEF vars
  <2>4. (\E r \in Readers : NextStep(r)) \/ (\E r \in Readers : ConsumerStep(r))
    BY <2>3 DEF Next
  <2>5. QED
    BY <2>1, <2>2, <2>4
<1>2. QED
  BY Invariant, <1>1, PTL DEF Spec, ClaimsOfTheLivingStay

-----------------------------------------------------------------------------
(* Sums over finite sets, with which the writer's payloads are counted: the *)
(* fold of the community modules does to any set what it does to a smaller  *)
(* one and an element more.                                                 *)

(* The function that SumFunctionOnSet folds with, and the element it takes  *)
(* first.                                                                   *)
First(s) == CHOOSE x \in s : TRUE
Adding(f, S, it) ==
  it = [s \in SUBSET S |-> IF s = {} THEN 0 ELSE f[First(s)] + it[s \ {First(s)}]]

LEMMA FirstIsOne == ASSUME NEW s, s # {} PROVE First(s) \in s
BY DEF First

LEMMA FoldIs ==
  ASSUME NEW f, NEW S
  PROVE  SumFunctionOnSet(f, S) = (CHOOSE it : Adding(f, S, it))[S]
BY DEF SumFunctionOnSet, FoldFunctionOnSet, MapThenFoldSet, Adding, First

(* Induction over subsets. *)
LEMMA SubsetInduction ==
  ASSUME NEW S, IsFiniteSet(S), NEW G \in SUBSET SUBSET S,
         \A t \in SUBSET S : (\A u \in SUBSET t : u # t => u \in G) => t \in G
  PROVE  \A t \in SUBSET S : t \in G
<1>1. IsWellFoundedOn(StrictSubsetOrdering(S), SUBSET S)
  BY FS_StrictSubsetOrderingWellFounded, FS_FiniteSubsetsOfFinite
<1> DEFINE B == (SUBSET S) \ G
<1>2. SUFFICES ASSUME B # {} PROVE FALSE
  OBVIOUS
<1>3. B \subseteq SUBSET S
  OBVIOUS
<1> HIDE DEF B
<1>4. PICK t \in B : \A u \in B : ~ (<<u, t>> \in StrictSubsetOrdering(S))
  BY <1>1, <1>2, <1>3, WFMin
<1>5. \A u \in SUBSET t : u # t => u \in G
  BY <1>3, <1>4 DEF StrictSubsetOrdering, B
<1>6. QED
  BY <1>3, <1>4, <1>5 DEF B

Smaller(s) == s \ {First(s)}

LEMMA SmallerIs ==
  ASSUME NEW S, NEW s \in SUBSET S, s # {}
  PROVE  First(s) \in s /\ Smaller(s) \in SUBSET s /\ Smaller(s) # s
BY FirstIsOne DEF Smaller

LEMMA AddingIs ==
  ASSUME NEW f, NEW S, NEW it, Adding(f, S, it)
  PROVE  /\ it[{}] = 0
         /\ \A s \in SUBSET S : s # {} => it[s] = f[First(s)] + it[Smaller(s)]
BY DEF Adding, Smaller

(* There is at most one such function, whatever else f and the sets hold, *)
LEMMA AddingOnce ==
  ASSUME NEW f, NEW g, NEW S, IsFiniteSet(S), \A x \in S : f[x] = g[x],
         NEW R, S \subseteq R, NEW a, Adding(f, S, a), NEW b, Adding(g, R, b)
  PROVE  a[S] = b[S]
<1> DEFINE G == {s \in SUBSET S : a[s] = b[s]}
<1>1. ASSUME NEW t \in SUBSET S, \A u \in SUBSET t : u # t => u \in G
      PROVE  t \in G
  <2>1. CASE t = {}
    BY <2>1, AddingIs
  <2>2. CASE t # {}
    <3>1. First(t) \in S /\ Smaller(t) \in G
      BY <1>1, <2>2, SmallerIs
    <3>2. a[t] = f[First(t)] + a[Smaller(t)] /\ b[t] = g[First(t)] + b[Smaller(t)]
      BY <2>2, AddingIs
    <3>3. a[t] = b[t]
      BY <3>1, <3>2
    <3>4. QED
      BY <3>3
  <2>3. QED
    BY <2>1, <2>2
<1>2. G \in SUBSET SUBSET S
  OBVIOUS
<1> HIDE DEF G
<1>3. \A t \in SUBSET S : t \in G
  BY <1>1, <1>2, SubsetInduction
<1>4. QED
  BY <1>3 DEF G

LEMMA AddingWithin ==
  ASSUME NEW f, NEW R, NEW S \in SUBSET R, IsFiniteSet(S),
         NEW a, Adding(f, S, a), NEW b, Adding(f, R, b)
  PROVE  a[S] = b[S]
<1>1. S \subseteq R /\ \A x \in S : f[x] = f[x]
  OBVIOUS
<1>2. QED
  BY <1>1, AddingOnce, Z3

(* and there is one. *)
Sum(f, s) == (CHOOSE it : Adding(f, s, it))[s]

LEMMA AddingExists ==
  ASSUME NEW f, NEW S, IsFiniteSet(S)
  PROVE  \E it : Adding(f, S, it)
<1> DEFINE G == {s \in SUBSET S : \E it : Adding(f, s, it)}
<1>1. ASSUME NEW t \in SUBSET S, \A u \in SUBSET t : u # t => u \in G
      PROVE  t \in G
  <2> DEFINE V(s) == IF s = {} THEN 0 ELSE f[First(s)] + Sum(f, Smaller(s))
             it == [s \in SUBSET t |-> V(s)]
  <2> HIDE DEF V, it
  <2>1. ASSUME NEW s \in SUBSET t, s # t
        PROVE  Sum(f, s) = V(s)
    <3>1. PICK a : a = (CHOOSE k : Adding(f, s, k))
      OBVIOUS
    <3>2. Adding(f, s, a)
      BY <1>1, <2>1, <3>1
    <3>3. CASE s = {}
      BY <3>1, <3>2, <3>3, AddingIs DEF Sum, V
    <3>4. CASE s # {}
      <4>1. PICK b : b = (CHOOSE k : Adding(f, Smaller(s), k))
        OBVIOUS
      <4>2. Smaller(s) \in SUBSET t /\ Smaller(s) # t /\ Smaller(s) \subseteq s
        BY <2>1, <3>4, SmallerIs
      <4>3. Adding(f, Smaller(s), b)
        BY <1>1, <4>1, <4>2
      <4>4. IsFiniteSet(Smaller(s))
        BY <4>2, FS_Subset
      <4>5. b[Smaller(s)] = a[Smaller(s)]
        BY <3>2, <4>2, <4>3, <4>4, AddingWithin
      <4>6. a[s] = f[First(s)] + a[Smaller(s)]
        BY <3>2, <3>4, AddingIs
      <4>7. QED
        BY <3>1, <3>4, <4>1, <4>5, <4>6 DEF Sum, V
    <3>5. QED
      BY <3>3, <3>4
  <2>2. ASSUME NEW s \in SUBSET t, s # {}
        PROVE  it[Smaller(s)] = Sum(f, Smaller(s))
    <3>1. Smaller(s) \in SUBSET t /\ Smaller(s) # t
      <4>1. First(s) \in t /\ First(s) \notin Smaller(s)
        BY <2>2, FirstIsOne DEF Smaller
      <4>2. QED
        BY <4>1 DEF Smaller
    <3>2. QED
      BY <2>1, <3>1 DEF it
  <2>3. Adding(f, t, it)
    BY <2>2 DEF Adding, Smaller, it, V
  <2>4. QED
    BY <2>3
<1>2. G \in SUBSET SUBSET S
  OBVIOUS
<1> HIDE DEF G
<1>3. \A t \in SUBSET S : t \in G
  BY <1>1, <1>2, SubsetInduction
<1>4. QED
  BY <1>3 DEF G

(* So sums can be computed element by element, *)
LEMMA SumIs ==
  ASSUME NEW f, NEW S, IsFiniteSet(S), S # {}
  PROVE  Sum(f, S) = f[First(S)] + Sum(f, Smaller(S))
<1>1. PICK a : a = (CHOOSE k : Adding(f, S, k))
  OBVIOUS
<1>2. PICK b : b = (CHOOSE k : Adding(f, Smaller(S), k))
  OBVIOUS
<1>3. Smaller(S) \subseteq S /\ IsFiniteSet(Smaller(S))
  BY SmallerIs, FS_Subset
<1>4. Adding(f, S, a)
  BY <1>1, AddingExists
<1>5. Adding(f, Smaller(S), b)
  BY <1>2, <1>3, AddingExists
<1>6. b[Smaller(S)] = a[Smaller(S)]
  BY <1>3, <1>4, <1>5, AddingOnce
<1>7. a[S] = f[First(S)] + a[Smaller(S)]
  BY <1>4, AddingIs
<1>8. QED
  BY <1>1, <1>2, <1>6, <1>7 DEF Sum

LEMMA SumOfNone == ASSUME NEW f PROVE Sum(f, {}) = 0
<1>1. PICK a : a = (CHOOSE k : Adding(f, {}, k))
  OBVIOUS
<1>2. Adding(f, {}, a)
  BY <1>1, AddingExists, FS_EmptySet
<1>3. QED
  BY <1>1, <1>2, AddingIs DEF Sum

LEMMA SumSame ==
  ASSUME NEW f, NEW g, NEW S, IsFiniteSet(S), \A x \in S : f[x] = g[x]
  PROVE  Sum(f, S) = Sum(g, S)
<1>1. PICK a : a = (CHOOSE k : Adding(f, S, k))
  OBVIOUS
<1>2. PICK b : b = (CHOOSE k : Adding(g, S, k))
  OBVIOUS
<1>3. Adding(f, S, a) /\ Adding(g, S, b)
  BY <1>1, <1>2, AddingExists
<1>4. a[S] = b[S]
  BY <1>3, AddingOnce
<1>5. QED
  BY <1>1, <1>2, <1>4 DEF Sum

LEMMA SumType ==
  ASSUME NEW f, NEW S, IsFiniteSet(S), \A x \in S : f[x] \in Nat
  PROVE  Sum(f, S) \in Nat
<1> DEFINE G == {s \in SUBSET S : Sum(f, s) \in Nat}
<1>1. ASSUME NEW t \in SUBSET S, \A u \in SUBSET t : u # t => u \in G
      PROVE  t \in G
  <2>1. CASE t = {}
    BY <2>1, SumOfNone
  <2>2. CASE t # {}
    <3>1. First(t) \in S /\ Smaller(t) \in G
      BY <1>1, <2>2, SmallerIs
    <3>2. IsFiniteSet(t)
      BY FS_Subset
    <3>3. Sum(f, t) = f[First(t)] + Sum(f, Smaller(t))
      BY <2>2, <3>2, SumIs
    <3>4. QED
      BY <3>1, <3>3
  <2>3. QED
    BY <2>1, <2>2
<1>2. G \in SUBSET SUBSET S
  OBVIOUS
<1> HIDE DEF G
<1>3. \A t \in SUBSET S : t \in G
  BY <1>1, <1>2, SubsetInduction
<1>4. QED
  BY <1>3 DEF G

(* in any order. *)
LEMMA SumLess ==
  ASSUME NEW f, NEW S, IsFiniteSet(S), \A x \in S : f[x] \in Nat
  PROVE  \A e \in S : Sum(f, S) = Sum(f, S \ {e}) + f[e]
<1> DEFINE G == {s \in SUBSET S : \A e \in s : Sum(f, s) = Sum(f, s \ {e}) + f[e]}
<1>1. ASSUME NEW t \in SUBSET S, \A u \in SUBSET t : u # t => u \in G
      PROVE  t \in G
  <2>1. SUFFICES ASSUME NEW e \in t PROVE Sum(f, t) = Sum(f, t \ {e}) + f[e]
    OBVIOUS
  <2> DEFINE x == First(t)
  <2>2. x \in t /\ Smaller(t) = t \ {x} /\ Smaller(t) # t
    BY SmallerIs DEF Smaller
  <2>3. \A s \in SUBSET t : IsFiniteSet(s) /\ Sum(f, s) \in Nat
    BY FS_Subset, SumType
  <2>4. Sum(f, t) = f[x] + Sum(f, t \ {x})
    BY <2>2, <2>3, SumIs
  <2>5. f[x] \in Nat /\ f[e] \in Nat
    BY <2>2
  <2> HIDE DEF x
  <2>6. CASE e = x
    BY <2>3, <2>4, <2>5, <2>6
  <2>7. CASE e # x
    <3>1. t \ {x} \in G /\ t \ {e} \in G
      BY <1>1, <2>2
    <3>2. Sum(f, t \ {x}) = Sum(f, (t \ {x}) \ {e}) + f[e]
      BY <2>7, <3>1
    <3>3. Sum(f, t \ {e}) = Sum(f, (t \ {e}) \ {x}) + f[x]
      BY <2>2, <2>7, <3>1
    <3>4. (t \ {x}) \ {e} = (t \ {e}) \ {x}
      OBVIOUS
    <3>5. PICK rest \in Nat : rest = Sum(f, (t \ {x}) \ {e})
      BY <2>3
    <3>6. Sum(f, t) = f[x] + (rest + f[e]) /\ Sum(f, t \ {e}) = rest + f[x]
      BY <2>4, <3>2, <3>3, <3>4, <3>5
    <3>7. QED
      BY <2>5, <3>6
  <2>8. QED
    BY <2>6, <2>7
<1>2. G \in SUBSET SUBSET S
  OBVIOUS
<1> HIDE DEF G
<1>3. \A t \in SUBSET S : t \in G
  BY <1>1, <1>2, SubsetInduction
<1>4. QED
  BY <1>3 DEF G

LEMMA SumAdds ==
  ASSUME NEW f, NEW S, IsFiniteSet(S), NEW e, e \notin S,
         f[e] \in Nat, \A x \in S : f[x] \in Nat
  PROVE  Sum(f, S \cup {e}) = Sum(f, S) + f[e]
<1>1. IsFiniteSet(S \cup {e}) /\ (S \cup {e}) \ {e} = S
  BY FS_AddElement
<1>2. QED
  BY <1>1, SumLess

-----------------------------------------------------------------------------
(* What a step does to the archives and to the history of calls. *)
Newest(A) == A[Len(A)]

Tallied ==
  /\ phase = "append" => op = "write" /\ open
  /\ phase = "post" => hooked /\ archives # <<>> /\ Newest(archives).trailer
  /\ phase \in {"post", "create", "gone"} => ~open
  /\ phase = "create" => op # "end"
  /\ \A i \in DOMAIN archives : archives[i].left = "open" <=> i = Len(archives) /\ open
  /\ open => archives # <<>> /\ ~Newest(archives).trailer

Encoded ==
  /\ phase \in {"finish", "post", "create"} => at = 1
  /\ phase = "append" =>
       /\ at <= Len(sample.fields) + 1
       /\ \A f \in 1..(at - 1) : sample.fields[f] \in Nat

WInv == WriterTypeOK /\ Tallied /\ Encoded

(* All but the newest archive stay as they are. *)
Retouches(A, B) ==
  /\ B \in Seq(Archive) /\ Len(B) = Len(A)
  /\ \A i \in 1..Len(A) : i # Len(A) => B[i] = A[i]
  /\ \A i \in 1..Len(A) : B[i].number = A[i].number

Puts(A, B, entry) ==
  /\ Retouches(A, B)
  /\ Newest(B).members = Append(Newest(A).members, entry)
  /\ Newest(B).left = Newest(A).left /\ Newest(B).trailer = Newest(A).trailer

Seals(A, B, written) ==
  /\ Retouches(A, B)
  /\ Newest(B).members = Newest(A).members
  /\ Newest(B).left = op /\ Newest(B).trailer = written

Opens(A, B) ==
  /\ B \in Seq(Archive) /\ Len(B) = Len(A) + 1
  /\ \A i \in 1..Len(A) : B[i] = A[i]
  /\ Newest(B).number = shard /\ Newest(B).members = <<>>
  /\ Newest(B).left = "open" /\ ~Newest(B).trailer

LEMMA AppendedPuts ==
  ASSUME WInv, archives # <<>>, NEW entry \in Entry
  PROVE  Puts(archives, Appended(entry), entry)
<1> DEFINE n == Len(archives)
           last == [archives[n] EXCEPT !.members = Append(@, entry)]
           B == [archives EXCEPT ![n] = last]
<1>1. archives \in Seq(Archive) /\ n \in DOMAIN archives /\ archives[n] \in Archive
  BY DEF WInv, WriterTypeOK
<1>2. Appended(entry) = B
  BY DEF Appended
<1>3. last \in Archive
  <2>1. Append(archives[n].members, entry) \in Seq(Entry)
    BY <1>1 DEF Archive
  <2>2. QED
    BY <1>1, <2>1 DEF Archive
<1>4. /\ last.members = Append(archives[n].members, entry) /\ last.number = archives[n].number
      /\ last.left = archives[n].left /\ last.trailer = archives[n].trailer
  BY <1>1 DEF Archive
<1> HIDE DEF last
<1>5. B \in Seq(Archive) /\ Len(B) = n /\ B[n] = last /\ \A i \in 1..n : i # n => B[i] = archives[i]
  BY <1>1, <1>3
<1>6. QED
  BY <1>2, <1>4, <1>5 DEF Puts, Retouches, Newest

LEMMA SealedSeals ==
  ASSUME WInv, archives # <<>>, NEW written \in BOOLEAN, NEW stored \in BOOLEAN
  PROVE  Seals(archives, Sealed(written, stored), written)
<1> DEFINE n == Len(archives)
           last == [archives[n] EXCEPT !.left = op, !.trailer = written, !.stored = stored]
           B == [archives EXCEPT ![n] = last]
<1>1. archives \in Seq(Archive) /\ n \in DOMAIN archives /\ archives[n] \in Archive
  BY DEF WInv, WriterTypeOK
<1>2. Sealed(written, stored) = B
  BY <1>1 DEF Sealed, Archive
<1>3. last \in Archive
  BY <1>1 DEF Archive, WInv, WriterTypeOK
<1>4. /\ last.members = archives[n].members /\ last.number = archives[n].number
      /\ last.left = op /\ last.trailer = written
  BY <1>1 DEF Archive
<1> HIDE DEF last
<1>5. B \in Seq(Archive) /\ Len(B) = n /\ B[n] = last /\ \A i \in 1..n : i # n => B[i] = archives[i]
  BY <1>1, <1>3
<1>6. QED
  BY <1>2, <1>4, <1>5 DEF Seals, Retouches, Newest

LEMMA CreateOpens ==
  ASSUME WInv, Create
  PROVE  Opens(archives, archives')
<1> DEFINE new == [number |-> shard, members |-> <<>>, left |-> "open", trailer |-> FALSE,
                   stored |-> FALSE]
<1>1. archives \in Seq(Archive)
  BY DEF WInv, WriterTypeOK
<1>2. new \in Archive
  BY DEF WInv, WriterTypeOK, Archive
<1>3. new.number = shard /\ new.members = <<>> /\ new.left = "open" /\ ~new.trailer
  OBVIOUS
<1>4. archives' = Append(archives, new)
  BY DEF Create
<1> HIDE DEF new
<1>5. /\ archives' \in Seq(Archive) /\ Len(archives') = Len(archives) + 1
      /\ \A i \in 1..Len(archives) : archives'[i] = archives[i]
      /\ archives'[Len(archives) + 1] = new
  BY <1>1, <1>2, <1>4
<1>6. QED
  BY <1>3, <1>5 DEF Opens, Newest

(* The result that a call leaves. *)
Reports(ok) ==
  /\ results' \in Seq(Result) /\ Len(results') = Len(results) + 1
  /\ \A c \in 1..Len(results) : results'[c] = results[c]
  /\ LET r == results'[Len(results) + 1]
     IN r.op = op /\ r.sample = sample /\ r.ok = ok /\ r.into = Len(archives)

LEMMA ReturnReports ==
  ASSUME WInv, NEW ok \in BOOLEAN, Return(ok)
  PROVE  /\ Reports(ok)
         /\ phase' = IF op = "end" THEN "gone" ELSE "idle"
<1> DEFINE r == [op |-> op, sample |-> sample, ok |-> ok, into |-> Len(archives)]
<1>1. results \in Seq(Result) /\ r \in Result
  BY DEF WInv, WriterTypeOK, Result
<1>2. r.op = op /\ r.sample = sample /\ r.ok = ok /\ r.into = Len(archives)
  OBVIOUS
<1>3. results' = Append(results, r)
  BY DEF Return
<1> HIDE DEF r
<1>4. /\ results' \in Seq(Result) /\ Len(results') = Len(results) + 1
      /\ \A c \in 1..Len(results) : results'[c] = results[c]
      /\ results'[Len(results) + 1] = r
  BY <1>1, <1>3
<1>5. QED
  BY <1>2, <1>4 DEF Reports, Return

(* A step of finish() goes on to create or returns. *)
LEMMA FinishedIs ==
  ASSUME WInv, Finished
  PROVE  \/ op # "end" /\ phase' = "create" /\ results' = results
         \/ op = "end" /\ phase' = "gone" /\ Reports(TRUE)
BY ReturnReports DEF Finished

-----------------------------------------------------------------------------
(* The types, and what a phase says of the newest archive. *)
LEMMA LastIsNewest == \A A : Last(A) = Newest(A)
BY DEF Last, Newest

(* A step that neither creates nor closes. *)
Steady(B) ==
  /\ Retouches(archives, B)
  /\ archives # <<>> => /\ Newest(B).left = Newest(archives).left
                        /\ Newest(B).trailer = Newest(archives).trailer

LEMMA PutsIsSteady ==
  ASSUME NEW B, NEW entry, archives # <<>>, Puts(archives, B, entry)
  PROVE  Steady(B)
BY DEF Puts, Steady

LEMMA SameIsSteady ==
  ASSUME WInv
  PROVE  Steady(archives)
BY DEF Steady, Retouches, WInv, WriterTypeOK

LEMMA SteadyKeeps ==
  ASSUME WInv, Steady(archives'), open' = open, hooked' = hooked,
         phase' = "append" => op' = "write" /\ open,
         phase' \in {"post", "create", "gone"} => phase' # "post" /\ ~open,
         phase' = "create" => op' # "end"
  PROVE  Tallied' /\ (open <=> archives # <<>> /\ Last(archives).left = "open")'
<1>1. Len(archives') = Len(archives) /\ DOMAIN archives = 1..Len(archives) /\ DOMAIN archives' = 1..Len(archives')
  BY DEF Steady, Retouches, WInv, WriterTypeOK
<1>2. ASSUME NEW i \in DOMAIN archives'
      PROVE  archives'[i].left = archives[i].left /\ archives'[i].trailer = archives[i].trailer
  <2>1. CASE i = Len(archives)
    <3>1. archives # <<>> /\ Newest(archives') = archives'[i] /\ Newest(archives) = archives[i]
      BY <1>1, <2>1 DEF Newest
    <3>2. QED
      BY <3>1 DEF Steady
  <2>2. CASE i # Len(archives)
    BY <1>1, <2>2 DEF Steady, Retouches
  <2>3. QED
    BY <2>1, <2>2
<1>3. Len(archives) \in Nat /\ (archives # <<>> <=> Len(archives) # 0) /\ (archives' # <<>> <=> Len(archives') # 0)
  BY DEF Steady, Retouches, WInv, WriterTypeOK
<1>4. \A i \in DOMAIN archives' : archives'[i].left = "open" <=> i = Len(archives') /\ open'
  BY <1>1, <1>2 DEF WInv, Tallied
<1>5. open => archives' # <<>> /\ ~Newest(archives').trailer
  BY <1>1, <1>2, <1>3 DEF WInv, Tallied, Newest
<1>6. (open <=> archives # <<>> /\ Last(archives).left = "open")'
  BY <1>1, <1>3, <1>4, <1>5, LastIsNewest DEF Newest
<1>7. QED
  BY <1>4, <1>5, <1>6 DEF Tallied

LEMMA SealsKeeps ==
  ASSUME WInv, archives # <<>>, NEW written \in BOOLEAN, Seals(archives, archives', written), open' = FALSE, hooked' = hooked,
         phase' # "append", phase' = "post" => hooked /\ written,
         phase' = "create" => op' # "end"
  PROVE  Tallied' /\ (open <=> archives # <<>> /\ Last(archives).left = "open")'
<1>1. Len(archives') = Len(archives) /\ DOMAIN archives = 1..Len(archives) /\ DOMAIN archives' = 1..Len(archives')
  BY DEF Seals, Retouches, WInv, WriterTypeOK
<1>2. Len(archives) \in Nat \ {0} /\ archives' # <<>>
  BY <1>1 DEF WInv, WriterTypeOK
<1>3. op # "open"
  BY DEF WInv, WriterTypeOK, Operation
<1>4. \A i \in DOMAIN archives' : archives'[i].left # "open"
  BY <1>1, <1>2, <1>3 DEF Seals, Retouches, Newest, WInv, Tallied
<1>5. Last(archives').left # "open"
  BY <1>1, <1>2, <1>4, LastIsNewest DEF Newest
<1>6. QED
  BY <1>2, <1>4, <1>5 DEF Tallied, Seals

LEMMA OpensKeeps ==
  ASSUME WInv, ~open, Opens(archives, archives'), open' = TRUE,
         phase' = "append" => op' = "write", phase' \notin {"post", "create", "gone"}
  PROVE  Tallied' /\ (open <=> archives # <<>> /\ Last(archives).left = "open")'
<1>1. Len(archives') = Len(archives) + 1 /\ DOMAIN archives = 1..Len(archives) /\ DOMAIN archives' = 1..Len(archives')
  BY DEF Opens, WInv, WriterTypeOK
<1>2. Len(archives) \in Nat /\ archives' # <<>>
  BY <1>1 DEF WInv, WriterTypeOK
<1>3. \A i \in DOMAIN archives : archives'[i].left # "open"
  BY <1>1 DEF Opens, WInv, Tallied
<1>4. \A i \in DOMAIN archives' : i \in DOMAIN archives \/ i = Len(archives')
  BY <1>1, <1>2
<1>5. \A i \in DOMAIN archives' : archives'[i].left = "open" <=> i = Len(archives')
  BY <1>1, <1>2, <1>3, <1>4 DEF Opens, Newest
<1>6. Last(archives').left = "open"
  BY LastIsNewest DEF Opens
<1>7. QED
  BY <1>2, <1>5, <1>6 DEF Tallied, Opens

(* The variables of a call in a step that returns. *)
LEMMA SumOfFields ==
  ASSUME NEW f \in Seq(Nat)
  PROVE  SumFunction(f) \in Nat
<1>1. IsFiniteSet(DOMAIN f) /\ \A i \in DOMAIN f : f[i] \in Nat
  BY FS_Interval
<1>2. Sum(f, DOMAIN f) \in Nat
  BY <1>1, SumType
<1>3. QED
  BY <1>2, FoldIs DEF SumFunction, Sum

LEMMA InitWInv ==
  ASSUME WriterInit
  PROVE  WInv
<1>1. sample \in Sample
  BY DEF WriterInit, Sample
<1>2. archives = <<>> /\ hooks = <<>> /\ results = <<>> /\ Len(archives) = 0
  BY DEF WriterInit
<1>3. /\ archives \in Seq(Archive) /\ hooks \in Seq(Nat) /\ results \in Seq(Result)
      /\ shard \in Nat /\ faults \in 0..MaxFaults
  BY <1>2, WriterAssumption DEF WriterInit
<1>t. WriterTypeOK
  <2>1. /\ hooked \in BOOLEAN /\ open \in BOOLEAN /\ op \in Operation
        /\ phase \in {"idle", "finish", "post", "create", "append", "gone"}
    BY DEF WriterInit, Operation
  <2>2. count \in Nat /\ size \in Nat /\ at \in Nat \ {0}
    BY DEF WriterInit
  <2>3. open <=> archives # <<>> /\ Last(archives).left = "open"
    BY DEF WriterInit
  <2>4. QED
    BY <1>1, <1>3, <2>1, <2>2, <2>3 DEF WriterTypeOK
<1>4. QED
  BY <1>2, <1>t DEF WriterInit, WInv, Tallied, Encoded

LEMMA FaultIs ==
  ASSUME WInv, NoFault \/ Fault
  PROVE  faults' \in 0..MaxFaults
BY WriterAssumption DEF WInv, WriterTypeOK, Fault, NoFault

LEMMA PayloadType ==
  ASSUME WInv, phase = "append", at > Len(sample.fields)
  PROVE  sample.fields \in Seq(Nat) /\ Payload(sample) \in Nat
<1>1. sample.fields \in Seq(Nat \cup {Bad}) /\ Len(sample.fields) \in Nat
  BY DEF WInv, WriterTypeOK, Sample
<1>2. \A f \in 1..Len(sample.fields) : sample.fields[f] \in Nat
  BY <1>1 DEF WInv, Encoded, WriterTypeOK
<1>3. sample.fields \in Seq(Nat)
  BY <1>1, <1>2
<1>4. QED
  BY <1>3, SumOfFields DEF Payload

(* The calls begin, *)
LEMMA BeginKeeps ==
  ASSUME WInv, NEW kind \in Operation, NEW first \in {"finish", "append"}, Begin(kind, first),
         sample' \in Sample, first = "append" => open /\ kind = "write"
  PROVE  WInv'
<1>1. /\ open' = open /\ hooked' = hooked /\ archives' = archives /\ phase' = first /\ op' = kind
      /\ at' = 1
  BY DEF Begin, writer
<1>2. Steady(archives')
  BY <1>1, SameIsSteady
<1>3. Tallied' /\ (open <=> archives # <<>> /\ Last(archives).left = "open")'
  BY <1>1, <1>2, SteadyKeeps
<1>4. Encoded'
  BY <1>1 DEF Encoded, Sample
<1>5. WriterTypeOK'
  BY <1>1, <1>3 DEF Begin, writer, WInv, WriterTypeOK
<1>6. QED
  BY <1>3, <1>4, <1>5 DEF WInv

(* a step that does not touch the archives goes on or returns, *)
LEMMA IdleKeeps ==
  ASSUME WInv, archives' = archives, open' = open, hooked' = hooked, op' = op, sample' = sample,
         at' = at, shard' \in Nat, count' \in Nat, size' \in Nat, hooks' \in Seq(Nat),
         results' \in Seq(Result), faults' \in 0..MaxFaults,
         phase' \in {"idle", "create", "gone"}, phase' \in {"create", "gone"} => ~open,
         phase' = "create" => op # "end" /\ phase \in {"finish", "post"}
  PROVE  WInv'
<1>1. Steady(archives')
  BY SameIsSteady
<1>2. Tallied' /\ (open <=> archives # <<>> /\ Last(archives).left = "open")'
  BY <1>1, SteadyKeeps
<1>3. WriterTypeOK'
  BY <1>2 DEF WInv, WriterTypeOK
<1>4. Encoded'
  BY DEF WInv, Encoded
<1>5. QED
  BY <1>2, <1>3, <1>4 DEF WInv

(* one that seals the newest archive goes on to the hook or as finish() does, *)
LEMMA CloseKeeps ==
  ASSUME WInv, phase = "finish", NEW written \in BOOLEAN, archives # <<>>, Seals(archives, archives', written),
         open' = FALSE, hooked' = hooked, op' = op, sample' = sample,
         at' = at, shard' = shard, count' = count, size' = size, hooks' = hooks,
         results' \in Seq(Result), faults' \in 0..MaxFaults,
         phase' \in {"post", "idle", "create", "gone"}, phase' = "post" => hooked /\ written,
         phase' = "create" => op # "end"
  PROVE  WInv'
<1>1. Tallied' /\ (open <=> archives # <<>> /\ Last(archives).left = "open")'
  BY SealsKeeps
<1>2. WriterTypeOK'
  BY <1>1 DEF WInv, WriterTypeOK, Seals, Retouches
<1>3. Encoded'
  BY DEF WInv, Encoded
<1>4. QED
  BY <1>1, <1>2, <1>3 DEF WInv

(* one that creates an archive returns or goes on to append, *)
LEMMA CreateKeeps ==
  ASSUME WInv, Create
  PROVE  WInv'
<1>1. Opens(archives, archives') /\ ~open /\ open' = TRUE
  BY CreateOpens DEF Create, WInv, Tallied
<1>0. op # "end" /\ phase = "create"
  BY DEF Create, WInv, Tallied
<1>2. \/ op = "write" /\ phase' = "append" /\ results' = results
      \/ op # "write" /\ phase' = "idle" /\ results' \in Seq(Result)
  BY <1>0, ReturnReports DEF Create, Reports
<1>3. Tallied' /\ (open <=> archives # <<>> /\ Last(archives).left = "open")'
  BY <1>1, <1>2, OpensKeeps DEF Create
<1>4. WriterTypeOK'
  <2>1. shard' \in Nat /\ count' \in Nat /\ size' \in Nat
    BY DEF Create, WInv, WriterTypeOK
  <2>2. results' \in Seq(Result) /\ archives' \in Seq(Archive)
    BY <1>1, <1>2 DEF Opens, WInv, WriterTypeOK
  <2>3. phase' \in {"idle", "append"}
    BY <1>2
  <2>4. QED
    BY <1>1, <1>3, <2>1, <2>2, <2>3 DEF Create, NoFault, WInv, WriterTypeOK
<1>5. Encoded'
  <2>1. at = 1 /\ at' = at /\ sample' = sample /\ phase' \in {"idle", "append"}
    BY <1>0, <1>2 DEF Create, WInv, Encoded
  <2>2. Len(sample.fields) \in Nat
    BY DEF WInv, WriterTypeOK, Sample
  <2>3. QED
    BY <2>1, <2>2 DEF Encoded
<1>6. QED
  BY <1>3, <1>4, <1>5 DEF WInv

LEMMA NewestName ==
  ASSUME WInv, archives # <<>>
  PROVE  LastName = archives[Len(archives)].number /\ LastName \in Nat
<1>1. archives[Len(archives)] \in Archive
  BY DEF WInv, WriterTypeOK
<1>2. LastName = archives[Len(archives)].number
  BY LastIsNewest DEF LastName, Newest
<1>3. QED
  BY <1>1, <1>2 DEF Archive

LEMMA AppendKeeps ==
  ASSUME WInv, phase = "append", NEW entry \in Entry, Puts(archives, archives', entry),
         open' = open, hooked' = hooked, op' = op, sample' = sample,
         shard' = shard, count' = count, size' = size, hooks' = hooks,
         results' \in Seq(Result), faults' \in 0..MaxFaults,
         \/ phase' = "idle" /\ at' = at
         \/ /\ phase' = "append" /\ at' = at + 1
            /\ at <= Len(sample.fields) /\ sample.fields[at] \in Nat
  PROVE  WInv'
<1>1. archives # <<>> /\ op = "write" /\ open
  BY DEF WInv, Tallied
<1>2. Tallied' /\ (open <=> archives # <<>> /\ Last(archives).left = "open")'
  BY <1>1, PutsIsSteady, SteadyKeeps
<1>3. at' \in Nat \ {0}
  BY DEF WInv, WriterTypeOK
<1>4. archives' \in Seq(Archive) /\ phase' \in {"idle", "append"}
  BY DEF Puts, Retouches
<1>5. WriterTypeOK'
  BY <1>2, <1>3, <1>4 DEF WInv, WriterTypeOK
<1>6. Encoded'
  <2>1. CASE phase' = "idle"
    BY <2>1 DEF Encoded
  <2>2. CASE phase' = "append"
    <3>1. at' = at + 1 /\ at <= Len(sample.fields) /\ sample.fields[at] \in Nat
      BY <2>2
    <3>2. /\ at \in Nat \ {0} /\ Len(sample.fields) \in Nat
          /\ \A f \in 1..(at - 1) : sample.fields[f] \in Nat
      BY DEF WInv, WriterTypeOK, Sample, Encoded
    <3>3. at' <= Len(sample.fields) + 1 /\ \A f \in 1..(at' - 1) : f \in 1..(at - 1) \/ f = at
      BY <3>1, <3>2
    <3>4. QED
      BY <2>2, <3>1, <3>2, <3>3 DEF Encoded
  <2>3. QED
    BY <2>1, <2>2
<1>7. QED
  BY <1>2, <1>5, <1>6 DEF WInv

(* The members that AppendMember and AppendFails put. *)
LEMMA MemberPuts ==
  ASSUME WInv, Appending, NEW whole \in BOOLEAN
  PROVE  /\ Member(whole) \in Entry /\ archives # <<>>
         /\ Puts(archives, Appended(Member(whole)), Member(whole))
<1>1. Member(whole) \in Entry
  BY DEF Member, Entry, WInv, WriterTypeOK
<1>2. archives # <<>>
  BY DEF Appending, WInv, Tallied
<1>3. QED
  BY <1>1, <1>2, AppendedPuts

LEMMA FieldIsPut ==
  ASSUME WInv, Appending, sample.fields[at] # Bad
  PROVE  at <= Len(sample.fields) /\ sample.fields[at] \in Nat
BY DEF WInv, WriterTypeOK, Sample, Appending

LEMMA StepWInv ==
  ASSUME WInv, WriterNext
  PROVE  WInv'
<1>1. ASSUME NEW s \in Samples, Write(s) PROVE WInv'
  <2> DEFINE first == IF ~open \/ Limited THEN "finish" ELSE "append"
  <2>1. Begin("write", first) /\ sample' \in Sample /\ first \in {"finish", "append"}
        /\ (first = "append" => open)
    BY <1>1, WriterAssumption DEF Write
  <2> HIDE DEF first
  <2>2. QED
    BY <2>1, BeginKeeps DEF Operation
<1>2. CASE NextShard \/ End
  <2>1. PICK kind \in {"next", "end"} : Begin(kind, "finish")
    BY <1>2 DEF NextShard, End
  <2>2. sample' \in Sample
    BY <1>2 DEF NextShard, End, WInv, WriterTypeOK
  <2>3. QED
    BY <2>1, <2>2, BeginKeeps DEF Operation
<1>3. CASE NothingOpen
  <2>1. phase' \in {"create", "gone"} /\ ~open /\ (phase' = "create" => op # "end")
        /\ results' \in Seq(Result) /\ phase = "finish"
    BY <1>3, FinishedIs DEF NothingOpen, Reports, WInv, WriterTypeOK
  <2>2. QED
    BY <1>3, <2>1, IdleKeeps DEF NothingOpen, writer, WInv, WriterTypeOK
<1>4. CASE CloseArchive
  <2>1. PICK stored \in BOOLEAN : Verdict(stored) /\ archives' = Sealed(TRUE, stored)
    BY <1>4 DEF CloseArchive
  <2>2. archives # <<>> /\ Seals(archives, archives', TRUE) /\ phase = "finish"
    BY <1>4, <2>1, SealedSeals DEF CloseArchive, WInv, Tallied
  <2>3. faults' \in 0..MaxFaults
    BY <2>1, FaultIs DEF Verdict
  <2>4. /\ phase' \in {"post", "create", "gone"} /\ (phase' = "create" => op # "end")
        /\ (phase' = "post" => hooked) /\ results' \in Seq(Result)
    BY <1>4, FinishedIs DEF CloseArchive, Reports, WInv, WriterTypeOK
  <2>5. QED
    BY <1>4, <2>2, <2>3, <2>4, CloseKeeps DEF CloseArchive
<1>5. CASE CloseFails
  <2>1. archives # <<>> /\ Seals(archives, archives', FALSE) /\ phase = "finish"
    BY <1>5, SealedSeals DEF CloseFails, WInv, Tallied
  <2>2. faults' \in 0..MaxFaults
    BY <1>5, FaultIs DEF CloseFails
  <2>3. phase' \in {"idle", "gone"} /\ results' \in Seq(Result)
    BY <1>5, ReturnReports DEF CloseFails, Reports
  <2>4. QED
    BY <1>5, <2>1, <2>2, <2>3, CloseKeeps DEF CloseFails
<1>6. CASE Post
  <2>1. hooks' \in Seq(Nat)
    <3>1. LastName \in Nat
      BY <1>6, NewestName DEF Post, WInv, Tallied
    <3>2. QED
      BY <1>6, <3>1 DEF Post, WInv, WriterTypeOK
  <2>2. faults' \in 0..MaxFaults
    BY <1>6, FaultIs DEF Post
  <2>3. phase' \in {"idle", "create", "gone"} /\ results' \in Seq(Result)
        /\ (phase' = "create" => op # "end")
    BY <1>6, FinishedIs, ReturnReports DEF Post, Reports, WInv, WriterTypeOK
  <2>4. ~open /\ phase = "post"
    BY <1>6 DEF Post, WInv, Tallied
  <2>5. QED
    BY <1>6, <2>1, <2>2, <2>3, <2>4, IdleKeeps DEF Post, writer, WInv, WriterTypeOK
<1>7. CASE Create
  BY <1>7, CreateKeeps
<1>8. CASE CreateFails
  <2>1. phase' \in {"idle", "gone"} /\ results' \in Seq(Result) /\ ~open /\ faults' \in 0..MaxFaults
    BY <1>8, ReturnReports, FaultIs DEF CreateFails, Reports, WInv, Tallied
  <2>2. shard' \in Nat /\ phase' # "create"
    BY <1>8, <2>1 DEF CreateFails, WInv, WriterTypeOK
  <2>3. QED
    BY <1>8, <2>1, <2>2, IdleKeeps DEF CreateFails, WInv, WriterTypeOK
<1>9. CASE AppendMember
  <2>1. Puts(archives, archives', Member(TRUE)) /\ Member(TRUE) \in Entry /\ phase = "append"
    BY <1>9, MemberPuts DEF AppendMember, Appending
  <2>2. at <= Len(sample.fields) /\ sample.fields[at] \in Nat
    BY <1>9, FieldIsPut DEF AppendMember
  <2>3. results' \in Seq(Result) /\ faults' \in 0..MaxFaults
    BY <1>9 DEF AppendMember, WInv, WriterTypeOK
  <2>4. QED
    BY <1>9, <2>1, <2>2, <2>3, AppendKeeps DEF AppendMember, writer
<1>10. CASE AppendFails
  <2>1. Puts(archives, archives', Member(FALSE)) /\ Member(FALSE) \in Entry /\ phase = "append"
    BY <1>10, MemberPuts DEF AppendFails, Appending
  <2>2. results' \in Seq(Result) /\ faults' \in 0..MaxFaults /\ phase' = "idle"
    BY <1>10, <2>1, ReturnReports, FaultIs DEF AppendFails, Reports, WInv, Tallied
  <2>3. QED
    BY <1>10, <2>1, <2>2, AppendKeeps DEF AppendFails, writer
<1>11. CASE AppendRefused \/ EncodeFails \/ NoKey
  <2>1. Return(FALSE) /\ phase = "append" /\ UNCHANGED <<hooked, writer, archives, op, sample, at, hooks>>
    BY <1>11 DEF AppendRefused, EncodeFails, NoKey, Appending
  <2>2. results' \in Seq(Result) /\ phase' = "idle" /\ faults' \in 0..MaxFaults
    BY <1>11, <2>1, ReturnReports, FaultIs
       DEF AppendRefused, EncodeFails, NoKey, NoFault, Reports, WInv, Tallied
  <2>3. QED
    BY <2>1, <2>2, IdleKeeps DEF writer, WInv, WriterTypeOK
<1>12. CASE Written
  <2>1. phase = "append" /\ results' \in Seq(Result) /\ phase' = "idle"
    BY <1>12, ReturnReports DEF Written, Reports, WInv, Tallied
  <2>2. Payload(sample) \in Nat
    BY <1>12, PayloadType DEF Written
  <2>3. count' \in Nat /\ size' \in Nat
    BY <1>12, <2>2 DEF Written, WInv, WriterTypeOK
  <2>4. QED
    BY <1>12, <2>1, <2>3, IdleKeeps DEF Written, WInv, WriterTypeOK
<1>13. CASE Gone
  BY <1>13 DEF Gone, writerVars, writer, call, WInv, WriterTypeOK, Tallied, Encoded
<1>14. QED
  BY <1>1, <1>2, <1>3, <1>4, <1>5, <1>6, <1>7, <1>8, <1>9, <1>10, <1>11, <1>12, <1>13
     DEF WriterNext

-----------------------------------------------------------------------------
(* Ranks: what a new greatest element of a set of places changes. *)
LEMMA RankBounds ==
  ASSUME NEW K, IsFiniteSet(K), NEW k \in K, K \subseteq Nat
  PROVE  Rank(K, k) \in 1..Cardinality(K)
<1> DEFINE L == {j \in K : j <= k}
<1>1. L \subseteq K /\ IsFiniteSet(L) /\ Cardinality(L) \in Nat /\ Cardinality(L) <= Cardinality(K)
  BY FS_Subset, FS_CardinalityType
<1>2. L # {}
  OBVIOUS
<1>3. Cardinality(L) # 0
  BY <1>1, <1>2, FS_EmptySet
<1>4. QED
  BY <1>1, <1>3, FS_CardinalityType DEF Rank

LEMMA RankOfGreatest ==
  ASSUME NEW K, IsFiniteSet(K), K \subseteq Nat, NEW p \in Nat, \A k \in K : k < p
  PROVE  /\ Rank(K \cup {p}, p) = Cardinality(K) + 1
         /\ Cardinality(K \cup {p}) = Cardinality(K) + 1 /\ Cardinality(K) \in Nat
         /\ IsFiniteSet(K \cup {p}) /\ K \cup {p} \subseteq Nat
         /\ \A k \in K : Rank(K \cup {p}, k) = Rank(K, k)
<1>1. p \notin K
  OBVIOUS
<1>2. /\ IsFiniteSet(K \cup {p}) /\ Cardinality(K \cup {p}) = Cardinality(K) + 1
      /\ Cardinality(K) \in Nat
  BY <1>1, FS_AddElement, FS_CardinalityType
<1>3. {j \in K \cup {p} : j <= p} = K \cup {p}
  <2>1. p <= p /\ \A k \in K : k <= p
    OBVIOUS
  <2>2. QED
    BY <2>1
<1>4. ASSUME NEW k \in K
      PROVE  {j \in K \cup {p} : j <= k} = {j \in K : j <= k}
  <2>1. ~ (p <= k)
    OBVIOUS
  <2>2. QED
    BY <2>1
<1>5. QED
  BY <1>2, <1>3, <1>4 DEF Rank

(* The hook. *)
Complete == {k \in DOMAIN archives : archives[k].trailer}
Called == IF phase = "post" THEN Complete \ {Len(archives)} ELSE Complete
Told == \A c \in DOMAIN results : results[c].ok

Hooks(K) ==
  /\ Len(hooks) = Cardinality(K)
  /\ \A k \in K : hooks[Rank(K, k)] = archives[k].number

Numbered ==
  /\ \A i \in DOMAIN archives : archives[i].number < shard
  /\ \A i, j \in DOMAIN archives : i < j => archives[i].number < archives[j].number

Trailed ==
  Told => \A k \in DOMAIN archives : archives[k].trailer \/ (k = Len(archives) /\ open)

HookInv == Numbered /\ Trailed /\ (hooked => Hooks(Called))

LEMMA InitHookInv ==
  ASSUME WriterInit
  PROVE  HookInv
<1>1. archives = <<>> /\ hooks = <<>> /\ phase = "idle"
  BY DEF WriterInit
<1>2. Called = {}
  BY <1>1 DEF Called, Complete
<1>3. QED
  BY <1>1, <1>2, FS_EmptySet DEF HookInv, Numbered, Trailed, Hooks

(* What a step keeps of the archives as the hook sees them: their number and *)
(* their trailers.                                                           *)
LookSame ==
  /\ Len(archives') = Len(archives) /\ DOMAIN archives' = DOMAIN archives
  /\ \A k \in DOMAIN archives : /\ archives'[k].number = archives[k].number
                                /\ archives'[k].trailer = archives[k].trailer

(* What was said stays said. *)
Remembers == \A c \in DOMAIN results : c \in DOMAIN results' /\ results'[c] = results[c]

LEMMA ReportsRemembers ==
  ASSUME WInv, NEW ok, Reports(ok)
  PROVE  Remembers
<1>1. DOMAIN results = 1..Len(results) /\ DOMAIN results' = 1..Len(results') /\ Len(results) \in Nat
  BY DEF WInv, WriterTypeOK, Reports
<1>2. QED
  BY <1>1 DEF Remembers, Reports

LEMMA TrailedStays ==
  ASSUME Trailed, LookSame, Remembers, open' = open
  PROVE  Trailed'
BY DEF Trailed, Told, LookSame, Remembers

LEMMA NumbersAre ==
  ASSUME WInv
  PROVE  shard \in Nat /\ \A i \in DOMAIN archives : archives[i].number \in Nat
<1>1. shard \in Nat /\ \A i \in DOMAIN archives : archives[i] \in Archive
  BY DEF WInv, WriterTypeOK
<1>2. QED
  BY <1>1 DEF Archive

LEMMA NumberedStays ==
  ASSUME WInv, Numbered, shard' \in Nat, shard <= shard', LookSame
  PROVE  Numbered'
<1>1. shard \in Nat /\ \A i \in DOMAIN archives : archives[i].number \in Nat
  BY NumbersAre
<1>2. QED
  BY <1>1 DEF Numbered, LookSame

LEMMA HooksStay ==
  ASSUME WInv, HookInv, shard' \in Nat, shard <= shard', LookSame, Remembers, open' = open,
         hooked' = hooked, hooks' = hooks, phase # "post", phase' # "post"
  PROVE  HookInv'
<1>1. Trailed' /\ Numbered'
  BY TrailedStays, NumberedStays DEF HookInv
<1>2. Called' = Called
  BY DEF Called, Complete, LookSame
<1>3. Called \subseteq DOMAIN archives
  BY DEF Called, Complete
<1>4. ASSUME hooked PROVE Hooks(Called)'
  BY <1>2, <1>3, <1>4 DEF HookInv, Hooks, Rank, LookSame
<1>5. QED
  BY <1>1, <1>4 DEF HookInv

LEMMA PutsLooksSame ==
  ASSUME WInv, archives # <<>>, NEW entry, Puts(archives, archives', entry)
  PROVE  LookSame
<1>1. Len(archives') = Len(archives) /\ DOMAIN archives = 1..Len(archives) /\ DOMAIN archives' = 1..Len(archives')
  BY DEF Puts, Retouches, WInv, WriterTypeOK
<1>2. Newest(archives') = archives'[Len(archives)] /\ Newest(archives) = archives[Len(archives)]
  BY <1>1 DEF Newest
<1>3. QED
  BY <1>1, <1>2 DEF LookSame, Puts, Retouches

(* An archive that gets its trailer. *)
LEMMA SealHooks ==
  ASSUME WInv, HookInv, open, NEW written \in BOOLEAN, Seals(archives, archives', written),
         open' = FALSE, hooked' = hooked, hooks' = hooks, shard' = shard, Remembers,
         phase = "finish", written => (phase' = "post" <=> hooked), ~written => phase' # "post",
         ~written => ~Told'
  PROVE  HookInv'
<1> DEFINE n == Len(archives)
<1>1. /\ Len(archives') = n /\ DOMAIN archives = 1..n /\ DOMAIN archives' = 1..n
      /\ n \in DOMAIN archives
  BY DEF Seals, Retouches, WInv, WriterTypeOK, Tallied
<1>2. \A k \in DOMAIN archives : k # n => archives'[k] = archives[k]
  BY <1>1 DEF Seals, Retouches
<1>3. archives'[n].trailer = written /\ ~archives[n].trailer
  BY <1>1 DEF Seals, Newest, WInv, Tallied
<1>4. \A k \in DOMAIN archives : archives'[k].number = archives[k].number
  BY <1>1 DEF Seals, Retouches
<1>5. Numbered'
  BY <1>1, <1>4 DEF HookInv, Numbered
<1>6. Trailed'
  BY <1>1, <1>2, <1>3 DEF HookInv, Trailed, Told, Remembers
<1>7. ASSUME hooked PROVE Hooks(Called)'
  <2>1. Called' = Called /\ Called \subseteq DOMAIN archives
    BY <1>1, <1>2, <1>3, <1>7 DEF Called, Complete
  <2>2. QED
    BY <1>4, <1>7, <2>1 DEF HookInv, Hooks, Rank
<1>8. QED
  BY <1>5, <1>6, <1>7 DEF HookInv

(* The hook is called on the newest archive. *)
LEMMA PostHooks ==
  ASSUME WInv, HookInv, Post, Remembers, phase' # "post"
  PROVE  HookInv'
<1> DEFINE n == Len(archives)
<1>1. /\ archives' = archives /\ open' = open /\ shard' = shard /\ hooked' = hooked
      /\ hooks' = Append(hooks, LastName) /\ phase = "post"
  BY DEF Post, writer
<1>2. LookSame
  BY <1>1 DEF LookSame
<1>3. Trailed' /\ Numbered'
  BY <1>1, <1>2, TrailedStays DEF HookInv, Numbered
<1>4. hooked /\ archives # <<>> /\ n \in Complete /\ DOMAIN archives = 1..n /\ n \in Nat \ {0}
  BY <1>1 DEF WInv, WriterTypeOK, Tallied, Newest, Complete
<1>5. Called = Complete \ {n} /\ Called' = Complete
  BY <1>1 DEF Called, Complete
<1>6. IsFiniteSet(Called) /\ Called \subseteq Nat /\ \A k \in Called : k < n
  <2>1. IsFiniteSet(1..n) /\ Called \subseteq 1..n /\ n \notin Called
    BY <1>4, <1>5, FS_Interval DEF Complete
  <2>2. IsFiniteSet(Called)
    BY <2>1, FS_Subset
  <2>3. ASSUME NEW k \in 1..n, k # n PROVE k \in Nat /\ k < n
    <3>1. n \in Nat
      BY <1>4
    <3> HIDE DEF n
    <3>2. QED
      BY <2>3, <3>1
  <2>4. ASSUME NEW k \in Called PROVE k \in Nat /\ k < n
    BY <2>1, <2>3
  <2>5. QED
    BY <2>2, <2>4
<1>7. Called' = Called \cup {n}
  BY <1>4, <1>5
<1>8. /\ Rank(Called \cup {n}, n) = Cardinality(Called) + 1
      /\ Cardinality(Called \cup {n}) = Cardinality(Called) + 1 /\ Cardinality(Called) \in Nat
      /\ \A k \in Called : Rank(Called \cup {n}, k) = Rank(Called, k)
  BY <1>4, <1>6, RankOfGreatest
<1>9. \A k \in Called : Rank(Called, k) \in 1..Cardinality(Called)
  BY <1>6, RankBounds
<1>10. Hooks(Called)
  BY <1>4 DEF HookInv
<1>11. LastName = archives[n].number
  BY <1>4, NewestName
<1>12. hooks \in Seq(Nat) /\ Len(hooks) = Cardinality(Called)
  BY <1>10 DEF WInv, WriterTypeOK, Hooks
<1>13. /\ Len(hooks') = Cardinality(Called) + 1 /\ hooks'[Cardinality(Called) + 1] = LastName
       /\ \A m \in 1..Cardinality(Called) : hooks'[m] = hooks[m]
  BY <1>1, <1>8, <1>12
<1>14. ASSUME NEW k \in Called \cup {n}
       PROVE  hooks'[Rank(Called \cup {n}, k)] = archives[k].number
  <2>1. CASE k = n
    BY <1>8, <1>11, <1>13, <2>1
  <2>2. CASE k \in Called
    BY <1>8, <1>9, <1>10, <1>13, <2>2 DEF Hooks
  <2>3. QED
    BY <2>1, <2>2
<1>15. Hooks(Called)'
  BY <1>1, <1>7, <1>8, <1>13, <1>14 DEF Hooks, Rank
<1>16. QED
  BY <1>3, <1>15 DEF HookInv

LEMMA CreateHooks ==
  ASSUME WInv, HookInv, Create, Remembers, phase' # "post"
  PROVE  HookInv'
<1> DEFINE n == Len(archives)
<1>1. /\ Opens(archives, archives') /\ open' = TRUE /\ shard' = shard + 1 /\ hooked' = hooked
      /\ hooks' = hooks /\ phase = "create"
  BY CreateOpens DEF Create
<1>2. /\ n \in Nat /\ Len(archives') = n + 1 /\ DOMAIN archives = 1..n
      /\ DOMAIN archives' = 1..(n + 1)
  BY <1>1 DEF Opens, WInv, WriterTypeOK
<1>3. /\ \A k \in 1..n : archives'[k] = archives[k]
      /\ archives'[n + 1].number = shard /\ ~archives'[n + 1].trailer
  BY <1>1, <1>2 DEF Opens, Newest
<1>4. /\ \A i \in 1..n : archives[i].number \in Nat /\ archives[i].number < shard
      /\ \A i, j \in 1..n : i < j => archives[i].number < archives[j].number
      /\ shard \in Nat
  BY <1>2, NumbersAre DEF HookInv, Numbered
<1>5. \A k \in 1..(n + 1) : k \in 1..n \/ k = n + 1
  BY <1>2
<1>6. Numbered'
  <2>1. \A i \in DOMAIN archives' : archives'[i].number < shard'
    BY <1>1, <1>2, <1>3, <1>4, <1>5
  <2>2. ASSUME NEW i \in 1..(n + 1), NEW j \in 1..(n + 1), i < j
        PROVE  archives'[i].number < archives'[j].number
    <3>1. i \in 1..n
      BY <1>2, <2>2
    <3>2. CASE j \in 1..n
      BY <1>3, <1>4, <2>2, <3>1, <3>2
    <3>3. CASE j = n + 1
      BY <1>3, <1>4, <3>1, <3>3
    <3>4. QED
      BY <1>5, <3>2, <3>3
  <2>3. QED
    BY <1>2, <2>1, <2>2 DEF Numbered
<1>7. Trailed'
  <2>1. ~open
    BY <1>1 DEF WInv, Tallied
  <2>2. Told' => \A k \in 1..n : archives[k].trailer
    BY <1>2, <2>1 DEF HookInv, Trailed, Told, Remembers
  <2>3. QED
    BY <1>1, <1>2, <1>3, <1>5, <2>2 DEF Trailed
<1>8. Called' = Called /\ Called \subseteq 1..n
  BY <1>1, <1>2, <1>3, <1>5 DEF Called, Complete
<1>9. hooked => Hooks(Called)'
  BY <1>1, <1>3, <1>8 DEF HookInv, Hooks, Rank
<1>10. QED
  BY <1>1, <1>6, <1>7, <1>9 DEF HookInv

LEMMA StepHookInv ==
  ASSUME WInv, HookInv, WriterNext
  PROVE  HookInv'
<1>1. CASE (\E s \in Samples : Write(s)) \/ NextShard \/ End
  <2>1. /\ shard' = shard /\ archives' = archives /\ results' = results /\ open' = open
        /\ hooked' = hooked /\ hooks' = hooks /\ phase = "idle" /\ phase' \in {"finish", "append"}
    BY <1>1 DEF Write, NextShard, End, Begin, writer
  <2>2. LookSame /\ Remembers
    BY <2>1 DEF LookSame, Remembers
  <2>3. QED
    BY <2>1, <2>2, HooksStay, NumbersAre
<1>2. CASE NothingOpen
  <2>1. /\ shard' = shard /\ archives' = archives /\ open' = open
        /\ hooked' = hooked /\ hooks' = hooks /\ phase = "finish"
    BY <1>2 DEF NothingOpen, writer
  <2>2. phase' # "post" /\ Remembers
    BY <1>2, FinishedIs, ReportsRemembers DEF NothingOpen, Remembers
  <2>3. LookSame
    BY <2>1 DEF LookSame
  <2>4. QED
    BY <2>1, <2>2, <2>3, HooksStay, NumbersAre
<1>3. CASE CloseArchive
  <2>1. PICK stored \in BOOLEAN : archives' = Sealed(TRUE, stored)
    BY <1>3 DEF CloseArchive
  <2>2. Seals(archives, archives', TRUE)
    BY <1>3, <2>1, SealedSeals DEF CloseArchive, WInv, Tallied
  <2>3. (phase' = "post" <=> hooked) /\ Remembers
    BY <1>3, FinishedIs, ReportsRemembers DEF CloseArchive, Remembers
  <2>4. QED
    BY <1>3, <2>2, <2>3, SealHooks DEF CloseArchive
<1>4. CASE CloseFails
  <2>1. Seals(archives, archives', FALSE)
    BY <1>4, SealedSeals DEF CloseFails, WInv, Tallied
  <2>2. phase' # "post" /\ Reports(FALSE) /\ Remembers
    BY <1>4, ReturnReports, ReportsRemembers DEF CloseFails
  <2>3. ~Told'
    BY <2>2 DEF Told, Reports, WInv, WriterTypeOK
  <2>4. QED
    BY <1>4, <2>1, <2>2, <2>3, SealHooks DEF CloseFails
<1>5. CASE Post
  <2>1. phase' # "post" /\ Remembers
    BY <1>5, FinishedIs, ReturnReports, ReportsRemembers DEF Post, Remembers
  <2>2. QED
    BY <1>5, <2>1, PostHooks
<1>6. CASE Create
  <2>1. phase' # "post" /\ Remembers
    BY <1>6, ReturnReports, ReportsRemembers DEF Create, Remembers
  <2>2. QED
    BY <1>6, <2>1, CreateHooks
<1>7. CASE CreateFails \/ AppendRefused \/ EncodeFails \/ NoKey \/ Written
  <2>1. PICK ok \in BOOLEAN : Return(ok)
    BY <1>7 DEF CreateFails, AppendRefused, EncodeFails, NoKey, Written
  <2>2. /\ shard' \in {shard, shard + 1} /\ archives' = archives /\ open' = open
        /\ hooked' = hooked /\ hooks' = hooks /\ phase # "post"
    BY <1>7 DEF CreateFails, AppendRefused, EncodeFails, NoKey, Written, Appending, writer
  <2>3. phase' # "post" /\ Remembers
    BY <2>1, ReturnReports, ReportsRemembers
  <2>4. LookSame
    BY <2>2 DEF LookSame
  <2>5. QED
    BY <2>2, <2>3, <2>4, HooksStay, NumbersAre
<1>8. CASE AppendMember \/ AppendFails
  <2>1. PICK whole \in BOOLEAN : archives' = Appended(Member(whole)) /\ Appending
    BY <1>8 DEF AppendMember, AppendFails
  <2>2. LookSame
    BY <2>1, MemberPuts, PutsLooksSame
  <2>3. phase' # "post" /\ Remembers /\ phase # "post"
    BY <1>8, <2>1, ReturnReports, ReportsRemembers DEF AppendMember, AppendFails, Appending, Remembers
  <2>4. shard' = shard /\ open' = open /\ hooked' = hooked /\ hooks' = hooks
    BY <1>8 DEF AppendMember, AppendFails, writer
  <2>5. QED
    BY <2>2, <2>3, <2>4, HooksStay, NumbersAre
<1>9. CASE Gone
  BY <1>9 DEF Gone, writerVars, writer, call, HookInv, Numbered, Trailed, Told, Hooks, Called,
              Complete, Rank
<1>10. QED
  BY <1>1, <1>2, <1>3, <1>4, <1>5, <1>6, <1>7, <1>8, <1>9 DEF WriterNext

-----------------------------------------------------------------------------
(* The members of the archives: In is MembersOf for one of them, Fits what   *)
(* AcceptedAreWhole says of the archive that a write went into.              *)
In(M, c) == {k \in DOMAIN M : M[k].call = c}
Whole(M, c) == {k \in In(M, c) : M[k].whole}

Ranked(M, c) == \A k \in In(M, c) : M[k].field = Rank(In(M, c), k)

Fits(M, c, n, ok) ==
  /\ Ranked(M, c)
  /\ \A k \in In(M, c) \ Whole(M, c) : ~ok /\ \A j \in In(M, c) : j <= k
  /\ Cardinality(In(M, c)) <= n
  /\ Cardinality(Whole(M, c)) = n <=> ok \/ n = 0

Elsewhere(A, c, into) == \A i \in DOMAIN A \ {into} : In(A[i].members, c) = {}

Answered(A, c, r) ==
  /\ Elsewhere(A, c, r.into)
  /\ r.ok => r.into \in DOMAIN A
  /\ r.into <= Len(A)
  /\ r.into \in DOMAIN A => Fits(A[r.into].members, c, Len(r.sample.fields), r.ok)

(* The write that is going on. *)
Now == Len(results) + 1

Going(M, c, sofar) ==
  /\ Ranked(M, c) /\ In(M, c) = Whole(M, c) /\ Cardinality(In(M, c)) = sofar

CallsInv ==
  /\ \A c \in Writes : Answered(archives, c, results[c])
  /\ \A i \in DOMAIN archives : \A k \in DOMAIN archives[i].members :
       \/ archives[i].members[k].call \in Writes
       \/ archives[i].members[k].call = Now /\ phase = "append" /\ i = Len(archives)
  /\ phase = "append" =>
       Going(Newest(archives).members, Now, at - 1) /\ (~sample.keyed => at = 1)

(* Archives whose members of c are left alone, and one more at most. *)
Leaves(A, B, c) ==
  /\ DOMAIN A = 1..Len(A) /\ DOMAIN B = 1..Len(B)
  /\ Len(A) \in Nat /\ Len(B) \in Nat /\ Len(A) <= Len(B)
  /\ \A i \in DOMAIN A : /\ In(B[i].members, c) = In(A[i].members, c)
                         /\ \A k \in In(A[i].members, c) : B[i].members[k] = A[i].members[k]
  /\ \A i \in DOMAIN B : i \in DOMAIN A \/ In(B[i].members, c) = {}

LEMMA LeavesAnswered ==
  ASSUME NEW A, NEW B, NEW c, Leaves(A, B, c), NEW r \in Result, Answered(A, c, r)
  PROVE  Answered(B, c, r)
<1>1. r.into \in Nat /\ r.into <= Len(A) /\ Len(A) <= Len(B) /\ Len(A) \in Nat /\ Len(B) \in Nat
  BY DEF Leaves, Answered, Result
<1>2. (r.into \in DOMAIN A <=> r.into \in DOMAIN B) /\ r.into <= Len(B)
  BY <1>1 DEF Leaves
<1>3. Elsewhere(B, c, r.into)
  BY DEF Elsewhere, Leaves, Answered
<1>4. ASSUME r.into \in DOMAIN A
      PROVE  Fits(B[r.into].members, c, Len(r.sample.fields), r.ok)
  <2> DEFINE M == A[r.into].members
             N == B[r.into].members
  <2>1. In(N, c) = In(M, c) /\ \A k \in In(M, c) : N[k] = M[k]
    BY <1>4 DEF Leaves
  <2>2. Fits(M, c, Len(r.sample.fields), r.ok)
    BY <1>4 DEF Answered
  <2> HIDE DEF M, N
  <2>3. Whole(N, c) = Whole(M, c)
    BY <2>1 DEF Whole
  <2>4. Fits(N, c, Len(r.sample.fields), r.ok)
    BY <2>1, <2>2, <2>3 DEF Fits, Ranked
  <2>5. QED
    BY <2>4 DEF N
<1>5. QED
  BY <1>2, <1>3, <1>4 DEF Answered

LEMMA FieldsAre ==
  ASSUME WInv
  PROVE  /\ archives \in Seq(Archive) /\ Len(archives) \in Nat
         /\ DOMAIN archives = 1..Len(archives) /\ Now \in Nat /\ Now \notin DOMAIN results
         /\ DOMAIN results = 1..Len(results)
         /\ \A i \in DOMAIN archives : /\ archives[i].members \in Seq(Entry)
                                       /\ DOMAIN archives[i].members = 1..Len(archives[i].members)
                                       /\ Len(archives[i].members) \in Nat
<1>1. archives \in Seq(Archive) /\ results \in Seq(Result)
  BY DEF WInv, WriterTypeOK
<1>2. \A i \in DOMAIN archives : archives[i] \in Archive
  BY <1>1
<1>3. \A i \in DOMAIN archives : archives[i].members \in Seq(Entry)
  BY <1>2 DEF Archive
<1>4. QED
  BY <1>1, <1>3 DEF Now

LEMMA SameLeaves ==
  ASSUME WInv, NEW c
  PROVE  Leaves(archives, archives, c)
BY FieldsAre DEF Leaves

LEMMA SealsLeaves ==
  ASSUME WInv, archives # <<>>, NEW B, NEW written, Seals(archives, B, written), NEW c
  PROVE  /\ Leaves(archives, B, c)
         /\ DOMAIN B = DOMAIN archives
         /\ \A i \in DOMAIN archives : B[i].members = archives[i].members
<1>1. DOMAIN B = 1..Len(archives) /\ Len(B) = Len(archives) /\ Len(archives) \in Nat
  BY FieldsAre DEF Seals, Retouches
<1>2. \A i \in DOMAIN archives : B[i].members = archives[i].members
  BY <1>1, FieldsAre DEF Seals, Retouches, Newest
<1>3. QED
  BY <1>1, <1>2, FieldsAre DEF Leaves

LEMMA OpensLeaves ==
  ASSUME WInv, NEW B, Opens(archives, B), NEW c
  PROVE  /\ Leaves(archives, B, c)
         /\ DOMAIN B = DOMAIN archives \cup {Len(B)}
         /\ \A i \in DOMAIN archives : B[i] = archives[i]
         /\ B[Len(B)].members = <<>>
<1>1. DOMAIN B = 1..(Len(archives) + 1) /\ Len(B) = Len(archives) + 1 /\ Len(archives) \in Nat
  BY FieldsAre DEF Opens
<1>2. \A i \in DOMAIN archives : B[i] = archives[i]
  BY FieldsAre DEF Opens
<1>3. B[Len(B)].members = <<>> /\ In(<<>>, c) = {}
  BY DEF Opens, Newest, In
<1>4. DOMAIN B = DOMAIN archives \cup {Len(B)}
  BY <1>1, FieldsAre
<1>5. QED
  BY <1>1, <1>2, <1>3, <1>4, FieldsAre DEF Leaves

(* One more member: of the call that put it, and of no other. *)
LEMMA Appended1 ==
  ASSUME NEW M \in Seq(Entry), NEW e \in Entry
  PROVE  LET N == Append(M, e)
             p == Len(M) + 1
         IN /\ N \in Seq(Entry) /\ DOMAIN N = DOMAIN M \cup {p} /\ N[p] = e /\ p \in Nat
            /\ \A k \in DOMAIN M : k < p /\ N[k] = M[k] /\ k \in Nat
OBVIOUS

LEMMA AppendOther ==
  ASSUME NEW M \in Seq(Entry), NEW e \in Entry, NEW c, e.call # c
  PROVE  In(Append(M, e), c) = In(M, c)
<1> DEFINE N == Append(M, e)
           p == Len(M) + 1
<1>1. /\ DOMAIN N = DOMAIN M \cup {p} /\ N[p] = e
      /\ \A k \in DOMAIN M : N[k] = M[k]
  BY Appended1
<1> HIDE DEF N, p
<1>2. In(N, c) = In(M, c)
  BY <1>1 DEF In
<1>3. QED
  BY <1>2 DEF N

LEMMA AppendOwn ==
  ASSUME NEW M \in Seq(Entry), NEW e \in Entry, NEW c, e.call = c
  PROVE  In(Append(M, e), c) = In(M, c) \cup {Len(M) + 1}
<1> DEFINE N == Append(M, e)
           p == Len(M) + 1
<1>1. /\ DOMAIN N = DOMAIN M \cup {p} /\ N[p] = e
      /\ \A k \in DOMAIN M : N[k] = M[k]
  BY Appended1
<1>2. p \notin DOMAIN M
  OBVIOUS
<1> HIDE DEF N, p
<1>3. In(N, c) = In(M, c) \cup {p}
  BY <1>1, <1>2 DEF In
<1>4. QED
  BY <1>3 DEF N, p

LEMMA InIsFinite ==
  ASSUME NEW M \in Seq(Entry), NEW c
  PROVE  /\ IsFiniteSet(In(M, c)) /\ In(M, c) \subseteq Nat
         /\ In(M, c) \subseteq DOMAIN M /\ Cardinality(In(M, c)) \in Nat
<1>1. DOMAIN M = 1..Len(M) /\ Len(M) \in Nat /\ In(M, c) \subseteq DOMAIN M
  BY DEF In
<1>2. IsFiniteSet(1..Len(M)) /\ 1..Len(M) \subseteq Nat
  BY <1>1, FS_Interval
<1>3. IsFiniteSet(In(M, c))
  BY <1>1, <1>2, FS_Subset
<1>4. QED
  BY <1>1, <1>2, <1>3, FS_CardinalityType

LEMMA PutsIs ==
  ASSUME WInv, archives # <<>>, NEW e \in Entry, NEW B, Puts(archives, B, e)
  PROVE  /\ DOMAIN B = DOMAIN archives /\ Len(B) = Len(archives) /\ Len(archives) \in DOMAIN archives
         /\ \A i \in DOMAIN archives : i # Len(archives) => B[i] = archives[i]
         /\ B[Len(archives)].members = Append(archives[Len(archives)].members, e)
<1>1. DOMAIN B = 1..Len(archives) /\ Len(B) = Len(archives)
  BY FieldsAre DEF Puts, Retouches
<1>2. Len(archives) \in DOMAIN archives
  BY DEF WInv, WriterTypeOK
<1>3. \A i \in DOMAIN archives : i # Len(archives) => B[i] = archives[i]
  BY FieldsAre DEF Puts, Retouches
<1>4. B[Len(archives)].members = Append(archives[Len(archives)].members, e)
  BY <1>1 DEF Puts, Newest
<1>5. QED
  BY <1>1, <1>2, <1>3, <1>4

LEMMA PutsLeaves ==
  ASSUME WInv, archives # <<>>, NEW e \in Entry, NEW B, Puts(archives, B, e), NEW c, e.call # c
  PROVE  Leaves(archives, B, c)
<1> DEFINE n == Len(archives)
<1>1. /\ DOMAIN B = DOMAIN archives /\ Len(B) = n /\ n \in DOMAIN archives
      /\ \A i \in DOMAIN archives : i # n => B[i] = archives[i]
      /\ B[n].members = Append(archives[n].members, e)
  BY PutsIs
<1>2. archives[n].members \in Seq(Entry)
  BY <1>1, FieldsAre
<1>3. /\ In(B[n].members, c) = In(archives[n].members, c)
      /\ \A k \in In(archives[n].members, c) : B[n].members[k] = archives[n].members[k]
  <2>1. In(B[n].members, c) = In(archives[n].members, c)
    BY <1>1, <1>2, AppendOther
  <2>2. QED
    BY <1>1, <1>2, <2>1 DEF In
<1>4. DOMAIN archives = 1..n /\ n \in Nat
  BY FieldsAre
<1> HIDE DEF n
<1>5. ASSUME NEW i \in DOMAIN archives
      PROVE  /\ In(B[i].members, c) = In(archives[i].members, c)
             /\ \A k \in In(archives[i].members, c) : B[i].members[k] = archives[i].members[k]
  BY <1>1, <1>3
<1>6. QED
  BY <1>1, <1>4, <1>5 DEF Leaves, n

(* What a write has put when it returns without a member cut short, *)
LEMMA FitsWhole ==
  ASSUME NEW M, NEW c, NEW m \in Nat, Going(M, c, m), NEW n \in Nat, m <= n, NEW ok,
         m = n <=> ok \/ n = 0
  PROVE  Fits(M, c, n, ok)
<1>1. In(M, c) \ Whole(M, c) = {}
  BY DEF Going
<1>2. QED
  BY <1>1 DEF Going, Fits

(* and with one, *)
LEMMA FitsBroken ==
  ASSUME NEW M \in Seq(Entry), NEW e \in Entry, NEW c, e.call = c, ~e.whole,
         NEW m \in Nat, Going(M, c, m), e.field = m + 1, NEW n \in Nat, m < n
  PROVE  Fits(Append(M, e), c, n, FALSE)
<1> DEFINE N == Append(M, e)
           p == Len(M) + 1
           K == In(M, c)
<1>0. N = Append(M, e) /\ p = Len(M) + 1
  OBVIOUS
<1>2. IsFiniteSet(K) /\ K \subseteq Nat /\ K \subseteq DOMAIN M
  BY InIsFinite
<1>3. Cardinality(K) = m /\ Ranked(M, c) /\ K = Whole(M, c)
  BY DEF Going
<1> HIDE DEF N, p, K
<1>1. /\ DOMAIN N = DOMAIN M \cup {p} /\ N[p] = e /\ p \in Nat
      /\ \A k \in DOMAIN M : k < p /\ N[k] = M[k] /\ k \in Nat
      /\ In(N, c) = K \cup {p}
  <2>1. /\ DOMAIN N = DOMAIN M \cup {p} /\ N[p] = e /\ p \in Nat
        /\ \A k \in DOMAIN M : k < p /\ N[k] = M[k] /\ k \in Nat
    BY Appended1 DEF N, p
  <2>2. In(N, c) = In(M, c) \cup {p}
    BY AppendOwn DEF N, p
  <2>3. QED
    BY <2>1, <2>2 DEF K
<1>4. /\ Rank(K \cup {p}, p) = m + 1 /\ Cardinality(K \cup {p}) = m + 1
      /\ \A k \in K : Rank(K \cup {p}, k) = Rank(K, k)
  <2>1. \A k \in K : k < p
    BY <1>1, <1>2
  <2>2. IsFiniteSet(K) /\ K \subseteq Nat /\ p \in Nat
    BY <1>1, <1>2
  <2>3. /\ Rank(K \cup {p}, p) = Cardinality(K) + 1 /\ Cardinality(K \cup {p}) = Cardinality(K) + 1
        /\ \A k \in K : Rank(K \cup {p}, k) = Rank(K, k)
    BY <2>1, <2>2, RankOfGreatest, Zenon
  <2>4. QED
    BY <1>3, <2>3
<1>5. Ranked(N, c)
  <2>1. \A k \in K : M[k].field = Rank(K, k)
    BY <1>3 DEF Ranked, K
  <2>2. ASSUME NEW k \in K \cup {p}
        PROVE  N[k].field = Rank(K \cup {p}, k)
    <3>1. CASE k = p
      BY <1>1, <1>4, <3>1
    <3>2. CASE k \in K
      BY <1>1, <1>2, <1>4, <2>1, <3>2
    <3>3. QED
      BY <3>1, <3>2
  <2>3. QED
    BY <1>1, <2>2 DEF Ranked
<1>6. p \notin K
  BY <1>1, <1>2
<1>7. Whole(N, c) = K
  BY <1>1, <1>2, <1>3, <1>6 DEF Whole, K
<1>8. \A j \in In(N, c) : j <= p
  <2>1. \A j \in K : j <= p
    BY <1>1, <1>2
  <2>2. p <= p
    BY <1>1
  <2>3. QED
    BY <1>1, <2>1, <2>2
<1>9. Fits(N, c, n, FALSE)
  <2>1. In(N, c) \ Whole(N, c) = {p}
    BY <1>1, <1>6, <1>7
  <2>2. m + 1 <= n /\ m # n /\ n # 0
    OBVIOUS
  <2>3. QED
    BY <1>1, <1>3, <1>4, <1>5, <1>7, <1>8, <2>1, <2>2 DEF Fits
<1>10. QED
  BY <1>9 DEF N

(* and while it goes on. *)
LEMMA GoesOn ==
  ASSUME NEW M \in Seq(Entry), NEW e \in Entry, NEW c, e.call = c, e.whole,
         NEW m \in Nat, Going(M, c, m), e.field = m + 1
  PROVE  Going(Append(M, e), c, m + 1)
<1> DEFINE N == Append(M, e)
           p == Len(M) + 1
           K == In(M, c)
<1>0. N = Append(M, e) /\ p = Len(M) + 1
  OBVIOUS
<1>2. IsFiniteSet(K) /\ K \subseteq Nat /\ K \subseteq DOMAIN M
  BY InIsFinite
<1>3. Cardinality(K) = m /\ Ranked(M, c) /\ K = Whole(M, c)
  BY DEF Going
<1> HIDE DEF N, p, K
<1>1. /\ DOMAIN N = DOMAIN M \cup {p} /\ N[p] = e /\ p \in Nat
      /\ \A k \in DOMAIN M : k < p /\ N[k] = M[k] /\ k \in Nat
      /\ In(N, c) = K \cup {p}
  <2>1. /\ DOMAIN N = DOMAIN M \cup {p} /\ N[p] = e /\ p \in Nat
        /\ \A k \in DOMAIN M : k < p /\ N[k] = M[k] /\ k \in Nat
    BY Appended1 DEF N, p
  <2>2. In(N, c) = In(M, c) \cup {p}
    BY AppendOwn DEF N, p
  <2>3. QED
    BY <2>1, <2>2 DEF K
<1>4. /\ Rank(K \cup {p}, p) = m + 1 /\ Cardinality(K \cup {p}) = m + 1
      /\ \A k \in K : Rank(K \cup {p}, k) = Rank(K, k)
  <2>1. \A k \in K : k < p
    BY <1>1, <1>2
  <2>2. IsFiniteSet(K) /\ K \subseteq Nat /\ p \in Nat
    BY <1>1, <1>2
  <2>3. /\ Rank(K \cup {p}, p) = Cardinality(K) + 1 /\ Cardinality(K \cup {p}) = Cardinality(K) + 1
        /\ \A k \in K : Rank(K \cup {p}, k) = Rank(K, k)
    BY <2>1, <2>2, RankOfGreatest, Zenon
  <2>4. QED
    BY <1>3, <2>3
<1>5. Ranked(N, c)
  <2>1. \A k \in K : M[k].field = Rank(K, k)
    BY <1>3 DEF Ranked, K
  <2>2. ASSUME NEW k \in K \cup {p}
        PROVE  N[k].field = Rank(K \cup {p}, k)
    <3>1. CASE k = p
      BY <1>1, <1>4, <3>1
    <3>2. CASE k \in K
      BY <1>1, <1>2, <1>4, <2>1, <3>2
    <3>3. QED
      BY <3>1, <3>2
  <2>3. QED
    BY <1>1, <2>2 DEF Ranked
<1>6. Whole(N, c) = In(N, c)
  BY <1>1, <1>2, <1>3 DEF Whole, K
<1>7. Going(N, c, m + 1)
  BY <1>1, <1>4, <1>5, <1>6 DEF Going
<1>8. QED
  BY <1>7 DEF N

LEMMA InitCallsInv ==
  ASSUME WriterInit
  PROVE  CallsInv
<1>1. archives = <<>> /\ results = <<>> /\ phase = "idle"
  BY DEF WriterInit
<1>2. QED
  BY <1>1 DEF CallsInv, Writes

(* The writes that have returned after a step that returns. *)
LEMMA WritesAre ==
  ASSUME WInv, NEW ok, Reports(ok)
  PROVE  /\ Writes' = IF op = "write" THEN Writes \cup {Now} ELSE Writes
         /\ \A c \in Writes : results'[c] = results[c] /\ c \in DOMAIN results /\ results[c] \in Result
         /\ results'[Now] \in Result /\ Now' = Now + 1
         /\ results'[Now].op = op /\ results'[Now].sample = sample
         /\ results'[Now].ok = ok /\ results'[Now].into = Len(archives)
<1>1. /\ results \in Seq(Result) /\ DOMAIN results = 1..Len(results)
      /\ Len(results) \in Nat /\ Len(results') = Len(results) + 1
      /\ results' \in Seq(Result) /\ DOMAIN results' = 1..(Len(results) + 1)
  BY FieldsAre DEF WInv, WriterTypeOK, Reports
<1>2. /\ \A c \in DOMAIN results : results'[c] = results[c]
      /\ results'[Now].op = op /\ results'[Now].sample = sample
      /\ results'[Now].ok = ok /\ results'[Now].into = Len(archives)
  BY <1>1 DEF Reports, Now
<1>3. /\ DOMAIN results' = DOMAIN results \cup {Now} /\ Now \notin DOMAIN results
      /\ Now' = Now + 1
  BY <1>1 DEF Now
<1>4. results'[Now] \in Result
  BY <1>1, <1>3
<1>5. Writes' = {c \in DOMAIN results' : results'[c].op = "write"}
  BY DEF Writes
<1>6. Writes' = IF op = "write" THEN Writes \cup {Now} ELSE Writes
  BY <1>2, <1>3, <1>5 DEF Writes
<1>7. QED
  BY <1>1, <1>2, <1>3, <1>4, <1>6 DEF Writes

(* Where the members of no call but those that have returned are. *)
LEMMA NothingYet ==
  ASSUME WInv, CallsInv
  PROVE  /\ phase # "append" => \A i \in DOMAIN archives : In(archives[i].members, Now) = {}
         /\ \A i \in DOMAIN archives : i # Len(archives) => In(archives[i].members, Now) = {}
<1>1. Now \notin Writes
  BY FieldsAre DEF Writes
<1>2. QED
  BY <1>1 DEF CallsInv, In

(* A step that returns: what it did to the archives leaves the earlier calls *)
(* alone, and this one, if it is a write, is answered as it should be.       *)
LEMMA ReturnCalls ==
  ASSUME WInv, CallsInv, NEW ok \in BOOLEAN, Reports(ok), phase' # "append",
         \A c \in Writes : Leaves(archives, archives', c),
         op = "write" => Answered(archives', Now, results'[Now]),
         \A i \in DOMAIN archives' : \A k \in DOMAIN archives'[i].members :
           \/ archives'[i].members[k].call \in Writes
           \/ op = "write" /\ archives'[i].members[k].call = Now
  PROVE  CallsInv'
<1>1. /\ Writes' = IF op = "write" THEN Writes \cup {Now} ELSE Writes
      /\ \A c \in Writes : results'[c] = results[c] /\ results[c] \in Result
  BY WritesAre
<1>2. \A c \in Writes : Answered(archives', c, results'[c])
  BY <1>1, LeavesAnswered DEF CallsInv
<1>3. \A c \in Writes' : Answered(archives', c, results'[c])
  BY <1>1, <1>2
<1>4. QED
  BY <1>1, <1>3 DEF CallsInv

(* A step that does not return. *)
LEMMA StayCalls ==
  ASSUME WInv, CallsInv, results' = results, phase' # "append", phase # "append",
         \A c : Leaves(archives, archives', c),
         DOMAIN archives' = DOMAIN archives,
         \A i \in DOMAIN archives : archives'[i].members = archives[i].members
  PROVE  CallsInv'
<1>1. Writes' = Writes /\ \A c \in Writes : results[c] \in Result
  BY DEF Writes, WInv, WriterTypeOK
<1>2. \A c \in Writes' : Answered(archives', c, results'[c])
  BY <1>1, LeavesAnswered DEF CallsInv
<1>3. QED
  BY <1>1, <1>2 DEF CallsInv

(* A call that has not come to append, or has not come through it. *)
LEMMA NoWrite ==
  ASSUME WInv, CallsInv, phase # "append", NEW ok \in BOOLEAN, Reports(ok), phase' # "append",
         \A c : Leaves(archives, archives', c),
         DOMAIN archives' = DOMAIN archives, Len(archives') = Len(archives),
         \A i \in DOMAIN archives : archives'[i].members = archives[i].members,
         op = "write" => ~ok
  PROVE  CallsInv'
<1>1. ASSUME op = "write"
      PROVE  Answered(archives', Now, results'[Now])
  <2> DEFINE r == results'[Now]
  <2>1. r.sample = sample /\ r.ok = ok /\ r.into = Len(archives) /\ ~ok
    BY <1>1, WritesAre
  <2>2. \A i \in DOMAIN archives' : In(archives'[i].members, Now) = {}
    BY NothingYet
  <2>3. Len(r.sample.fields) \in Nat
    BY <2>1 DEF WInv, WriterTypeOK, Sample
  <2> HIDE DEF r
  <2>4. ASSUME NEW M, In(M, Now) = {} PROVE Going(M, Now, 0)
    <3>1. Cardinality(In(M, Now)) = 0
      BY <2>4, FS_EmptySet
    <3>2. QED
      BY <2>4, <3>1 DEF Going, Ranked, Whole
  <2>5. ASSUME r.into \in DOMAIN archives'
        PROVE  Fits(archives'[r.into].members, Now, Len(r.sample.fields), r.ok)
    <3>1. Going(archives'[r.into].members, Now, 0)
      BY <2>2, <2>4, <2>5
    <3>2. 0 <= Len(r.sample.fields) /\ (0 = Len(r.sample.fields) <=> r.ok \/ Len(r.sample.fields) = 0)
      BY <2>1, <2>3
    <3>3. QED
      BY <2>3, <3>1, <3>2, FitsWhole
  <2>6. Elsewhere(archives', Now, r.into) /\ r.into <= Len(archives')
    <3>1. Elsewhere(archives', Now, r.into)
      BY <2>2 DEF Elsewhere
    <3>2. QED
      BY <2>1, <3>1, FieldsAre
  <2>7. QED
    BY <2>1, <2>5, <2>6 DEF Answered, r
<1>2. \A i \in DOMAIN archives' : \A k \in DOMAIN archives'[i].members :
        archives'[i].members[k].call \in Writes
  BY DEF CallsInv
<1>3. QED
  BY <1>1, <1>2, ReturnCalls

(* A write that returns from append without a member cut short. *)
LEMMA AppendReturns ==
  ASSUME WInv, CallsInv, phase = "append", NEW ok \in BOOLEAN, Reports(ok), phase' # "append",
         archives' = archives, at - 1 <= Len(sample.fields),
         at - 1 = Len(sample.fields) <=> ok \/ Len(sample.fields) = 0
  PROVE  CallsInv'
<1> DEFINE i == Len(archives)
           M == archives[i].members
           n == Len(sample.fields)
           m == at - 1
<1>1. op = "write" /\ archives # <<>> /\ n \in Nat /\ m \in Nat
  BY DEF WInv, WriterTypeOK, Tallied, Sample
<1>2. i \in DOMAIN archives
  BY <1>1 DEF WInv, WriterTypeOK
<1>3. Going(M, Now, m)
  BY <1>2 DEF CallsInv, Newest
<1>4. m <= n /\ (m = n <=> ok \/ n = 0)
  OBVIOUS
<1> HIDE DEF m, n, M
<1>5. Fits(M, Now, n, ok)
  BY <1>1, <1>3, <1>4, FitsWhole
<1>6. /\ results'[Now].sample = sample
      /\ results'[Now].ok = ok /\ results'[Now].into = Len(archives)
  BY WritesAre
<1>7. Elsewhere(archives', Now, i)
  BY NothingYet DEF Elsewhere
<1>8. Answered(archives', Now, results'[Now])
  BY <1>2, <1>5, <1>6, <1>7, FieldsAre DEF Answered, M, n
<1>9. \A c \in Writes : Leaves(archives, archives', c)
  BY SameLeaves
<1>10. \A j \in DOMAIN archives' : \A k \in DOMAIN archives'[j].members :
           \/ archives'[j].members[k].call \in Writes
           \/ op = "write" /\ archives'[j].members[k].call = Now
  BY <1>1 DEF CallsInv
<1>11. QED
  BY <1>8, <1>9, <1>10, ReturnCalls

(* Where the members are after one more was put. *)
LEMMA PutsKnown ==
  ASSUME WInv, CallsInv, Appending, NEW whole \in BOOLEAN, archives' = Appended(Member(whole))
  PROVE  /\ Member(whole) \in Entry /\ Member(whole).call = Now /\ Member(whole).field = (at - 1) + 1
         /\ Member(whole).whole = whole /\ at - 1 \in Nat
         /\ DOMAIN archives' = DOMAIN archives /\ Len(archives') = Len(archives)
         /\ Len(archives) \in DOMAIN archives
         /\ \A i \in DOMAIN archives : i # Len(archives) => archives'[i] = archives[i]
         /\ archives'[Len(archives)].members = Append(archives[Len(archives)].members, Member(whole))
         /\ \A c \in Writes : Leaves(archives, archives', c)
         /\ \A i \in DOMAIN archives' : \A k \in DOMAIN archives'[i].members :
              \/ archives'[i].members[k].call \in Writes
              \/ archives'[i].members[k].call = Now /\ i = Len(archives)
<1> DEFINE n == Len(archives)
           e == Member(whole)
<1>1. e \in Entry /\ archives # <<>> /\ Puts(archives, archives', e)
  BY MemberPuts
<1>2. e.call = Now /\ e.field = (at - 1) + 1 /\ e.whole = whole /\ at - 1 \in Nat
  BY DEF Member, Now, WInv, WriterTypeOK
<1> HIDE DEF e
<1>3. /\ DOMAIN archives' = DOMAIN archives /\ Len(archives') = n /\ n \in DOMAIN archives
      /\ \A i \in DOMAIN archives : i # n => archives'[i] = archives[i]
      /\ archives'[n].members = Append(archives[n].members, e)
  BY <1>1, PutsIs
<1>4. ASSUME NEW c \in Writes PROVE Leaves(archives, archives', c)
  <2>1. e.call # c
    BY <1>2, FieldsAre DEF Writes
  <2>2. QED
    BY <1>1, <2>1, PutsLeaves
<1>5. ASSUME NEW i \in DOMAIN archives', NEW k \in DOMAIN archives'[i].members
      PROVE  \/ archives'[i].members[k].call \in Writes
             \/ archives'[i].members[k].call = Now /\ i = n
  <2>1. CASE i # n
    BY <1>3, <2>1 DEF CallsInv
  <2>2. CASE i = n
    <3> DEFINE M == archives[n].members
               N == archives'[n].members
               p == Len(M) + 1
    <3>1. M \in Seq(Entry) /\ N = Append(M, e)
      BY <1>3, FieldsAre
    <3>2. DOMAIN N = DOMAIN M \cup {p} /\ N[p] = e /\ \A j \in DOMAIN M : N[j] = M[j]
      BY <1>1, <3>1, Appended1
    <3>3. \A j \in DOMAIN M : M[j].call \in Writes \/ M[j].call = Now
      BY <1>3 DEF CallsInv
    <3>4. k \in DOMAIN N
      BY <2>2
    <3> HIDE DEF M, N, p
    <3>5. N[k].call \in Writes \/ N[k].call = Now
      BY <1>2, <3>2, <3>3, <3>4
    <3>6. QED
      BY <2>2, <3>5 DEF N
  <2>3. QED
    BY <2>1, <2>2
<1>6. QED
  BY <1>1, <1>2, <1>3, <1>4, <1>5 DEF e

(* A member that is cut short. *)
LEMMA BrokenCalls ==
  ASSUME WInv, CallsInv, AppendFails
  PROVE  CallsInv'
<1> DEFINE i == Len(archives)
           M == archives[i].members
           e == Member(FALSE)
           n == Len(sample.fields)
           m == at - 1
<1>1. Appending /\ archives' = Appended(e) /\ phase = "append"
  BY DEF AppendFails, Appending
<1>2. Reports(FALSE) /\ phase' = "idle" /\ op = "write"
  BY <1>1, ReturnReports DEF AppendFails, WInv, Tallied
<1>3. /\ e \in Entry /\ e.call = Now /\ e.field = m + 1 /\ ~e.whole /\ m \in Nat
      /\ DOMAIN archives' = DOMAIN archives /\ Len(archives') = i /\ i \in DOMAIN archives
      /\ \A j \in DOMAIN archives : j # i => archives'[j] = archives[j]
      /\ archives'[i].members = Append(M, e)
      /\ \A c \in Writes : Leaves(archives, archives', c)
      /\ \A j \in DOMAIN archives' : \A k \in DOMAIN archives'[j].members :
           \/ archives'[j].members[k].call \in Writes
           \/ archives'[j].members[k].call = Now
  BY <1>1, PutsKnown
<1>4. Going(M, Now, m)
  BY <1>1 DEF CallsInv, Newest
<1>5. M \in Seq(Entry)
  BY <1>3, FieldsAre
<1>6. n \in Nat /\ m < n
  BY <1>1 DEF Appending, WInv, WriterTypeOK, Sample
<1> HIDE DEF m, n, e, M
<1>7. Fits(archives'[i].members, Now, n, FALSE)
  <2>1. Fits(Append(M, e), Now, n, FALSE)
    BY <1>3, <1>4, <1>5, <1>6, FitsBroken
  <2>2. QED
    BY <1>3, <2>1
<1>8. /\ results'[Now].sample = sample
      /\ results'[Now].ok = FALSE /\ results'[Now].into = i
  BY <1>2, WritesAre
<1>9. Elsewhere(archives', Now, i)
  BY <1>3, NothingYet DEF Elsewhere
<1>10. i <= Len(archives')
  BY <1>3, FieldsAre
<1>11. Answered(archives', Now, results'[Now])
  BY <1>7, <1>8, <1>9, <1>10 DEF Answered, n
<1>12. QED
  BY <1>2, <1>3, <1>11, ReturnCalls

(* One more field. *)
LEMMA MemberCalls ==
  ASSUME WInv, CallsInv, AppendMember
  PROVE  CallsInv'
<1> DEFINE i == Len(archives)
           M == archives[i].members
           e == Member(TRUE)
           m == at - 1
<1>1. Appending /\ archives' = Appended(e) /\ phase = "append" /\ phase' = phase /\ at' = at + 1
      /\ results' = results /\ sample' = sample /\ sample.keyed
  BY DEF AppendMember, Appending
<1>2. /\ e \in Entry /\ e.call = Now /\ e.field = m + 1 /\ e.whole /\ m \in Nat
      /\ DOMAIN archives' = DOMAIN archives /\ Len(archives') = i /\ i \in DOMAIN archives
      /\ archives'[i].members = Append(M, e)
      /\ \A c \in Writes : Leaves(archives, archives', c)
      /\ \A j \in DOMAIN archives' : \A k \in DOMAIN archives'[j].members :
           \/ archives'[j].members[k].call \in Writes
           \/ archives'[j].members[k].call = Now /\ j = i
  BY <1>1, PutsKnown
<1>3. Going(M, Now, m)
  BY <1>1 DEF CallsInv, Newest
<1>4. M \in Seq(Entry)
  BY <1>2, FieldsAre
<1>5. at' - 1 = m + 1
  BY <1>1 DEF WInv, WriterTypeOK
<1> HIDE DEF m, e, M
<1>6. Going(archives'[i].members, Now, m + 1)
  <2>1. Going(Append(M, e), Now, m + 1)
    BY <1>2, <1>3, <1>4, GoesOn
  <2>2. QED
    BY <1>2, <2>1
<1>7. Writes' = Writes /\ Now' = Now /\ \A c \in Writes : results[c] \in Result
  BY <1>1 DEF Writes, Now, WInv, WriterTypeOK
<1>8. \A c \in Writes' : Answered(archives', c, results'[c])
  BY <1>1, <1>2, <1>7, LeavesAnswered DEF CallsInv
<1>9. QED
  BY <1>1, <1>2, <1>5, <1>6, <1>7, <1>8 DEF CallsInv, Newest

(* A write that comes to append has put nothing yet. *)
LEMMA ComesToAppend ==
  ASSUME WInv, CallsInv, phase # "append", results' = results, at' = 1,
         Len(archives') \in DOMAIN archives',
         \A c : Leaves(archives, archives', c),
         \A i \in DOMAIN archives' : \A k \in DOMAIN archives'[i].members :
           archives'[i].members[k].call \in Writes
  PROVE  CallsInv'
<1>1. Writes' = Writes /\ Now' = Now /\ \A c \in Writes : results[c] \in Result
  BY DEF Writes, Now, WInv, WriterTypeOK
<1>2. \A c \in Writes' : Answered(archives', c, results'[c])
  BY <1>1, LeavesAnswered DEF CallsInv
<1>3. Now \notin Writes
  BY FieldsAre DEF Writes
<1>4. Going(Newest(archives').members, Now, 0)
  <2> DEFINE M == Newest(archives').members
  <2>1. \A k \in DOMAIN M : M[k].call \in Writes
    BY DEF Newest
  <2> HIDE DEF M
  <2>2. In(M, Now) = {}
    BY <1>3, <2>1 DEF In
  <2>3. Cardinality(In(M, Now)) = 0
    BY <2>2, FS_EmptySet
  <2>4. Going(M, Now, 0)
    BY <2>2, <2>3 DEF Going, Ranked, Whole
  <2>5. QED
    BY <2>4 DEF M
<1>5. QED
  BY <1>1, <1>2, <1>4 DEF CallsInv

LEMMA StepCallsInv ==
  ASSUME WInv, CallsInv, WriterNext
  PROVE  CallsInv'
<1>1. CASE (\E s \in Samples : Write(s)) \/ NextShard \/ End
  <2>1. /\ archives' = archives /\ results' = results /\ phase = "idle" /\ at' = 1
        /\ phase' \in {"finish", "append"} /\ (phase' = "append" => open)
    BY <1>1 DEF Write, NextShard, End, Begin, writer
  <2>2. \A c : Leaves(archives, archives', c)
    BY <2>1, SameLeaves
  <2>3. CASE phase' = "finish"
    BY <2>1, <2>2, <2>3, StayCalls
  <2>4. CASE phase' = "append"
    <3>1. Len(archives') \in DOMAIN archives'
      BY <2>1, <2>4 DEF WInv, WriterTypeOK, Tallied
    <3>2. \A i \in DOMAIN archives' : \A k \in DOMAIN archives'[i].members :
            archives'[i].members[k].call \in Writes
      BY <2>1 DEF CallsInv
    <3>3. QED
      BY <2>1, <2>2, <3>1, <3>2, ComesToAppend
  <2>5. QED
    BY <2>1, <2>3, <2>4
<1>2. CASE NothingOpen
  <2>1. archives' = archives /\ phase = "finish"
    BY <1>2 DEF NothingOpen
  <2>2. \A c : Leaves(archives, archives', c)
    BY <2>1, SameLeaves
  <2>3. \/ phase' = "create" /\ results' = results
        \/ op = "end" /\ phase' = "gone" /\ Reports(TRUE)
    BY <1>2, FinishedIs DEF NothingOpen
  <2>4. QED
    BY <2>1, <2>2, <2>3, StayCalls, NoWrite
<1>3. CASE CloseArchive
  <2>1. PICK stored \in BOOLEAN : archives' = Sealed(TRUE, stored)
    BY <1>3 DEF CloseArchive
  <2>2. Seals(archives, archives', TRUE) /\ archives # <<>> /\ phase = "finish"
    BY <1>3, <2>1, SealedSeals DEF CloseArchive, WInv, Tallied
  <2>3. /\ \A c : Leaves(archives, archives', c)
        /\ DOMAIN archives' = DOMAIN archives /\ Len(archives') = Len(archives)
        /\ \A i \in DOMAIN archives : archives'[i].members = archives[i].members
    BY <2>2, SealsLeaves DEF Seals, Retouches
  <2>4. \/ phase' \in {"post", "create"} /\ results' = results
        \/ op = "end" /\ phase' = "gone" /\ Reports(TRUE)
    BY <1>3, FinishedIs DEF CloseArchive
  <2>5. QED
    BY <2>2, <2>3, <2>4, StayCalls, NoWrite
<1>4. CASE CloseFails
  <2>1. Seals(archives, archives', FALSE) /\ archives # <<>> /\ phase = "finish"
    BY <1>4, SealedSeals DEF CloseFails, WInv, Tallied
  <2>2. /\ \A c : Leaves(archives, archives', c)
        /\ DOMAIN archives' = DOMAIN archives /\ Len(archives') = Len(archives)
        /\ \A i \in DOMAIN archives : archives'[i].members = archives[i].members
    BY <2>1, SealsLeaves DEF Seals, Retouches
  <2>3. Reports(FALSE) /\ phase' # "append"
    BY <1>4, ReturnReports DEF CloseFails
  <2>4. QED
    BY <2>1, <2>2, <2>3, NoWrite
<1>5. CASE Post \/ CreateFails
  <2>1. archives' = archives /\ phase \in {"post", "create"}
    BY <1>5 DEF Post, CreateFails
  <2>2. \A c : Leaves(archives, archives', c)
    BY <2>1, SameLeaves
  <2>3. \/ phase' = "create" /\ results' = results
        \/ op = "end" /\ phase' = "gone" /\ Reports(TRUE)
        \/ phase' # "append" /\ Reports(FALSE)
    BY <1>5, FinishedIs, ReturnReports DEF Post, CreateFails
  <2>4. QED
    BY <2>1, <2>2, <2>3, StayCalls, NoWrite
<1>6. CASE Create
  <2>1. Opens(archives, archives') /\ phase = "create" /\ at' = at /\ at = 1
    BY <1>6, CreateOpens DEF Create, WInv, Encoded
  <2>2. /\ \A c : Leaves(archives, archives', c)
        /\ DOMAIN archives' = DOMAIN archives \cup {Len(archives')}
        /\ \A i \in DOMAIN archives : archives'[i] = archives[i]
        /\ archives'[Len(archives')].members = <<>>
    BY <2>1, OpensLeaves
  <2>3. \A i \in DOMAIN archives' : \A k \in DOMAIN archives'[i].members :
          archives'[i].members[k].call \in Writes
    <3>1. \A i \in DOMAIN archives : \A k \in DOMAIN archives[i].members :
            archives[i].members[k].call \in Writes
      BY <2>1 DEF CallsInv
    <3>2. DOMAIN archives'[Len(archives')].members = {}
      BY <2>2
    <3>3. QED
      BY <2>2, <3>1, <3>2
  <2>4. \/ phase' = "append" /\ results' = results
        \/ op # "write" /\ phase' # "append" /\ Reports(TRUE)
    BY <1>6, ReturnReports DEF Create
  <2>5. CASE phase' = "append" /\ results' = results
    BY <2>1, <2>2, <2>3, <2>5, ComesToAppend
  <2>6. CASE op # "write" /\ phase' # "append" /\ Reports(TRUE)
    BY <2>2, <2>3, <2>6, ReturnCalls
  <2>7. QED
    BY <2>4, <2>5, <2>6
<1>7. CASE AppendRefused \/ EncodeFails \/ NoKey \/ Written
  <2> DEFINE n == Len(sample.fields)
  <2>1. n \in Nat /\ at \in Nat \ {0} /\ phase = "append" /\ archives' = archives
    <3>1. n \in Nat /\ at \in Nat \ {0}
      BY DEF WInv, WriterTypeOK, Sample
    <3>2. QED
      BY <1>7, <3>1 DEF AppendRefused, EncodeFails, NoKey, Written, Appending
  <2>2. at <= n + 1 /\ (~sample.keyed => at = 1)
    BY <2>1 DEF WInv, Encoded, CallsInv
  <2>3. CASE AppendRefused \/ EncodeFails \/ NoKey
    <3>1. Reports(FALSE) /\ phase' # "append"
      BY <2>3, ReturnReports DEF AppendRefused, EncodeFails, NoKey
    <3>2. at <= n \/ at = 1
      BY <2>2, <2>3 DEF AppendRefused, EncodeFails, NoKey, Appending
    <3>3. at - 1 <= n /\ (at - 1 = n <=> FALSE \/ n = 0)
      BY <2>1, <2>2, <3>2
    <3>4. QED
      BY <2>1, <3>1, <3>3, AppendReturns
  <2>4. CASE Written
    <3>1. Reports(TRUE) /\ phase' # "append"
      BY <2>4, ReturnReports DEF Written
    <3>2. at - 1 <= n /\ (at - 1 = n <=> TRUE \/ n = 0)
      BY <2>1, <2>2, <2>4 DEF Written
    <3>3. QED
      BY <2>1, <3>1, <3>2, AppendReturns
  <2>5. QED
    BY <1>7, <2>3, <2>4
<1>8. CASE AppendMember
  BY <1>8, MemberCalls
<1>9. CASE AppendFails
  BY <1>9, BrokenCalls
<1>10. CASE Gone
  BY <1>10 DEF Gone, writerVars, call, CallsInv, Writes, Now
<1>11. QED
  BY <1>1, <1>2, <1>3, <1>4, <1>5, <1>6, <1>7, <1>8, <1>9, <1>10 DEF WriterNext

-----------------------------------------------------------------------------
(* Members lie in the order of the writes that put them, so what was cut    *)
(* off before the members of an accepted write is of an earlier write.       *)
Chronological(M) == \A j, k \in DOMAIN M : j <= k => M[j].call <= M[k].call

InOrder == \A i \in DOMAIN archives : Chronological(archives[i].members)

LEMMA MemberInOrder ==
  ASSUME WInv, CallsInv, InOrder, Appending, NEW whole \in BOOLEAN,
         archives' = Appended(Member(whole))
  PROVE  InOrder'
<1> DEFINE n == Len(archives)
           e == Member(whole)
           M == archives[n].members
           N == archives'[n].members
           p == Len(M) + 1
<1>1. /\ e \in Entry /\ e.call = Now /\ N = Append(M, e) /\ n \in DOMAIN archives
      /\ DOMAIN archives' = DOMAIN archives
      /\ \A i \in DOMAIN archives : i # n => archives'[i] = archives[i]
  BY PutsKnown
<1>2. M \in Seq(Entry) /\ Now \in Nat /\ DOMAIN results = 1..(Now - 1)
  BY <1>1, FieldsAre DEF Now
<1>3. \A j \in DOMAIN M : M[j].call \in Nat /\ M[j].call <= Now
  <2>1. \A j \in DOMAIN M : M[j].call \in Writes \/ M[j].call = Now
    BY <1>1 DEF CallsInv
  <2>2. \A c \in Writes : c \in 1..(Now - 1)
    BY <1>2 DEF Writes
  <2> HIDE DEF M
  <2>3. QED
    BY <1>2, <2>1, <2>2
<1> HIDE DEF e
<1>4. /\ DOMAIN N = DOMAIN M \cup {p} /\ N[p] = e
      /\ \A j \in DOMAIN M : j < p /\ N[j] = M[j] /\ j \in Nat
  BY <1>1, <1>2, Appended1
<1>5. p \in Nat /\ Chronological(M)
  BY <1>1, <1>2 DEF InOrder
<1> HIDE DEF M, N, p
<1>6. ASSUME NEW j \in DOMAIN N, NEW k \in DOMAIN N, j <= k
      PROVE  N[j].call <= N[k].call
  <2>1. CASE k = p
    BY <1>1, <1>2, <1>3, <1>4, <2>1
  <2>2. CASE k # p
    BY <1>4, <1>5, <1>6, <2>2 DEF Chronological
  <2>3. QED
    BY <2>1, <2>2
<1>7. Chronological(N)
  BY <1>6 DEF Chronological
<1>8. QED
  BY <1>1, <1>7 DEF InOrder, N

LEMMA StepInOrder ==
  ASSUME WInv, CallsInv, InOrder, WriterNext
  PROVE  InOrder'
<1>1. CASE archives' = archives
  BY <1>1 DEF InOrder
<1>2. CASE CloseArchive \/ CloseFails
  <2>1. PICK written, stored \in BOOLEAN : archives' = Sealed(written, stored)
    BY <1>2 DEF CloseArchive, CloseFails
  <2>2. archives # <<>>
    BY <1>2 DEF CloseArchive, CloseFails, WInv, Tallied
  <2>3. Seals(archives, archives', written)
    BY <2>1, <2>2, SealedSeals
  <2>4. QED
    BY <2>2, <2>3, SealsLeaves DEF InOrder
<1>3. CASE Create
  <2>1. Opens(archives, archives')
    BY <1>3, CreateOpens
  <2>2. /\ DOMAIN archives' = DOMAIN archives \cup {Len(archives')}
        /\ \A i \in DOMAIN archives : archives'[i] = archives[i]
        /\ archives'[Len(archives')].members = <<>>
    BY <2>1, OpensLeaves
  <2>3. Chronological(<<>>)
    BY DEF Chronological
  <2>4. QED
    BY <2>2, <2>3 DEF InOrder
<1>4. CASE AppendMember \/ AppendFails
  <2>1. PICK whole \in BOOLEAN : archives' = Appended(Member(whole)) /\ Appending
    BY <1>4 DEF AppendMember, AppendFails
  <2>2. QED
    BY <2>1, MemberInOrder
<1>5. QED
  BY <1>1, <1>2, <1>3, <1>4
     DEF WriterNext, Write, NextShard, End, Begin, NothingOpen, Post, CreateFails,
         AppendRefused, EncodeFails, NoKey, Written, Gone, writerVars

LEMMA BehindTheCut ==
  ASSUME WInv, CallsInv, InOrder, NEW c \in Accepted,
         results[c].into \in DOMAIN archives,
         NEW k \in In(archives[results[c].into].members, c),
         k \notin Readable(results[c].into)
  PROVE  \E d \in CutOff(results[c].into) \cap (Writes \ Accepted) : d < c
<1> DEFINE i == results[c].into
           M == archives[i].members
<1>1. /\ M \in Seq(Entry) /\ k \in DOMAIN M /\ M[k].call = c /\ i \in DOMAIN archives
      /\ DOMAIN results = 1..Len(results) /\ Len(results) \in Nat
  BY FieldsAre DEF In, WInv, WriterTypeOK
<1>2. PICK j \in 1..k : ~M[j].whole
  BY <1>1 DEF Readable
<1>3. j \in DOMAIN M /\ j <= k
  BY <1>1, <1>2
<1> DEFINE d == M[j].call
<1>4. d \in Writes
  <2>1. d # Now \/ phase # "append" \/ i # Len(archives)
    <3> SUFFICES ASSUME d = Now, phase = "append", i = Len(archives)
                 PROVE  FALSE
      OBVIOUS
    <3>1. In(M, Now) = Whole(M, Now)
      BY DEF CallsInv, Newest, Going
    <3>2. QED
      BY <1>2, <1>3, <3>1 DEF In, Whole
  <2>2. QED
    BY <1>1, <1>3, <2>1 DEF CallsInv
<1>5. ~results[d].ok
  <2>1. Answered(archives, d, results[d])
    BY <1>4 DEF CallsInv
  <2>2. j \in In(M, d) \ Whole(M, d)
    BY <1>2, <1>3 DEF In, Whole
  <2>3. results[d].into = i
    <3>1. \A m \in DOMAIN archives : m # results[d].into => In(archives[m].members, d) = {}
      BY <2>1 DEF Answered, Elsewhere
    <3>2. In(archives[i].members, d) # {}
      BY <2>2
    <3> HIDE DEF i, d
    <3>3. QED
      BY <1>1, <3>1, <3>2
  <2>4. Fits(M, d, Len(results[d].sample.fields), results[d].ok)
    BY <1>1, <2>1, <2>3 DEF Answered
  <2>5. QED
    BY <2>2, <2>4 DEF Fits
<1>6. d < c
  <2>1. d <= c
    BY <1>1, <1>3 DEF InOrder, Chronological
  <2>2. d \in Nat /\ c \in Nat /\ d # c
    BY <1>1, <1>4, <1>5 DEF Accepted, Writes
  <2>3. QED
    BY <2>1, <2>2
<1>7. d \in CutOff(i)
  BY <1>2, <1>3 DEF CutOff
<1>8. QED
  BY <1>4, <1>5, <1>6, <1>7 DEF Accepted

-----------------------------------------------------------------------------
(* What the writer counts, and what an archive may hold: PayloadIn is        *)
(* PayloadOf for a history R, Fills what ShardsFillUp says of an archive     *)
(* that was left as `left` and took the samples of the calls C.              *)
PayloadIn(R, C) == SumFunction([c \in C |-> Payload(R[c].sample)])
FullOf(R, C) == Cardinality(C) >= MaxCount \/ PayloadIn(R, C) >= MaxSize
Before(C) == {c \in C : \E d \in C : c < d}

Fills(left, R, C) ==
  /\ Before(C) # {} => ~FullOf(R, Before(C))
  /\ left = "write" => FullOf(R, C)

Countable(r) == r.sample.fields \in Seq(Nat) /\ r.into \in DOMAIN archives

Counted(C) == count = Cardinality(C) /\ size = PayloadIn(results, C)

CountsInv ==
  /\ \A c \in Accepted : Countable(results[c])
  /\ open => Counted(AcceptedIn(Len(archives)))
  /\ phase = "append" => ~Limited \/ AcceptedIn(Len(archives)) = {}
  /\ phase = "finish" /\ op = "write" /\ open => Limited
  /\ \A i \in DOMAIN archives : Fills(archives[i].left, results, AcceptedIn(i))

LEMMA FillsUp == CountsInv => ShardsFillUp
BY DEF CountsInv, ShardsFillUp, Fills, FullOf, PayloadIn, PayloadOf, Before

LEMMA PayloadInSame ==
  ASSUME NEW R, NEW Q, NEW C, \A c \in C : R[c] = Q[c]
  PROVE  PayloadIn(R, C) = PayloadIn(Q, C)
<1>1. [c \in C |-> Payload(R[c].sample)] = [c \in C |-> Payload(Q[c].sample)]
  OBVIOUS
<1>2. QED
  BY <1>1 DEF PayloadIn

LEMMA FillsSame ==
  ASSUME NEW R, NEW Q, NEW C, \A c \in C : R[c] = Q[c], NEW left
  PROVE  Fills(left, R, C) <=> Fills(left, Q, C)
<1>1. Before(C) \subseteq C
  BY DEF Before
<1>2. PayloadIn(R, C) = PayloadIn(Q, C) /\ PayloadIn(R, Before(C)) = PayloadIn(Q, Before(C))
  BY <1>1, PayloadInSame
<1>3. QED
  BY <1>2 DEF Fills, FullOf

LEMMA PayloadOfNone == \A R : PayloadIn(R, {}) = 0
<1>1. SUFFICES ASSUME NEW R PROVE PayloadIn(R, {}) = 0
  OBVIOUS
<1> DEFINE f == [c \in {} |-> Payload(R[c].sample)]
<1>2. DOMAIN f = {}
  OBVIOUS
<1> HIDE DEF f
<1>3. SumFunction(f) = 0
  BY <1>2, FoldIs, SumOfNone DEF SumFunction, Sum
<1>4. QED
  BY <1>3 DEF PayloadIn, f

(* One more sample. *)
LEMMA PayloadAdds ==
  ASSUME NEW R, NEW C, IsFiniteSet(C), NEW e, e \notin C,
         \A c \in C \cup {e} : Payload(R[c].sample) \in Nat
  PROVE  PayloadIn(R, C \cup {e}) = PayloadIn(R, C) + Payload(R[e].sample)
<1> DEFINE f == [c \in C \cup {e} |-> Payload(R[c].sample)]
           g == [c \in C |-> Payload(R[c].sample)]
<1>1. /\ DOMAIN f = C \cup {e} /\ DOMAIN g = C /\ f[e] = Payload(R[e].sample)
      /\ \A c \in C : f[c] = g[c]
      /\ f[e] \in Nat /\ \A c \in C : f[c] \in Nat
  OBVIOUS
<1>2. PayloadIn(R, C \cup {e}) = SumFunction(f) /\ PayloadIn(R, C) = SumFunction(g)
  BY DEF PayloadIn
<1> HIDE DEF f, g
<1>3. SumFunction(f) = Sum(f, C \cup {e}) /\ SumFunction(g) = Sum(g, C)
  BY <1>1, FoldIs DEF SumFunction, Sum
<1>4. Sum(f, C) = Sum(g, C)
  BY <1>1, SumSame
<1>5. Sum(f, C \cup {e}) = Sum(f, C) + f[e]
  BY <1>1, SumAdds
<1>6. QED
  BY <1>1, <1>2, <1>3, <1>4, <1>5

LEMMA PayloadIsNat ==
  ASSUME NEW R, NEW C, IsFiniteSet(C), \A c \in C : Payload(R[c].sample) \in Nat
  PROVE  PayloadIn(R, C) \in Nat
<1> DEFINE f == [c \in C |-> Payload(R[c].sample)]
<1>1. DOMAIN f = C /\ \A c \in C : f[c] \in Nat
  OBVIOUS
<1>2. PayloadIn(R, C) = SumFunction(f)
  BY DEF PayloadIn
<1> HIDE DEF f
<1>3. Sum(f, C) \in Nat
  BY <1>1, SumType
<1>4. QED
  BY <1>1, <1>2, <1>3, FoldIs DEF SumFunction, Sum

LEMMA AcceptedAre ==
  ASSUME WInv, CountsInv, NEW i
  PROVE  /\ IsFiniteSet(AcceptedIn(i)) /\ AcceptedIn(i) \subseteq DOMAIN results
         /\ \A c \in AcceptedIn(i) : Payload(results[c].sample) \in Nat
<1>1. AcceptedIn(i) \subseteq DOMAIN results /\ AcceptedIn(i) \subseteq Accepted
  BY DEF AcceptedIn, Accepted, Writes
<1>2. DOMAIN results = 1..Len(results) /\ Len(results) \in Nat
  BY DEF WInv, WriterTypeOK
<1>3. IsFiniteSet(AcceptedIn(i))
  <2>1. IsFiniteSet(1..Len(results))
    BY <1>2, FS_Interval
  <2>2. QED
    BY <1>1, <1>2, <2>1, FS_Subset
<1>4. \A c \in AcceptedIn(i) : results[c].sample.fields \in Seq(Nat)
  BY <1>1 DEF CountsInv, Countable
<1>5. QED
  BY <1>1, <1>3, <1>4, SumOfFields DEF Payload

LEMMA InitCountsInv ==
  ASSUME WriterInit
  PROVE  CountsInv
<1>1. archives = <<>> /\ results = <<>> /\ phase = "idle" /\ ~open
  BY DEF WriterInit
<1>2. Accepted = {}
  BY <1>1 DEF Accepted, Writes
<1>3. QED
  BY <1>1, <1>2 DEF CountsInv

(* A step that accepts nothing. *)
AcceptsNone ==
  /\ Accepted' = Accepted
  /\ \A c \in Accepted : results'[c] = results[c]

LEMMA SameAcceptsNone ==
  ASSUME results' = results
  PROVE  AcceptsNone
BY DEF AcceptsNone, Accepted, Writes

LEMMA ReportsAcceptsNone ==
  ASSUME WInv, NEW ok \in BOOLEAN, Reports(ok), op # "write" \/ ~ok
  PROVE  AcceptsNone
<1>1. /\ Writes' = IF op = "write" THEN Writes \cup {Now} ELSE Writes
      /\ \A c \in Writes : results'[c] = results[c]
      /\ results'[Now].ok = ok
  BY WritesAre
<1>2. Accepted' = {c \in Writes' : results'[c].ok}
  BY DEF Accepted
<1>3. Accepted' = Accepted
  BY <1>1, <1>2 DEF Accepted
<1>4. QED
  BY <1>1, <1>3 DEF AcceptsNone, Accepted

LEMMA AcceptsNoneIn ==
  ASSUME AcceptsNone, NEW i
  PROVE  /\ {c \in Accepted' : results'[c].into = i} = AcceptedIn(i)
         /\ \A c \in AcceptedIn(i) : results[c] = results'[c]
BY DEF AcceptsNone, AcceptedIn

(* A step that accepts nothing and leaves the archives with as many samples. *)
LEMMA CountsStay ==
  ASSUME WInv, CountsInv, AcceptsNone, DOMAIN archives' = DOMAIN archives,
         Len(archives') = Len(archives),
         \A i \in DOMAIN archives : archives'[i].left = archives[i].left \/ archives'[i].left # "write"
                                    \/ FullOf(results, AcceptedIn(i)),
         open' => open, count' = count, size' = size,
         phase' = "append" => phase = "append" \/ ~Limited,
         phase' = "finish" /\ op' = "write" /\ open' => Limited
  PROVE  CountsInv'
<1>1. \A i : /\ AcceptedIn(i)' = AcceptedIn(i)
             /\ \A c \in AcceptedIn(i) : results[c] = results'[c]
  BY AcceptsNoneIn DEF AcceptedIn
<1>2. \A c \in Accepted' : Countable(results[c])'
  BY DEF CountsInv, AcceptsNone, Countable
<1>3. Limited' <=> Limited
  BY DEF Limited
<1>4. AcceptedIn(Len(archives))' = AcceptedIn(Len(archives))
  BY DEF AcceptsNone, AcceptedIn
<1>5. ASSUME open' PROVE Counted(AcceptedIn(Len(archives)))'
  <2>1. PayloadIn(results', AcceptedIn(Len(archives))) = PayloadIn(results, AcceptedIn(Len(archives)))
    BY <1>1, PayloadInSame
  <2>2. QED
    BY <1>4, <1>5, <2>1 DEF CountsInv, Counted
<1>6. ASSUME NEW i \in DOMAIN archives'
      PROVE  Fills(archives'[i].left, results', AcceptedIn(i)')
  <2>1. Fills(archives[i].left, results, AcceptedIn(i))
    BY DEF CountsInv
  <2>2. Fills(archives'[i].left, results, AcceptedIn(i))
    BY <2>1 DEF Fills
  <2>3. QED
    BY <1>1, <2>2, FillsSame
<1>7. QED
  BY <1>2, <1>3, <1>4, <1>5, <1>6 DEF CountsInv

(* The sample that was written counts, *)
LEMMA WrittenCounts ==
  ASSUME WInv, CountsInv, Written
  PROVE  CountsInv'
<1> DEFINE n == Len(archives)
           C == AcceptedIn(n)
           new == C \cup {Now}
<1>1. /\ archives' = archives /\ open' = open /\ phase = "append" /\ phase' = "idle"
      /\ count' = count + 1 /\ size' = size + Payload(sample) /\ Reports(TRUE)
      /\ op = "write" /\ open
  BY ReturnReports DEF Written, WInv, Tallied
<1>2. /\ Writes' = Writes \cup {Now} /\ \A c \in Writes : results'[c] = results[c]
      /\ results'[Now].sample = sample /\ results'[Now].ok /\ results'[Now].into = n
  BY <1>1, WritesAre
<1>3. Accepted' = Accepted \cup {Now} /\ \A c \in Accepted : results'[c] = results[c]
  <2>1. Accepted' = {c \in Writes' : results'[c].ok}
    BY DEF Accepted
  <2>2. QED
    BY <1>2, <2>1 DEF Accepted
<1>4. AcceptedIn(n)' = {c \in Accepted' : results'[c].into = n}
  BY <1>1 DEF AcceptedIn
<1>5. AcceptedIn(n)' = new
  BY <1>2, <1>3, <1>4 DEF AcceptedIn
<1>6. ASSUME NEW i, i # n PROVE AcceptedIn(i)' = AcceptedIn(i)
  <2>1. AcceptedIn(i)' = {c \in Accepted' : results'[c].into = i}
    BY DEF AcceptedIn
  <2>2. QED
    BY <1>2, <1>3, <1>6, <2>1 DEF AcceptedIn
<1>7. sample.fields \in Seq(Nat) /\ Payload(sample) \in Nat /\ n \in DOMAIN archives
  BY <1>1, PayloadType, FieldsAre DEF Written, WInv, WriterTypeOK, Tallied
<1>8. /\ IsFiniteSet(C) /\ C \subseteq DOMAIN results
      /\ \A c \in C : Payload(results[c].sample) \in Nat
  BY AcceptedAre
<1>9. C \subseteq Accepted
  BY DEF AcceptedIn
<1>10. Now \notin C /\ Now \in Nat /\ \A c \in C : c \in Nat /\ c < Now
  BY <1>8, FieldsAre DEF Now
<1> HIDE DEF C
<1>11. /\ PayloadIn(results', new) = PayloadIn(results, C) + Payload(sample)
       /\ PayloadIn(results', C) = PayloadIn(results, C)
       /\ PayloadIn(results, C) \in Nat
  <2>1. \A c \in C : results'[c] = results[c]
    BY <1>3, <1>9
  <2>2. PayloadIn(results', C) = PayloadIn(results, C)
    BY <2>1, PayloadInSame
  <2>3. \A c \in C \cup {Now} : Payload(results'[c].sample) \in Nat
    BY <1>2, <1>7, <1>8, <2>1
  <2>4. PayloadIn(results', C \cup {Now}) = PayloadIn(results', C) + Payload(results'[Now].sample)
    BY <1>8, <1>10, <2>3, PayloadAdds
  <2>5. PayloadIn(results, C) \in Nat
    BY <1>8, PayloadIsNat
  <2>6. QED
    BY <1>2, <2>2, <2>4, <2>5
<1>12. Cardinality(new) = Cardinality(C) + 1 /\ Cardinality(C) \in Nat
  BY <1>8, <1>10, FS_AddElement, FS_CardinalityType
<1>13. count = Cardinality(C) /\ size = PayloadIn(results, C)
  BY <1>1 DEF CountsInv, Counted, C
<1>14. Counted(AcceptedIn(n))'
  <2>1. count' = Cardinality(new) /\ size' = PayloadIn(results', new)
    BY <1>1, <1>11, <1>12, <1>13
  <2>2. QED
    BY <1>5, <2>1 DEF Counted
<1>15. Before(new) = C
  <2>1. \A d \in C : ~ (Now < d)
    BY <1>10
  <2>2. ~ (Now < Now)
    BY <1>10
  <2>3. QED
    BY <1>10, <2>1, <2>2 DEF Before
<1>16. Fills(archives'[n].left, results', new)
  <2>1. archives[n].left = "open"
    BY <1>1, <1>7 DEF WInv, Tallied
  <2>2. ASSUME C # {} PROVE ~FullOf(results', C)
    <3>1. ~Limited
      BY <1>1, <2>2 DEF CountsInv, C
    <3>2. ~ (Cardinality(C) >= MaxCount) /\ ~ (PayloadIn(results, C) >= MaxSize)
      BY <1>13, <3>1 DEF Limited
    <3>3. QED
      BY <1>11, <3>2 DEF FullOf
  <2>3. QED
    BY <1>1, <1>15, <2>1, <2>2 DEF Fills
<1>17. ASSUME NEW i \in DOMAIN archives'
       PROVE  Fills(archives'[i].left, results', AcceptedIn(i)')
  <2>1. CASE i = n
    <3>1. AcceptedIn(i)' = {c \in Accepted' : results'[c].into = i}
      BY DEF AcceptedIn
    <3>2. AcceptedIn(i)' = new
      BY <1>4, <1>5, <2>1, <3>1
    <3>3. QED
      BY <1>16, <2>1, <3>2
  <2>2. CASE i # n
    <3>1. \A c \in AcceptedIn(i) : results'[c] = results[c]
      BY <1>3 DEF AcceptedIn
    <3>2. Fills(archives'[i].left, results, AcceptedIn(i))
      BY <1>1 DEF CountsInv
    <3>3. QED
      BY <1>6, <2>2, <3>1, <3>2, FillsSame
  <2>3. QED
    BY <2>1, <2>2
<1>18. \A c \in Accepted' : Countable(results[c])'
  BY <1>1, <1>2, <1>3, <1>7 DEF CountsInv, Countable
<1>19. AcceptedIn(Len(archives))' = AcceptedIn(n)'
  BY <1>1 DEF AcceptedIn
<1>20. QED
  BY <1>1, <1>14, <1>17, <1>18, <1>19 DEF CountsInv, Counted

(* and a new archive starts with none. *)
LEMMA CreateCounts ==
  ASSUME WInv, CountsInv, Create
  PROVE  CountsInv'
<1> DEFINE n == Len(archives')
<1>1. Opens(archives, archives') /\ count' = 0 /\ size' = 0 /\ phase = "create" /\ op' = op
  BY CreateOpens DEF Create
<1>2. /\ phase' \in {"append", "idle"} /\ AcceptsNone
  <2>1. \/ phase' = "append" /\ results' = results
        \/ op # "write" /\ phase' = "idle" /\ Reports(TRUE)
    BY <1>1, ReturnReports DEF Create, WInv, Tallied
  <2>2. QED
    BY <2>1, SameAcceptsNone, ReportsAcceptsNone
<1>3. /\ DOMAIN archives' = DOMAIN archives \cup {n} /\ n \notin DOMAIN archives
      /\ \A i \in DOMAIN archives : archives'[i] = archives[i]
      /\ archives'[n].left = "open"
  BY <1>1, OpensLeaves, FieldsAre DEF Opens, Newest
<1>4. \A i : /\ AcceptedIn(i)' = AcceptedIn(i)
             /\ \A c \in AcceptedIn(i) : results[c] = results'[c]
  BY <1>2, AcceptsNoneIn DEF AcceptedIn
<1>5. {c \in Accepted' : results'[c].into = n} = {}
  BY <1>2, <1>3 DEF CountsInv, Countable, AcceptsNone
<1>6. AcceptedIn(Len(archives))' = {} /\ AcceptedIn(Len(archives))' = {c \in Accepted' : results'[c].into = n}
  BY <1>5 DEF AcceptedIn
<1>7. Counted(AcceptedIn(Len(archives)))'
  BY <1>1, <1>6, PayloadOfNone, FS_EmptySet DEF Counted
<1>8. ASSUME NEW i \in DOMAIN archives'
      PROVE  Fills(archives'[i].left, results', AcceptedIn(i)')
  <2>1. CASE i = n
    <3>1. AcceptedIn(i)' = {}
      BY <1>5, <2>1 DEF AcceptedIn
    <3>2. QED
      BY <1>3, <2>1, <3>1 DEF Fills, Before
  <2>2. CASE i # n
    <3>1. Fills(archives'[i].left, results, AcceptedIn(i))
      BY <1>3, <2>2 DEF CountsInv
    <3>2. QED
      BY <1>4, <3>1, FillsSame
  <2>3. QED
    BY <2>1, <2>2
<1>9. \A c \in Accepted' : Countable(results[c])'
  BY <1>2, <1>3 DEF CountsInv, Countable, AcceptsNone
<1>10. QED
  BY <1>2, <1>6, <1>7, <1>8, <1>9 DEF CountsInv

(* An archive that is closed for a write is full. *)
LEMMA SealCounts ==
  ASSUME WInv, CountsInv, phase = "finish", open, AcceptsNone, NEW written \in BOOLEAN,
         Seals(archives, archives', written), open' = FALSE, count' = count, size' = size,
         phase' \notin {"append", "finish"}
  PROVE  CountsInv'
<1> DEFINE n == Len(archives)
<1>1. archives # <<>> /\ n \in DOMAIN archives
  BY FieldsAre DEF WInv, WriterTypeOK, Tallied
<1>2. DOMAIN archives' = DOMAIN archives /\ Len(archives') = n
  BY <1>1, SealsLeaves DEF Seals, Retouches
<1>3. archives'[n].left = op /\ \A i \in DOMAIN archives : i # n => archives'[i] = archives[i]
  BY <1>1, <1>2, FieldsAre DEF Seals, Retouches, Newest
<1>4. op = "write" => FullOf(results, AcceptedIn(n))
  BY DEF CountsInv, Counted, Limited, FullOf
<1>5. \A i \in DOMAIN archives : archives'[i].left = archives[i].left \/ archives'[i].left # "write"
                                 \/ FullOf(results, AcceptedIn(i))
  BY <1>3, <1>4
<1>6. QED
  BY <1>2, <1>5, CountsStay

LEMMA StepCountsInv ==
  ASSUME WInv, CountsInv, WriterNext
  PROVE  CountsInv'
<1>1. CASE (\E s \in Samples : Write(s)) \/ NextShard \/ End
  <2>1. /\ archives' = archives /\ results' = results /\ open' = open /\ count' = count /\ size' = size
        /\ (phase' = "append" => ~Limited)
        /\ (phase' = "finish" /\ op' = "write" /\ open => Limited)
    BY <1>1 DEF Write, NextShard, End, Begin, writer
  <2>2. QED
    BY <2>1, SameAcceptsNone, CountsStay
<1>2. CASE NothingOpen
  <2>1. AcceptsNone /\ phase' \in {"create", "gone"}
    BY <1>2, FinishedIs, SameAcceptsNone, ReportsAcceptsNone DEF NothingOpen
  <2>2. QED
    BY <1>2, <2>1, CountsStay DEF NothingOpen, writer
<1>3. CASE CloseArchive
  <2>1. PICK stored \in BOOLEAN : archives' = Sealed(TRUE, stored)
    BY <1>3 DEF CloseArchive
  <2>2. Seals(archives, archives', TRUE)
    BY <1>3, <2>1, SealedSeals DEF CloseArchive, WInv, Tallied
  <2>3. AcceptsNone /\ phase' \in {"post", "create", "gone"}
    BY <1>3, FinishedIs, SameAcceptsNone, ReportsAcceptsNone DEF CloseArchive
  <2>4. QED
    BY <1>3, <2>2, <2>3, SealCounts DEF CloseArchive
<1>4. CASE CloseFails
  <2>1. Seals(archives, archives', FALSE)
    BY <1>4, SealedSeals DEF CloseFails, WInv, Tallied
  <2>2. AcceptsNone /\ phase' \in {"idle", "gone"}
    BY <1>4, ReturnReports, ReportsAcceptsNone DEF CloseFails
  <2>3. QED
    BY <1>4, <2>1, <2>2, SealCounts DEF CloseFails
<1>5. CASE Post \/ CreateFails
  <2>1. AcceptsNone /\ phase' \in {"create", "gone", "idle"}
    BY <1>5, FinishedIs, ReturnReports, SameAcceptsNone, ReportsAcceptsNone DEF Post, CreateFails
  <2>2. archives' = archives /\ open' = open /\ count' = count /\ size' = size
    BY <1>5 DEF Post, CreateFails, writer
  <2>3. QED
    BY <2>1, <2>2, CountsStay
<1>6. CASE Create
  BY <1>6, CreateCounts
<1>7. CASE Written
  BY <1>7, WrittenCounts
<1>8. CASE AppendRefused \/ EncodeFails \/ NoKey
  <2>1. AcceptsNone /\ phase' = "idle"
    BY <1>8, ReturnReports, ReportsAcceptsNone
       DEF AppendRefused, EncodeFails, NoKey, Appending, WInv, Tallied
  <2>2. archives' = archives /\ open' = open /\ count' = count /\ size' = size
    BY <1>8 DEF AppendRefused, EncodeFails, NoKey, writer
  <2>3. QED
    BY <2>1, <2>2, CountsStay
<1>9. CASE AppendMember \/ AppendFails
  <2>1. PICK whole \in BOOLEAN : archives' = Appended(Member(whole)) /\ Appending
    BY <1>9 DEF AppendMember, AppendFails
  <2>2. AcceptsNone /\ phase' \in {"idle", "append"} /\ phase = "append"
    BY <1>9, ReturnReports, SameAcceptsNone, ReportsAcceptsNone
       DEF AppendMember, AppendFails, Appending, WInv, Tallied
  <2>3. open' = open /\ count' = count /\ size' = size
    BY <1>9 DEF AppendMember, AppendFails, writer
  <2>4. /\ Member(whole) \in Entry /\ archives # <<>>
        /\ Puts(archives, archives', Member(whole))
    BY <2>1, MemberPuts
  <2>5. DOMAIN archives' = DOMAIN archives /\ Len(archives') = Len(archives)
        /\ \A i \in DOMAIN archives : archives'[i].left = archives[i].left
    BY <2>4, PutsIs DEF Puts, Newest
  <2>6. QED
    BY <2>2, <2>3, <2>5, CountsStay
<1>10. CASE Gone
  <2>1. /\ archives' = archives /\ results' = results /\ open' = open /\ count' = count /\ size' = size
        /\ phase' = phase /\ op' = op /\ phase = "gone"
    BY <1>10 DEF Gone, writerVars, writer, call
  <2>2. QED
    BY <2>1, SameAcceptsNone, CountsStay
<1>11. QED
  BY <1>1, <1>2, <1>3, <1>4, <1>5, <1>6, <1>7, <1>8, <1>9, <1>10 DEF WriterNext

-----------------------------------------------------------------------------
WriterIInv == WInv /\ HookInv /\ CallsInv /\ InOrder /\ CountsInv

(* The writer's invariant holds of any samples, limits and failures. *)
THEOREM WriterInductive == WriterSpec => []WriterIInv
<1>1. WriterInit => WriterIInv
  <2>1. ASSUME WriterInit PROVE InOrder
    BY <2>1 DEF WriterInit, InOrder
  <2>2. QED
    BY <2>1, InitWInv, InitHookInv, InitCallsInv, InitCountsInv DEF WriterIInv
<1>2. WriterIInv /\ [WriterNext]_writerVars => WriterIInv'
  <2>1. ASSUME WriterIInv, WriterNext PROVE WriterIInv'
    BY <2>1, StepWInv, StepHookInv, StepCallsInv, StepInOrder, StepCountsInv DEF WriterIInv
  <2>2. ASSUME WriterIInv, UNCHANGED writerVars PROVE WriterIInv'
    <3>1. WInv'
      BY <2>2 DEF WriterIInv, writerVars, writer, call, WInv, WriterTypeOK, Tallied, Encoded
    <3>2. HookInv'
      BY <2>2 DEF WriterIInv, writerVars, writer, call, HookInv, Numbered, Trailed, Told, Hooks,
                  Called, Complete, Rank
    <3>3. CallsInv'
      BY <2>2 DEF WriterIInv, writerVars, writer, call, CallsInv, Writes, Now
    <3>4. CountsInv'
      <4>1. /\ archives' = archives /\ results' = results /\ open' = open /\ count' = count
            /\ size' = size /\ phase' = phase /\ op' = op
        BY <2>2 DEF writerVars, writer, call
      <4>2. QED
        BY <2>2, <4>1, SameAcceptsNone, CountsStay DEF WriterIInv, CountsInv
    <3>5. InOrder'
      BY <2>2 DEF WriterIInv, writerVars, InOrder
    <3>6. QED
      BY <3>1, <3>2, <3>3, <3>4, <3>5 DEF WriterIInv
  <2>3. QED
    BY <2>1, <2>2
<1>3. QED
  BY <1>1, <1>2, PTL DEF WriterSpec

(* A write that returned Ok handed its whole sample to one archive, in      *)
(* order, and a reader finds it there unless an earlier write returned an   *)
(* error that left a member cut off before it (TarWriter::write).           *)
THEOREM WriterAccepted == WriterSpec => []AcceptedAreWhole
<1>1. WriterIInv => AcceptedAreWhole
  <2>1. SUFFICES ASSUME WriterIInv PROVE AcceptedAreWhole
    OBVIOUS
  <2>2. \A i, c : MembersOf(i, c) = In(archives[i].members, c)
    BY DEF MembersOf, In
  <2>3. \A c \in Writes : Answered(archives, c, results[c])
    BY <2>1 DEF WriterIInv, CallsInv
  <2>4. ASSUME NEW c \in Writes, results[c].ok, results[c].into \in DOMAIN archives
        PROVE  \/ In(archives[results[c].into].members, c) \subseteq Readable(results[c].into)
               \/ \E d \in CutOff(results[c].into) \cap (Writes \ Accepted) : d < c
    <3>1. c \in Accepted
      BY <2>4 DEF Accepted
    <3>2. QED
      BY <2>1, <2>4, <3>1, BehindTheCut DEF WriterIInv
  <2>5. ASSUME NEW c \in Writes, results[c].into \in DOMAIN archives
        PROVE  LET r == results[c]
                   members == archives[r.into].members
                   mine == In(members, c)
                   n == Len(r.sample.fields)
                   whole == {k \in mine : members[k].whole}
               IN /\ \A k \in mine : members[k].field = Rank(mine, k)
                  /\ \A k \in mine \ whole : ~r.ok /\ \A j \in mine : j <= k
                  /\ Cardinality(mine) <= n
                  /\ Cardinality(whole) = n <=> r.ok \/ n = 0
    BY <2>3, <2>5 DEF Answered, Fits, Ranked, Whole
  <2>6. \A c \in Writes : /\ \A i \in DOMAIN archives \ {results[c].into} : In(archives[i].members, c) = {}
                          /\ results[c].ok => results[c].into \in DOMAIN archives
    BY <2>3 DEF Answered, Elsewhere
  <2>7. QED
    BY <2>1, <2>2, <2>4, <2>5, <2>6 DEF WriterIInv, WInv, AcceptedAreWhole
<1>2. QED
  BY <1>1, WriterInductive, PTL

(* An archive takes no sample beyond its limits, and is left before them    *)
(* only for next_shard or close (ShardWriter::write).                       *)
THEOREM WriterFillsUp == WriterSpec => []ShardsFillUp
<1>1. WriterIInv => ShardsFillUp
  BY FillsUp DEF WriterIInv
<1>2. QED
  BY <1>1, WriterInductive, PTL

(* The hook is called once on every archive with its trailer, in order, and *)
(* a writer that was never told of an error has finished every archive.     *)
THEOREM WriterHooks == WriterSpec => []HookedOnce
<1>1. WriterIInv => HookedOnce
  <2>1. SUFFICES ASSUME WriterIInv PROVE HookedOnce
    OBVIOUS
  <2>2. ASSUME phase = "gone", Told PROVE Complete = DOMAIN archives
    BY <2>1, <2>2 DEF WriterIInv, WInv, Tallied, HookInv, Trailed, Complete
  <2>3. QED
    BY <2>1, <2>2 DEF WriterIInv, HookInv, Numbered, Hooks, Called, Complete, Told, HookedOnce
<1>2. QED
  BY <1>1, WriterInductive, PTL
=============================================================================
