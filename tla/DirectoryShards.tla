--------------------------- MODULE DirectoryShards ---------------------------
(***************************************************************************)
(* DirectoryShardList (crates/webdataset/src/shardlists.rs): processes that *)
(* share a directory, each running iterators that claim shards by renaming *)
(* them to <name>._<pid>_, dispose of a shard when the next one is asked   *)
(* for, and then recover the claims of processes that have exited.         *)
(*                                                                         *)
(* A shard is one file: what changes is the name it goes by, so `place`    *)
(* says for each shard which of its names exists.  Each system call (the   *)
(* glob, the stat of its results, a rename, read_dir, the pid probe) is a  *)
(* step of its own.  All iterators have the same settings.  Pids are not   *)
(* reused.                                                                 *)
(***************************************************************************)
EXTENDS Integers, FiniteSets

CONSTANTS
  Shards,
  Procs,       (* the processes; one that has exited may be started again *)
  Readers,     (* the iterators, over the workers of every process        *)
  Owner,       (* Owner[r]: the process iterator r runs in                *)
  Pids,
  FirstPid,    (* FirstPid[p]: the pid p begins with                      *)
  Disposals,   (* the settings that are tried                             *)
  MaxCrashes   (* bound: how many processes exit                          *)

ASSUME DirectoryAssumption ==
  /\ Owner \in [Readers -> Procs]
  /\ FirstPid \in [Procs -> Pids]
  /\ \A p, q \in Procs : FirstPid[p] = FirstPid[q] => p = q
  /\ Disposals \subseteq {"resample", "keep", "unlink"}
  /\ MaxCrashes \in Nat

VARIABLES
  disposal, poll,  (* the settings; never change                             *)
  place,    (* place[s]: the name shard s goes by                            *)
  pid,      (* pid[p]: the process's id                                      *)
  alive,    (* the processes that are running                                *)
  spent,    (* the pids of processes that have exited                        *)
  pc,       (* pc[r]: where iterator r is in next()                          *)
  claimed,  (* claimed[r]: the shard to dispose of, as a set of at most one  *)
  listed,   (* listed[r]: glob's results, then the one chosen                *)
  entries,  (* entries[r]: the claims recover_abandoned has still to look at *)
  target,   (* target[r]: the one of them it found without a process         *)
  handed    (* history: how often a shard has been returned, up to 2         *)

settings == <<disposal, poll>>
system == <<pid, alive, spent>>
vars == <<settings, place, system, pc, claimed, listed, entries, target, handed>>

Name(state) == [state |-> state, by |-> 0]
Claim(q) == [state |-> "claimed", by |-> q]
Places == {Name(s) : s \in {"absent", "plain", "done", "deleted"}}
            \cup {Claim(q) : q \in Pids}

Plain == {s \in Shards : place[s] = Name("plain")}
Entries == [shard : Shards, by : Pids]
Running(q) == \E p \in alive : pid[p] = q
Runs(r) == Owner[r] \in alive
Pid(r) == pid[Owner[r]]

Init ==
  /\ disposal \in Disposals /\ poll \in BOOLEAN
  /\ place = [s \in Shards |-> Name("absent")]
  /\ pid = FirstPid
  /\ alive = Procs /\ spent = {}
  /\ pc = [r \in Readers |-> "idle"]
  /\ claimed = [r \in Readers |-> {}]
  /\ listed = [r \in Readers |-> {}]
  /\ entries = [r \in Readers |-> {}]
  /\ target = [r \in Readers |-> {}]
  /\ handed = [s \in Shards |-> 0]

At(r, where) == Runs(r) /\ pc[r] = where
Goto(r, where) == pc' = [pc EXCEPT ![r] = where]

-----------------------------------------------------------------------------
(* Disposal of a claim: a remove or a rename that fails, with a warning,   *)
(* when the claim is not there any more.                                   *)

(* Mutant: a kept shard goes back under its own name. *)
DisposedButReturned ==
  IF disposal = "unlink" THEN Name("deleted") ELSE Name("plain")

Disposed ==
  CASE disposal = "unlink" -> Name("deleted")
    [] disposal = "keep" -> Name("done")
    [] disposal = "resample" -> Name("plain")

Dispose(s, q) ==
  place' = IF place[s] = Claim(q) THEN [place EXCEPT ![s] = Disposed] ELSE place

-----------------------------------------------------------------------------
(* next().                                                                 *)

(* An epoch begins: the stage is applied anew and asked for a first shard. *)
Call(r) ==
  /\ At(r, "idle")
  /\ Goto(r, "loop")
  /\ UNCHANGED <<settings, place, system, claimed, listed, entries, target,
                 handed>>

(* if let Some(previous) = claimed.take() { dispose; recover } *)
CallAgain(r) ==
  /\ At(r, "finished")
  /\ \E s \in claimed[r] : Dispose(s, Pid(r))
  /\ claimed' = [claimed EXCEPT ![r] = {}]
  /\ Goto(r, "recover")
  /\ UNCHANGED <<settings, system, listed, entries, target, handed>>

ReadDir(r) ==
  /\ At(r, "recover")
  /\ entries' = [entries EXCEPT ![r] =
       {e \in Entries : place[e.shard] = Claim(e.by)}]
  /\ Goto(r, "inspect")
  /\ UNCHANGED <<settings, place, system, claimed, listed, target, handed>>

(* Mutant: the scan returns at the first claim of a running process. *)
InspectReturns(r) ==
  /\ At(r, "inspect")
  /\ \E e \in entries[r] :
       /\ entries' = [entries EXCEPT ![r] = IF Running(e.by) THEN {} ELSE @ \ {e}]
       /\ target' = [target EXCEPT ![r] = IF Running(e.by) THEN {} ELSE {e}]
       /\ Goto(r, IF Running(e.by) THEN "inspect" ELSE "dispose")
  /\ UNCHANGED <<settings, place, system, claimed, listed, handed>>

(* Mutant: every claim counts as abandoned. *)
InspectAny(r) ==
  /\ At(r, "inspect")
  /\ \E e \in entries[r] :
       /\ entries' = [entries EXCEPT ![r] = @ \ {e}]
       /\ target' = [target EXCEPT ![r] = {e}]
       /\ Goto(r, "dispose")
  /\ UNCHANGED <<settings, place, system, claimed, listed, handed>>

(* process_is_running of one entry's pid, as it is at this moment. *)
Inspect(r) ==
  /\ At(r, "inspect")
  /\ \E e \in entries[r] :
       /\ entries' = [entries EXCEPT ![r] = @ \ {e}]
       /\ target' = [target EXCEPT ![r] = IF Running(e.by) THEN {} ELSE {e}]
       /\ Goto(r, IF Running(e.by) THEN "inspect" ELSE "dispose")
  /\ UNCHANGED <<settings, place, system, claimed, listed, handed>>

DisposeAbandoned(r) ==
  /\ At(r, "dispose")
  /\ \E e \in target[r] : Dispose(e.shard, e.by)
  /\ target' = [target EXCEPT ![r] = {}]
  /\ Goto(r, "inspect")
  /\ UNCHANGED <<settings, system, claimed, listed, entries, handed>>

Recovered(r) ==
  /\ At(r, "inspect")
  /\ entries[r] = {}
  /\ Goto(r, "loop")
  /\ UNCHANGED <<settings, place, system, claimed, listed, entries, target,
                 handed>>

(* start.elapsed() > timeout.  The clock starts with the iterator and is *)
(* never reset, so that it may have run out whenever it is looked at.    *)
TimeOut(r) ==
  /\ At(r, "loop")
  /\ Goto(r, "idle")
  /\ UNCHANGED <<settings, place, system, claimed, listed, entries, target,
                 handed>>

Glob(r) ==
  /\ At(r, "loop")
  /\ listed' = [listed EXCEPT ![r] = Plain]
  /\ Goto(r, "choose")
  /\ UNCHANGED <<settings, place, system, claimed, entries, target, handed>>

(* is_file: what glob found may have been renamed since. *)
Candidates(r) == listed[r] \cap Plain

(* One at random; the newest of them, if so set, is one of these. *)
Choose(r) ==
  /\ At(r, "choose")
  /\ \E s \in Candidates(r) :
       listed' = [listed EXCEPT ![r] = {s}]
  /\ Goto(r, "claim")
  /\ UNCHANGED <<settings, place, system, claimed, entries, target, handed>>

(* Mutant: the directory is polled whatever the setting. *)
EmptyPolls(r) ==
  /\ At(r, "choose")
  /\ Candidates(r) = {}
  /\ listed' = [listed EXCEPT ![r] = {}]
  /\ Goto(r, "loop")
  /\ UNCHANGED <<settings, place, system, claimed, entries, target, handed>>

Empty(r) ==
  /\ At(r, "choose")
  /\ Candidates(r) = {}
  /\ listed' = [listed EXCEPT ![r] = {}]
  /\ Goto(r, IF poll THEN "loop" ELSE "idle")
  /\ UNCHANGED <<settings, place, system, claimed, entries, target, handed>>

More(n) == IF n < 2 THEN n + 1 ELSE n

Win(r, s) ==
  /\ place' = [place EXCEPT ![s] = Claim(Pid(r))]
  /\ claimed' = [claimed EXCEPT ![r] = {s}]
  /\ handed' = [handed EXCEPT ![s] = More(@)]
  /\ Goto(r, "holding")

(* Mutant: the shard is returned though the rename failed. *)
RenameUnchecked(r) ==
  /\ At(r, "claim")
  /\ \E s \in listed[r] :
       /\ place' = IF s \in Plain THEN [place EXCEPT ![s] = Claim(Pid(r))] ELSE place
       /\ claimed' = [claimed EXCEPT ![r] = {s}]
       /\ handed' = [handed EXCEPT ![s] = More(@)]
  /\ Goto(r, "holding")
  /\ listed' = [listed EXCEPT ![r] = {}]
  /\ UNCHANGED <<settings, system, entries, target>>

(* "Renaming is the claim: only one process can win it." *)
Rename(r) ==
  /\ At(r, "claim")
  /\ \/ \E s \in listed[r] \cap Plain : Win(r, s)
     \/ /\ listed[r] \cap Plain = {}
        /\ Goto(r, "loop")
        /\ UNCHANGED <<place, claimed, handed>>
  /\ listed' = [listed EXCEPT ![r] = {}]
  /\ UNCHANGED <<settings, system, entries, target>>

-----------------------------------------------------------------------------
(* Around next(): its consumer, the processes, the directory.   *)

(* The consumer reads the shard to its end, or gives it up (expand, group). *)
Finish(r) ==
  /\ At(r, "holding")
  /\ Goto(r, "finished")
  /\ UNCHANGED <<settings, place, system, claimed, listed, entries, target,
                 handed>>

(* An iterator dropped between two calls leaves its claim as it is. *)
Leave(r) ==
  /\ Runs(r) /\ pc[r] \in {"holding", "finished"}
  /\ claimed' = [claimed EXCEPT ![r] = {}]
  /\ Goto(r, "idle")
  /\ UNCHANGED <<settings, place, system, listed, entries, target, handed>>

Exit(p) ==
  /\ p \in alive
  /\ Cardinality(spent) < MaxCrashes
  /\ alive' = alive \ {p}
  /\ spent' = spent \cup {pid[p]}
  /\ LET own == {r \in Readers : Owner[r] = p}
         none(f) == [r \in Readers |-> IF r \in own THEN {} ELSE f[r]]
     IN /\ pc' = [r \in Readers |-> IF r \in own THEN "idle" ELSE pc[r]]
        /\ claimed' = none(claimed) /\ listed' = none(listed)
        /\ entries' = none(entries) /\ target' = none(target)
  /\ UNCHANGED <<settings, place, pid, handed>>

Start(p) ==
  /\ p \notin alive
  /\ alive' = alive \cup {p}
  /\ \E q \in Pids \ (spent \cup {pid[o] : o \in alive}) :
       pid' = [pid EXCEPT ![p] = q]
  /\ UNCHANGED <<settings, place, spent, pc, claimed, listed, entries, target,
                 handed>>

Arrive(s) ==
  /\ place[s] = Name("absent")
  /\ place' = [place EXCEPT ![s] = Name("plain")]
  /\ UNCHANGED <<settings, system, pc, claimed, listed, entries, target,
                 handed>>

-----------------------------------------------------------------------------
NextStep(r) ==
  ReadDir(r) \/ Inspect(r) \/ DisposeAbandoned(r) \/ Recovered(r)
    \/ TimeOut(r) \/ Glob(r) \/ Choose(r) \/ Empty(r) \/ Rename(r)

ConsumerStep(r) ==
  Call(r) \/ CallAgain(r) \/ Finish(r) \/ Leave(r)

Next ==
  \/ \E r \in Readers : NextStep(r) \/ ConsumerStep(r)
  \/ \E p \in Procs : Exit(p) \/ Start(p)
  \/ \E s \in Shards : Arrive(s)

Spec == Init /\ [][Next]_vars

(* A call of next() in a running process runs on; nothing else has to happen. *)
FairSpec == Spec /\ \A r \in Readers : WF_vars(NextStep(r))

-----------------------------------------------------------------------------
Inside == {"recover", "inspect", "dispose", "loop", "choose", "claim"}

TypeOK ==
  /\ disposal \in Disposals /\ poll \in BOOLEAN
  /\ place \in [Shards -> Places]
  /\ pid \in [Procs -> Pids] /\ alive \subseteq Procs /\ spent \subseteq Pids
  /\ pc \in [Readers -> {"idle", "holding", "finished"} \cup Inside]
  /\ claimed \in [Readers -> SUBSET Shards]
  /\ listed \in [Readers -> SUBSET Shards]
  /\ entries \in [Readers -> SUBSET Entries]
  /\ target \in [Readers -> SUBSET Entries]
  /\ handed \in [Shards -> 0..2]
  /\ \A r \in Readers :
       (pc[r] \in {"holding", "finished"}) <=> (claimed[r] # {})

(* "Exactly one process can win the rename": a shard an iterator was given *)
(* stays under its process's name until that iterator disposes of it, so   *)
(* no other iterator, recovering or scanning, can take or delete it.       *)
HolderOwnsItsShard ==
  /\ \A r \in Readers : \A s \in claimed[r] : place[s] = Claim(Pid(r))
  /\ \A r, t \in Readers : r # t => claimed[r] \cap claimed[t] = {}

(* A shard that is not to be resampled is returned by one next() of one    *)
(* process, whoever exits, recovers or restarts meanwhile (Disposal::Keep, *)
(* "so it is not picked up again", and Unlink).                            *)
NotPickedUpAgain ==
  disposal # "resample" => \A s \in Shards : handed[s] < 2

(* No claim of a running process is touched by another process. *)
ClaimsOfTheLivingStay ==
  [][\A s \in Shards, q \in Pids :
       place[s] = Claim(q) /\ place'[s] # Claim(q) =>
         \/ ~Running(q)
         \/ \E r \in Readers : Pid(r) = q /\ At(r, "finished") /\ s \in claimed[r]]_vars

(* Once recover_abandoned starts in a process that survives it, every claim *)
(* that was then without a process is gone, whichever other processes       *)
(* recover at the same time.                                                *)
AbandonedIsRecovered ==
  \A r \in Readers, q \in Pids :
    At(r, "recover") /\ ~Running(q)
      ~> ~Runs(r) \/ \A s \in Shards : place[s] # Claim(q)

(* Without polling a call of next() returns, however often other iterators *)
(* win the rename, if shards do not come back.                             *)
NextReturns ==
  \A r \in Readers :
    ~poll /\ disposal # "resample" /\ pc[r] \in Inside ~> pc[r] \notin Inside
=============================================================================
