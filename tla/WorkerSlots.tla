----------------------------- MODULE WorkerSlots -----------------------------
(***************************************************************************)
(* The lock-free slot table that holds worker identities in a no_std build *)
(* with threads (crates/webdataset-core/src/workers.rs).  A context is     *)
(* known by the token its host supplies; a slot is claimed by exchanging   *)
(* its token, and the table falls back to a shared pair of globals when no *)
(* slot is free or no hook tells contexts apart.                           *)
(*                                                                         *)
(* Each load, store and exchange that another context could come between   *)
(* is a step.  Cell 0 is the global pair.  The search for a context's own  *)
(* token is one step: only that context stores it or takes it away.        *)
(***************************************************************************)
EXTENDS Integers, Sequences, FiniteSets

CONSTANTS
  Contexts,    (* execution contexts, each with a token of its own         *)
  MaxThreads,  (* MAX_THREADS: the slots are 1..MaxThreads                 *)
  Identities,  (* Identities[c]: what c binds, [worker, num], num >= 1     *)
  Unset,       (* UNSET, no token and no worker                            *)
  Callers,     (* bound: the contexts whose bodies call anything but      *)
               (* with_worker: set_worker, clear_worker or current        *)
  MaxDepth     (* MaxDepth[c], bound: with_worker within with_worker       *)

ASSUME SlotsAssumption ==
  /\ IsFiniteSet(Contexts)
  /\ MaxThreads \in Nat \ {0}
  /\ Identities \in [Contexts -> SUBSET [worker : Nat, num : Nat \ {0}]]
  /\ Unset \notin Nat /\ Unset \notin Contexts
  /\ Callers \subseteq Contexts
  /\ MaxDepth \in [Contexts -> Nat]

VARIABLES
  hooked,  (* the thread id hook is installed; does not change              *)
  live,    (* the contexts that run at all; does not change                 *)
  token, worker, num,  (* the atomics of the slots                          *)
  pc,      (* pc[c]: the step of replace or current that is next, or "run"  *)
  op,      (* op[c]: the function c called                                  *)
  next,    (* next[c]: the identity that replace is to bind                 *)
  cell,    (* cell[c]: the slot c is looking at or has found                *)
  prev,    (* prev[c]: what it found bound, as far as it is loaded          *)
  scopes,  (* scopes[c]: `previous` of every with_worker c is in            *)
  own,     (* history: what c's own calls have bound last                   *)
  seen     (* seen[c]: what current() returned, {} if it was not called last *)

table == <<token, worker, num>>
locals == <<next, cell, prev>>
vars == <<hooked, live, table, pc, op, locals, scopes, own, seen>>

Slots == 1..MaxThreads
None == [worker |-> Unset, num |-> 1]
Bound(c) == Identities[c] \cup {None}

Init ==
  /\ hooked \in BOOLEAN
  /\ live \in SUBSET Contexts \ {{}}
  /\ token = [s \in Slots |-> Unset]
  /\ worker = [s \in 0..MaxThreads |-> Unset]
  /\ num = [s \in 0..MaxThreads |-> 1]
  /\ pc = [c \in Contexts |-> "run"]
  /\ op = [c \in Contexts |-> "none"]
  /\ next = [c \in Contexts |-> None]
  /\ cell = [c \in Contexts |-> 0]
  /\ prev = [c \in Contexts |-> None]
  /\ scopes = [c \in Contexts |-> <<>>]
  /\ own = [c \in Contexts |-> None]
  /\ seen = [c \in Contexts |-> {}]

Held(c) == {s \in Slots : token[s] = c}

(* As many slots as contexts, or a single context that needs no hook. *)
Room ==
  IF hooked THEN Cardinality(live) <= MaxThreads
  ELSE \E c \in Contexts : live = {c}

-----------------------------------------------------------------------------
(* A call of replace or current begins: the global pair without a hook, the *)
(* slot with the token, or else, in replace, the claim of one.              *)

Goto(c, where) == pc' = [pc EXCEPT ![c] = where]

Look(c) ==
  IF ~hooked THEN cell' = [cell EXCEPT ![c] = 0]
  ELSE \E s \in Held(c) : cell' = [cell EXCEPT ![c] = s]

Begin(c, o, id) ==
  /\ pc[c] = "run" /\ c \in live
  /\ op' = [op EXCEPT ![c] = o]
  /\ next' = [next EXCEPT ![c] = id]
  /\ \/ /\ Look(c)
        /\ Goto(c, "loadWorker")
     \/ /\ hooked /\ Held(c) = {}
        /\ cell' = [cell EXCEPT ![c] = 1]
        /\ Goto(c, "claim")
  /\ UNCHANGED <<hooked, live, table, prev, scopes, own, seen>>

(* with_worker: before its body, and after it. *)
Enter(c) ==
  /\ Len(scopes[c]) < MaxDepth[c]
  /\ \E id \in Identities[c] : Begin(c, "enter", id)

Leave(c) ==
  /\ scopes[c] # <<>>
  /\ Begin(c, "leave", scopes[c][Len(scopes[c])])

(* set_worker and clear_worker. *)
Rebind(c) == c \in Callers /\ \E id \in Bound(c) : Begin(c, "rebind", id)

(* current(): `find(token)?` returns None at once. *)
Ask(c) ==
  /\ pc[c] = "run" /\ c \in live /\ c \in Callers
  /\ \/ /\ Look(c)
        /\ op' = [op EXCEPT ![c] = "current"]
        /\ Goto(c, "loadWorker")
        /\ UNCHANGED seen
     \/ /\ hooked /\ Held(c) = {}
        /\ seen' = [seen EXCEPT ![c] = {None}]
        /\ UNCHANGED <<pc, op, cell>>
  /\ UNCHANGED <<hooked, live, table, next, prev, scopes, own>>

-----------------------------------------------------------------------------
(* The call is over, and its local variables with it. *)
Over(c) ==
  /\ Goto(c, "run")
  /\ op' = [op EXCEPT ![c] = "none"]
  /\ next' = [next EXCEPT ![c] = None]
  /\ cell' = [cell EXCEPT ![c] = 0]
  /\ prev' = [prev EXCEPT ![c] = None]

(* Mutant: the last slot is never tried. *)
ClaimAllButLast(c) ==
  /\ pc[c] = "claim"
  /\ IF token[cell[c]] = Unset /\ cell[c] < MaxThreads
     THEN /\ token' = [token EXCEPT ![cell[c]] = c]
          /\ Goto(c, "loadWorker")
          /\ UNCHANGED cell
     ELSE /\ cell' = [cell EXCEPT ![c] = IF @ < MaxThreads THEN @ + 1 ELSE 0]
          /\ Goto(c, IF cell[c] < MaxThreads THEN "claim" ELSE "loadWorker")
          /\ UNCHANGED token
  /\ UNCHANGED <<hooked, live, worker, num, op, next, prev, scopes, own, seen>>

(* compare_exchange on one slot after the other, then the global pair. *)
Claim(c) ==
  /\ pc[c] = "claim"
  /\ IF token[cell[c]] = Unset
     THEN /\ token' = [token EXCEPT ![cell[c]] = c]
          /\ Goto(c, "loadWorker")
          /\ UNCHANGED cell
     ELSE /\ cell' = [cell EXCEPT ![c] = IF @ < MaxThreads THEN @ + 1 ELSE 0]
          /\ Goto(c, IF cell[c] < MaxThreads THEN "claim" ELSE "loadWorker")
          /\ UNCHANGED token
  /\ UNCHANGED <<hooked, live, worker, num, op, next, prev, scopes, own, seen>>

LoadWorker(c) ==
  /\ pc[c] = "loadWorker"
  /\ LET w == worker[cell[c]]
     IN /\ prev' = [prev EXCEPT ![c] = [worker |-> w, num |-> 1]]
        /\ Goto(c, IF w = Unset THEN "loaded" ELSE "loadNum")
  /\ UNCHANGED <<hooked, live, table, op, next, cell, scopes, own, seen>>

LoadNum(c) ==
  /\ pc[c] = "loadNum"
  /\ prev' = [prev EXCEPT ![c].num = num[cell[c]]]
  /\ Goto(c, "loaded")
  /\ UNCHANGED <<hooked, live, table, op, next, cell, scopes, own, seen>>

(* current() returns. *)
Answer(c) ==
  /\ pc[c] = "loaded" /\ op[c] = "current"
  /\ seen' = [seen EXCEPT ![c] = {prev[c]}]
  /\ Over(c)
  /\ UNCHANGED <<hooked, live, table, scopes, own>>

Replacing(c) == pc[c] = "loaded" /\ op[c] # "current"

StoreNum(c) ==
  /\ Replacing(c)
  /\ next[c] # None \/ cell[c] = 0
  /\ num' = [num EXCEPT ![cell[c]] = next[c].num]
  /\ Goto(c, "storeWorker")
  /\ UNCHANGED <<hooked, live, token, worker, op, locals, scopes, own, seen>>

(* Mutant: the slot is given away with the identity still in it. *)
ForgetNothing(c) ==
  /\ Replacing(c)
  /\ next[c] = None /\ cell[c] # 0
  /\ Goto(c, "release")
  /\ UNCHANGED <<hooked, live, table, op, locals, scopes, own, seen>>

Forget(c) ==
  /\ Replacing(c)
  /\ next[c] = None /\ cell[c] # 0
  /\ worker' = [worker EXCEPT ![cell[c]] = Unset]
  /\ Goto(c, "release")
  /\ UNCHANGED <<hooked, live, token, num, op, locals, scopes, own, seen>>

(* replace returns `previous`, which with_worker keeps until its body ends. *)
Return(c) ==
  /\ Over(c)
  /\ own' = [own EXCEPT ![c] = next[c]]
  /\ scopes' = [scopes EXCEPT ![c] =
       CASE op[c] = "enter" -> Append(@, prev[c])
         [] op[c] = "leave" -> SubSeq(@, 1, Len(@) - 1)
         [] OTHER -> @]
  /\ seen' = [seen EXCEPT ![c] = {}]
  /\ UNCHANGED <<hooked, live>>

StoreWorker(c) ==
  /\ pc[c] = "storeWorker"
  /\ worker' = [worker EXCEPT ![cell[c]] = next[c].worker]
  /\ Return(c)
  /\ UNCHANGED <<token, num>>

(* Mutant: the slot is not given back. *)
ReleaseNothing(c) ==
  /\ pc[c] = "release"
  /\ Return(c)
  /\ UNCHANGED table

Release(c) ==
  /\ pc[c] = "release"
  /\ token' = [token EXCEPT ![cell[c]] = Unset]
  /\ Return(c)
  /\ UNCHANGED <<worker, num>>

-----------------------------------------------------------------------------
CallStep(c) ==
  Claim(c) \/ LoadWorker(c) \/ LoadNum(c) \/ Answer(c) \/ StoreNum(c)
    \/ Forget(c) \/ StoreWorker(c) \/ Release(c)

BodyStep(c) == Enter(c) \/ Leave(c) \/ Rebind(c) \/ Ask(c)

Next == \E c \in Contexts : BodyStep(c) \/ CallStep(c)

(* A program as the module comment asks for it. *)
RoomInit == Init /\ Room
RoomSpec == RoomInit /\ [][Next]_vars

-----------------------------------------------------------------------------
Steps == {"run", "claim", "loadWorker", "loadNum", "loaded", "storeWorker",
          "release"}

Ident == [worker : Nat \cup {Unset}, num : Nat]

TypeOK ==
  /\ hooked \in BOOLEAN /\ live \in SUBSET Contexts
  /\ token \in [Slots -> Contexts \cup {Unset}]
  /\ \A s, t \in Slots : token[s] = token[t] => s = t \/ token[s] = Unset
  /\ worker \in [0..MaxThreads -> Nat \cup {Unset}]
  /\ num \in [0..MaxThreads -> Nat]
  /\ pc \in [Contexts -> Steps]
  /\ op \in [Contexts -> {"none", "enter", "leave", "rebind", "current"}]
  /\ next \in [Contexts -> Ident]
  /\ cell \in [Contexts -> 0..MaxThreads]
  /\ prev \in [Contexts -> Ident]
  /\ scopes \in [Contexts -> Seq(Ident)]
  /\ own \in [Contexts -> Ident]
  /\ seen \in [Contexts -> SUBSET Ident]

(* With a slot for every context no claim comes out empty-handed: however  *)
(* slots are given back and taken again behind the search, it ends at one, *)
(* and the shared identity is never touched.                               *)
EverySearchFinds ==
  hooked /\ Cardinality(live) <= MaxThreads =>
    \A c \in live : pc[c] # "run" => cell[c] # 0

(* "Release the slot so a later context can reuse it": a context that is   *)
(* not in a call has a slot exactly while an identity is bound to it.      *)
SlotsAreReturned ==
  hooked => \A c \in live : pc[c] = "run" => (Held(c) # {} <=> own[c] # None)

Local == INSTANCE ThreadLocal

(* The table is as good as a thread-local: a context sees what it bound    *)
(* itself, and "the identity is restored afterwards, so nesting works".    *)
KeepsContextsApart == Local!Spec
=============================================================================
