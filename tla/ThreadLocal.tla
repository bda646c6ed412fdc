----------------------------- MODULE ThreadLocal -----------------------------
(***************************************************************************)
(* Worker identities as the std build keeps them (crates/webdataset-core/  *)
(* src/workers.rs): a thread-local that replace swaps and current reads,   *)
(* and with_worker, set_worker and clear_worker on top of it.  This is     *)
(* what the slot table of the no_std build (WorkerSlots) has to amount to. *)
(***************************************************************************)
EXTENDS Integers, Sequences

CONSTANTS
  Contexts,    (* the threads                                              *)
  Identities,  (* Identities[c]: the pairs of a worker and a number of      *)
               (* workers that are bound in thread c                       *)
  None,        (* no identity                                              *)
  Callers,     (* bound: the contexts whose bodies call anything but      *)
               (* with_worker: set_worker, clear_worker or current        *)
  MaxDepth     (* MaxDepth[c], bound: with_worker within with_worker       *)

VARIABLES
  own,     (* own[c]: CURRENT of thread c                                  *)
  scopes,  (* scopes[c]: `previous` of every with_worker it is in          *)
  seen     (* seen[c]: what current() returned, {} if not called last       *)

vars == <<own, scopes, seen>>

Bound(c) == Identities[c] \cup {None}

Init ==
  /\ own = [c \in Contexts |-> None]
  /\ scopes = [c \in Contexts |-> <<>>]
  /\ seen = [c \in Contexts |-> {}]

Replace(c, next) ==
  /\ own' = [own EXCEPT ![c] = next]
  /\ seen' = [seen EXCEPT ![c] = {}]

(* with_worker up to its body. *)
Enter(c) ==
  /\ Len(scopes[c]) < MaxDepth[c]
  /\ \E id \in Identities[c] : Replace(c, id)
  /\ scopes' = [scopes EXCEPT ![c] = Append(@, own[c])]

(* with_worker after its body. *)
Leave(c) ==
  /\ scopes[c] # <<>>
  /\ Replace(c, scopes[c][Len(scopes[c])])
  /\ scopes' = [scopes EXCEPT ![c] = SubSeq(@, 1, Len(@) - 1)]

(* set_worker and clear_worker. *)
Rebind(c) ==
  /\ c \in Callers
  /\ \E id \in Bound(c) : Replace(c, id)
  /\ UNCHANGED scopes

Current(c) ==
  /\ c \in Callers
  /\ seen' = [seen EXCEPT ![c] = {own[c]}]
  /\ UNCHANGED <<own, scopes>>

Next == \E c \in Contexts : Enter(c) \/ Leave(c) \/ Rebind(c) \/ Current(c)

Spec == Init /\ [][Next]_vars
=============================================================================
