---------------------------- MODULE EpochDelivery ----------------------------
(***************************************************************************)
(* What one epoch of a loader promises its consumer, whatever threads and  *)
(* channels stand behind it: every stream's samples reach the consumer     *)
(* once, in the order the stream yielded them, interleaved with the other  *)
(* streams in any order; the epoch ends only when nothing is left to       *)
(* deliver; and a closed epoch delivers nothing more.                      *)
(*                                                                         *)
(* The module models no code of its own.  DataLoader implements it.        *)
(***************************************************************************)
EXTENDS Naturals, Sequences

CONSTANTS
  Ids,        (* the streams that may be merged                 *)
  Positions   (* what a sample is known by: its place in a source *)

VARIABLES
  yields,     (* yields[w]: the samples stream w has produced so far     *)
  delivered,  (* delivered[w]: those of them the consumer has been given *)
  finished,   (* the streams that will produce nothing more              *)
  status      (* "open", "ended" or "closed"                             *)

vars == <<yields, delivered, finished, status>>

Init ==
  /\ yields = [w \in Ids |-> <<>>]
  /\ delivered = [w \in Ids |-> <<>>]
  /\ finished \in SUBSET Ids
  /\ status = "open"

Produce(w) ==
  /\ status = "open"
  /\ w \notin finished
  /\ \E p \in Positions : yields' = [yields EXCEPT ![w] = Append(@, p)]
  /\ UNCHANGED <<delivered, finished, status>>

(* The consumer is given the oldest sample of w it has not been given yet. *)
Deliver(w) ==
  /\ status = "open"
  /\ Len(delivered[w]) < Len(yields[w])
  /\ delivered' =
       [delivered EXCEPT ![w] = Append(@, yields[w][Len(delivered[w]) + 1])]
  /\ UNCHANGED <<yields, finished, status>>

(* A sample handed over as it is produced, with nothing in between. *)
Direct(w) ==
  /\ status = "open"
  /\ w \notin finished
  /\ Len(delivered[w]) = Len(yields[w])
  /\ \E p \in Positions :
       /\ yields' = [yields EXCEPT ![w] = Append(@, p)]
       /\ delivered' = [delivered EXCEPT ![w] = Append(@, p)]
  /\ UNCHANGED <<finished, status>>

Finish(w) ==
  /\ finished' = finished \cup {w}
  /\ UNCHANGED <<yields, delivered, status>>

End ==
  /\ status = "open"
  /\ finished = Ids
  /\ \A w \in Ids : Len(delivered[w]) = Len(yields[w])
  /\ status' = "ended"
  /\ UNCHANGED <<yields, delivered, finished>>

Close ==
  /\ status' = "closed"
  /\ UNCHANGED <<yields, delivered, finished>>

Next ==
  \/ \E w \in Ids : Produce(w) \/ Deliver(w) \/ Direct(w) \/ Finish(w)
  \/ End
  \/ Close

Spec == Init /\ [][Next]_vars
=============================================================================
