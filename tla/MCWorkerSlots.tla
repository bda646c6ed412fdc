---------------------------- MODULE MCWorkerSlots ----------------------------
(* Context c is worker c; context 0 of another number of workers. *)
EXTENDS WorkerSlots

MCIdentities == [c \in Contexts |-> {[worker |-> c, num |-> IF c = 0 THEN 2 ELSE 1]}]
MCDepth == [c \in Contexts |-> 1]
=============================================================================
