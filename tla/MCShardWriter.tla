---------------------------- MODULE MCShardWriter ----------------------------
(* Samples of no, one and two fields, one refused, one without a key. *)
EXTENDS ShardWriter

MCSamples ==
  {[keyed |-> TRUE, fields |-> f] :
     f \in {<<>>, <<1>>, <<1, 2>>, <<1, Bad, 1>>}}
  \cup {[keyed |-> FALSE, fields |-> <<1>>]}
=============================================================================
