------------------------------- MODULE Results -------------------------------
(***************************************************************************)
(* What a fallible conversion returns                                      *)
(* (crates/webdataset-core/src/error.rs: Result).                          *)
(***************************************************************************)
EXTENDS Sequences

Err == [tag |-> "err"]
Ok(v) == [tag |-> "ok", of |-> v]

(* All of a sequence of results, or the error among them. *)
Collected(results) ==
  IF \E i \in DOMAIN results : results[i] = Err THEN Err
  ELSE Ok([i \in DOMAIN results |-> results[i].of])
=============================================================================
