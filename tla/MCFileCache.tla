----------------------------- MODULE MCFileCache -----------------------------
(* Shards of two directories, named as FileCache::new names them: the first *)
(* of each has the cache name of the other's.                               *)
EXTENDS FileCache, TLC

MCUrls == {<<"a", "0">>, <<"b", "0">>, <<"a", "1">>}

(* url_to_cache_name with ndir = 0: the last component of the path. *)
MCNameOf == [u \in MCUrls |-> u[Len(u)]]

Symmetry == Permutations(Workers)
=============================================================================
