------------------------------ MODULE FileCache ------------------------------
(***************************************************************************)
(* FileCache and LruCleanup (crates/webdataset-io/src/cache.rs): workers,  *)
(* each in a process of its own, that open shards through one cache        *)
(* directory.  A shard that is not there is downloaded to a temporary file *)
(* of the directory and renamed, after a cleanup that evicts the oldest    *)
(* files of the directory, and is validated after the rename.              *)
(*                                                                         *)
(* The directory is the sequence of its files, oldest first: a rename      *)
(* keeps a file's creation time.  Every file counts as one unit of the     *)
(* budget.  A file is of the URL it was downloaded from, and lies under    *)
(* that URL's cache name, which other URLs may have too.                   *)
(***************************************************************************)
EXTENDS Integers, Sequences, FiniteSets

CONSTANTS
  Workers,
  Urls,
  NameOf,      (* FileCache::name_of; by default the last part of the path  *)
  Budget,      (* LruCleanup::budget, in files                              *)
  Retries,     (* FileCache::retries, at least 1                            *)
  Validate,    (* FileCache::validate                                       *)
  MaxFaults,   (* bound: failed transfers and bodies that are not archives  *)
  MaxCrashes   (* bound: workers that die with their process                *)

ASSUME CacheAssumption ==
  /\ IsFiniteSet(Workers)
  /\ Budget \in Nat /\ Retries \in Nat \ {0}
  /\ Validate \in BOOLEAN
  /\ MaxFaults \in Nat /\ MaxCrashes \in Nat

VARIABLES
  throttled, (* cleanups are skipped at times, or there are none; constant *)
  files,     (* the directory                                              *)
  pc,        (* pc[w]: where worker w is in open()                         *)
  url,       (* url[w]: what it opens                                      *)
  failures,  (* failures[w]: the attempts that have failed                 *)
  listing,   (* listing[w]: the names collect found, oldest first          *)
  total,     (* total[w]: what cleanup takes the directory's size to be    *)
  got,       (* got[w]: the file opened, as a sequence of at most one      *)
  faults, crashes,
  excuses    (* history: what could have made worker w fail since open()   *)

vars == <<throttled, files, pc, url, failures, listing, total, got, faults,
          crashes, excuses>>
local == <<url, failures, listing, total, got>>

Dest(u) == <<"dest", NameOf[u]>>
Orphan(n) == <<"orphan", n>>

(* Mutant: a temporary name that only the destination determines. *)
TempShared(w) == <<"temp", NameOf[url[w]]>>

(* temp<pid>-<counter>: nobody else's. *)
Temp(w) == <<"temp", w>>

Names == {Dest(u) : u \in Urls} \cup {Temp(w) : w \in Workers}
           \cup {Orphan(n) : n \in 1..MaxCrashes}

File == [name : Names, of : Urls, archive : BOOLEAN, whole : BOOLEAN]

Exists(name) == \E i \in DOMAIN files : files[i].name = name
Lookup(name) == CHOOSE f \in {files[i] : i \in DOMAIN files} : f.name = name
Without(name) ==
  LET at == CHOOSE i \in DOMAIN files : files[i].name = name
  IN  IF Exists(name)
      THEN [i \in 1..(Len(files) - 1) |-> IF i < at THEN files[i] ELSE files[i + 1]]
      ELSE files
Changed(name, file) ==
  [i \in DOMAIN files |-> IF files[i].name = name THEN file ELSE files[i]]

(* rename(2): what went by the new name is replaced. *)
Renamed(from, to) ==
  LET others == Without(to)
  IN [i \in DOMAIN others |->
        IF others[i].name = from THEN [others[i] EXCEPT !.name = to]
        ELSE others[i]]

Opening(w) == pc[w] \notin {"idle", "opened", "failed"}

Init ==
  /\ throttled \in BOOLEAN
  /\ files = <<>>
  /\ pc = [w \in Workers |-> "idle"]
  /\ url \in [Workers -> Urls]
  /\ failures = [w \in Workers |-> 0]
  /\ listing = [w \in Workers |-> <<>>]
  /\ total = [w \in Workers |-> 0]
  /\ got = [w \in Workers |-> <<>>]
  /\ faults = 0 /\ crashes = 0
  /\ excuses = [w \in Workers |-> 0]

Goto(w, where) == pc' = [pc EXCEPT ![w] = where]

(* Something happened that may cost each of these workers one attempt. *)
Excuse(S) ==
  excuses' = [w \in Workers |->
    IF w \in S /\ excuses[w] < Retries THEN excuses[w] + 1 ELSE excuses[w]]

(* open(): the attempt failed; sleep and try again, or give up. *)
Fail(w) ==
  /\ failures' = [failures EXCEPT ![w] = @ + 1]
  /\ Goto(w, IF failures[w] + 1 < Retries THEN "lookup" ELSE "failed")

-----------------------------------------------------------------------------
Open(w) ==
  /\ ~Opening(w)
  /\ \E u \in Urls : url' = [url EXCEPT ![w] = u]
  /\ failures' = [failures EXCEPT ![w] = 0]
  /\ got' = [got EXCEPT ![w] = <<>>]
  /\ excuses' = [excuses EXCEPT ![w] = 0]
  /\ Goto(w, "lookup")
  /\ UNCHANGED <<throttled, files, listing, total, faults, crashes>>

(* dest.exists() *)
LookUp(w) ==
  /\ pc[w] = "lookup"
  /\ Goto(w, IF Exists(Dest(url[w])) THEN "handle" ELSE "cleanup")
  /\ UNCHANGED <<throttled, files, local, faults, crashes, excuses>>

(* No budget is set, or the last cleanup is less than `interval` ago. *)
Skip(w) ==
  /\ pc[w] = "cleanup"
  /\ throttled
  /\ Goto(w, "create")
  /\ UNCHANGED <<throttled, files, local, faults, crashes, excuses>>

(* Mutant: temporary files are not counted. *)
CollectNoTemps(w) ==
  /\ pc[w] = "cleanup"
  /\ LET shards == SelectSeq(files, LAMBDA f : f.name[1] = "dest")
     IN /\ listing' = [listing EXCEPT ![w] =
                          [i \in DOMAIN shards |-> shards[i].name]]
        /\ total' = [total EXCEPT ![w] = Len(shards)]
  /\ Goto(w, "evict")
  /\ UNCHANGED <<throttled, files, url, failures, got, faults, crashes,
                 excuses>>

(* Every file below the directory counts, those being downloaded too. *)
Collect(w) ==
  /\ pc[w] = "cleanup"
  /\ listing' = [listing EXCEPT ![w] = [i \in DOMAIN files |-> files[i].name]]
  /\ total' = [total EXCEPT ![w] = Len(files)]
  /\ Goto(w, "evict")
  /\ UNCHANGED <<throttled, files, url, failures, got, faults, crashes,
                 excuses>>

(* remove_file of the oldest name listed.  One that is gone counts on. *)
Evict(w) ==
  /\ pc[w] = "evict"
  /\ total[w] > Budget /\ listing[w] # <<>>
  /\ LET name == Head(listing[w])
     IN IF Exists(name)
        THEN /\ files' = Without(name)
             /\ total' = [total EXCEPT ![w] = @ - 1]
             /\ Excuse(Workers)
        ELSE UNCHANGED <<files, total, excuses>>
  /\ listing' = [listing EXCEPT ![w] = Tail(@)]
  /\ UNCHANGED <<throttled, pc, url, failures, got, faults, crashes>>

Cleaned(w) ==
  /\ pc[w] = "evict"
  /\ total[w] <= Budget \/ listing[w] = <<>>
  /\ listing' = [listing EXCEPT ![w] = <<>>]
  /\ total' = [total EXCEPT ![w] = 0]
  /\ Goto(w, "create")
  /\ UNCHANGED <<throttled, files, url, failures, got, faults, crashes,
                 excuses>>

(* File::create truncates a file of that name. *)
Create(w) ==
  /\ pc[w] = "create"
  /\ LET new == [name |-> Temp(w), of |-> url[w], archive |-> TRUE,
                 whole |-> FALSE]
     IN files' = IF Exists(Temp(w)) THEN Changed(Temp(w), new)
                 ELSE Append(files, new)
  /\ Goto(w, "copy")
  /\ UNCHANGED <<throttled, local, faults, crashes, excuses>>

(* The transfer is complete: it is of an archive, or of something else. *)
Copy(w) ==
  /\ pc[w] = "copy"
  /\ \E archive \in BOOLEAN :
       /\ archive \/ faults < MaxFaults
       /\ faults' = IF archive THEN faults ELSE faults + 1
       /\ IF archive THEN UNCHANGED excuses ELSE Excuse(Workers)
       /\ files' = Changed(Temp(w), [name |-> Temp(w), of |-> url[w],
                                     archive |-> archive, whole |-> TRUE])
  /\ Goto(w, "rename")
  /\ UNCHANGED <<throttled, url, failures, listing, total, got, crashes>>

(* It breaks off, or the command's exit status is bad. *)
CopyFails(w) ==
  /\ pc[w] = "copy"
  /\ faults < MaxFaults
  /\ faults' = faults + 1
  /\ Excuse({w})
  /\ files' = Without(Temp(w))
  /\ Fail(w)
  /\ UNCHANGED <<throttled, url, listing, total, got, crashes>>

(* Mutant: a shard another worker has put there is in the way. *)
RenameNoReplace(w) ==
  /\ pc[w] = "rename"
  /\ IF Exists(Temp(w)) /\ ~Exists(Dest(url[w]))
     THEN /\ files' = Renamed(Temp(w), Dest(url[w]))
          /\ Goto(w, IF Validate THEN "validate" ELSE "handle")
          /\ UNCHANGED failures
     ELSE /\ Fail(w)
          /\ UNCHANGED files
  /\ UNCHANGED <<throttled, url, listing, total, got, faults, crashes,
                 excuses>>

Rename(w) ==
  /\ pc[w] = "rename"
  /\ IF Exists(Temp(w))
     THEN /\ files' = Renamed(Temp(w), Dest(url[w]))
          /\ Goto(w, IF Validate THEN "validate" ELSE "handle")
          /\ UNCHANGED failures
     ELSE /\ Fail(w)
          /\ UNCHANGED files
  /\ UNCHANGED <<throttled, url, listing, total, got, faults, crashes,
                 excuses>>

(* check_tar_format reads what goes by the name now. *)
Check(w) ==
  /\ pc[w] = "validate"
  /\ IF Exists(Dest(url[w]))
     THEN /\ Goto(w, IF Lookup(Dest(url[w])).archive THEN "handle"
                     ELSE "reject")
          /\ UNCHANGED failures
     ELSE Fail(w)
  /\ UNCHANGED <<throttled, files, url, listing, total, got, faults, crashes,
                 excuses>>

(* Mutant: the attempt fails and the file stays. *)
RejectKeeps(w) ==
  /\ pc[w] = "reject"
  /\ Excuse(Workers)
  /\ Fail(w)
  /\ UNCHANGED <<throttled, files, url, listing, total, got, faults, crashes>>

Reject(w) ==
  /\ pc[w] = "reject"
  /\ files' = Without(Dest(url[w]))
  /\ Excuse(Workers)
  /\ Fail(w)
  /\ UNCHANGED <<throttled, url, listing, total, got, faults, crashes>>

(* File::open of the path get_file returned. *)
Handle(w) ==
  /\ pc[w] = "handle"
  /\ LET dest == Dest(url[w])
     IN IF Exists(dest)
        THEN /\ got' = [got EXCEPT ![w] = <<Lookup(dest)>>]
             /\ Goto(w, "opened")
             /\ UNCHANGED failures
        ELSE /\ Fail(w)
             /\ UNCHANGED got
  /\ UNCHANGED <<throttled, files, url, listing, total, faults, crashes,
                 excuses>>

(* The process dies; a temporary file it was writing stays. *)
Crash(w) ==
  /\ Opening(w)
  /\ crashes < MaxCrashes
  /\ crashes' = crashes + 1
  /\ files' = Renamed(Temp(w), Orphan(crashes + 1))
  /\ failures' = [failures EXCEPT ![w] = 0]
  /\ listing' = [listing EXCEPT ![w] = <<>>]
  /\ total' = [total EXCEPT ![w] = 0]
  /\ Goto(w, "idle")
  /\ UNCHANGED <<throttled, url, got, faults, excuses>>

-----------------------------------------------------------------------------
OpenStep(w) ==
  LookUp(w) \/ Skip(w) \/ Collect(w) \/ Evict(w) \/ Cleaned(w) \/ Create(w)
    \/ Copy(w) \/ CopyFails(w) \/ Rename(w) \/ Check(w) \/ Reject(w)
    \/ Handle(w)

Next == \E w \in Workers : Open(w) \/ OpenStep(w) \/ Crash(w)

Spec == Init /\ [][Next]_vars

-----------------------------------------------------------------------------
TypeOK ==
  /\ throttled \in BOOLEAN
  /\ files \in Seq(File)
  /\ \A i, j \in DOMAIN files : files[i].name = files[j].name => i = j
  /\ pc \in [Workers -> {"idle", "lookup", "cleanup", "evict", "create", "copy",
                         "rename", "validate", "reject", "handle", "opened",
                         "failed"}]
  /\ url \in [Workers -> Urls]
  /\ failures \in [Workers -> 0..Retries]
  /\ listing \in [Workers -> Seq(Names)] /\ total \in [Workers -> Nat]
  /\ got \in [Workers -> Seq(File)]
  /\ faults \in 0..MaxFaults /\ crashes \in 0..MaxCrashes
  /\ excuses \in [Workers -> 0..Retries]

OnlyOneNamed(u) == \A v \in Urls : Dest(v) = Dest(u) => v = u

(* "Without ever observing a half-written shard": whoever downloads, evicts, *)
(* retries or dies meanwhile, what open() returns is a complete transfer of  *)
(* a URL with the cache name of the one that was asked for: of that URL      *)
(* itself when no other has its name.  An entry that is there is returned    *)
(* whichever of them it was downloaded from.  (No two files have one name,   *)
(* and the variables keep their types.)                                      *)
OpenedIsWhole ==
  /\ TypeOK
  /\ \A w \in Workers : \A i \in DOMAIN got[w] :
       LET file == got[w][i]
       IN /\ file.whole
          /\ Dest(file.of) = Dest(url[w])
          /\ OnlyOneNamed(url[w]) => file.of = url[w]

(* Workers racing for a shard do not make each other fail: an attempt fails *)
(* only for a transfer that failed, a body that was not an archive, or a    *)
(* file that a cleanup or a validation removed, each costing it one attempt. *)
RacesDoNotFail == \A w \in Workers : failures[w] <= excuses[w]

(* "Keep the directory below budget": cleaning up before every download      *)
(* bounds the directory to the budget and one download for every worker,     *)
(* whatever the workers that died have left in it.                           *)
BoundedDirectory ==
  ~throttled => Len(files) <= Budget + Cardinality(Workers)

(* "Validates that the result really is an archive": a body that is not one  *)
(* lies under its final name only while a worker that put it there, or put   *)
(* another there, is still to check or remove it, unless the worker died; so *)
(* only in that window, or after a death, does open() return it.             *)
BadFilesAreCaught ==
  LET bad == {Dest(u) : u \in {u \in Urls : /\ Exists(Dest(u))
                                            /\ ~Lookup(Dest(u)).archive}}
      checking == {Dest(url[w]) :
                     w \in {v \in Workers : pc[v] \in {"validate", "reject"}}}
  IN  Validate => Cardinality(bad \ checking) <= crashes
=============================================================================
