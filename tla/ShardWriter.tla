----------------------------- MODULE ShardWriter -----------------------------
(***************************************************************************)
(* Writing samples into a numbered series of archives                      *)
(* (crates/webdataset-shard/src/writer.rs): ShardWriter rolls over to the  *)
(* next archive at its limits and calls the post hook on each one that is  *)
(* complete; TarWriter turns a sample into members; SinkWriter hands the   *)
(* bytes to the destination, which may refuse any of them.                 *)
(*                                                                         *)
(* A sample is the payload sizes of its fields in sorted order, `Bad` for  *)
(* a value the encoder refuses.                                            *)
(***************************************************************************)
EXTENDS Integers, Sequences, FiniteSets, Functions, SequencesExt

CONSTANTS
  MaxCount,    (* with_max_count                                            *)
  MaxSize,     (* with_max_size                                             *)
  StartShard,  (* with_start_shard                                          *)
  Samples,     (* what is written                                           *)
  Bad,         (* a field that cannot be encoded                            *)
  MaxCalls,    (* bound: calls of one writer                                *)
  MaxFaults    (* bound: failures of the destination or of the hook         *)

Sample == [keyed : BOOLEAN, fields : Seq(Nat \cup {Bad})]

ASSUME WriterAssumption ==
  /\ MaxCount \in Nat /\ MaxSize \in Nat /\ StartShard \in Nat
  /\ MaxCalls \in Nat /\ MaxFaults \in Nat
  /\ Samples \subseteq Sample
  /\ Bad \notin Nat

VARIABLES
  hooked,     (* whether there is a post hook; constant                     *)
  shard, count, size,  (* ShardWriter's                                     *)
  open,       (* current.is_some(): the last archive is being written       *)
  archives,   (* what the destination holds, in the order of creation       *)
  phase, op,  (* where the call is, and which: "write", "next" or "end"     *)
  sample, at, (* the sample being written and its next field                *)
  hooks,      (* the numbers the hook was called with                       *)
  results,    (* history: the calls that have returned, and into which      *)
              (* archive a sample was written                               *)
  faults      (* how many failures there were                               *)

call == <<phase, op, sample, at, results>>
writer == <<shard, count, size, open>>
writerVars == <<hooked, writer, archives, call, hooks, faults>>

WriterInit ==
  /\ hooked \in BOOLEAN
  /\ shard = StartShard /\ count = 0 /\ size = 0 /\ open = FALSE
  /\ archives = <<>> /\ hooks = <<>>
  /\ phase = "idle" /\ op = "end" /\ at = 1
  /\ sample = [keyed |-> FALSE, fields |-> <<>>]
  /\ results = <<>> /\ faults = 0

(* self.name: the archive created last, even after a create that failed. *)
LastName == Last(archives).number

Fault == faults < MaxFaults /\ faults' = faults + 1
NoFault == UNCHANGED faults

Return(ok) ==
  /\ results' = Append(results,
       [op |-> op, sample |-> sample, ok |-> ok, into |-> Len(archives)])
  /\ phase' = IF op = "end" THEN "gone" ELSE "idle"

-----------------------------------------------------------------------------
(* The calls.                                                              *)

(* Mutant: one sample too many. *)
LimitedLate == count > MaxCount \/ size >= MaxSize

Limited == count >= MaxCount \/ size >= MaxSize

Begin(kind, first) ==
  /\ phase = "idle"
  /\ op' = kind /\ phase' = first /\ at' = 1
  /\ UNCHANGED <<hooked, writer, archives, hooks, results, faults>>

Write(s) ==
  /\ Len(results) < MaxCalls
  /\ Begin("write", IF ~open \/ Limited THEN "finish" ELSE "append")
  /\ sample' = s

NextShard ==
  /\ Len(results) < MaxCalls
  /\ Begin("next", "finish")
  /\ UNCHANGED sample

(* close(), or the drop of a writer that was not closed. *)
End == Begin("end", "finish") /\ UNCHANGED sample

-----------------------------------------------------------------------------
(* finish() and next_shard().                                              *)

(* After finish() close is done; write and next_shard open the next one. *)
Finished ==
  IF op = "end" THEN Return(TRUE) ELSE phase' = "create" /\ UNCHANGED results

NothingOpen ==
  /\ phase = "finish" /\ ~open
  /\ Finished
  /\ UNCHANGED <<hooked, writer, archives, op, sample, at, hooks, faults>>

(* What Sink::finish makes of the stream: the exit status of a child. *)
Verdict(stored) == IF stored THEN NoFault ELSE Fault

(* current.take(), then the trailer; the destination's own verdict comes    *)
(* when SinkWriter is dropped, which only logs it.                          *)
Sealed(written, stored) ==
  [archives EXCEPT ![Len(archives)].left = op,
                   ![Len(archives)].trailer = written,
                   ![Len(archives)].stored = stored]

CloseArchive ==
  /\ phase = "finish" /\ open
  /\ open' = FALSE
  /\ \E stored \in BOOLEAN : Verdict(stored) /\ archives' = Sealed(TRUE, stored)
  /\ IF hooked THEN phase' = "post" /\ UNCHANGED results ELSE Finished
  /\ UNCHANGED <<hooked, shard, count, size, op, sample, at, hooks>>

(* Mutant: an archive whose trailer could not be written counts as finished. *)
CloseFailsUnseen ==
  /\ phase = "finish" /\ open /\ Fault
  /\ open' = FALSE
  /\ archives' = Sealed(FALSE, FALSE)
  /\ IF hooked THEN phase' = "post" /\ UNCHANGED results ELSE Finished
  /\ UNCHANGED <<hooked, shard, count, size, op, sample, at, hooks>>

CloseFails ==
  /\ phase = "finish" /\ open /\ Fault
  /\ open' = FALSE
  /\ archives' = Sealed(FALSE, FALSE)
  /\ Return(FALSE)
  /\ UNCHANGED <<hooked, shard, count, size, op, sample, at, hooks>>

(* An Err of the hook ends the call: what it was to write is not written. *)
Post ==
  /\ phase = "post"
  /\ hooks' = Append(hooks, LastName)
  /\ \/ Finished /\ NoFault
     \/ Return(FALSE) /\ Fault
  /\ UNCHANGED <<hooked, writer, archives, op, sample, at>>

Create ==
  /\ phase = "create" /\ NoFault
  /\ shard' = shard + 1
  /\ open' = TRUE /\ count' = 0 /\ size' = 0
  /\ archives' = Append(archives,
       [number |-> shard, members |-> <<>>, left |-> "open", trailer |-> FALSE,
        stored |-> FALSE])
  /\ IF op = "write" THEN phase' = "append" /\ UNCHANGED results ELSE Return(TRUE)
  /\ UNCHANGED <<hooked, op, sample, at, hooks>>

(* The number is used up; count, size and name stay the last archive's. *)
CreateFails ==
  /\ phase = "create" /\ Fault
  /\ shard' = shard + 1
  /\ Return(FALSE)
  /\ UNCHANGED <<hooked, count, size, open, archives, op, sample, at, hooks>>

-----------------------------------------------------------------------------
(* TarWriter::write, member by member.                                     *)

Appending == phase = "append" /\ sample.keyed /\ at <= Len(sample.fields)

Member(whole) == [call |-> Len(results) + 1, field |-> at, whole |-> whole]

Appended(member) ==
  [archives EXCEPT ![Len(archives)].members = Append(@, member)]

AppendMember ==
  /\ Appending /\ sample.fields[at] # Bad
  /\ archives' = Appended(Member(TRUE))
  /\ at' = at + 1
  /\ UNCHANGED <<hooked, writer, phase, op, sample, hooks, results, faults>>

(* Mutant: the error of append_data is not looked at. *)
AppendUnchecked ==
  /\ Appending /\ sample.fields[at] # Bad /\ Fault
  /\ archives' = Appended(Member(FALSE))
  /\ at' = at + 1
  /\ UNCHANGED <<hooked, writer, phase, op, sample, hooks, results>>

(* The destination fails within the member's header or body.  What it took  *)
(* stays, and the archive stays open: the next member begins right behind.  *)
AppendFails ==
  /\ Appending /\ sample.fields[at] # Bad /\ Fault
  /\ archives' = Appended(Member(FALSE))
  /\ Return(FALSE)
  /\ UNCHANGED <<hooked, writer, op, sample, at, hooks>>

(* The name or the destination is refused before anything is written. *)
AppendRefused ==
  /\ Appending /\ sample.fields[at] # Bad /\ Fault
  /\ Return(FALSE)
  /\ UNCHANGED <<hooked, writer, archives, op, sample, at, hooks>>

(* The members before it stay in the archive, and nothing is counted. *)
EncodeFails ==
  /\ Appending /\ sample.fields[at] = Bad
  /\ Return(FALSE)
  /\ UNCHANGED <<hooked, writer, archives, op, sample, at, hooks, faults>>

NoKey ==
  /\ phase = "append" /\ ~sample.keyed
  /\ Return(FALSE)
  /\ UNCHANGED <<hooked, writer, archives, op, sample, at, hooks, faults>>

Payload(s) == SumFunction(s.fields)

Written ==
  /\ phase = "append" /\ sample.keyed /\ at > Len(sample.fields)
  /\ count' = count + 1 /\ size' = size + Payload(sample)
  /\ Return(TRUE)
  /\ UNCHANGED <<hooked, shard, open, archives, op, sample, at, hooks, faults>>

-----------------------------------------------------------------------------
Gone == phase = "gone" /\ UNCHANGED writerVars

WriterNext ==
  \/ \E s \in Samples : Write(s)
  \/ NextShard \/ End
  \/ NothingOpen \/ CloseArchive \/ CloseFails \/ Post \/ Create \/ CreateFails
  \/ AppendMember \/ AppendFails \/ AppendRefused \/ EncodeFails \/ NoKey \/ Written
  \/ Gone

WriterSpec == WriterInit /\ [][WriterNext]_writerVars

-----------------------------------------------------------------------------
Writes == {c \in DOMAIN results : results[c].op = "write"}
Accepted == {c \in Writes : results[c].ok}

(* The places in archive i of what write c put there. *)
MembersOf(i, c) ==
  {k \in DOMAIN archives[i].members : archives[i].members[k].call = c}

(* A reader goes from header to header: behind a member that was cut off it *)
(* is out of step, and finds no other.                                      *)
Readable(i) ==
  {k \in DOMAIN archives[i].members :
     \A j \in 1..k : archives[i].members[j].whole}

CutOff(i) ==
  {archives[i].members[k].call :
     k \in {k \in DOMAIN archives[i].members : ~archives[i].members[k].whole}}

AcceptedIn(i) == {c \in Accepted : results[c].into = i}

PayloadOf(C) == SumFunction([c \in C |-> Payload(results[c].sample)])

Rank(K, k) == Cardinality({j \in K : j <= k})

Operation == {"write", "next", "end"}
Entry == [call : Nat, field : Nat, whole : BOOLEAN]

Archive ==
  [number : Nat, members : Seq(Entry), left : {"open"} \cup Operation,
   trailer : BOOLEAN, stored : BOOLEAN]

Result == [op : Operation, sample : Sample, ok : BOOLEAN, into : Nat]

WriterTypeOK ==
  /\ hooked \in BOOLEAN /\ open \in BOOLEAN
  /\ shard \in Nat /\ count \in Nat /\ size \in Nat
  /\ archives \in Seq(Archive)
  /\ phase \in {"idle", "finish", "post", "create", "append", "gone"}
  /\ op \in Operation /\ sample \in Sample /\ at \in Nat \ {0}
  /\ hooks \in Seq(Nat) /\ results \in Seq(Result) /\ faults \in 0..MaxFaults
  /\ open <=> archives # <<>> /\ Last(archives).left = "open"

(* A write that returned Ok handed every field of its sample, whole and in  *)
(* order, to one archive, and a reader of the archive finds them unless an  *)
(* earlier write returned an error that left a member cut off before them;  *)
(* one that returned an error left only the fields before the one that      *)
(* failed, and a part of that at most, however rollovers, hooks and         *)
(* failures fell.  (And the variables keep their types.)                    *)
AcceptedAreWhole ==
  /\ WriterTypeOK
  /\ \A c \in Writes :
       LET r == results[c]
           n == Len(r.sample.fields)
       IN /\ \A i \in DOMAIN archives \ {r.into} : MembersOf(i, c) = {}
          /\ r.ok => r.into \in DOMAIN archives
          /\ r.into \in DOMAIN archives =>
               LET members == archives[r.into].members
                   mine == MembersOf(r.into, c)
                   whole == {k \in mine : members[k].whole}
               IN /\ \A k \in mine : members[k].field = Rank(mine, k)
                  /\ \A k \in mine \ whole : ~r.ok /\ \A j \in mine : j <= k
                  /\ Cardinality(mine) <= n
                  /\ Cardinality(whole) = n <=> r.ok \/ n = 0
                  /\ r.ok => \/ mine \subseteq Readable(r.into)
                             \/ \E d \in CutOff(r.into) \cap (Writes \ Accepted) :
                                  d < c

(* "A new shard is started once the current one reaches max_count samples   *)
(* or max_size payload bytes": an archive takes no sample beyond its        *)
(* limits, and is left before them only for next_shard or close.  Samples   *)
(* that were refused count for nothing.                                     *)
ShardsFillUp ==
  \A i \in DOMAIN archives :
    LET inside == AcceptedIn(i)
        before == {c \in inside : \E d \in inside : c < d}
        full(C) == Cardinality(C) >= MaxCount \/ PayloadOf(C) >= MaxSize
    IN /\ before # {} => ~full(before)
       /\ archives[i].left = "write" => full(inside)

(* The hook is called once on every archive that has its trailer, in order  *)
(* and on no other, and no two archives share a name; a writer that was     *)
(* never told of an error has finished every archive.                       *)
HookedOnce ==
  LET complete == {k \in DOMAIN archives : archives[k].trailer}
      called == IF phase = "post" THEN complete \ {Len(archives)} ELSE complete
      told == \A c \in DOMAIN results : results[c].ok
  IN /\ hooked => /\ Len(hooks) = Cardinality(called)
                  /\ \A k \in called : hooks[Rank(called, k)] = archives[k].number
     /\ \A i, j \in DOMAIN archives : i < j => archives[i].number < archives[j].number
     /\ phase = "gone" /\ told => complete = DOMAIN archives
=============================================================================
