----------------------------- MODULE ShardReader -----------------------------
(***************************************************************************)
(* Reading shards into samples (crates/webdataset-shard/src/reader.rs and  *)
(* sync.rs): for each archive a background thread parses tar records and   *)
(* sends the files through a bounded channel; Expand strings the archives  *)
(* together with a boundary after each; Grouper assembles consecutive      *)
(* files of one basename into a sample; GroupByKeys hands samples out.     *)
(*                                                                         *)
(* A record stands for a tar header with its payload.  A name is what the  *)
(* reader takes apart: a basename, an extension ("" when there is none,    *)
(* the extension in the case the archive has it), and whether the          *)
(* Selection keeps it.                                                     *)
(***************************************************************************)
EXTENDS Integers, Sequences, FiniteSets

CONSTANTS
  Readahead,   (* READAHEAD                                                 *)
  Names,       (* [key, ext, kept]                                          *)
  Lower,       (* to_ascii_lowercase of every extension                     *)
  Inputs,      (* the sequences of sources that are read                    *)
  Handlers     (* of {"continue", "stop", "reraise"}                        *)

(* "long": a GNU L record; "pax": an x record with a path; "skip": K, g, an *)
(* x without a path; "link": anything else that is not a file; "end": a     *)
(* zero block; "bad": a header or a payload that cannot be read.            *)
RecordTypes == {"file", "long", "pax", "skip", "link", "end", "bad"}
Record == [type : RecordTypes, name : Names]

(* A source that cannot be found, opened or decompressed is not `opens`. *)
Source == [opens : BOOLEAN, records : Seq(Record)]

ASSUME ReaderAssumption ==
  /\ Readahead \in Nat \ {0}
  /\ Names # {}
  /\ \A n \in Names : n.kept \in BOOLEAN /\ n.ext \in DOMAIN Lower
  /\ Lower \in [DOMAIN Lower -> DOMAIN Lower] /\ Lower[""] = ""
  /\ Inputs \subseteq Seq(Source)
  /\ Handlers \subseteq {"continue", "stop", "reraise"}

VARIABLES
  input, handler,  (* what is read and how errors are treated; constant    *)
  next,       (* how many sources have been taken                           *)
  current,    (* Expand::current: the source being read, 0 for none         *)
  pending,    (* Expand::pending_boundary                                   *)
  exhausted,  (* Expand::done                                               *)
  parser,     (* the newest reader thread: [pc, of, pos, long, pax]         *)
  sending,    (* the item it is sending                                     *)
  chan,       (* its sync_channel                                           *)
  group,      (* Grouper::current, as a sequence of at most one             *)
  done,       (* GroupByKeys::done                                          *)
  consumer,   (* "idle", "pulling", "ended" or "dropped"                    *)
  out         (* what next() has returned                                   *)

config == <<input, handler>>
expand == <<next, current, pending, exhausted>>
thread == <<parser, sending>>
vars == <<config, expand, thread, chan, group, done, consumer, out>>

(* An item: the index of a file's record with its name, or 0 for an Err. *)
Failed == [index |-> 0, name |-> CHOOSE n \in Names : TRUE]
Records == input[parser.of].records

Init ==
  /\ input \in Inputs /\ handler \in Handlers
  /\ next = 0 /\ current = 0 /\ pending = FALSE /\ exhausted = FALSE
  /\ parser = [pc |-> "gone", of |-> 0, pos |-> 0, long |-> <<>>, pax |-> <<>>]
  /\ sending = Failed
  /\ chan = <<>>
  /\ group = <<>> /\ done = FALSE
  /\ consumer = "idle"
  /\ out = <<>>

-----------------------------------------------------------------------------
(* The reader thread: TarEntries::advance, Selection::apply, send.         *)

At(type) ==
  /\ parser.pc = "parse"
  /\ parser.pos <= Len(Records)
  /\ Records[parser.pos].type = type

Name == Records[parser.pos].name

(* L, x, and what is read over. *)
Extend ==
  /\ At("long") \/ At("pax") \/ At("skip")
  /\ parser' = [parser EXCEPT
       !.pos = @ + 1,
       !.long = IF At("long") THEN <<Name>> ELSE @,
       !.pax = IF At("pax") THEN <<Name>> ELSE @]
  /\ UNCHANGED <<config, expand, sending, chan, group, done, consumer, out>>

PassOver ==
  /\ At("link")
  /\ parser' = [parser EXCEPT !.pos = @ + 1, !.long = <<>>, !.pax = <<>>]
  /\ UNCHANGED <<config, expand, sending, chan, group, done, consumer, out>>

(* pax_path.take().or_else(|| long_name.take()), else the header's own. *)
FileName ==
  IF parser.pax # <<>> THEN parser.pax[1]
  ELSE IF parser.long # <<>> THEN parser.long[1] ELSE Name

File ==
  /\ At("file")
  /\ parser' = [parser EXCEPT
       !.pos = @ + 1,
       !.pax = <<>>,
       !.long = IF parser.pax # <<>> THEN @ ELSE <<>>,
       !.pc = IF FileName.kept THEN "send" ELSE "parse"]
  /\ sending' = IF FileName.kept
                THEN [index |-> parser.pos, name |-> FileName] ELSE sending
  /\ UNCHANGED <<config, expand, chan, group, done, consumer, out>>

(* Mutant: a record that cannot be read ends the archive like a zero block. *)
BadEnds ==
  /\ At("bad")
  /\ parser' = [parser EXCEPT !.pc = "gone"]
  /\ UNCHANGED <<config, expand, sending, chan, group, done, consumer, out>>

Bad ==
  /\ At("bad")
  /\ parser' = [parser EXCEPT !.pc = "send"]
  /\ sending' = Failed
  /\ UNCHANGED <<config, expand, chan, group, done, consumer, out>>

(* A zero block, or an end of the stream where a header could begin. *)
EndOfArchive ==
  /\ parser.pc = "parse"
  /\ At("end") \/ parser.pos > Len(Records)
  /\ parser' = [parser EXCEPT !.pc = "gone"]
  /\ UNCHANGED <<config, expand, sending, chan, group, done, consumer, out>>

(* Mutant: the thread does not notice that nobody receives any more. *)
SendNever ==
  /\ parser.pc = "send" /\ current # 0
  /\ Len(chan) < Readahead
  /\ chan' = Append(chan, sending)
  /\ parser' = [parser EXCEPT !.pc = IF sending = Failed THEN "gone" ELSE "parse"]
  /\ UNCHANGED <<config, expand, sending, group, done, consumer, out>>

(* send() blocks on a full channel and fails once the receiver is dropped; *)
(* an Err is the last item that is sent.                                   *)
Send ==
  /\ parser.pc = "send"
  /\ \/ /\ current # 0 /\ Len(chan) < Readahead
        /\ chan' = Append(chan, sending)
        /\ parser' = [parser EXCEPT
             !.pc = IF sending = Failed THEN "gone" ELSE "parse"]
     \/ /\ current = 0
        /\ parser' = [parser EXCEPT !.pc = "gone"]
        /\ UNCHANGED chan
  /\ UNCHANGED <<config, expand, sending, group, done, consumer, out>>

-----------------------------------------------------------------------------
(* The consumer: GroupByKeys::next around Expand::next and Grouper::push.  *)

Return(item) ==
  /\ out' = Append(out, item)
  /\ consumer' = "idle"

(* `of` is the source an item stems from; an error has no files. *)
Error(i) == [of |-> i, key |-> "", exts |-> {}, files |-> {}]

Pull ==
  /\ consumer = "idle"
  /\ consumer' = "pulling"
  /\ UNCHANGED <<config, expand, thread, chan, group, done, out>>

Pulling == consumer = "pulling" /\ ~done

(* if self.done { return self.grouper.finish() } *)
Finish ==
  /\ consumer = "pulling" /\ done
  /\ group' = <<>>
  /\ IF group = <<>> THEN consumer' = "ended" /\ UNCHANGED out
     ELSE Return(group[1])
  /\ UNCHANGED <<config, expand, thread, chan, done>>

(* Mutant: the sample is copied out, not taken. *)
BoundaryKeeps ==
  /\ Pulling /\ pending
  /\ pending' = FALSE
  /\ IF group = <<>> THEN UNCHANGED <<consumer, out>> ELSE Return(group[1])
  /\ UNCHANGED <<config, next, current, exhausted, thread, chan, group, done>>

(* EndOfShard: the sample in progress is complete. *)
Boundary ==
  /\ Pulling /\ pending
  /\ pending' = FALSE
  /\ group' = <<>>
  /\ IF group = <<>> THEN UNCHANGED <<consumer, out>> ELSE Return(group[1])
  /\ UNCHANGED <<config, next, current, exhausted, thread, chan, done>>

(* Expand has nothing more. *)
Exhausted ==
  /\ Pulling /\ ~pending /\ exhausted
  /\ done' = TRUE
  /\ UNCHANGED <<config, expand, thread, chan, group, consumer, out>>

Starts(name) == group = <<>> \/ group[1].key # name.key
Duplicate(name) == ~Starts(name) /\ Lower[name.ext] \in group[1].exts

Added(item) ==
  IF Starts(item.name)
  THEN [of |-> current, key |-> item.name.key, exts |-> {Lower[item.name.ext]},
        files |-> {item.index}]
  ELSE [group[1] EXCEPT !.exts = @ \cup {Lower[item.name.ext]},
                        !.files = @ \cup {item.index}]

Receive ==
  /\ Pulling /\ ~pending /\ ~exhausted /\ current # 0
  /\ chan # <<>> /\ Head(chan) # Failed
  /\ chan' = Tail(chan)

(* No extension: the file belongs to no sample. *)
PushNothing ==
  /\ Receive
  /\ Head(chan).name.ext = ""
  /\ UNCHANGED <<config, expand, thread, group, done, consumer, out>>

PushFile ==
  /\ Receive
  /\ LET item == Head(chan)
     IN /\ item.name.ext # "" /\ ~Duplicate(item.name)
        /\ group' = <<Added(item)>>
        /\ IF Starts(item.name) /\ group # <<>> THEN Return(group[1])
           ELSE UNCHANGED <<consumer, out>>
  /\ UNCHANGED <<config, expand, thread, done>>

(* The sample keeps the first of the two fields. *)
PushDuplicate ==
  /\ Receive
  /\ Head(chan).name.ext # "" /\ Duplicate(Head(chan).name)
  /\ done' = (handler = "stop")
  /\ IF handler = "reraise" THEN Return(Error(current))
     ELSE UNCHANGED <<consumer, out>>
  /\ UNCHANGED <<config, expand, thread, group>>

(* An Err of the archive.  Expand asks the handler first, then GroupByKeys. *)
ReceiveError ==
  /\ Pulling /\ ~pending /\ ~exhausted /\ current # 0
  /\ chan # <<>> /\ Head(chan) = Failed
  /\ chan' = <<>> /\ current' = 0 /\ pending' = TRUE
  /\ exhausted' = (handler = "stop")
  /\ done' = (handler = "reraise")
  /\ IF handler = "reraise" THEN Return(Error(current))
     ELSE UNCHANGED <<consumer, out>>
  /\ UNCHANGED <<config, next, thread, group>>

(* recv() fails: the channel is empty and its sender is dropped. *)
ReceiveNone ==
  /\ Pulling /\ ~pending /\ ~exhausted /\ current # 0
  /\ chan = <<>> /\ parser.pc = "gone"
  /\ current' = 0 /\ pending' = TRUE
  /\ UNCHANGED <<config, next, exhausted, thread, chan, group, done, consumer,
                 out>>

Between == Pulling /\ ~pending /\ ~exhausted /\ current = 0

OpenShard ==
  /\ Between
  /\ next < Len(input) /\ input[next + 1].opens
  /\ next' = next + 1 /\ current' = next + 1
  /\ parser' = [pc |-> "parse", of |-> next + 1, pos |-> 1, long |-> <<>>,
                pax |-> <<>>]
  /\ UNCHANGED <<config, pending, exhausted, sending, chan, group, done,
                 consumer, out>>

OpenFails ==
  /\ Between
  /\ next < Len(input) /\ ~input[next + 1].opens
  /\ next' = next + 1
  /\ exhausted' = (handler = "stop")
  /\ done' = (handler # "continue")
  /\ IF handler = "reraise" THEN Return(Error(next + 1))
     ELSE UNCHANGED <<consumer, out>>
  /\ UNCHANGED <<config, current, pending, thread, chan, group>>

NoMoreSources ==
  /\ Between
  /\ next = Len(input)
  /\ exhausted' = TRUE
  /\ UNCHANGED <<config, next, current, pending, thread, chan, group, done,
                 consumer, out>>

(* The iterators are dropped between two calls, the receiver with them. *)
Drop ==
  /\ consumer \in {"idle", "ended"}
  /\ consumer' = "dropped"
  /\ current' = 0 /\ chan' = <<>> /\ group' = <<>>
  /\ UNCHANGED <<config, next, pending, exhausted, thread, done, out>>

Dropped ==
  /\ consumer = "dropped" /\ parser.pc = "gone"
  /\ UNCHANGED vars

-----------------------------------------------------------------------------
ParserStep == Extend \/ PassOver \/ File \/ Bad \/ EndOfArchive \/ Send

PullStep ==
  Finish \/ Boundary \/ Exhausted \/ PushNothing \/ PushFile \/ PushDuplicate
    \/ ReceiveError \/ ReceiveNone \/ OpenShard \/ OpenFails \/ NoMoreSources

Next == ParserStep \/ PullStep \/ Pull \/ Drop \/ Dropped

Spec == Init /\ [][Next]_vars

(* The thread is scheduled, and a call of next() runs on. *)
FairSpec == Spec /\ WF_vars(ParserStep) /\ WF_vars(PullStep)

-----------------------------------------------------------------------------
(* What the archives hold, said without the reader: the files up to the    *)
(* first record that ends an archive, under the names their own headers    *)
(* give them.                                                              *)

Readable(i) ==
  LET records == input[i].records
  IN {j \in DOMAIN records : input[i].opens /\
        \A k \in 1..j : records[k].type \notin {"end", "bad"}}

(* The records that belong to file j: those since the file or link before. *)
HeadersOf(i, j) ==
  {k \in 1..(j - 1) : \A m \in k..(j - 1) :
     input[i].records[m].type \in {"long", "pax", "skip"}}

Latest(S) == CHOOSE k \in S : \A m \in S : m <= k

TrueName(i, j) ==
  LET of(type) == {k \in HeadersOf(i, j) : input[i].records[k].type = type}
  IN input[i].records[IF of("pax") # {} THEN Latest(of("pax"))
                      ELSE IF of("long") # {} THEN Latest(of("long")) ELSE j].name

(* The files that can be part of a sample. *)
Keyed(i) ==
  {j \in Readable(i) : /\ input[i].records[j].type = "file"
                       /\ TrueName(i, j).kept /\ TrueName(i, j).ext # ""}

(* The longest run of keyed files around j that share its basename. *)
RunOf(i, j) ==
  {k \in Keyed(i) : \A m \in Keyed(i) :
     (j <= m /\ m <= k) \/ (k <= m /\ m <= j)
       => TrueName(i, m).key = TrueName(i, j).key}

(* Of each field the first. *)
Firsts(i, S) ==
  {j \in S : \A k \in S :
     k < j => Lower[TrueName(i, k).ext] # Lower[TrueName(i, j).ext]}

Samples == {n \in DOMAIN out : out[n].files # {}}

-----------------------------------------------------------------------------
Item == [of : Nat, key : {n.key : n \in Names} \cup {""},
         exts : SUBSET DOMAIN Lower, files : SUBSET Nat]

TypeOK ==
  /\ input \in Inputs /\ handler \in Handlers
  /\ next \in 0..Len(input) /\ current \in {0, next}
  /\ pending \in BOOLEAN /\ exhausted \in BOOLEAN /\ done \in BOOLEAN
  /\ parser \in [pc : {"parse", "send", "gone"}, of : 0..Len(input), pos : Nat,
                 long : Seq(Names), pax : Seq(Names)]
  /\ sending \in [index : Nat, name : Names]
  /\ chan \in Seq([index : Nat, name : Names]) /\ Len(chan) <= Readahead
  /\ group \in Seq(Item) /\ Len(group) <= 1
  /\ consumer \in {"idle", "pulling", "ended", "dropped"}
  /\ out \in Seq(Item)

(* A sample is made of the consecutive files of one basename in one shard,  *)
(* all of those that can be read and of each field the first, never of      *)
(* files of two shards and never under another file's name, however far     *)
(* the thread reads ahead and whatever becomes of the shard (Grouper::push, *)
(* "a truncated shard can never merge its trailing files").  Samples come   *)
(* in the order of the shards and of the files in them, each once.  (And    *)
(* the variables keep their types.)                                         *)
WholeRun(s) ==
  \E j \in s.files \cap Keyed(s.of) :
    /\ s.key = TrueName(s.of, j).key
    /\ s.files \subseteq Firsts(s.of, RunOf(s.of, j))
    /\ handler # "stop" => s.files = Firsts(s.of, RunOf(s.of, j))

InOrder(s, t) ==
  \/ s.of < t.of
  \/ s.of = t.of /\ \A j \in s.files, k \in t.files : j < k

SamplesAreRuns ==
  /\ TypeOK
  /\ \A n \in Samples : WholeRun(out[n])
  /\ \A n, m \in Samples : n < m => InOrder(out[n], out[m])

(* When next() returns None with no error reported on the way, every file  *)
(* that belongs to a sample has been returned, and no archive broke off.   *)
(* A handler that continues loses only what stands behind a broken record. *)
NothingLost ==
  consumer = "ended" /\ handler # "stop" /\ (\A n \in DOMAIN out : n \in Samples) =>
    \A i \in DOMAIN input :
      /\ \A j \in Keyed(i) : j \in Firsts(i, RunOf(i, j)) =>
           \E n \in Samples : out[n].of = i /\ j \in out[n].files
      /\ handler = "reraise" =>
           /\ input[i].opens
           /\ \A j \in DOMAIN input[i].records : input[i].records[j].type = "bad" =>
                j \notin Readable(i) /\
                \E k \in 1..(j - 1) : input[i].records[k].type = "end"

(* Dropping a shard part way through ends its thread. *)
ThreadEnds == consumer = "dropped" ~> parser.pc = "gone"
=============================================================================
