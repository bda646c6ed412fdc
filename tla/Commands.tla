------------------------------- MODULE Commands -------------------------------
(***************************************************************************)
(* `wds cat`, `split`, `create`, `extract`, `info` and `ls`                *)
(* (crates/webdataset-cli/src), with what they do through the shard        *)
(* reader's grouping and the shard writer's naming.                        *)
(*                                                                         *)
(* A name is a sequence of characters; an archive is a sequence of         *)
(* [name, data]; a directory is a function from paths to data.  A sample   *)
(* is [key, shard, fields], the number of the shard standing for __url__.  *)
(* How archives are parsed and rolled over while threads run and files     *)
(* fail is ShardReader's and ShardWriter's.                                *)
(***************************************************************************)
EXTENDS Integers, FiniteSets, SequencesExt, Results

CONSTANTS
  Order,     (* the characters, in their order                             *)
  LowerChar, (* [characters -> characters]                                 *)
  SizeOf     (* [data -> Nat]: in bytes                                    *)

Lowercase(name) == [i \in DOMAIN name |-> LowerChar[name[i]]]

Place(c) == CHOOSE i \in DOMAIN Order : Order[i] = c
Before(s, t) ==
  \/ IsStrictPrefix(s, t)
  \/ \E i \in DOMAIN s \cap DOMAIN t :
       /\ Place(s[i]) < Place(t[i])
       /\ \A j \in 1..(i - 1) : s[j] = t[j]

Sorted(names) == SetToSortSeq(names, Before)

-----------------------------------------------------------------------------
(* Names (utils.rs).                                                       *)

LastSlash(name) ==
  LET slashes == {i \in DOMAIN name : name[i] = "/"}
  IN  IF slashes = {} THEN 0 ELSE CHOOSE i \in slashes : \A j \in slashes : j <= i

(* The dots of the file's own name; the first one ends the basename. *)
Dots(name) == {i \in DOMAIN name : i > LastSlash(name) /\ name[i] = "."}

BasePlusExt(name) ==
  LET dot == CHOOSE i \in Dots(name) : \A j \in Dots(name) : i <= j
  IN  IF Dots(name) = {} \/ dot = LastSlash(name) + 1 THEN <<>>
      ELSE <<SubSeq(name, 1, dot - 1), SubSeq(name, dot + 1, Len(name))>>

Doubled(name, i) == i > 0 /\ i < Len(name) /\ name[i] = "_" /\ name[i + 1] = "_"

(* Either the whole name is wrapped, or its first component begins with    *)
(* two underscores and ends with the next two.                             *)
IsShardMetadata(name) ==
  LET ends == {i \in 3..Len(name) : Doubled(name, i)}
      end == CHOOSE i \in ends : \A j \in ends : i <= j
  IN  /\ Doubled(name, 1)
      /\ \/ LastSlash(name) = 0 /\ Doubled(name, Len(name) - 1)
         \/ /\ ends # {}
            /\ \A i \in 3..(end - 1) : name[i] # "/"
            /\ end + 2 <= Len(name) => name[end + 2] = "/"

-----------------------------------------------------------------------------
(* Reading: the files of a shard that belong to a sample, grouped.         *)

Member(sample, ext) == ext \in DOMAIN sample.fields

Started(key, shard, ext, data) ==
  [key |-> key, shard |-> shard, fields |-> (ext :> data)]

(* One file after the samples so far, the last of which is being assembled *)
(* and is lost when an error is raised.  A sample never spans two shards.  *)
Pushed(samples, shard, file) ==
  LET parts == BasePlusExt(file.name)
      ext == Lowercase(parts[2])
      opens == \/ samples = <<>>
               \/ Last(samples).key # parts[1]
               \/ Last(samples).shard # shard
      ok(after) == [samples |-> after, failed |-> FALSE]
  IN  IF parts = <<>> \/ IsShardMetadata(file.name) THEN ok(samples)
      ELSE IF opens THEN ok(Append(samples, Started(parts[1], shard, ext, file.data)))
      ELSE IF Member(Last(samples), ext) THEN [samples |-> Front(samples), failed |-> TRUE]
      ELSE ok(Append(Front(samples), [Last(samples) EXCEPT !.fields = (ext :> file.data) @@ @]))

(* The samples of the shards in order, up to the first error. *)
Read(archives) ==
  LET push(state, file) ==
        IF state.failed THEN state ELSE Pushed(state.samples, file.shard, file)
      numbered == [i \in DOMAIN archives |->
                     [k \in DOMAIN archives[i] |->
                        [name |-> archives[i][k].name, data |-> archives[i][k].data, shard |-> i]]]
  IN  FoldLeft(push, [samples |-> <<>>, failed |-> FALSE], FlattenSeq(numbered))

(* take: that many samples, and no error after them. *)
Taken(read, limit) ==
  IF Len(read.samples) < limit THEN read
  ELSE [samples |-> SubSeq(read.samples, 1, limit), failed |-> FALSE]

(* open: what a command reads. *)
Opened(archives, limit) == Taken(Read(archives), limit)

-----------------------------------------------------------------------------
(* Writing (TarWriter::write): the fields in order, named after the key;   *)
(* those that begin with an underscore are left out.                       *)
Files(sample) ==
  LET kept == {ext \in DOMAIN sample.fields : ext = <<>> \/ ext[1] # "_"}
      names == Sorted(kept)
  IN  [i \in DOMAIN names |->
         [name |-> sample.key \o <<".">> \o names[i], data |-> sample.fields[names[i]]]]

Archive(samples) == FlattenSeq([i \in DOMAIN samples |-> Files(samples[i])])

PayloadOf(samples) ==
  FoldLeft(LAMBDA n, file : n + SizeOf[file.data], 0, Archive(samples))

(* ShardWriter::write: the last shard is closed when it is full. *)
Rolled(samples, maxCount, maxSize) ==
  LET add(shards, sample) ==
        IF \/ shards = <<>>
           \/ Len(Last(shards)) >= maxCount
           \/ PayloadOf(Last(shards)) >= maxSize
        THEN Append(shards, <<sample>>)
        ELSE Append(Front(shards), Append(Last(shards), sample))
  IN  FoldLeft(add, <<>>, samples)

-----------------------------------------------------------------------------
(* The commands, given what they read.  What has been written stays when   *)
(* one fails: the writer that is dropped finishes its archive.             *)

Archives(shards) == [i \in DOMAIN shards |-> Archive(shards[i])]

Has(sample, required) == \A ext \in required : Member(sample, ext)

Cat(read, required) ==
  [ok |-> ~read.failed,
   archives |-> Archives(<<SelectSeq(read.samples, LAMBDA s : Has(s, required))>>)]

(* `order` is how the shuffle hands the samples on. *)
Split(read, maxCount, maxSize, order) ==
  LET stream == [i \in DOMAIN read.samples |-> read.samples[order[i]]]
  IN  [ok |-> ~read.failed, archives |-> Archives(Rolled(stream, maxCount, maxSize))]

Directory(path) == SubSeq(path, 1, LastSlash(path))
FileName(path) == SubSeq(path, LastSlash(path) + 1, Len(path))

(* Mutant: samples of different directories are not kept apart. *)
GroupKeyFlat(path) ==
  LET name == FileName(path) IN SubSeq(name, 1, SelectInSeq(name, LAMBDA c : c = ".") - 1)

(* collect's key for a file, the part before its first dot in its          *)
(* directory; Extension is what run takes from the rest.                   *)
GroupKey(path) ==
  LET name == FileName(path)
  IN  Directory(path) \o SubSeq(name, 1, SelectInSeq(name, LAMBDA c : c = ".") - 1)

Extension(path) ==
  LET name == FileName(path)
  IN  Lowercase(SubSeq(name, SelectInSeq(name, LAMBDA c : c = ".") + 1, Len(name)))

(* read_dir gives the files in any order, `listed`; of two files with one  *)
(* extension in lower case the later one stays.                            *)
Create(tree, listed, recursive, maxCount, maxSize) ==
  LET taken == SelectSeq(listed, LAMBDA p : Dots(p) # {} /\ (recursive \/ LastSlash(p) = 0))
      of(key) == SelectSeq(taken, LAMBDA p : GroupKey(p) = key)
      fields(paths) == FoldLeft(LAMBDA f, p : (Extension(p) :> tree[p]) @@ f, <<>>, paths)
      sample(key) == [key |-> key, shard |-> 0, fields |-> fields(of(key))]
      samples(keys) == [i \in DOMAIN keys |-> sample(keys[i])]
      all == samples(Sorted({GroupKey(taken[i]) : i \in DOMAIN taken}))
  IN  [ok |-> taken # <<>>, archives |-> Archives(Rolled(all, maxCount, maxSize))]

(* Later samples overwrite the files of earlier ones. *)
Extract(read, fields) ==
  LET wanted(sample) ==
        {ext \in DOMAIN sample.fields :
           /\ fields = {} \/ ext \in fields
           /\ ~Doubled(ext, 1)}
      written(sample) ==
        [path \in {sample.key \o <<".">> \o ext : ext \in wanted(sample)} |->
           sample.fields[SubSeq(path, Len(sample.key) + 2, Len(path))]]
  IN  [ok |-> ~read.failed,
       tree |-> FoldLeft(LAMBDA t, sample : written(sample) @@ t, <<>>, read.samples)]

(* Both count `__` fields as payload and neither lists them. *)
Info(read) ==
  LET bytes(sample) ==
        FoldLeft(LAMBDA n, ext : n + SizeOf[sample.fields[ext]], 0, Sorted(DOMAIN sample.fields))
      exts == {ext \in UNION {DOMAIN read.samples[i].fields : i \in DOMAIN read.samples} :
                 ~Doubled(ext, 1)}
      having(ext) == {i \in DOMAIN read.samples : Member(read.samples[i], ext)}
  IN  [ok |-> ~read.failed,
       samples |-> Len(read.samples),
       bytes |-> FoldLeft(LAMBDA n, sample : n + bytes(sample), 0, read.samples),
       shards |-> Cardinality({read.samples[i].shard : i \in DOMAIN read.samples}),
       present |-> [ext \in exts |-> Cardinality(having(ext))]]

Ls(read) ==
  [ok |-> ~read.failed,
   lines |-> [i \in DOMAIN read.samples |->
                [key |-> read.samples[i].key,
                 fields |-> {ext \in DOMAIN read.samples[i].fields : ~Doubled(ext, 1)}]]]
=============================================================================
