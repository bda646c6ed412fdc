-------------------------------- MODULE MCData --------------------------------
(***************************************************************************)
(* The conversions of the library on bounded inputs: each state is a job,  *)
(* and the one step does it.  A job is <<what, input>>; an answer is a     *)
(* sequence of at most one.                                                *)
(***************************************************************************)
EXTENDS Values, FiniteSets

CONSTANTS
  Align, MaxRank,            (* of tensor files, in units                  *)
  MaxRaw,                    (* the length of raw patterns                 *)
  MaxRows,                   (* the length of batches                      *)
  MaxOps                     (* calls on one transfer                      *)

VARIABLES job, answer

vars == <<job, answer>>

-----------------------------------------------------------------------------
(* URL patterns.                                                           *)

Home == "${HOME}"
Sub == "${SUB}"
Unset == "${UNSET}"

Patterns == INSTANCE BraceExpand WITH
  Variables <- {Home, Sub, Unset},
  Env <- (Home :> <<"a", Sub>> @@ Sub :> <<"b", "{", "c", ",", "d", "}">>)

T(s) == Patterns!Text(s)
Bound == (Home :> <<T(<<"a">>), Patterns!Var(Sub)>> @@
          Sub :> <<T(<<"b">>), Patterns!OneOf(<< <<T(<<"c">>)>>, <<T(<<"d">>)>> >>)>>)

Ranges ==
  {Patterns!Range3(first, last, step, width) :
     first \in {-1, 0, 8}, last \in {-2, 1, 10}, step \in {0, 2}, width \in {1, 2, 3}}

Nodes1 == {T(<<>>), T(<<"a">>), T(<<"{">>), T(<<",", "\\">>), Patterns!Var(Home), Patterns!Var(Sub)}
            \cup Ranges
FewNodes == {T(<<>>), T(<<"a">>), T(<<"}">>), Patterns!Var(Sub), Patterns!Range3(2, 1, 0, 1)}
Bare1 == {Patterns!Bare(<<n>>) : n \in {T(<<"a">>), T(<<",">>)}}
Arms2 == {Patterns!OneOf(<< <<m>>, <<n>> >>) : m, n \in FewNodes}
Arms3 == {Patterns!OneOf(<< <<m, n>>, <<a>>, <<b>> >>) :
            m, n \in {T(<<"a">>), T(<<"{">>)}, a \in Arms2, b \in {T(<<",">>)} \cup Bare1}
Nodes2 == FewNodes \cup Bare1 \cup Arms2

Trees == {<<n>> : n \in Nodes1 \cup Nodes2 \cup Arms3} \cup {<<m, n>> : m \in FewNodes, n \in Nodes2}

(* A specification: patterns joined with `::`. *)
Specifications ==
  {<<t>> : t \in Trees} \cup {<<t, u, v>> : t, u, v \in {<<n>> : n \in FewNodes}}

RawPatterns == UNION {[1..n -> {"{", "}", ",", "\\", "a"}] : n \in 0..MaxRaw}

WrittenSpec(spec) ==
  Patterns!Joined([i \in DOMAIN spec |-> Patterns!Written(spec[i], TRUE)], <<"::">>)

Expand ==
  /\ job[1] = "expand"
  /\ answer' = <<Patterns!ExpandUrls(WrittenSpec(job[2]))>>

ExpandUnset ==
  /\ job[1] = "unset"
  /\ answer' = <<Patterns!ExpandUrls(job[2])>>

ExpandRaw ==
  /\ job[1] = "raw"
  /\ answer' = <<Patterns!BraceExpand(job[2])>>

-----------------------------------------------------------------------------
(* Batches.                                                                *)

Batch == INSTANCE Batches

Vector == Tensor("i64", <<2>>, <<1, 9>>)
Column == Tensor("i64", <<2, 1>>, <<1, 2>>)
FewValues == {Integer(5), Integer(9), Text("t"), Vector, Column}
SomeValues ==
  FewValues \cup
  {Bool(TRUE), Integer(-1), Float(1), Float(4), List(<<Integer(1)>>),
   Tensor("i64", <<1, 2>>, <<3, 4>>), Tensor("f64", <<2>>, <<1, 3>>),
   Tensor("i64", <<>>, <<9>>), Tensor("f32", <<>>, <<3>>), Tensor("u8", <<0>>, <<>>)}

Rows1 == {[x |-> v] : v \in SomeValues}
Rows2 == {[x |-> v, y |-> w] : v, w \in FewValues}

SampleLists ==
  UNION {[1..n -> Rows1] : n \in 0..MaxRows} \cup [1..2 -> Rows2]
    \cup {<<r, s>> : r \in {[x |-> Integer(5)]}, s \in Rows2}

Collate ==
  /\ job[1] = "collate"
  /\ LET batch == Batch!CollateSamples(job[2])
     IN  answer' = <<[batch |-> batch,
                      back |-> IF batch = Err THEN Err ELSE Batch!UncollateSample(batch.of)]>>

(* Two rows as tuples, of one length or not. *)
TupleLists == {<<r, s>> : r \in [1..2 -> FewValues], s \in [1..2 -> FewValues] \cup [1..1 -> FewValues]}

CollateTuples ==
  /\ job[1] = "tuples"
  /\ answer' = <<Batch!CollateTuples(job[2])>>

-----------------------------------------------------------------------------
(* Tensor files.                                                           *)

Files == INSTANCE TensorFiles WITH
  Width <- [u8 |-> 1, i64 |-> 1, f32 |-> 1, f64 |-> 2]

SomeTensors ==
  {Tensor("u8", <<>>, <<7>>), Tensor("u8", <<0>>, <<>>), Tensor("u8", <<2, 3>>, <<1, 2, 3, 4, 5, 6>>),
   Tensor("f64", <<3>>, <<1, 2, 3>>), Tensor("i64", <<2, 2>>, <<1, 2, 3, 4>>)}
TooManyAxes == Tensor("u8", [i \in 1..MaxRank |-> 1], <<1>>)

Items == {[tensor |-> t, info |-> label] : t \in SomeTensors, label \in {"", "label"}}
ItemLists == UNION {[1..n -> Items] : n \in 0..2}

(* Each list of arrays with every place a file of it can be cut at. *)
Cuts ==
  UNION {{<<items, n, inside>> : n \in 0..Files!EndOf(items, Len(items)), inside \in BOOLEAN} :
           items \in ItemLists}

ReadCut ==
  /\ job[1] = "cut"
  /\ LET items == job[2][1]
         file == Files!CutAt(Files!EncodeLabelled(items).of, job[2][2], job[2][3])
     IN  answer' = <<[buffer |-> Files!DecodeLabelled(file), stream |-> Files!ReadLabelled(file)]>>

NpyCuts ==
  UNION {{<<t, n, inside>> : n \in 0..Len(Files!ToNpy(t)), inside \in BOOLEAN} : t \in SomeTensors}

ReadNpy ==
  /\ job[1] = "npy"
  /\ answer' = <<Files!FromNpy(Files!CutAt(Files!ToNpy(job[2][1]), job[2][2], job[2][3]))>>

(* Too many axes are refused. *)
Refuse ==
  /\ job[1] = "axes"
  /\ answer' = <<Files!EncodeLabelled(<<[tensor |-> job[2], info |-> ""]>>)>>

-----------------------------------------------------------------------------
(* Transfers.                                                              *)

Transfers(env) == INSTANCE Transfers WITH
  Schemes <- {"http", "pipe", "gs", "ais", "htgs", "hf", "s3", "file", "nosuchscheme"},
  Env <- env

Rule(prefix, replacement) == [prefix |-> prefix, replacement |-> replacement]
RuleSets ==
  {<<>>, << <<Rule(<<"http", "mirror">>, <<"pipe", "cat">>), Rule(<<"http">>, <<"hf">>),
             Rule(<<"data">>, <<"gs", "bucket">>), Rule(<<"ais">>, <<"file">>)>> >>}
Envs == [secure : BOOLEAN, rewrite : RuleSets, viaAis : {{}, {"pipe", "s3", "htgs"}}]
Urls ==
  {<<"-">>, <<"data", "a.tar">>, <<"file", "a.tar">>, <<"http", "mirror", "a.tar">>, <<"pipe", "cat">>,
   <<"nosuchscheme", "a.tar">>}
    \cup {<<scheme, "host", "a.tar">> : scheme \in {"http", "gs", "ais", "htgs", "hf", "s3"}}
Statuses == {0, 3, 23, 26, 141, -1}
Children == {[output |-> n, exit |-> e, cut |-> c] : n \in 0..2, e \in Statuses, c \in {0, 23, 141, -1}}
Ops == UNION {[1..n -> {"read", "finish"}] : n \in 1..MaxOps}

Open ==
  /\ job[1] = "open"
  /\ LET env == job[2][1] IN answer' = <<Transfers(env)!Gopen(job[2][2], job[2][3])>>

Transfer ==
  /\ job[1] = "transfer"
  /\ LET env == [secure |-> FALSE, rewrite |-> <<>>, viaAis |-> {}]
         stream == Transfers(env)!Gopen(job[2][1], FALSE).of
     IN  answer' = <<Transfers(env)!Calls(job[2][2], stream[2], job[2][3])>>

-----------------------------------------------------------------------------
(* Values of the types decode.rs lists, each under its extensions.         *)

Components == {"txt", "TXT", "transcript", "html", "cls", "id", "json", "npy", "NPY", "npz", "ten",
               "mp", "cbor", "pth", "bin", "png", "seg", "gz", "again", "", "__key__", "_note"}
Codecs(spec) == INSTANCE Codec WITH
  Lossless <- {"png", "bmp"},
  Lower <- [c \in Components |-> CASE c = "TXT" -> "txt" [] c = "NPY" -> "npy" [] OTHER -> c],
  Numerals <- ("7" :> 7 @@ "7\n" :> 7 @@ "-1" :> -1),
  Handlers <- <<"seg", "image", "again">>,
  Spec0 <- spec

Pictures == INSTANCE Images WITH Lossless <- {"png", "bmp"}

Simple == {Null, Bool(TRUE), Integer(7), Float(1), Float(4), Text("x")}
SomeTrees ==
  Simple \cup {List(<<v, w>>) : v \in Simple, w \in {Integer(7), List(<<>>)}}
    \cup {Map([k \in {"p", "q"} |-> v]) : v \in {Null, List(<<Text("x")>>)}}

Typed ==
  {<< <<e>>, Text(s)>> : e \in {"txt", "TXT", "transcript"}, s \in {"x", "7"}}
    \cup {<< <<e>>, Integer(n)>> : e \in {"cls", "id"}, n \in {7, -1}}
    \cup {<< <<e>>, v>> : e \in {"json", "mp", "cbor"}, v \in SomeTrees}
    \cup {<< <<e>>, t>> : e \in {"npy", "NPY"}, t \in SomeTensors}
    \cup {<< <<"npz">>, Map([k \in {"p", "q"} |-> t])>> : t \in SomeTensors}
    \cup {<< <<"ten">>, List(<<t, u>>)>> : t, u \in SomeTensors}
    \cup {<< <<"bin">>, Bytes(<<"utf8", "x">>)>>}
Refused == {<< <<"bin", e>>, Bytes(<<"utf8", "x">>)>> : e \in {"again", "pth"}}

(* A path before it and a compression after it leave a field what it is. *)
Dressed(key) == {key, <<"seg">> \o key, key \o <<"gz">>, <<"seg">> \o key \o <<"gz">>}
TypedFields ==
  UNION {{<<key, pair[2]>> : key \in Dressed(pair[1])} : pair \in Typed}
    \cup {<< <<"__key__">>, Text("x")>>, << <<"_note">>, Bytes(<<"utf8", "x">>)>>}
(* Bytes are stored as they are, so a name that says otherwise misleads.   *)
Misnamed(key, v) == Kind(v) = "bytes" /\ Last(key) = "gz"

OneField(key, v) == (key :> v)

Store ==
  /\ job[1] = "store"
  /\ LET stored == Codecs("none")!Stored(OneField(job[2][1], job[2][2]))
         Decoded(sample, partial) == Codecs("none")!Decode(sample, Codecs("none")!All, partial)
         once == IF stored = Err THEN Err ELSE Decoded(stored.of, FALSE)
     IN  answer' = <<[once |-> once, again |-> IF once = Err THEN Err ELSE Decoded(once.of, TRUE)]>>

-----------------------------------------------------------------------------
(* Images.                                                                 *)

Sizes == (1..3) \X (1..3)
Channels == [luma |-> 1, rgb |-> 3, rgba |-> 4]
Image(mode, h, w) ==
  [mode |-> mode, h |-> h, w |-> w, bytes |-> [i \in 1..(h * w * Channels[mode]) |-> 5 * i]]

Show ==
  /\ job[1] = "show"
  /\ LET spec == job[2][2]
         value == Pictures!ToValue(job[2][1], Pictures!Specs[spec])
         stored == Pictures!EncodeImage("png", value)
     IN  answer' = <<[value |-> value,
                      again |-> IF stored = Err THEN Err
                                ELSE Codecs(Pictures!Specs[spec])!DecodeField(<<"bin", "png">>, stored.of, 16)]>>

-----------------------------------------------------------------------------
(* The command line.                                                       *)

Wds == INSTANCE Commands WITH
  Order <- <<".", "/", "X", "_", "a", "b", "d", "m", "x", "y">>,
  LowerChar <- [c \in {".", "/", "X", "_", "a", "b", "d", "m", "x", "y"} |-> IF c = "X" THEN "x" ELSE c],
  SizeOf <- [n \in 1..6 |-> 1]

FewNames ==
  {<<"a", ".", "x">>, <<"a", ".", "X">>, <<"a", ".", "y">>, <<"b", ".", "x">>, <<"d", "/", "a", ".", "x">>}
SomeNames ==
  FewNames \cup
  {<<"a", ".", "_">>, <<".", "x">>, <<"b">>, <<"_", "_", "m", "_", "_">>,
   <<"_", "_", "m", "_", "_", "/", "a", ".", "x">>, <<"d", ".", "d", "/", "a", ".", "x", ".", "y">>}

(* A shard of these names; a file's data is its place. *)
Shard(names, from) == [i \in DOMAIN names |-> [name |-> names[i], data |-> from + i]]

Shards ==
  {<<Shard(s, 0)>> : s \in UNION {[1..n -> SomeNames] : n \in 0..3}}
    \cup {<<Shard(s, 0), Shard(t, 2)>> :
            s \in [1..2 -> FewNames], t \in UNION {[1..n -> FewNames] : n \in 1..2}}
NoLimit == 9

Written(read, order) ==
  [cat |-> Wds!Cat(read, {<<"x">>}),
   first |-> Wds!Cat(Wds!Taken(read, 1), {}),
   split |-> Wds!Split(read, 2, 2, order),
   info |-> Wds!Info(read),
   ls |-> Wds!Ls(read)]

Backwards(n) == [i \in 1..n |-> n + 1 - i]
Rewritten(read) == [read |-> read, written |-> Written(read, Backwards(Len(read.samples)))]

Rewrite ==
  /\ job[1] = "rewrite"
  /\ answer' = <<Rewritten(Wds!Opened(job[2], NoLimit))>>

(* A directory with up to three files, as read_dir may list it. *)
Listings ==
  UNION {{s \in [1..n -> SomeNames] : IsInjective(s)} : n \in 1..3}

TreeOf(listed) == [p \in ToSet(listed) |-> CHOOSE i \in DOMAIN listed : listed[i] = p]

Extracted(made) ==
  LET read == Wds!Opened(made.archives, NoLimit)
  IN  [made |-> made, found |-> Wds!Extract(read, {}), xs |-> Wds!Extract(read, {<<"x">>})]

CreateAndExtract ==
  /\ job[1] = "create"
  /\ answer' = <<Extracted(Wds!Create(TreeOf(job[2]), job[2], TRUE, 1, 2))>>

-----------------------------------------------------------------------------
Init ==
  /\ answer = <<>>
  /\ \/ \E s \in Specifications : job = <<"expand", s>>
     \/ \E s \in {<<"a", Unset>>, <<Unset>>, <<"a", "::", Home, Unset>>} : job = <<"unset", s>>
     \/ \E s \in RawPatterns : job = <<"raw", s>>
     \/ \E s \in SampleLists : job = <<"collate", s>>
     \/ \E s \in TupleLists : job = <<"tuples", s>>
     \/ \E s \in Cuts : job = <<"cut", s>>
     \/ \E s \in NpyCuts : job = <<"npy", s>>
     \/ job = <<"axes", TooManyAxes>>
     \/ \E env \in Envs, url \in Urls, writing \in BOOLEAN : job = <<"open", <<env, url, writing>> >>
     \/ \E url \in {<<"http", "a.tar">>, <<"pipe", "cat">>}, child \in Children, ops \in Ops :
          job = <<"transfer", <<url, child, ops>> >>
     \/ \E s \in TypedFields \cup Refused : ~Misnamed(s[1], s[2]) /\ job = <<"store", s>>
     \/ \E mode \in DOMAIN Channels, size \in Sizes, spec \in DOMAIN Pictures!Specs :
          job = <<"show", <<Image(mode, size[1], size[2]), spec>> >>
     \/ \E s \in Shards : job = <<"rewrite", s>>
     \/ \E s \in Listings : job = <<"create", s>>

Next ==
  /\ answer = <<>>
  /\ UNCHANGED job
  /\ \/ Expand \/ ExpandUnset \/ ExpandRaw
     \/ Collate \/ CollateTuples
     \/ ReadCut \/ ReadNpy \/ Refuse
     \/ Open \/ Transfer
     \/ Store \/ Show
     \/ Rewrite \/ CreateAndExtract

Spec == Init /\ [][Next]_vars

Answered(what) == job[1] = what /\ answer # <<>>

-----------------------------------------------------------------------------
(* Every specification expands to the URLs its patterns stand for, in the  *)
(* order they are written in, the last group varying fastest, with         *)
(* variables replaced to the end; a variable that is not set, and a brace  *)
(* without its partner, are errors and nothing else is.                    *)
ExpandsAsWritten ==
  /\ Answered("expand") =>
       answer[1] = Ok(FlattenSeq([i \in DOMAIN job[2] |-> Patterns!Means(job[2][i], Bound)]))
  /\ Answered("unset") => answer[1] = Err
  /\ Answered("raw") => (answer[1] = Err <=> ~Patterns!Balanced(job[2]))

(* A batch comes apart into the samples it was made of: the same fields    *)
(* with the same numbers, tensors, and other values in the same rows, for  *)
(* numbers an f64 holds.  Only samples with other fields, tensors of other *)
(* shapes in one column, and no samples at all, are refused.  Rows given   *)
(* as tuples are stacked like the samples they are.                        *)
BatchesComeBack ==
  /\ Answered("collate") =>
       LET samples == job[2]
           alike == \A i \in DOMAIN samples : DOMAIN samples[i] = DOMAIN samples[1]
           column(name) == [i \in DOMAIN samples |-> samples[i][name]]
       IN  IF samples = <<>> \/ ~alike THEN answer[1].batch = Err
           ELSE IF \E name \in DOMAIN samples[1] : Batch!Ragged(column(name))
           THEN answer[1].batch = Err
           ELSE /\ answer[1].back # Err
                /\ Len(answer[1].back.of) = Len(samples)
                /\ \A i \in DOMAIN samples, name \in DOMAIN samples[1] :
                     Batch!Exact(samples[i][name]) =>
                       Batch!SameValue(samples[i][name], answer[1].back.of[i][name])
  /\ Answered("tuples") =>
       LET rows == job[2]
           samples == [i \in DOMAIN rows |-> [x |-> rows[i][1], y |-> rows[i][2]]]
           batch == Batch!CollateSamples(samples)
       IN  IF Len(rows[1]) # Len(rows[2]) THEN answer[1] = Err
           ELSE IF batch = Err THEN answer[1] = Err
           ELSE answer[1] = Ok(<<batch.of.x, batch.of.y>>)

(* How a URL must be served, whichever rule and table entry lead there:    *)
(* the statuses its end is judged by, or Err where nothing may be opened.  *)
Served(env, url, writing) ==
  LET rewritten ==
        IF env.rewrite = <<>> THEN url
        ELSE CASE url[1] = "http" /\ url[2] = "mirror" -> <<"pipe", "cat">>
               [] url[1] = "http" /\ url[2] # "mirror" -> <<"hf">>
               [] url[1] = "data" -> <<"gs">>
               [] url[1] = "ais" -> <<"file">>
               [] OTHER -> url
      scheme == rewritten[1]
      local == scheme \in {"data", "file"}
      ais == scheme \in env.viaAis \cup {"ais"}
  IN  IF url = <<"-">> THEN Ok({})
      ELSE IF env.secure /\ (local \/ env.rewrite # <<>>) THEN Err
      ELSE IF local THEN Ok({})
      ELSE IF scheme = "pipe" /\ ~ais THEN IF env.secure THEN Err ELSE Ok({0, 141})
      ELSE IF ~ais /\ scheme \in {"nosuchscheme", "s3"} THEN Err
      ELSE IF ~writing THEN Ok({0, 23, 141})
      ELSE IF ~ais /\ scheme \in {"htgs", "hf"} THEN Err
      ELSE Ok({0, 26, 141})

(* The calls on a transfer that must come back Err: the one that meets its *)
(* end, if the child's way of ending counts as a failure, and every finish *)
(* after it.                                                               *)
Failing(url, child, ops) ==
  LET ignored == IF url[1] = "pipe" THEN {0, 141} ELSE {0, 23, 141}
      ending == {i \in DOMAIN ops : ops[i] = "finish" \/ i = child.output + 1}
      first == CHOOSE i \in ending : \A j \in ending : i <= j
      status == IF first > child.output THEN child.exit ELSE child.cut
  IN  IF ending = {} \/ status \in ignored THEN {}
      ELSE {i \in DOMAIN ops : i = first \/ (i > first /\ ops[i] = "finish")}

(* What was cut is noticed.  A file of arrays that was cut anywhere is     *)
(* never read as other arrays: the stream reader takes it only where an    *)
(* array ended, the buffer reader also where only padding is missing, and  *)
(* then they give exactly the arrays that are whole; a cut .npy is an      *)
(* error.  A transfer is served by the command its scheme names after      *)
(* rewriting, and a reader that reads to its end, or finishes it, hears of *)
(* every way for the child to end that is not one of its scheme's own.     *)
CutFilesAreNoticed ==
  /\ Answered("cut") =>
       LET items == job[2][1]
           n == job[2][2]
           inside == job[2][3]
           ends(k) == n = Files!EndOf(items, k) /\ ~inside
           whole(k) == n \in Files!WholeAt(items, k)..(Files!EndOf(items, k) - 1)
           read(k) == Ok(SubSeq(items, 1, k))
       IN  /\ answer[1].stream =
                IF \E k \in 0..Len(items) : ends(k)
                THEN read(CHOOSE k \in 0..Len(items) : ends(k)) ELSE Err
           /\ answer[1].buffer =
                IF \E k \in 0..Len(items) : ends(k) \/ whole(k)
                THEN read(CHOOSE k \in 0..Len(items) : ends(k) \/ whole(k)) ELSE Err
  /\ Answered("npy") =>
       answer[1] = IF job[2][2] = Len(Files!ToNpy(job[2][1])) THEN Ok(job[2][1]) ELSE Err
  /\ Answered("axes") => answer[1] = Err
  /\ Answered("open") =>
       LET served == Served(job[2][1], job[2][2], job[2][3])
       IN  IF served = Err THEN answer[1] = Err
           ELSE answer[1] # Err /\ answer[1].of[2] = served.of
  /\ Answered("transfer") =>
       {i \in DOMAIN job[2][3] : answer[1][i] = Err} = Failing(job[2][1], job[2][2], job[2][3])

(* A value of the type an extension is for comes back as it was from what  *)
(* the encoder stored, also compressed, whatever stands before the         *)
(* extension, and stays as it is when a decoder that is partial runs over  *)
(* it again.  A handler that rewrites for ever, and a pickle, are errors.  *)
StoredComesBack ==
  Answered("store") =>
    LET sample == Ok(OneField(job[2][1], job[2][2]))
        expected == IF Last(job[2][1]) \in {"again", "pth"} THEN Err ELSE sample
    IN  answer[1] = [once |-> expected, again |-> expected]

(* Whatever layout a spec asks for, each channel of each pixel is found    *)
(* where that layout keeps it; an image, and a tensor with the channels    *)
(* last, are the same after they have been stored and decoded again.       *)
PixelsStayInPlace ==
  Answered("show") =>
    LET image == job[2][1]
        spec == Pictures!Specs[job[2][2]]
    IN  /\ \A y \in 0..(image.h - 1), x \in 0..(image.w - 1), k \in 1..Channels[spec.mode] :
             Pictures!ElementAt(answer[1].value, spec.rep, y, x, k)
               = Pictures!Shown(Pictures!Pixel(image, y * image.w + x + 1), spec.mode, k)
        /\ spec.rep \in {"image", "u8hwc", "f32hwc"} \/ spec.mode = "luma"
             => answer[1].again = Ok(answer[1].value)

Unshelved(samples) == [i \in DOMAIN samples |-> [key |-> samples[i].key, fields |-> samples[i].fields]]
Separate(samples) == \A i \in 2..Len(samples) : samples[i].key # samples[i - 1].key
Storable(samples) ==
  \A i \in DOMAIN samples : \A ext \in DOMAIN samples[i].fields : ext = <<>> \/ ext[1] # "_"
HoldSamples(archives, samples) ==
  Separate(samples) /\ Storable(samples) =>
    LET again == Wds!Read(archives) IN ~again.failed /\ Unshelved(again.samples) = Unshelved(samples)

(* Samples that a command has written are read back as the samples they    *)
(* were: by cat and split when no two neighbours in an archive share a     *)
(* key, without fields whose name begins with an underscore; by create and *)
(* extract, where no two files have one name in lower case, those files    *)
(* that belong to a sample.  What info counts is what ls lists.            *)
RewritesKeepSamples ==
  /\ Answered("rewrite") =>
       LET read == answer[1].read
           new == answer[1].written
           n == Len(read.samples)
       IN  /\ new.cat.ok = ~read.failed
           /\ HoldSamples(new.cat.archives,
                          SelectSeq(read.samples, LAMBDA s : <<"x">> \in DOMAIN s.fields))
           /\ HoldSamples(new.first.archives, SubSeq(read.samples, 1, IF n = 0 THEN 0 ELSE 1))
           /\ HoldSamples(new.split.archives, [i \in 1..n |-> read.samples[n + 1 - i]])
           /\ new.info.samples = Len(new.ls.lines)
           /\ \A ext \in DOMAIN new.info.present :
                new.info.present[ext] =
                  Cardinality({i \in DOMAIN new.ls.lines : ext \in new.ls.lines[i].fields})
  /\ Answered("create") =>
       LET tree == TreeOf(job[2])
           plain == {p \in DOMAIN tree : Wds!BasePlusExt(p) # <<>> /\ ~Wds!IsShardMetadata(p)}
           low(p) == Wds!BasePlusExt(p)[1] \o <<".">> \o Wds!Lowercase(Wds!BasePlusExt(p)[2])
       IN  (/\ \A p, q \in plain : low(p) = low(q) => p = q
            /\ \A p \in plain : Wds!BasePlusExt(p)[2][1] # "_") =>
             /\ answer[1].made.archives # <<>> => answer[1].made.ok /\ answer[1].found.ok
             /\ DOMAIN answer[1].found.tree = {low(p) : p \in plain}
             /\ \A p \in plain : answer[1].found.tree[low(p)] = tree[p]
             /\ \A p \in DOMAIN answer[1].xs.tree : answer[1].xs.tree[p] = answer[1].found.tree[p]
=============================================================================
