# A TLA+ model of webdataset-rs

webdataset-rs reads and writes sharded tar datasets for training: lists of
shards are expanded, split between processes and workers, opened through a
cache or a pipe, parsed, grouped into samples, shuffled, mapped, batched and
handed to a loop by a pool of threads. These modules model first the parts of
it whose behaviour depends on order: who runs when, who fails when, who waits
for whom, what is left when someone dies. Then they model the conversions a
sample goes through (patterns, formats, batches, images, commands) as functions
of small values. TLC checks them on small instances; TLAPS proves the results
listed under *Proofs* for every instance.

All paths below are under `src/crates/`.

## Inventory

| Component | State | Operations | Interacts with | What is hard, and what makes it correct |
|---|---|---|---|---|
| `DataLoader`, `LoaderIter` (`webdataset/src/loader.rs`) | threads, a bounded channel, a stop flag | `iter`, `next`, `drop`; a worker's pull/check/send loop | runs a `DataPipeline` per thread; binds worker identities | producers blocked on a full channel while the consumer shuts down, panics that look like the end, epochs without samples. Each worker's samples arrive in its order, complete; drop and next return |
| `DataPipeline`, `Repeated`, builder (`pipeline.rs`, `dataset.rs`, `sources.rs`) | epochs left, items taken, products of the run | `iter`, `next`, `repeat`, `take` | shard lists, splitters, reader, `MemoryCache` | one clone per worker over shared generators and counters. Every sample once over all workers; epochs have their length; no spinning |
| Shard lists and splitters (`shardlists.rs`) | lists, a generator shared by clones | `apply` | worker identity, process rank | what is dealt must be the same list for all |
| `DirectoryShardList` (`shardlists.rs:235-440`) | file names in a directory, one claim per iterator | claim by rename, dispose, recover, poll, time out | other processes over the same directory | no lock but `rename`; owners that die. One owner per shard, nobody's claim taken while it lives |
| `FileCache`, `LruCleanup` (`webdataset-io/src/cache.rs`) | a directory shared by workers | open, download, rename, validate, evict, retry | other workers, the network | races between download, eviction and open. What is opened is whole and goes by the name asked for; the budget holds |
| Worker identity (`webdataset-core/src/workers.rs`) | thread-local, or a table of atomic slots and shared globals | `with_worker`, `set_worker`, `clear_worker`, `current` | loader, splitters, seeds | lock-free claim and release. A context reads its own identity only |
| Shard reader (`webdataset-shard/src/sync.rs`, `reader.rs`) | parser's pending names, a read-ahead channel, the group begun | tar records, files, grouping, three error handlers | sources and their streams | two threads, shards that break off, names that precede their file. Samples are whole runs of one shard; the thread ends |
| Asynchronous pipeline (`webdataset/src/asynch/`, `webdataset-shard/src/asynch.rs`) | shards in flight, the run of the epoch | poll, open, parse, group, repeat, take | the executor, `flatten_unordered` | shards interleave at every await. The same samples as the blocking reader |
| Shard writer (`webdataset-shard/src/writer.rs`) | the archive being written, its number and fill | `write`, `next_shard`, `close`, drop, hook | a sink (file, pipe) that may refuse | roll-over and failure at every step. Accepted samples whole in one archive, hooks once |
| Sample adapters (`filters.rs`, `stages.rs`, `asynch/filters.rs`) | groups, buffers, pending batches, ended flags | one `next` each | each other, in chains | the end, an error or a skip in one while another still holds something |
| Mixing (`mix.rs`) | sources left, turn or weights | `next` of `RoundRobin`, `RandomMix` | datasets | removal while taking turns |
| Python `Reader` (`webdataset-python/src/lib.rs`) | a configuration, an iterator behind a lock | `__iter__`, `__next__`; callbacks from the parser's thread | the GIL, Python's threads, the shard reader | two locks and a thread that needs one of them. Each epoch in order, shared by its readers; calls return |
| gopen, pipes, URLs (`webdataset-io/src/gopen.rs`, `pipe.rs`, `url.rs`) | a child, its handle and its status | `gopen`, `gopen_write`, `read`, `finish` | the operating system, the tar parser | a failed transfer looks like a short one. Every failure that is not the scheme's own way to end is heard of |
| URL patterns (`webdataset-core/src/braceexpand.rs`, `utils.rs`) | none | `braceexpand`, `envsubst`, `expand_urls` | shard lists, the environment | nesting, escapes, ranges. A pattern stands for the shards one would write out |
| Values and codecs (`value.rs`, `tensor.rs`, `npy.rs`, `encode.rs`, `decode.rs`, tenbin) | none | encode, decode, the handler chain | the writer and the pipeline | names read from both ends, files cut off. What is stored comes back |
| Batches (`webdataset/src/batch.rs`) and images (`images.rs`) | none | collate, uncollate; load, lay out, encode | adapters, decoders | index arithmetic on flat data. A row, a pixel is where it was |
| Command line (`webdataset-cli/src/`) | a writer, groups of files | `cat`, `split`, `create`, `extract`, `info`, `ls` | reader and writer, directories | names that meet. Samples survive being rewritten |
| Tools, benchmarks and parity scripts | | | | not modelled |

Data flows down the table's first rows: a loader thread binds its identity
(`WorkerSlots`), pulls a pipeline (`Pipeline`), whose source lists and splits
shards (`DirectoryShards`), opens them (`FileCache`), reads them
(`ShardReader`, or `AsyncPipeline`) and hands samples through adapters
(`Adapters`) to the loader's channel (`DataLoader`). `ShardWriter` is the way
back. The Python `Reader` (`PythonReader`) drives a pipeline and its parser's thread
under two locks. Patterns, codecs, batches and images are called at their places in
the flow and keep no state. Shared state is only what the table says: the channel and flag, the
generators and counters of cloned stages, directories, and the slot table.

## Modules

Each component's module holds its variables, one action per step another actor
can come in between, the specification and its properties. An `MC` module
builds the instances TLC runs on. Definitions that start with *Mutant:* are a
plausible mistake in the definition below them; no specification uses them.
They are there because a property is worth keeping only if such a mistake
violates it.

* **`DataLoader`** — one call of `iter()`. `pc[w]` is where the thread is
  between pulling, checking the flag and sending; `pass`, `epochsLeft` and
  `left` are `Repeated` and `take`; `chan`, `stop` and `seen` (to which threads
  the relaxed store is visible) are shared; `consumer` is the owner of the
  iterator. The source is a sequence of samples that pass, are dropped or make
  the stage panic. **`EpochDelivery`** says what an epoch promises, without
  threads; `DataLoader` implements it (`Delivery`).
* **`WorkerSlots`** — the slot table of the build without std, an action per
  atomic operation, with its overflow globals and the unhooked mode.
  **`ThreadLocal`** is the std build's thread-local and the abstract
  specification: `KeepsContextsApart` is the refinement.
* **`Pipeline`** — what `WebDatasetBuilder::build` puts together: fixed, mixed
  and resampled lists, node and worker splits, shard shuffle, opening under a
  handler, emptiness check, `MemoryCache`, repetition, `take`, for several
  processes of several workers. Each draw of a resampled list is a step
  (`DrawShard`), as nothing bounds how many one `next` makes.
* **`DirectoryShards`** — processes and their iterators over one directory; a
  shard is in one place: plain, claimed by a pid, done, deleted.
* **`FileCache`** — workers that open URLs through one directory, one action
  per file operation. `NameOf` is what `url_to_cache_name` makes of a URL, which need
  not tell two URLs apart.
* **`ShardReader`** — parser thread, channel and consumer over archives given
  as sequences of records (file, link, long name, PAX path, skipped, broken,
  end).
* **`AsyncPipeline`** — shards in flight as small machines that any poll may
  advance, under the unfolds of repetition, check and limit.
* **`ShardWriter`** — one writer over a destination that keeps, refuses or
  fails. A failure within a member cuts it off and leaves the archive open
  (`AppendFails`); behind it a reader finds nothing (`Readable`).
* **`PythonReader`** — the threads of a Python program over one `Reader`: who has the
  GIL (`gil`) and the reader's lock (`lock`), which epoch is `iterator`, and for every
  epoch its parser, its channel and what its callbacks kept. An old epoch's parser
  runs on after its iterator was dropped, as the code does not wait for it.
* **The data modules**, composed by **`MCData`**, in which a state is a job and the
  one step does it. **`Results`** and **`Values`** are what all use: `Ok` and `Err`; values,
  tensors, and the conversion of integers to floats at a small mantissa.
  **`BraceExpand`** parses patterns character by character as the code does, and says
  what a tree of texts, alternatives, ranges and variables means.
  **`Batches`** collates and takes apart. **`TensorFiles`** writes and reads tenbin and npy
  files as sequences of typed units that may end anywhere. **`Transfers`** has the scheme
  table, rewriting and secure mode, and the pipe a child writes into. **`Codec`** is
  encoder and decoder by extension, with the chain of handlers; **`Images`** the
  specs, the layouts and the way back to a picture. **`Commands`** has the reader's
  grouping and the writer's rolling over as functions, and the six commands over
  them.
* **`Adapters`** — chains of adapters as calls that climb down and answers that
  climb up, over one dataset or several that are mixed. What a chain promises
  is said of whole sequences (`Promise`, `Turns`) and compared with what is
  pulled out of the machine.

## Runs

| Run | Question | Instance and why it is enough |
|---|---|---|
| `loader` | Does the consumer get every worker's samples, in order, and do `next` and `drop` return? | 0 to 3 workers, sources of up to 5, capacities 2 and 3 (the smallest the code builds): channels fill, workers differ in length, one is starved, one panics; endless streams are cut at `MaxNext` = 2 items, after which only a drop is left |
| `worker_slots` | Does a context ever see or take another's identity? | 3 contexts on 3 slots, so every slot can be contended; one context also sets and clears |
| `pipeline` | Is every sample handed out once, are epochs as long as asked? | up to 2 processes of 2 workers; shards of 0, 1 and 2 samples and one that fails; resampled lists over all of them, over pools where some or all are empty or broken, under each handler; two or three iterations, each of which may be dropped; 4 items |
| `directory_shards` | One owner per shard, through exits and restarts? | 2 processes, 2 shards, one exit, a pid that is new after it |
| `file_cache` | Is what is opened whole, do races cost no attempt, does the budget hold? | 2 workers, 3 URLs of which two have one cache name, a budget of one file, 2 attempts, 2 faults, one death |
| `shard_reader` | Whole runs, in order, none lost; does the thread end? | every archive of up to three of nine records, and every pair of nine longer ones, which reach each rule and the boundary between shards; channel of 2, so that it fills |
| `async_pipeline` | The same samples, whatever interleaves? | every pair of five shards one after the other and together, triples two at a time; epochs over empty and small lists |
| `shard_writer` | Are accepted samples whole, archives filled, hooks called once? | limits of 2 samples or 3 bytes, samples of one to three fields with a field that cannot be encoded or without a key, five calls, two failures |
| `adapters` | Does a chain pulled item by item give what it promises of the stream? | every chain of one or two, seven streams with errors at each end and between, sizes 1 to 3, slices that start, step and stop; three datasets of each length |
| `python_reader` | Do threads that share a reader share its epochs, and do their calls return? | 2 threads of 3 calls each, so that one restarts the reader twice under the other's draws; 2 files through a channel of 1, so that the parser is blocked; with and without callbacks |
| `data` | Do the conversions do what they are for? | patterns: trees of up to two levels, three patterns, every text of up to 5 of the special characters; batches of up to 3 rows; up to 2 arrays in a file cut at every place; every scheme under every table, transfers of up to 4 calls; each extension with a path before and a `.gz` after it; images of up to 3 by 3 in every spec; two shards of up to 3 files, directories of up to 3 |
| `pipeline_mixed` | *violated*: are two workers' shares of a mixed list disjoint? | one process, two workers |

Deadlock is checked in every run but two: a state in which nobody can go on is
an error unless an end (`Ended`, `Dropped`, `Gone`, ...) is stated as a step. In `data`
a job that is done stops. `python_reader` stops when the calls are used up, and
when the code has deadlocked, which is what its liveness property is about.

No run has a property that only gives variables their types: where a module has
proofs, `TypeOK` is a theorem; in the others it is the first conjunct of the
invariant that needs it most.

What the passing properties say:

* `InOrder`, `EndIsComplete`, `Delivery`: no loss, repetition or overtaking
  through the channel; a clean end is complete except for workers that
  panicked. `DropTerminates`, `NextReturns`.
* `EverySearchFinds`, `SlotsAreReturned`, `KeepsContextsApart`.
* `EachSampleOnce` (with `SharesAreDisjoint`), `EpochLength`,
  `EmptyIsReported`, `CacheIsAPass`: an abandoned pass never becomes the
  cache. `NextReturns`: but for a resampled list whose shards are all empty, or
  broken under a handler that goes on (`Hopeless`).
* `HolderOwnsItsShard`, `NotPickedUpAgain`, `ClaimsOfTheLivingStay`,
  `AbandonedIsRecovered`, `NextReturns`.
* `OpenedIsWhole`: a whole transfer of some URL with the cache name of the one that
  was asked for, and of that one if no other has its name. `RacesDoNotFail`,
  `BoundedDirectory`; `BadFilesAreCaught`: a body that
  is not an archive has its final name only while the worker that put it there is
  still to check it, or after one died there.
* `SamplesAreRuns`, `NothingLost`, `ThreadEnds`; of the asynchronous reader
  `SamplesAreRuns` and `EpochsAreWhole`.
* `AcceptedAreWhole`: a sample whose write returned Ok has every field, in order, in
  one archive, where a reader finds it, unless an earlier write reported the error
  that left a member cut off in front of it. `ShardsFillUp`, `HookedOnce`.
* `KeepsItsPromise`: what is handed out is what the adapters make of the whole stream
  (`Exact`, `Permuted`, `Mixed`); no sample comes twice, is made up or overtakes another
  (`OnceInOrder`), and adapters that throw none away leave none behind
  (`NothingIsLost`). `NeverPolledAfterEnd` (an unfold panics when polled after its end).
* `NextIsCurrent`: an epoch's samples go to the draws in order, once each, its end
  comes after all of them, and a draw is from no epoch older than the last
  `__iter__` that had returned before it. `CallsReturnUnlessWedged`: every call
  returns, but for one deadlock, `Wedged`.
* `ExpandsAsWritten`, against the meaning of the tree a pattern was written from;
  `BatchesComeBack`; `CutFilesAreNoticed`, of tensor files and transfers;
  `StoredComesBack`, once and decoded twice; `PixelsStayInPlace`, pixel by pixel and
  again after storing; `RewritesKeepSamples`, through each command and back.

### Fairness

Weak fairness is assumed of a thread's own steps and of a consumer *inside* a
call, never of a consumer's decision to call, nor of crashes, faults,
arrivals or what a destination answers.

* `DataLoader`: each worker thread is scheduled by the operating system; the
  relaxed store of the flag becomes visible in finite time; a consumer in
  `next` or `drop` runs on. A source's steps end; a source that blocks for ever
  blocks a drop.
* `ShardReader`: the parser thread and a consumer inside `next`.
* `Pipeline`: each worker inside `next`. The consumer may stop or drop. Of a resampled
  list, strong fairness of the draws that end a call (`EndsCall`): the code draws
  uniformly at random, so a shard that can be drawn for ever is drawn with
  probability one. Without it `NextReturns` fails over a pool with one good shard.
* `DirectoryShards`: an iterator inside `next`, in a process that runs.
  `NextReturns` is claimed only where shards do not come back and it does not
  poll: with resampling or polling the code may wait for ever by design.

* `PythonReader`: a thread inside a call, and each parser, goes on whenever it can:
  the operating system schedules both, and the interpreter passes its lock on. No
  thread is made to call. Calls are bounded, so nobody is starved by others that
  call for ever: locks are not assumed to be fair beyond that.

The other specifications state safety only.

### Disagreements

Between what a comment or document of the repository says and what the code
does. One is a run: `pipeline_mixed` (`webdataset/src/dataset.rs:196`), workers that
share a mixed list split a draw each of their own.

Others were met while modelling and are modelled as the code has them:

* `webdataset-python/src/lib.rs:259`: `__iter__` waits for the reader's lock with the GIL,
  while a thread in `__next__` has that lock and waits for files whose callbacks
  (`:82`, `:95`) need the GIL; line 188 says that the lock lets a reader "be handed
  between threads safely". `Wedged` is reached in the model.
* `webdataset-io/src/cache.rs:331`: the final name is given before the validation, and a
  file under it is returned unchecked; `BadFilesAreCaught` bounds the window.
* `webdataset-io/src/cache.rs:322`: an entry that exists is returned whatever URL it came
  from, and `url_to_cache_name` keeps the last component of the path (lines 42-54,
  `ndir` 0 by default, line 268): of two shards `a/000.tar` and `b/000.tar`, `open` of the
  second returns the first. `OpenedIsWhole` says no more than the code does.
* `webdataset-shard/src/writer.rs:169`: when `append_data` fails in the middle of a member,
  the archive stays open with half of it inside. Later samples are accepted, counted and
  written behind it, the archive gets its trailer and its hook, and a reader finds
  none of them. `AcceptedAreWhole` excepts them; only the first error tells.
* `webdataset/src/shardlists.rs:183`: `repeat_with` has no end, so if all of its shards are
  empty, or broken under a handler that goes on, one `next` spins for ever: neither
  the check for an empty stream nor the comment of `pipeline.rs:279` ("An empty
  epoch would otherwise spin forever") reaches it. `NextReturns` excepts it.
* `webdataset-shard/src/writer.rs:214`: a destination's verdict arrives in the drop of
  `SinkWriter`, where it is logged only; `close` has returned Ok.
* `webdataset-core/src/braceexpand.rs:78`: a group whose arms hold no comma or range is
  literal, and so are the alternatives nested in it.
* `webdataset-tenbin/src/lib.rs:110`: a buffer that lacks only the padding of its last
  chunk is taken, by the stream reader it is not.
* `webdataset-core/src/value.rs:174`: tensors "become nested arrays"; they become flat ones.
  NaN becomes null. `batch.rs:182`: integers beyond 2^53 come back rounded.
* `encode.rs:67`, `decode.rs:73`: a field named `gz` is stored as it is and unpacked when
  read; `txt.gz.gz` is packed once and unpacked twice. A field that begins with `_`
  is encoded as metadata and decoded as any other. `html` is stored from text and
  read as bytes; `img` and `image` are stored as JPEG and not read. Bytes named
  `bin.gz` are unpacked again by a second, partial decoding.
* `images.rs:290`: a tensor with the channels first is stored as if they were last.
* `webdataset-cli/src/commands/create.rs:58`: extensions are lowercased, so of `a.JPG` and
  `a.jpg` one is kept. `cat.rs:31`: two neighbours of one key come back as one sample.
  `extract.rs:32`: samples of one key overwrite each other's files.
* `webdataset-io/src/pipe.rs:88`: a child killed by a signal counts as -1, a failure, while
  lines 14-16 speak of SIGPIPE as routine (a shell reports it as 141, the system
  as a signal). A read after a failed end answers with a quiet end.

These were met and are kept out of the instances or the model:

* `shardlists.rs:321`: recovery disposes of an abandoned claim as if it had
  been read, so with `Unlink` a shard nobody has read is deleted;
  line 288 calls the disposal "What to do with each shard once it has been
  read".
* `shardlists.rs:384,398`: the timeout counts from `apply`, not from the last
  shard. `:393`: a list recovers claims only after its own first shard. `:331`
  puts the suffix `_done_` in the place of the extension.
* `webdataset-shard/src/sync.rs:117`: a file with a long name *and* a PAX path
  leaves the long name to the next file. No input has both.
* `webdataset/src/asynch/sources.rs:227`: a handler's Stop ends the one shard,
  not the pass as it does in the blocking reader; `repeat(0)` runs one epoch
  there and none in the blocking one. `tests/async_equivalence.rs` compares
  neither.
* `filters.rs:335`: `Listed` drops the group it has begun when an error passes.
  `sliced` and `Slice` count errors as items and may skip them, while
  `filters.rs:28` says errors pass through untouched.
* `mix.rs:142`: a `RandomMix` that has stopped "at the first" dataset to run out
  is not fused, and an adapter that asks again (`NonEmpty`, `Listed`) may get
  samples of the others; so it may when only datasets of weight zero are left.
  No chain is put on a `RandomMix`.
* `workers.rs:45`: the overflow globals are written, but `current` does not read
  them for a context without a slot.
* `braceexpand.rs:182,188`: near the ends of `i64` the counter of a range overflows.
  `webdataset-tenbin/src/lib.rs:89`: `encode_buffer` panics on an array with too many
  dimensions, where the other forms report an error.
* `webdataset-python/src/lib.rs:8`: "everything here releases the GIL"; the writers keep
  it. `:87`: "reported rather than swallowed": the callback's exception is restored on a
  thread that no Python frame will return to. `convert.rs:39`: an image "reaches Python
  as the array"; it raises `TypeError`.
* `webdataset-io/src/url.rs:67`: bare paths are percent-decoded too, and `%+4` is taken for a
  hexadecimal number.

## Proofs

The results of ten components are proved for every value of their constants, in
eight modules.

**`DataLoaderProofs`**, from `LoaderAssumption` (the constants' types, and that no
source is longer than the bound). `TypeCorrect`: `Spec => []TypeOK`; the one
obligation that is not about shapes is that a share's positions stay inside
the source, which needs a little arithmetic of `%` (`ModStep`,
`RemainderUnique`). `FifoAlways`: `Spec => []Fifo`. `Delivery` is not inductive
by itself, as it says nothing of the channel. `Fifo` relates the three places a
yielded sample can be: what has been delivered is a prefix of what was yielded;
the channel holds, in order, entries of what follows; a thread past its pull
holds the newest; nothing between is missing (`NoGap`); and while the iterator
lives the flag is down, so nobody discards. The step is one lemma for each
action that moves a sample (`FifoYield`, `FifoYieldInline`, `FifoSend`,
`FifoReceive`) and a frame lemma for the rest. `Implements`: `Spec => Delivery`,
each action mapped to one of `EpochDelivery` or a stutter; `End` uses
`NothingPending`, that with an empty channel and no thread in transit
everything yielded has been delivered. `Fifo` says nothing of what is yielded;
`Paced` does. A worker that has k passes behind it has yielded k times its
share and what of the share is below its place in the present pass (`Counted`),
and what is left of its repetitions and its limit is what they were less that.
It is kept because a stride passes one position of the share at most
(`BelowNext`, from `StridesApart`) and starts before the first (`BelowFirst`). With
`Fifo` it gives `SharesInOrder` (`InOrder`); and as a stream stops only when its limit
or its repetitions are used up or its share is empty (`EndsWhole`), `EndsComplete`
(`EndIsComplete`).

**`WorkerSlotsProofs`**, from `SlotsAssumption` and `Room` (there are no more live
contexts than slots, what `workers.rs:15-36` asks of a platform; part of
`RoomSpec`'s initial condition). The invariant `IInv` has one part per relation
of a context to its slot, and `Spread`, the one that needs an idea: a search
runs from slot 1 up and passes a slot only while another context holds it, so
at most `MaxThreads - i` contexts can be beyond slot i; a search that has
passed the last slot would be one context too many. From it `SearchesFind`
(`EverySearchFinds`); from the rest `TypeCorrect`, `Returned`
(`SlotsAreReturned`) and `Implements` (`KeepsContextsApart`): the last store or
the release of a `replace` is the thread-local's swap, every other atomic
operation is a stutter.

**`ShardFilesProofs`**, first part: `DirectoryShards`, from `DirectoryAssumption`.
What could go wrong is
that `recover_abandoned` looks at a claim, its owner and what it decides on in
three steps, between which owners exit, start and claim again. `IInv` says that
pids of running processes and spent pids do not meet (`PidsApart`), that every
claim in the directory carries one or the other (`ClaimsAreKnown`), and that
what recovery is about to dispose of carries a spent one (`EntriesAreKnown`): as
no pid comes back, it is nobody's claim, however long ago it was looked at. From
it `HoldersOwn` (`HolderOwnsItsShard`), `HandedOnce` (`NotPickedUpAgain`),
`LivingKeepTheirClaims` (`ClaimsOfTheLivingStay`, an action property) and
`TypeCorrect`. That pids are not reused is what all of it rests on.

Second part: `ShardWriter`, from `WriterAssumption`, for any samples, limits, modes
and failures. `WriterIInv` has five parts. `WInv` gives the types and what each phase
says of the newest archive: open or sealed, being appended to or waiting for the hook.
`HookInv` orders the archives: their numbers rise (`Numbered`); while every call has
succeeded all but the open one have a trailer (`Trailed`); the hook has been called for
exactly those that have one, less the one it is about to be called for, in order
(`Hooks`, by the rank of an archive among them). `CallsInv` follows a sample: of a
write that has returned, that its entries are where the result says, whole if it was
accepted (`Answered`); of the present one, how many it has (`Going`). `InOrder` adds that
the members of an archive stand in the order of the calls that wrote them: so what
stands cut off in front of an accepted sample is an earlier call's, and as a cut
member is the last of its call, of one that was not accepted (`BehindTheCut`). `CountsInv`
says that the writer's count and size are those of the samples accepted into the open
archive, that without the newest sample none was full, and that one that was left for
a write's sake is (`Fills`). Sums of sizes are over finite sets; that adding a sample
adds its size is shown without induction over them, from a smallest set for which it
would fail. From it `WriterAccepted` (`AcceptedAreWhole`), `WriterFillsUp`
(`ShardsFillUp`) and `WriterHooks` (`HookedOnce`).

**`PipelineProofs`**, from `PipelineAssumption`. First the splitters as
functions of lists of any length: strides of n from different starts never meet
(`SplitsApart`), and cover the list (`SplitsCover`), which is arithmetic of
quotients and remainders; applied to the processes and then to the workers,
`DealtApart` and the theorem `NothingIsLeftOut`. Then the specification. `IInv`
says how the counters of runs and items are apart (`Counted`) and, of a plain
pipeline (`Plainly`), what a worker has to do with its share (`Ours`): it has nothing
of another's (`Kept`, `Given`); what it has handed out in this run is not still to
come (`Fresh`); and, unless the run has failed, what of the share it has not handed
out is still to come (`Whole`). One lemma for each way a step changes that
(`OursHanded`, `OursFailed`, `OursNextShard`, ...), and one for each action. From it
`TypeCorrect`, and `EachIsReadOnce`: `EachSampleOnce` whenever `Plainly`, for every
window, repetition and limit. Three pipelines are plain:
* a fixed list without a cache, for any processes, workers and handler;
* mixed lists without a cache, where every process has one worker (`Alone`) and no
  list drawn names a shard twice. What a worker's share is then depends on the run
  (`Dealt`, `Listed`), and the processes are apart only because the nth run of each
  reads the nth list drawn: that is `InStep`, the run a worker is in is the number of
  lists its process has drawn. With two workers it fails, and with it the property:
  that is run `pipeline_mixed`;
* a fixed list with a cache, where every process has one worker and errors are not
  reraised. A replay is then a run with nothing to read and the rest of the cache to
  hand out (`View`), and the cache is the worker's share, all of it unless the handler
  stops at an error (`Stores`). With two workers the one replays what was the other's
  share; and an error that is reraised leaves a gap in the cache, where later runs
  miss samples without an error of their own.

A second invariant, `Paced`, holds for any list and any cache: the items of the present
iteration among those handed out are as many as it has counted (`Tallied`, with the
items of a run and of the runs that are over), never more than the limit (`Limited`),
and an iteration is over only when its runs or its limit are used up, or nothing was
produced (`Stopped`). From it `EpochsAreCounted` (`EpochLength`) and `EmptyIsNoticed`
(`EmptyIsReported`). A third, `Cached`, is about the cache that the workers of a process
share: what a worker collects is what it has handed out in its run (`Collected`), what a
replay has still to come is the cache beyond what it has handed out (`Replaying`), and a run
that was replayed to its end is the whole of the cache (`Replayed`); the items of a run are
all from one source, and none come once it is over (`Known`). The lemma `CachingFills` is
where the sharing could hurt: filling an empty cache changes nothing for the others, as
none of them can have replayed one. From it `CacheHoldsAPass` (`CacheIsAPass`), for any
list and any errors.

**`FileCacheProofs`**, from `CacheAssumption`, for any number of workers, URLs,
attempts, faults and deaths, and any budget. The directory is a sequence only for
the ages of its files, so a first group of lemmas says what each operation does to
the set of files in it (`Content`): removing, writing and renaming keep names
unique. `IInv` then says what a name can hold. What lies under a final name is whole
and of a URL with that name (`FinalIsWhole`), whatever naming `NameOf` is, because only
a rename puts anything there, and a worker about to rename holds a whole temporary file of its own URL or none
(`CopiedIsWhole`), as no other worker has its temporary name; what has been opened
stays whole under the open handle (`GotIsWhole`). For the failures, a worker
whose temporary or final file has gone still has an excuse it has not used
(`LossIsExcused`), and a worker that opens has an attempt left (`AttemptLeft`).
From it `WholeAlways` (`OpenedIsWhole`, the types and the unique names with it)
and `RacesAreHarmless` (`RacesDoNotFail`). That temporary names are different is
what both rest on. `BadAreCaught` (`BadFilesAreCaught`) counts: a body that is not
an archive and that nobody is still to check was left by a worker that died, a
death each. `DirectoryIsBounded` (`BoundedDirectory`) needs an idea, as a cleanup
works from a list that is out of date: `SizeInv` orders the workers that evict by
when they looked (`Ordered`). A file that is not on a worker's list was
created or renamed since by a worker that is not about to create another, so
the files beyond the list and the workers still afoot are together no more than
the workers (`Level`); those that looked later count for nothing, as they will
make room for what they create. When the list is used up, what is left is
within the budget and those workers.

**`ShardReaderProofs`**, from `ReaderAssumption` (at least one name; lower case maps
extensions to extensions), for any sources of any records, any read-ahead and
handler, if no file has both a long name and a PAX path (`NamedOnce`; see
`sync.rs:117` above for what happens to one that has). The properties say what is
made of an archive without a thread or a channel; the proof follows one number,
f, the last record of the current source that the consumer has seen. Behind f
(`Flow`), the kept files up to where the thread is are in the channel, in order,
or in the thread's hand, none skipped, each with the name its headers give it.
Up to f (`Assembled`), the sample in progress is the run of the last keyed file as
far as f, the samples returned come before it, and every first file of a run is
in one or the other. `ThreadInv` says what the thread knows of the headers before
the next file; `Settled` relates the flags, and the errors returned to archives
that broke off. A first group of lemmas is about archives alone: how the newest header
of a kind and the run of a file change from one record to the next
(`NewestNext`, `NextInRun`, `Begins`, `Continues`, `Completes`). From the
invariant `RunsAreWhole` (`SamplesAreRuns`) and `NoFileIsLost` (`NothingLost`).

**`AsyncPipelineProofs`**, from `AsyncAssumption`, for any shards, width, handler,
repetition and limit. Streams in flight share nothing but the epoch and what has
been handed out, so the invariant speaks of one stream at a time. `Underway` is
where it is in its archive and that its sample in progress is the run of the last
keyed file before that place; `Behind`, that what it has handed out comes before the
sample in progress; `Settled`, that every first file it has passed has been handed
out or is in progress. A step of a shard, whichever it is, is a `Turn`: one stream
changes and at most one outcome comes of it. One lemma per action shows that it is
one (`OpensTurn`, `PushDuplicateTurn`, `EndOfShardTurn`, ...) from the same facts about
runs of files as in `ShardReaderProofs`; one lemma shows that a turn of one stream
leaves the others' part of the invariant alone (`Turned`). What depends on all of
them at once is little: streams in flight are of the shards already taken from the
list and no more than the width (`Slots`), a closed one has handed out everything, so
when the list is out and none is in flight the run is whole (`RunIsOver`), and with a
width of one only the newest shard is in flight. From it `RunsAreWhole`
(`SamplesAreRuns`) and `AllIsHandedOut` (`EpochsAreWhole`, the types with it).

**`IteratorProofs`**, first part: `PythonReader`, from `ReaderAssumption` (no thread is
called "nobody", a channel holds at least one file), for any threads, archive and
calls. The invariant says of each epoch, `Flows`, that what its selection has kept is what was drawn, then
what its channel holds, then the file its parser has in hand; only an epoch that is no
longer current may have lost any. With `EndedWhole`, an end answered means a parser gone
and nothing left, and with `Recent`, no thread knows of an epoch later than the current
one, this gives `DrawsAreCurrent` (`NextIsCurrent`). `OnlyWedged` says in terms of guards
what `CallsReturnUnlessWedged` needs beside fairness: a thread that holds the GIL across
a step is about to swap, one that holds the lock is drawing (`Held`), so a draw can wait
only for the current epoch's parser, and this one only for the GIL: that is `Wedged`,
and anywhere else something can go on. That a call then returns is liveness and stays
with TLC.

Second part: `Adapters`, from `AdaptersAssumption` (the chains are ones the builders
build: sizes are clamped, a mix has a weight for each dataset, and a group is not
listed or shuffled; datasets give samples), for chains of any length, with any
datasets and any verdicts. `NeverPolledAfterEnd` is about an adapter and the one
below it, but whether the upper one asks again depends on those above it.
`ChainIInv` says: what reaches an adapter that groups is no group (`Singles`); in an
asynchronous chain, whoever has told its end is telling it now or is behind one that will ask nothing more (`Dead`),
and so on up to the caller (`Quieted`, `Silent`). Each action is shown to be one
`Steps(k)`: the adapter k asks below only when it has not been told an end, and it
answers an end with its own or keeps what it has and asks no more (`RefuseSteps`, ...,
`SliceItemSteps`, one lemma per adapter). One lemma, `StepQuieted`, then covers them
all. Theorem `ChainsEndOnce`.

Two parts of `KeepsItsPromise` are proved as well. `OnceInOrder` (`ChainsRepeatNothing`):
the datasets name no sample twice (`Unlike`), as otherwise "twice" means nothing. Every
sample on its way up has a `Place`: handed out, told by an adapter, or held by one; the
places have an order, `Ahead`, from the consumer down. `OnceIInv` says that whatever lies
at a place was taken from a dataset (`AllGiven`) and that one ahead of another was taken
before it, or, in a chain that shuffles, is another one (`InLine`). A step of an adapter
turns what it `Had`, its group or buffer and what it was told, into what it `Has`, what
it tells and still holds; that the second is picked from the first in order, or from
anywhere by a shuffle, is one lemma per action (`Picked`, `Orderly`), and `WorksInLine`
moves the places of the whole chain once for all of them.

`NothingIsLost` (`ChainsLoseNothing`) is about chains that give nothing up on purpose
(`Lossless`: no drops, failures or slices, the last group is kept, and no Err below it
can make it drop the one it has begun). That each sample taken is still at a place
(`NoneGone`) is not enough: an end that overtook a full buffer would lose it. `Whole`
adds that an adapter telling the end, and all below it, hold nothing (`Swept`), and
that one that will ask no more has nothing below it (`Shut`), for which the call must
not be below an adapter with something to hand out first (`InTurn`). Again one lemma
per action (`...Spares`) and one for the chain (`AdapterWhole`).

Only model-checked: liveness (`DropTerminates`, `NextReturns`, `AbandonedIsRecovered`,
...), as the prover has no rules for fairness and `ENABLED`. What `MCData` checks:
`BraceExpand`, `Codec` and `TensorFiles` are recursive, as the parsers they model are.
`Exact`, `Permuted` and `Mixed`, the other parts of `KeepsItsPromise` of `Adapters`:
their reference definitions are folds and filters of whole sequences, and that a step of
a chain extends them by one needs induction over the sequence.

## Abstractions

* `DataLoader`: an Err is a sample. What the pipeline is, is `Pipeline`'s.
* `Pipeline`: generators are nondeterministic but alike in all processes (the
  seed, or `WDS_SEED`); without either, each process seeds itself
  (`dataset.rs:186`). The shuffle's window is an over-approximation while it
  fills; a resampled list is drawn from when a shard is wanted, as independent draws
  are no others when shuffled. Limits are at least one. `MemoryCache` is checked for
  one worker and passes without errors; with several, the first worker's share is cached for
  all. Shared epoch counters make the (worker, epoch) seeds of a deterministic
  shuffle depend on the scheduler: no property is about reproducibility.
* `DirectoryShards`: one host, pids that are not reused, atomic directory
  snapshots, a timeout that may strike at any poll.
* `FileCache`: a file counts one unit; names are any function of the URL (`NameOf`); workers
  are processes; throttling is on or off. A cleanup does not subtract a file another
  cleanup removed, so two at once may delete more than needed.
* `WorkerSlots`: unique tokens, at least one worker, the hook installed before
  use. A `set_worker` that is never cleared keeps its slot; a body that panics
  does not restore its identity; neither is an action.
* `ShardReader`: files are not named like the fields a sample already has
  (`__key__`, `__url__`). A panic of the parser would look like a clean end.
* `AsyncPipeline`: archives are files by their final names; `flatten_unordered`
  is external and picks any shard; splits and shard shuffle are left out.
* `ShardWriter`: compression and headers are left out; a limit of zero is not
  among the instances. What a fault leaves of a member is nothing or a part, and
  behind a part nothing is found, although tar-rs may chance on a header there.
* `PythonReader`: an epoch is one archive of samples of one file; its errors end it
  as its end does. The interpreter may pass its lock on inside a callback; here a
  callback is one step. Samples that cannot be converted count as drawn.
* Data: a float and an `i64` are small integers, and an `i64` is rounded as a float of
  three bits would; JSON, MessagePack, CBOR, pickle, gzip and the picture formats are
  injective functions that invert; characters are those the parser tells apart.
  The percent-encoding of URLs and the argument vectors of commands are left out,
  as are argument parsing and the wording of listings.
* `Adapters`: a function's result is kept, dropped or failed by the item; the
  verdict on a group is that on its head; collation does not fail; a weighted
  draw is any dataset of positive weight or the last. Groups are not listed or
  shuffled: a `Vec` of samples is another type, and a collated batch is only taken apart.

### Not modelled

* The bytes of formats that belong to libraries (JPEG, PNG, pickle, MessagePack, CBOR,
  gzip, zstd, tar headers beyond their kinds): they are someone else's code.
* Child processes beyond their output and their end; the writing side of a pipe,
  beyond what a sink answers the writer.
* The Python writers (each call keeps the lock and the GIL from its beginning to
  its end, so that nothing can come in between), the conversions between Python and
  Rust values, and the pure-Python layer over them.
* `make_seed`, printf patterns, YAML specifications, field selection by pattern:
  string and bit arithmetic without a second party that has to agree with it.
* The splits and the shard shuffle of the asynchronous builder: they are the
  stages of `Pipeline`, behind a stream instead of an iterator.
* The tools, benchmarks and parity scripts: they are for the developers.

## Plan

Done, in this order: `DataLoader` with `EpochDelivery` and their proofs;
`DirectoryShards`; `FileCache`; `ShardReader`; `WorkerSlots` with `ThreadLocal` and
their proofs; `ShardWriter`; `Pipeline`; `AsyncPipeline`; `Adapters`; the proofs of
`DirectoryShards`, `Pipeline`, `FileCache`, `ShardReader`, `AsyncPipeline`,
`PythonReader`, `ShardWriter` and `Adapters`; the data modules under `MCData`; `Transfers`;
`PythonReader`.

Next, the model:

1. `AsyncPipeline` with the splits and shard shuffle of the asynchronous builder,
   and the blocking pass (`ShardReader`'s promise) as its abstract specification.
2. The pipe of `Transfers` between `ShardReader` and `ShardWriter`: a child that fails
   behind the end of an archive.

Then the proofs:

1. `WorkerSlots` without `Room`: which properties hold with more contexts than
   slots.
2. `Adapters`: the rest of `KeepsItsPromise`, adapter by adapter, if a prover for
   induction over sequences is at hand.
