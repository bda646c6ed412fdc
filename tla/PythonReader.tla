---------------------------- MODULE PythonReader ----------------------------
(***************************************************************************)
(* One `webdataset._native.Reader` shared by the threads of a Python       *)
(* program (crates/webdataset-python/src/lib.rs), down to the thread that  *)
(* parses the archive behind each epoch                                    *)
(* (crates/webdataset-shard/src/reader.rs: TarFiles).                      *)
(*                                                                         *)
(* What a thread does between its calls is its own, so it holds the GIL    *)
(* only where a call of the reader keeps it: between the work, for which   *)
(* `detach` gives it up, and the return.  An epoch is one archive of       *)
(* `Files` files, each a sample; epochs are numbered in the order in which *)
(* they became current, 0 standing for none.                               *)
(***************************************************************************)
EXTENDS Integers, Sequences, FiniteSets

CONSTANTS
  Threads,    (* the threads of the Python program                         *)
  Files,      (* the files of the archive                                  *)
  ReadAhead,  (* READAHEAD                                                 *)
  MaxCalls    (* the calls a thread makes: bounds the model                *)

Nobody == "nobody"

(* READAHEAD is 4. *)
ASSUME ReaderAssumption ==
  /\ Nobody \notin Threads
  /\ Files \in Nat
  /\ ReadAhead \in Nat \ {0}

VARIABLES
  callbacks,  (* whether select_files or rename_files is configured        *)
  gil,        (* the thread that keeps the GIL across a step, or Nobody    *)
  lock,       (* the thread that has locked `iterator`, or Nobody          *)
  iterator,   (* the current epoch, or 0                                   *)
  pc,         (* where each thread is                                      *)
  calls,      (* how many calls each thread has made                       *)
  since,      (* the last epoch whose __iter__ had returned at the call    *)
  parser,     (* [epoch -> "unopened", "name", "send" or "gone"]           *)
  parsed,     (* [epoch -> the files parsed]                               *)
  kept,       (* [epoch -> the files the selection kept, in order]         *)
  channel,    (* [epoch -> the files between parser and reader]            *)
  handed      (* what calls of __next__ got: [epoch, file, since], file 0  *)
              (* for the end of the epoch, epoch 0 for "not iterated yet"  *)

vars == <<callbacks, gil, lock, iterator, pc, calls, since, parser, parsed, kept, channel, handed>>
threadVars == <<gil, lock, iterator, pc, calls, since, handed>>
epochVars == <<parser, parsed, kept, channel>>

Epochs == 1..Len(parser)

(* Reader::new: a reader is configured, and has no iterator yet. *)
Init ==
  /\ callbacks \in BOOLEAN
  /\ gil = Nobody
  /\ lock = Nobody
  /\ iterator = 0
  /\ pc = [t \in Threads |-> "out"]
  /\ calls = [t \in Threads |-> 0]
  /\ since = [t \in Threads |-> 0]
  /\ parser = <<>> /\ parsed = <<>> /\ kept = <<>> /\ channel = <<>>
  /\ handed = <<>>

(* A thread that has the GIL makes a call, which gives it up. *)
Called(t) ==
  /\ gil = Nobody
  /\ pc[t] = "out"
  /\ calls[t] < MaxCalls
  /\ calls' = [calls EXCEPT ![t] = @ + 1]
  /\ since' = [since EXCEPT ![t] = Len(parser)]

-----------------------------------------------------------------------------
(* __iter__: copy the configuration and build the iterator without the     *)
(* GIL, take the GIL again, and put the iterator in place, all with it.    *)

CallIter(t) ==
  /\ Called(t)
  /\ pc' = [pc EXCEPT ![t] = "build"]
  /\ UNCHANGED <<callbacks, gil, lock, iterator, handed, epochVars>>

(* A configuration that cannot be built is raised, and the old iterator    *)
(* stays where it is.                                                      *)
Build(t) ==
  /\ pc[t] = "build"
  /\ \E outcome \in {"built", "raise"} : pc' = [pc EXCEPT ![t] = outcome]
  /\ UNCHANGED <<callbacks, gil, lock, iterator, calls, since, handed, epochVars>>

Attach(t) ==
  /\ pc[t] = "built"
  /\ gil = Nobody
  /\ gil' = t
  /\ pc' = [pc EXCEPT ![t] = "swap"]
  /\ UNCHANGED <<callbacks, lock, iterator, calls, since, handed, epochVars>>

(* Mutant: an iterator that is there is left there. *)
SwapFirst(t) ==
  /\ pc[t] = "swap"
  /\ lock = Nobody
  /\ iterator' = IF iterator = 0 THEN Len(parser) + 1 ELSE iterator
  /\ parser' = Append(parser, "unopened")
  /\ parsed' = Append(parsed, 0)
  /\ kept' = Append(kept, <<>>)
  /\ channel' = Append(channel, <<>>)
  /\ gil' = Nobody
  /\ pc' = [pc EXCEPT ![t] = "out"]
  /\ UNCHANGED <<callbacks, lock, calls, since, handed>>

(* The old iterator is dropped, and with it the receiving end of its       *)
(* channel; its parser is not waited for.                                  *)
Swap(t) ==
  /\ pc[t] = "swap"
  /\ lock = Nobody
  /\ iterator' = Len(parser) + 1
  /\ parser' = Append(parser, "unopened")
  /\ parsed' = Append(parsed, 0)
  /\ kept' = Append(kept, <<>>)
  /\ channel' = Append(channel, <<>>)
  /\ gil' = Nobody
  /\ pc' = [pc EXCEPT ![t] = "out"]
  /\ UNCHANGED <<callbacks, lock, calls, since, handed>>

-----------------------------------------------------------------------------
(* __next__: lock the iterator and draw from it without the GIL; unlock,   *)
(* take the GIL again, convert what came.                                  *)

(* Mutant: the GIL is kept while the reader works. *)
CallNextAttached(t) ==
  /\ Called(t)
  /\ gil' = t
  /\ pc' = [pc EXCEPT ![t] = "lock"]
  /\ UNCHANGED <<callbacks, lock, iterator, handed, epochVars>>

CallNext(t) ==
  /\ Called(t)
  /\ pc' = [pc EXCEPT ![t] = "lock"]
  /\ UNCHANGED <<callbacks, gil, lock, iterator, handed, epochVars>>

Got(t, epoch, file) ==
  handed' = Append(handed, [epoch |-> epoch, file |-> file, since |-> since[t]])

LockUnstarted(t) ==
  /\ pc[t] = "lock"
  /\ lock = Nobody
  /\ iterator = 0
  /\ Got(t, 0, 0)
  /\ pc' = [pc EXCEPT ![t] = "raise"]
  /\ UNCHANGED <<callbacks, gil, lock, iterator, calls, since, epochVars>>

(* The first draw of an epoch opens the archive, which starts its parser. *)
Lock(t) ==
  /\ pc[t] = "lock"
  /\ lock = Nobody
  /\ iterator # 0
  /\ lock' = t
  /\ parser' = [parser EXCEPT ![iterator] = IF @ = "unopened" THEN "name" ELSE @]
  /\ pc' = [pc EXCEPT ![t] = "pull"]
  /\ UNCHANGED <<callbacks, gil, iterator, calls, since, handed, parsed, kept, channel>>

(* The channel is drained before its end is seen. *)
Pull(t) ==
  /\ pc[t] = "pull"
  /\ \/ /\ channel[iterator] # <<>>
        /\ Got(t, iterator, Head(channel[iterator]))
        /\ channel' = [channel EXCEPT ![iterator] = Tail(@)]
     \/ /\ channel[iterator] = <<>>
        /\ parser[iterator] = "gone"
        /\ Got(t, iterator, 0)
        /\ UNCHANGED channel
  /\ lock' = Nobody
  /\ pc' = [pc EXCEPT ![t] = "raise"]
  /\ UNCHANGED <<callbacks, gil, iterator, calls, since, parser, parsed, kept>>

(* Back into Python with a sample, the end or an exception: to convert a   *)
(* value may raise as well, and the sample is gone then too.               *)
Return(t) ==
  /\ pc[t] = "raise"
  /\ gil \in {Nobody, t}
  /\ gil' = Nobody
  /\ pc' = [pc EXCEPT ![t] = "out"]
  /\ UNCHANGED <<callbacks, lock, iterator, calls, since, handed, epochVars>>

-----------------------------------------------------------------------------
(* The parser of an epoch.                                                 *)

(* Each file's name is put to the callbacks, which need the GIL; one that  *)
(* raises leaves the name as it is, or keeps the file.                     *)
Name(e) ==
  /\ parser[e] = "name"
  /\ parsed[e] < Files
  /\ callbacks => gil = Nobody
  /\ parsed' = [parsed EXCEPT ![e] = @ + 1]
  /\ \/ /\ parser' = [parser EXCEPT ![e] = "send"]
        /\ kept' = [kept EXCEPT ![e] = Append(@, parsed[e] + 1)]
     \/ /\ callbacks
        /\ UNCHANGED <<parser, kept>>
  /\ UNCHANGED <<callbacks, channel, threadVars>>

Send(e) ==
  /\ parser[e] = "send"
  /\ \/ /\ e = iterator
        /\ Len(channel[e]) < ReadAhead
        /\ channel' = [channel EXCEPT ![e] = Append(@, parsed[e])]
        /\ parser' = [parser EXCEPT ![e] = "name"]
     \/ /\ e # iterator
        /\ parser' = [parser EXCEPT ![e] = "gone"]
        /\ UNCHANGED channel
  /\ UNCHANGED <<callbacks, parsed, kept, threadVars>>

Exhausted(e) ==
  /\ parser[e] = "name"
  /\ parsed[e] = Files
  /\ parser' = [parser EXCEPT ![e] = "gone"]
  /\ UNCHANGED <<callbacks, parsed, kept, channel, threadVars>>

Thread(t) ==
  \/ Build(t) \/ Attach(t) \/ Swap(t)
  \/ LockUnstarted(t) \/ Lock(t) \/ Pull(t) \/ Return(t)

Call(t) == CallIter(t) \/ CallNext(t)

Parser(e) == e \in Epochs /\ (Name(e) \/ Send(e) \/ Exhausted(e))

MaxEpochs == Cardinality(Threads) * MaxCalls

Next ==
  \/ \E t \in Threads : Call(t) \/ Thread(t)
  \/ \E e \in Epochs : Parser(e)

(* A thread goes on wherever it can, and so does a parser; nobody is made  *)
(* to call.  Calls are bounded, so a thread that may run again and again   *)
(* may run for good once the others are done.                              *)
Fairness ==
  /\ \A t \in Threads : WF_vars(Thread(t))
  /\ \A e \in 1..MaxEpochs : WF_vars(Parser(e))

Spec == Init /\ [][Next]_vars /\ Fairness

-----------------------------------------------------------------------------
(* The one way to lose the reader: a thread in __next__ waits, with the    *)
(* lock, for the parser; the parser waits for the GIL, to ask a callback   *)
(* of its file's name; and a thread in __iter__ has the GIL and waits for  *)
(* the lock.                                                               *)
Wedged ==
  /\ callbacks
  /\ \E reader, swapper \in Threads :
       /\ lock = reader /\ pc[reader] = "pull" /\ channel[iterator] = <<>>
       /\ gil = swapper /\ pc[swapper] = "swap"
  /\ parser[iterator] = "name" /\ parsed[iterator] < Files

(* Every call returns, unless the reader gets wedged: without callbacks    *)
(* always, and with them as long as no thread restarts the reader while    *)
(* another draws from it.                                                  *)
CallsReturnUnlessWedged ==
  \A t \in Threads : pc[t] # "out" ~> (pc[t] = "out" \/ Wedged)

(* The draws that got a file of an epoch. *)
Drawn(e) == {i \in DOMAIN handed : handed[i].epoch = e /\ handed[i].file # 0}

(* Threads that share a reader share each epoch: its samples go to the     *)
(* draws in the archive's order, each to one, and the end is answered when *)
(* all that was kept is handed out.  A __next__ called after an __iter__   *)
(* had returned draws from that epoch or a later one, and is told to       *)
(* iterate first only if none had.                                         *)
NextIsCurrent ==
  /\ \A e \in Epochs :
       /\ \A i \in Drawn(e) :
            LET n == Cardinality({j \in Drawn(e) : j <= i})
            IN n <= Len(kept[e]) /\ handed[i].file = kept[e][n]
       /\ (\E i \in DOMAIN handed : handed[i].epoch = e /\ handed[i].file = 0) =>
            parsed[e] = Files /\ Cardinality(Drawn(e)) = Len(kept[e])
  /\ \A i \in DOMAIN handed : handed[i].since <= handed[i].epoch
=============================================================================
