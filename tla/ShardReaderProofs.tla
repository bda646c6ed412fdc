-------------------------- MODULE ShardReaderProofs --------------------------
(***************************************************************************)
(* Any sources, of any records, read with any read-ahead: what the reader  *)
(* makes of them, while a thread runs ahead of the consumer through a      *)
(* bounded channel, is what SamplesAreRuns and NothingLost say without it. *)
(*                                                                         *)
(* The proof follows one number, the last record of the current source     *)
(* that the consumer has seen.  Up to it files have become samples or the  *)
(* sample in progress; behind it they are in the channel, in the thread's  *)
(* hand, or not read yet.                                                  *)
(***************************************************************************)
EXTENDS ShardReader, TLAPS

(* An archive names a file by a long name or by a path, not by both: of a  *)
(* file that has both the reader keeps the long name for the next one.     *)
NamedOnce ==
  \A i \in DOMAIN input : \A j \in DOMAIN input[i].records :
    input[i].records[j].type = "file" =>
      \A k, m \in HeadersOf(i, j) :
        ~(input[i].records[k].type = "long" /\ input[i].records[m].type = "pax")

(* The files that are sent to the consumer. *)
Kept(i) ==
  {j \in Readable(i) : input[i].records[j].type = "file" /\ TrueName(i, j).kept}

-----------------------------------------------------------------------------
(* The thread is within an archive that it can read so far.                *)
Reading ==
  /\ parser.of \in 1..next /\ input[parser.of].opens
  /\ parser.pos \in 1..(Len(Records) + 1)
  /\ \A k \in 1..(parser.pos - 1) : Records[k].type \notin {"end", "bad"}

(* What it remembers is the newest such header of the next file. *)
Heads(i, j, type) == {k \in HeadersOf(i, j) : input[i].records[k].type = type}
Newest(i, j, type) ==
  IF Heads(i, j, type) = {} THEN <<>>
  ELSE <<input[i].records[Latest(Heads(i, j, type))].name>>

AtHeader ==
  parser.pc = "parse" =>
    /\ Reading
    /\ parser.long = Newest(parser.of, parser.pos, "long")
    /\ parser.pax = Newest(parser.of, parser.pos, "pax")

InHand ==
  parser.pc = "send" =>
    /\ Reading
    /\ IF sending = Failed
       THEN parser.pos <= Len(Records) /\ Records[parser.pos].type = "bad"
       ELSE /\ sending.index = parser.pos - 1
            /\ sending.index \in Kept(parser.of)
            /\ sending.name = TrueName(parser.of, sending.index)
            /\ parser.long = <<>> /\ parser.pax = <<>>

(* It has gone where the archive ends, or with the error it sent last. *)
AtEnd ==
  parser.pc = "gone" /\ current # 0 =>
    /\ Reading
    /\ parser.pos <= Len(Records) =>
         \/ Records[parser.pos].type = "end"
         \/ /\ Records[parser.pos].type = "bad"
            /\ chan # <<>> /\ chan[Len(chan)] = Failed

Attached ==
  /\ parser.of <= next
  /\ current # 0 => parser.of = current /\ consumer # "dropped"
  /\ current = 0 => chan = <<>> /\ (consumer # "dropped" => parser.pc = "gone")
  /\ consumer = "dropped" => group = <<>>

ThreadInv == AtHeader /\ InHand /\ AtEnd /\ Attached

-----------------------------------------------------------------------------
(* Between f, the last record that the consumer has seen, and the thread.  *)
InOrderFrom(f) ==
  /\ \A i \in DOMAIN chan :
       IF chan[i] = Failed THEN i = Len(chan) /\ parser.pc = "gone"
       ELSE /\ chan[i].index \in Kept(parser.of)
            /\ f < chan[i].index /\ chan[i].index < parser.pos
            /\ chan[i].name = TrueName(parser.of, chan[i].index)
  /\ \A i, k \in DOMAIN chan :
       i < k /\ chan[k] # Failed => chan[i].index < chan[k].index
  /\ parser.pc = "send" /\ sending # Failed =>
       /\ f < sending.index
       /\ \A i \in DOMAIN chan : chan[i].index < sending.index

NoneSkipped(f) ==
  \A j \in Kept(parser.of) : f < j /\ j < parser.pos =>
    \/ \E i \in DOMAIN chan : chan[i].index = j
    \/ parser.pc = "send" /\ sending.index = j

Flow(f) == current # 0 => f < parser.pos /\ InOrderFrom(f) /\ NoneSkipped(f)

-----------------------------------------------------------------------------
(* Up to f.                                                                *)

(* The sample in progress is the run of the last keyed file, as far as f. *)
Last(i, l, f) == l \in Keyed(i) /\ l <= f /\ \A j \in Keyed(i) : j <= f => j <= l

InProgress(i, g, f) ==
  /\ g.of = i /\ g.files # {}
  /\ \E l \in Keyed(i) :
       /\ Last(i, l, f)
       /\ g.key = TrueName(i, l).key
       /\ g.files = {j \in Firsts(i, RunOf(i, l)) : j <= f}
       /\ g.exts = {Lower[TrueName(i, j).ext] : j \in {k \in RunOf(i, l) : k <= f}}

Grouped(f) ==
  IF group # <<>> THEN parser.of # 0 /\ InProgress(parser.of, group[1], f)
  ELSE current # 0 /\ ~done => \A j \in Keyed(parser.of) : f < j

(* The samples returned come before the one in progress and before f. *)
Behind(f) ==
  \A n \in Samples :
    /\ out[n].of < parser.of \/ (out[n].of = parser.of /\ \A j \in out[n].files : j <= f)
    /\ group # <<>> => InOrder(out[n], group[1])

(* Every first file is in one or the other. *)
Taken(i, j) ==
  \/ \E n \in Samples : out[n].of = i /\ j \in out[n].files
  \/ group # <<>> /\ group[1].of = i /\ j \in group[1].files

AllTaken(f) ==
  \A i \in 1..next : \A j \in Keyed(i) :
    (i = parser.of => j <= f) /\ j \in Firsts(i, RunOf(i, j)) => Taken(i, j)

(* A source that has been left has been read to its end. *)
ReadOut(f) == current = 0 /\ parser.of # 0 => \A j \in Keyed(parser.of) : j <= f

Assembled(f) ==
  consumer # "dropped" => Grouped(f) /\ Behind(f) /\ AllTaken(f) /\ ReadOut(f)

-----------------------------------------------------------------------------
NoErrors == \A n \in DOMAIN out : n \in Samples

Flags ==
  /\ pending => current = 0
  /\ exhausted => current = 0 /\ (handler # "stop" => next = Len(input))
  /\ current = 0 /\ group # <<>> => pending \/ done
  /\ done /\ handler # "stop" => current = 0
  /\ done /\ handler # "stop" /\ NoErrors => exhausted /\ ~pending
  /\ consumer = "ended" => done /\ group = <<>>

(* An archive that broke off leaves an error, where errors are returned. *)
Unbroken(i) ==
  \A j \in DOMAIN input[i].records : input[i].records[j].type = "bad" =>
    \E k \in 1..(j - 1) : input[i].records[k].type = "end"

NoneBroken ==
  handler = "reraise" /\ NoErrors /\ consumer # "dropped" =>
    \A i \in 1..next : input[i].opens /\ (i # current => Unbroken(i))

Returned ==
  /\ \A n \in Samples : WholeRun(out[n])
  /\ \A n, m \in Samples : n < m => InOrder(out[n], out[m])

Progress(f) == Flow(f) /\ Assembled(f)
Settled == Flags /\ NoneBroken /\ Returned

IInv == TypeOK /\ ThreadInv /\ Settled /\ \E f \in Nat : Progress(f)

-----------------------------------------------------------------------------
(* What the archives hold does not change.                                 *)
LEMMA Reference ==
  ASSUME UNCHANGED config
  PROVE  /\ NamedOnce' <=> NamedOnce
         /\ \A i : /\ Readable(i)' = Readable(i) /\ Kept(i)' = Kept(i)
                   /\ Keyed(i)' = Keyed(i) /\ (Unbroken(i)' <=> Unbroken(i))
         /\ \A i, j : /\ TrueName(i, j)' = TrueName(i, j)
                      /\ RunOf(i, j)' = RunOf(i, j)
                      /\ Firsts(i, j)' = Firsts(i, j)
         /\ \A i, j, type : Newest(i, j, type)' = Newest(i, j, type)
         /\ \A i, g, f : InProgress(i, g, f)' <=> InProgress(i, g, f)
         /\ \A s : WholeRun(s)' <=> WholeRun(s)
<1>1. input' = input /\ handler' = handler
  BY DEF config
<1>2. \A i, j : HeadersOf(i, j)' = HeadersOf(i, j)
  BY <1>1 DEF HeadersOf
<1>3. \A i : Readable(i)' = Readable(i)
  BY <1>1 DEF Readable
<1>4. \A i, j : TrueName(i, j)' = TrueName(i, j)
  BY <1>1, <1>2 DEF TrueName
<1>5. \A i : Kept(i)' = Kept(i) /\ Keyed(i)' = Keyed(i)
  BY <1>1, <1>3, <1>4 DEF Kept, Keyed
<1>6. \A i, j : RunOf(i, j)' = RunOf(i, j) /\ Firsts(i, j)' = Firsts(i, j)
  BY <1>4, <1>5 DEF RunOf, Firsts
<1>7. \A i, j, type : Newest(i, j, type)' = Newest(i, j, type)
  BY <1>1, <1>2 DEF Newest, Heads
<1>8. \A i, g, f : InProgress(i, g, f)' <=> InProgress(i, g, f)
  BY <1>4, <1>5, <1>6 DEF InProgress, Last
<1>9. \A s : WholeRun(s)' <=> WholeRun(s)
  BY <1>1, <1>4, <1>5, <1>6 DEF WholeRun
<1>10. NamedOnce' <=> NamedOnce
  BY <1>1, <1>2 DEF NamedOnce
<1>11. \A i : Unbroken(i)' <=> Unbroken(i)
  BY <1>1 DEF Unbroken
<1> QED
  BY <1>3, <1>4, <1>5, <1>6, <1>7, <1>8, <1>9, <1>10, <1>11

-----------------------------------------------------------------------------
(* The headers before a file.                                              *)
Header == {"long", "pax", "skip"}

LEMMA HeadersNext ==
  ASSUME NEW i, NEW j \in Nat \ {0}
  PROVE  /\ HeadersOf(i, 1) = {}
         /\ HeadersOf(i, j) \subseteq 1..(j - 1)
         /\ input[i].records[j].type \in Header =>
              HeadersOf(i, j + 1) = HeadersOf(i, j) \cup {j}
         /\ input[i].records[j].type \notin Header => HeadersOf(i, j + 1) = {}
<1> DEFINE type(k) == input[i].records[k].type
<1>1. HeadersOf(i, 1) = {} /\ HeadersOf(i, j) \subseteq 1..(j - 1)
  BY DEF HeadersOf
<1>2. /\ HeadersOf(i, j) = {k \in 1..(j - 1) : \A m \in k..(j - 1) : type(m) \in Header}
      /\ HeadersOf(i, j + 1) = {k \in 1..j : \A m \in k..j : type(m) \in Header}
  BY DEF HeadersOf, Header
<1>3. \A k \in 1..j : j \in k..j /\ k..j = (k..(j - 1)) \cup {j}
  OBVIOUS
<1>4. 1..j = (1..(j - 1)) \cup {j} /\ j..(j - 1) = {}
  OBVIOUS
<1> HIDE DEF type
<1>5. type(j) \in Header => HeadersOf(i, j + 1) = HeadersOf(i, j) \cup {j}
  BY <1>2, <1>3, <1>4
<1>6. type(j) \notin Header => HeadersOf(i, j + 1) = {}
  BY <1>2, <1>3
<1> QED
  BY <1>1, <1>5, <1>6 DEF type

LEMMA NewestNext ==
  ASSUME NEW i, NEW j \in Nat \ {0}, NEW type \in {"long", "pax"}
  PROVE  /\ Newest(i, 1, type) = <<>>
         /\ Newest(i, j + 1, type) =
              IF input[i].records[j].type = type THEN <<input[i].records[j].name>>
              ELSE IF input[i].records[j].type \in Header THEN Newest(i, j, type) ELSE <<>>
<1> DEFINE H == Heads(i, j, type)
           N == Heads(i, j + 1, type)
<1>1. Newest(i, 1, type) = <<>>
  BY HeadersNext DEF Newest, Heads
<1>2. CASE input[i].records[j].type = type
  <2>1. N = H \cup {j} /\ H \subseteq 1..(j - 1)
    BY <1>2, HeadersNext DEF Heads, Header
  <2> HIDE DEF H, N
  <2>2. j \in N /\ \A m \in N : m \in Nat /\ m <= j /\ (j <= m => m = j)
    BY <2>1
  <2>3. Latest(N) = j
    BY <2>2 DEF Latest
  <2> QED
    BY <1>1, <1>2, <2>1, <2>3 DEF Newest, N
<1>3. CASE input[i].records[j].type # type /\ input[i].records[j].type \in Header
  <2>1. N = H
    BY <1>3, HeadersNext DEF Heads
  <2> QED
    BY <1>1, <1>3, <2>1 DEF Newest
<1>4. CASE input[i].records[j].type # type /\ input[i].records[j].type \notin Header
  <2>1. N = {}
    BY <1>4, HeadersNext DEF Heads
  <2> QED
    BY <1>1, <1>4, <2>1 DEF Newest
<1> QED
  BY <1>2, <1>3, <1>4

(* TrueName in the words of what the thread remembers. *)
LEMMA TrueNameIs ==
  ASSUME NEW i, NEW j
  PROVE  /\ TrueName(i, j) =
              IF Newest(i, j, "pax") # <<>> THEN Newest(i, j, "pax")[1]
              ELSE IF Newest(i, j, "long") # <<>> THEN Newest(i, j, "long")[1]
              ELSE input[i].records[j].name
         /\ NamedOnce /\ i \in DOMAIN input /\ j \in DOMAIN input[i].records
              /\ input[i].records[j].type = "file"
              => Newest(i, j, "pax") = <<>> \/ Newest(i, j, "long") = <<>>
<1>1. \A type : Newest(i, j, type) # <<>> <=> Heads(i, j, type) # {}
  BY DEF Newest
<1>2. \A type : Heads(i, j, type) # {} => Newest(i, j, type)[1] = input[i].records[Latest(Heads(i, j, type))].name
  BY DEF Newest
<1>3. TrueName(i, j) =
        input[i].records[IF Heads(i, j, "pax") # {} THEN Latest(Heads(i, j, "pax"))
                         ELSE IF Heads(i, j, "long") # {} THEN Latest(Heads(i, j, "long"))
                         ELSE j].name
  BY DEF TrueName, Heads
<1>4. ASSUME NamedOnce, i \in DOMAIN input, j \in DOMAIN input[i].records,
             input[i].records[j].type = "file"
      PROVE  Heads(i, j, "pax") = {} \/ Heads(i, j, "long") = {}
  BY <1>4 DEF NamedOnce, Heads
<1> QED
  BY <1>1, <1>2, <1>3, <1>4

-----------------------------------------------------------------------------
(* Runs of keyed files.                                                    *)
Amid(a, m, b) == (a <= m /\ m <= b) \/ (b <= m /\ m <= a)

LEMMA KeyedAreNats == \A i \in DOMAIN input : Keyed(i) \subseteq Kept(i) /\ Kept(i) \subseteq DOMAIN input[i].records
BY DEF Keyed, Kept, Readable

LEMMA RunIs ==
  ASSUME NEW i, NEW j
  PROVE  RunOf(i, j) = {k \in Keyed(i) : \A m \in Keyed(i) :
                          Amid(j, m, k) => TrueName(i, m).key = TrueName(i, j).key}
BY DEF RunOf, Amid

LEMMA RunSame ==
  ASSUME NEW i, Keyed(i) \subseteq Nat, NEW l \in Keyed(i), NEW j \in RunOf(i, l)
  PROVE  /\ j \in Keyed(i) /\ TrueName(i, j).key = TrueName(i, l).key
         /\ RunOf(i, j) = RunOf(i, l) /\ l \in RunOf(i, l)
<1>1. /\ j \in Keyed(i)
      /\ \A m \in Keyed(i) : Amid(l, m, j) => TrueName(i, m).key = TrueName(i, l).key
  BY RunIs
<1>2. TrueName(i, j).key = TrueName(i, l).key
  BY <1>1 DEF Amid
<1>3. \A k, m \in Keyed(i) : Amid(j, m, k) => Amid(l, m, j) \/ Amid(l, m, k)
  BY <1>1 DEF Amid
<1>4. \A k, m \in Keyed(i) : Amid(l, m, k) => Amid(l, m, j) \/ Amid(j, m, k)
  BY <1>1 DEF Amid
<1>5. RunOf(i, l) \subseteq RunOf(i, j)
  BY <1>1, <1>2, <1>3, RunIs
<1>6. RunOf(i, j) \subseteq RunOf(i, l)
  BY <1>1, <1>2, <1>4, RunIs
<1>7. l \in RunOf(i, l)
  BY RunIs DEF Amid
<1> QED
  BY <1>1, <1>2, <1>5, <1>6, <1>7

(* The file after l is of its run, or begins another. *)
LEMMA NextInRun ==
  ASSUME NEW i, Keyed(i) \subseteq Nat, NEW l \in Keyed(i), NEW n \in Keyed(i), l < n,
         \A j \in Keyed(i) : j < n => j <= l
  PROVE  IF TrueName(i, n).key = TrueName(i, l).key
         THEN n \in RunOf(i, l) /\ RunOf(i, n) = RunOf(i, l)
         ELSE (\A k \in RunOf(i, l) : k <= l) /\ (\A k \in RunOf(i, n) : n <= k)
<1>1. CASE TrueName(i, n).key = TrueName(i, l).key
  <2>1. \A m \in Keyed(i) : Amid(l, m, n) => m = l \/ m = n
    BY DEF Amid
  <2>2. n \in RunOf(i, l)
    BY <1>1, <2>1, RunIs
  <2> QED
    BY <1>1, <2>2, RunSame
<1>2. CASE TrueName(i, n).key # TrueName(i, l).key
  <2>1. ASSUME NEW k \in RunOf(i, l)
        PROVE  k <= l
    <3>1. k \in Keyed(i) /\ (Amid(l, n, k) => TrueName(i, n).key = TrueName(i, l).key)
      BY RunIs
    <3> QED
      BY <1>2, <3>1 DEF Amid
  <2>2. ASSUME NEW k \in RunOf(i, n)
        PROVE  n <= k
    <3>1. k \in Keyed(i) /\ (Amid(n, l, k) => TrueName(i, l).key = TrueName(i, n).key)
      BY RunIs
    <3> QED
      BY <1>2, <3>1 DEF Amid
  <2> QED
    BY <1>2, <2>1, <2>2
<1> QED
  BY <1>1, <1>2

(* n is the keyed file after f. *)
Follows(i, f, n) == n \in Keyed(i) /\ f < n /\ \A j \in Keyed(i) : j < n => j <= f
Begun(i, n) == [of |-> i, key |-> TrueName(i, n).key,
                exts |-> {Lower[TrueName(i, n).ext]}, files |-> {n}]

LEMMA Begins ==
  ASSUME NEW i, Keyed(i) \subseteq Nat, NEW f \in Nat, NEW n, Follows(i, f, n),
         \/ \A j \in Keyed(i) : f < j
         \/ \E g : InProgress(i, g, f) /\ g.key # TrueName(i, n).key
  PROVE  InProgress(i, Begun(i, n), n)
<1>1. n \in Keyed(i) /\ n \in Nat /\ Last(i, n, n) /\ n \in RunOf(i, n)
  <2>1. n \in Keyed(i) /\ n \in Nat
    BY DEF Follows
  <2>2. n \in RunOf(i, n)
    BY <2>1, RunIs DEF Amid
  <2> QED
    BY <2>1, <2>2 DEF Last
<1>2. RunOf(i, n) \subseteq Keyed(i)
  BY DEF RunOf
<1>3. \A k \in RunOf(i, n) : n <= k
  <2>1. CASE \A j \in Keyed(i) : f < j
    BY <1>1, <1>2, <2>1 DEF Follows
  <2>2. CASE \E g : InProgress(i, g, f) /\ g.key # TrueName(i, n).key
    <3> PICK l : Last(i, l, f) /\ TrueName(i, l).key # TrueName(i, n).key
      BY <2>2 DEF InProgress
    <3>1. l \in Keyed(i) /\ l < n /\ \A j \in Keyed(i) : j < n => j <= l
      BY DEF Last, Follows
    <3> QED
      BY <1>1, <3>1, NextInRun
  <2> QED
    BY <2>1, <2>2
<1>4. {k \in RunOf(i, n) : k <= n} = {n}
  BY <1>1, <1>2, <1>3
<1>5. {j \in Firsts(i, RunOf(i, n)) : j <= n} = {n}
  <2>1. n \in Firsts(i, RunOf(i, n))
    BY <1>1, <1>2, <1>3 DEF Firsts
  <2>2. Firsts(i, RunOf(i, n)) \subseteq RunOf(i, n)
    BY DEF Firsts
  <2> QED
    BY <1>1, <1>4, <2>1, <2>2
<1>6. {Lower[TrueName(i, j).ext] : j \in {k \in RunOf(i, n) : k <= n}} = {Lower[TrueName(i, n).ext]}
  BY <1>4
<1>7. /\ Begun(i, n).of = i /\ Begun(i, n).key = TrueName(i, n).key
      /\ Begun(i, n).files = {n} /\ Begun(i, n).exts = {Lower[TrueName(i, n).ext]}
  BY DEF Begun
<1> QED
  BY <1>1, <1>5, <1>6, <1>7 DEF InProgress

(* The next file is of the run in progress. *)
LEMMA RunGoesOn ==
  ASSUME NEW i, Keyed(i) \subseteq Nat, NEW f \in Nat, NEW n, Follows(i, f, n),
         NEW l, Last(i, l, f), TrueName(i, n).key = TrueName(i, l).key
  PROVE  /\ Last(i, n, n) /\ RunOf(i, n) = RunOf(i, l) /\ n \in RunOf(i, l)
         /\ {k \in RunOf(i, l) : k <= n} = {k \in RunOf(i, l) : k <= f} \cup {n}
         /\ \A k \in RunOf(i, l) : k < n => k <= f
<1>1. /\ l \in Keyed(i) /\ n \in Keyed(i) /\ l < n
      /\ \A j \in Keyed(i) : j < n => j <= l /\ j <= f
  BY DEF Last, Follows
<1>2. n \in RunOf(i, l) /\ RunOf(i, n) = RunOf(i, l)
  BY <1>1, NextInRun
<1>3. RunOf(i, l) \subseteq Keyed(i)
  BY DEF RunOf
<1>4. Last(i, n, n)
  BY <1>1 DEF Last
<1>5. \A k \in RunOf(i, l) : (k < n <=> k <= f) /\ (k <= n <=> k <= f \/ k = n)
  BY <1>1, <1>3 DEF Follows
<1> QED
  BY <1>2, <1>4, <1>5

LEMMA Continues ==
  ASSUME NEW i, Keyed(i) \subseteq Nat, NEW f \in Nat, NEW n, Follows(i, f, n),
         NEW g \in Item, InProgress(i, g, f), g.key = TrueName(i, n).key,
         Lower[TrueName(i, n).ext] \notin g.exts
  PROVE  InProgress(i, [g EXCEPT !.exts = @ \cup {Lower[TrueName(i, n).ext]},
                                 !.files = @ \cup {n}], n)
<1> DEFINE h == [g EXCEPT !.exts = @ \cup {Lower[TrueName(i, n).ext]}, !.files = @ \cup {n}]
<1>1. /\ h.of = g.of /\ h.key = g.key
      /\ h.exts = g.exts \cup {Lower[TrueName(i, n).ext]} /\ h.files = g.files \cup {n}
  BY DEF Item
<1> HIDE DEF h
<1> PICK l : /\ Last(i, l, f) /\ g.key = TrueName(i, l).key
             /\ g.files = {j \in Firsts(i, RunOf(i, l)) : j <= f}
             /\ g.exts = {Lower[TrueName(i, j).ext] : j \in {k \in RunOf(i, l) : k <= f}}
  BY DEF InProgress
<1>2. /\ Last(i, n, n) /\ RunOf(i, n) = RunOf(i, l) /\ n \in RunOf(i, l)
      /\ {k \in RunOf(i, l) : k <= n} = {k \in RunOf(i, l) : k <= f} \cup {n}
      /\ \A k \in RunOf(i, l) : k < n => k <= f
  BY RunGoesOn
<1>3. h.exts = {Lower[TrueName(i, j).ext] : j \in {k \in RunOf(i, l) : k <= n}}
  BY <1>1, <1>2
<1>4. n \in Firsts(i, RunOf(i, l))
  BY <1>2 DEF Firsts
<1>5. h.files = {j \in Firsts(i, RunOf(i, l)) : j <= n}
  <2>1. Firsts(i, RunOf(i, l)) \subseteq RunOf(i, l)
    BY DEF Firsts
  <2> QED
    BY <1>1, <1>2, <1>4, <2>1
<1>6. h.of = i /\ h.files # {} /\ h.key = TrueName(i, n).key
  BY <1>1 DEF InProgress
<1>7. InProgress(i, h, n)
  <2>1. n \in Keyed(i)
    BY DEF Follows
  <2> QED
    BY <1>2, <1>3, <1>5, <1>6, <2>1 DEF InProgress
<1> QED
  BY <1>7 DEF h

LEMMA Repeats ==
  ASSUME NEW i, Keyed(i) \subseteq Nat, NEW f \in Nat, NEW n, Follows(i, f, n),
         NEW g, InProgress(i, g, f), g.key = TrueName(i, n).key,
         Lower[TrueName(i, n).ext] \in g.exts
  PROVE  InProgress(i, g, n) /\ n \notin Firsts(i, RunOf(i, n))
<1> PICK l : /\ Last(i, l, f) /\ g.key = TrueName(i, l).key
             /\ g.files = {j \in Firsts(i, RunOf(i, l)) : j <= f}
             /\ g.exts = {Lower[TrueName(i, j).ext] : j \in {k \in RunOf(i, l) : k <= f}}
  BY DEF InProgress
<1>1. /\ Last(i, n, n) /\ RunOf(i, n) = RunOf(i, l) /\ n \in RunOf(i, l)
      /\ {k \in RunOf(i, l) : k <= n} = {k \in RunOf(i, l) : k <= f} \cup {n}
  <2>1. TrueName(i, n).key = TrueName(i, l).key
    OBVIOUS
  <2> HIDE DEF Last, Follows
  <2> QED
    BY <2>1, RunGoesOn
<1>2. g.exts = {Lower[TrueName(i, j).ext] : j \in {k \in RunOf(i, l) : k <= n}}
  BY <1>1
<1>3. PICK k \in RunOf(i, l) : k <= f /\ Lower[TrueName(i, k).ext] = Lower[TrueName(i, n).ext]
  OBVIOUS
<1>4. k < n
  <2>1. RunOf(i, l) \subseteq Nat
    BY DEF RunOf
  <2> QED
    BY <1>3, <2>1 DEF Follows
<1>5. n \notin Firsts(i, RunOf(i, l))
  BY <1>3, <1>4 DEF Firsts
<1>6. Firsts(i, RunOf(i, l)) \subseteq RunOf(i, l)
  BY DEF Firsts
<1>7. g.files = {j \in Firsts(i, RunOf(i, l)) : j <= n}
  BY <1>1, <1>5, <1>6
<1>8. g.of = i /\ g.files # {}
  BY DEF InProgress
<1>9. n \in Keyed(i) /\ g.key = TrueName(i, n).key
  BY DEF Follows
<1>10. InProgress(i, g, n)
  BY <1>1, <1>2, <1>7, <1>8, <1>9 DEF InProgress
<1> QED
  BY <1>1, <1>5, <1>10

(* What is not keyed changes nothing. *)
LEMMA PassesBy ==
  ASSUME NEW i, Keyed(i) \subseteq Nat, NEW f \in Nat, NEW n \in Nat, f <= n,
         \A j \in Keyed(i) : j <= n => j <= f, NEW g, InProgress(i, g, f)
  PROVE  InProgress(i, g, n)
<1> PICK l : /\ Last(i, l, f) /\ g.key = TrueName(i, l).key
             /\ g.files = {j \in Firsts(i, RunOf(i, l)) : j <= f}
             /\ g.exts = {Lower[TrueName(i, j).ext] : j \in {k \in RunOf(i, l) : k <= f}}
  BY DEF InProgress
<1>1. RunOf(i, l) \subseteq Keyed(i) /\ Firsts(i, RunOf(i, l)) \subseteq RunOf(i, l)
  BY DEF RunOf, Firsts
<1>2. \A j \in Keyed(i) : j <= n <=> j <= f
  OBVIOUS
<1>3. Last(i, l, n)
  BY <1>2 DEF Last
<1>4. {k \in RunOf(i, l) : k <= n} = {k \in RunOf(i, l) : k <= f}
  BY <1>1, <1>2
<1>5. {j \in Firsts(i, RunOf(i, l)) : j <= n} = {j \in Firsts(i, RunOf(i, l)) : j <= f}
  BY <1>1, <1>2
<1>6. g.of = i /\ g.files # {}
  BY DEF InProgress
<1>7. l \in Keyed(i)
  BY DEF Last
<1> QED
  BY <1>3, <1>4, <1>5, <1>6, <1>7 DEF InProgress

(* A run that no file continues is whole; one cut short is a part of one.  *)
LEMMA Completes ==
  ASSUME NEW i, Keyed(i) \subseteq Nat, NEW f \in Nat, NEW g, InProgress(i, g, f),
         \/ handler = "stop"
         \/ \A j \in Keyed(i) : j <= f
         \/ \E n : Follows(i, f, n) /\ TrueName(i, n).key # g.key
  PROVE  WholeRun(g)
<1> PICK l : /\ Last(i, l, f) /\ g.key = TrueName(i, l).key
             /\ g.files = {j \in Firsts(i, RunOf(i, l)) : j <= f}
  BY DEF InProgress
<1>1. PICK j : j \in g.files
  BY DEF InProgress
<1>2. Firsts(i, RunOf(i, l)) \subseteq RunOf(i, l) /\ RunOf(i, l) \subseteq Keyed(i) /\ l \in Keyed(i)
  BY DEF Firsts, RunOf, Last
<1>3. j \in Keyed(i) /\ TrueName(i, j).key = TrueName(i, l).key /\ RunOf(i, j) = RunOf(i, l)
  BY <1>1, <1>2, RunSame
<1>4. ASSUME handler # "stop"
      PROVE  \A k \in RunOf(i, l) : k <= f
  <2>1. CASE \A k \in Keyed(i) : k <= f
    BY <1>2, <2>1
  <2>2. CASE \E n : Follows(i, f, n) /\ TrueName(i, n).key # g.key
    <3> PICK n : Follows(i, f, n) /\ TrueName(i, n).key # g.key
      BY <2>2
    <3>1. n \in Keyed(i) /\ l < n /\ \A k \in Keyed(i) : k < n => k <= l
      BY <1>2 DEF Last, Follows
    <3>2. \A k \in RunOf(i, l) : k <= l
      BY <1>2, <3>1, NextInRun
    <3> QED
      BY <1>2, <3>2 DEF Last
  <2> QED
    BY <1>4, <2>1, <2>2
<1>5. handler # "stop" => g.files = Firsts(i, RunOf(i, l))
  BY <1>2, <1>4
<1>6. g.files \subseteq Firsts(i, RunOf(i, l)) /\ g.of = i
  BY DEF InProgress
<1> QED
  BY <1>1, <1>3, <1>5, <1>6 DEF WholeRun

-----------------------------------------------------------------------------
(* The thread.                                                             *)

LEMMA RecordsAre ==
  ASSUME TypeOK, NEW i \in DOMAIN input
  PROVE  /\ input[i].records \in Seq(Record) /\ input[i].opens \in BOOLEAN
         /\ DOMAIN input[i].records = 1..Len(input[i].records)
         /\ Len(input[i].records) \in Nat
         /\ \A j \in DOMAIN input[i].records :
              input[i].records[j].type \in RecordTypes /\ input[i].records[j].name \in Names
<1>1. input \in Seq(Source)
  BY ReaderAssumption DEF TypeOK
<1>2. input[i] \in Source
  BY <1>1
<1>3. input[i].records \in Seq(Record) /\ input[i].opens \in BOOLEAN
  BY <1>2 DEF Source
<1>4. \A j \in DOMAIN input[i].records : input[i].records[j] \in Record
  BY <1>3
<1> QED
  BY <1>3, <1>4 DEF Record

LEMMA ReadingIs ==
  ASSUME TypeOK, Reading
  PROVE  /\ parser.of \in DOMAIN input /\ parser.of \in Nat \ {0}
         /\ Len(Records) \in Nat /\ DOMAIN Records = 1..Len(Records)
         /\ parser.pos \in Nat \ {0} /\ parser.pos <= Len(Records) + 1
         /\ parser.pos <= Len(Records) =>
              Records[parser.pos].type \in RecordTypes /\ Name \in Names
         /\ Readable(parser.of) \cap 1..(parser.pos - 1) = 1..(parser.pos - 1)
         /\ Kept(parser.of) \subseteq Nat /\ Keyed(parser.of) \subseteq Nat
<1>1. input \in Seq(Source) /\ Len(input) \in Nat /\ DOMAIN input = 1..Len(input) /\ next \in 0..Len(input)
  <2>1. input \in Inputs /\ next \in 0..Len(input)
    BY DEF TypeOK
  <2>2. input \in Seq(Source)
    BY <2>1, ReaderAssumption
  <2> QED
    BY <2>1, <2>2
<1>2. parser.of \in DOMAIN input /\ parser.of \in Nat \ {0}
  BY <1>1 DEF Reading
<1>3. /\ Len(Records) \in Nat /\ DOMAIN Records = 1..Len(Records)
      /\ \A j \in DOMAIN Records : Records[j].type \in RecordTypes /\ Records[j].name \in Names
  BY <1>2, RecordsAre DEF Records
<1>4. parser.pos \in Nat \ {0} /\ parser.pos <= Len(Records) + 1
  BY <1>3 DEF Reading
<1>5. parser.pos <= Len(Records) => Records[parser.pos].type \in RecordTypes /\ Name \in Names
  BY <1>3, <1>4 DEF Name
<1>6. 1..(parser.pos - 1) \subseteq Readable(parser.of)
  <2> SUFFICES ASSUME NEW j \in 1..(parser.pos - 1)
               PROVE  j \in Readable(parser.of)
    OBVIOUS
  <2>1. j \in DOMAIN Records
    BY <1>3, <1>4
  <2>2. \A k \in 1..j : k \in 1..(parser.pos - 1)
    BY <1>4
  <2> QED
    BY <2>1, <2>2 DEF Reading, Readable, Records
<1>7. Kept(parser.of) \subseteq Nat /\ Keyed(parser.of) \subseteq Nat
  BY <1>2, <1>3, KeyedAreNats DEF Records
<1> QED
  BY <1>2, <1>3, <1>4, <1>5, <1>6, <1>7

(* What goes by the header at pos, and whether it is sent. *)
LEMMA FileIs ==
  ASSUME TypeOK, AtHeader, At("file"), NamedOnce
  PROVE  /\ FileName = TrueName(parser.of, parser.pos) /\ FileName \in Names
         /\ parser.pos \in Kept(parser.of) <=> FileName.kept
         /\ parser.pax # <<>> => parser.long = <<>>
<1>1. /\ parser.pc = "parse" /\ Reading /\ parser.pos <= Len(Records)
      /\ Records[parser.pos].type = "file"
      /\ parser.long = Newest(parser.of, parser.pos, "long")
      /\ parser.pax = Newest(parser.of, parser.pos, "pax")
  BY DEF At, AtHeader
<1>2. /\ parser.of \in DOMAIN input /\ parser.pos \in DOMAIN Records /\ Name \in Names
      /\ parser.pos \in Nat \ {0} /\ Len(Records) \in Nat /\ DOMAIN Records = 1..Len(Records)
      /\ Readable(parser.of) \cap 1..(parser.pos - 1) = 1..(parser.pos - 1)
  BY <1>1, ReadingIs
<1>3. FileName = TrueName(parser.of, parser.pos)
  BY <1>1, TrueNameIs DEF FileName, Name, Records
<1>4. parser.pax # <<>> => parser.long = <<>>
  BY <1>1, <1>2, TrueNameIs DEF Records
<1>5. FileName \in Names
  <2>1. parser.pax \in Seq(Names) /\ parser.long \in Seq(Names)
    BY DEF TypeOK
  <2> QED
    BY <1>2, <2>1 DEF FileName
<1>6. parser.pos \in Readable(parser.of)
  <2>1. \A k \in 1..parser.pos : k \in 1..(parser.pos - 1) \/ k = parser.pos
    BY <1>2
  <2>2. \A k \in 1..parser.pos : Records[k].type \notin {"end", "bad"}
    BY <1>1, <2>1 DEF Reading
  <2> QED
    BY <1>1, <1>2, <2>2 DEF Readable, Reading, Records
<1> QED
  BY <1>1, <1>3, <1>4, <1>5, <1>6 DEF Kept, Records

Threads == [pc : {"parse", "send", "gone"}, of : 0..Len(input), pos : Nat,
            long : Seq(Names), pax : Seq(Names)]

LEMMA ThreadTypes ==
  TypeOK /\ ThreadInv /\ NamedOnce /\ ParserStep => TypeOK'
<1> SUFFICES ASSUME TypeOK, AtHeader, NamedOnce, ParserStep
             PROVE  TypeOK'
  BY DEF ThreadInv
<1>1. /\ parser \in Threads
      /\ sending \in [index : Nat, name : Names]
      /\ chan \in Seq([index : Nat, name : Names]) /\ Len(chan) <= Readahead
  BY DEF TypeOK, Threads
<1>2. UNCHANGED <<config, expand, group, done, consumer, out>>
  BY DEF ParserStep, Extend, PassOver, File, Bad, EndOfArchive, Send
<1>3. ASSUME /\ parser' \in Threads
             /\ sending' \in [index : Nat, name : Names]
             /\ chan' \in Seq([index : Nat, name : Names]) /\ Len(chan') <= Readahead
      PROVE  TypeOK'
  BY <1>2, <1>3 DEF TypeOK, Threads, config, expand
<1>4. ASSUME NEW type, At(type)
      PROVE  Name \in Names /\ parser.pos + 1 \in Nat
  <2>1. Reading /\ parser.pos <= Len(Records)
    BY <1>4 DEF At, AtHeader
  <2> QED
    BY <2>1, ReadingIs
<1>5. Failed \in [index : Nat, name : Names]
  <2>1. (CHOOSE n \in Names : TRUE) \in Names
    BY ReaderAssumption
  <2> QED
    BY <2>1 DEF Failed
<1>6. CASE Extend
  <2>1. Name \in Names /\ parser.pos + 1 \in Nat
    BY <1>4, <1>6 DEF Extend
  <2>2. <<Name>> \in Seq(Names)
    BY <2>1
  <2> HIDE DEF Name
  <2>3. parser' \in Threads
    BY <1>1, <1>6, <2>1, <2>2 DEF Extend, Threads
  <2> QED
    BY <1>1, <1>3, <1>6, <2>3 DEF Extend
<1>7. CASE PassOver
  <2>1. parser.pos + 1 \in Nat
    BY <1>4, <1>7 DEF PassOver
  <2>2. <<>> \in Seq(Names)
    OBVIOUS
  <2>3. parser' = [parser EXCEPT !.pos = parser.pos + 1, !.long = <<>>, !.pax = <<>>]
    BY <1>7 DEF PassOver
  <2>4. parser' \in Threads
    BY <1>1, <2>1, <2>2, <2>3 DEF Threads
  <2> QED
    BY <1>1, <1>3, <1>7, <2>4 DEF PassOver
<1>8. CASE File
  <2>1. parser.pos + 1 \in Nat /\ FileName \in Names
    BY <1>4, <1>8, FileIs DEF File
  <2>2. parser' \in Threads
    <3>1. PICK pc \in {"parse", "send"}, long \in Seq(Names) :
            parser' = [parser EXCEPT !.pos = parser.pos + 1, !.pax = <<>>, !.long = long, !.pc = pc]
      BY <1>1, <1>8 DEF File, Threads
    <3>2. <<>> \in Seq(Names)
      OBVIOUS
    <3> QED
      BY <1>1, <2>1, <3>1, <3>2 DEF Threads
  <2>3. sending' \in [index : Nat, name : Names]
    <3>1. parser.pos \in Nat
      BY <1>1 DEF Threads
    <3>2. sending' = [index |-> parser.pos, name |-> FileName] \/ sending' = sending
      BY <1>8 DEF File
    <3> QED
      BY <1>1, <2>1, <3>1, <3>2
  <2> QED
    BY <1>1, <1>3, <1>8, <2>2, <2>3 DEF File
<1>9. CASE Bad \/ EndOfArchive
  <2>1. parser' \in Threads
    BY <1>1, <1>9 DEF Bad, EndOfArchive, Threads
  <2> QED
    BY <1>1, <1>3, <1>5, <1>9, <2>1 DEF Bad, EndOfArchive
<1>10. CASE Send
  <2>1. parser' \in Threads
    BY <1>1, <1>10 DEF Send, Threads
  <2>2. chan' \in Seq([index : Nat, name : Names]) /\ Len(chan') <= Readahead
    <3>1. chan' = chan \/ (Len(chan) < Readahead /\ chan' = Append(chan, sending))
      BY <1>10 DEF Send
    <3>2. /\ Append(chan, sending) \in Seq([index : Nat, name : Names])
          /\ Len(Append(chan, sending)) = Len(chan) + 1 /\ Len(chan) \in Nat
      BY <1>1
    <3>3. Readahead \in Nat
      BY ReaderAssumption
    <3>4. chan' \in Seq([index : Nat, name : Names])
      BY <1>1, <3>1, <3>2
    <3>5. Len(chan') <= Readahead
      BY <1>1, <3>1, <3>2, <3>3
    <3> QED
      BY <3>4, <3>5
  <2> QED
    BY <1>1, <1>3, <1>10, <2>1, <2>2 DEF Send
<1> QED
  BY <1>6, <1>7, <1>8, <1>9, <1>10 DEF ParserStep

LEMMA FailedHasNoFile == Failed.index = 0
BY DEF Failed

LEMMA ThreadStep ==
  TypeOK /\ ThreadInv /\ NamedOnce /\ ParserStep => ThreadInv'
<1> SUFFICES ASSUME TypeOK, AtHeader, InHand, AtEnd, Attached, NamedOnce, ParserStep
             PROVE  ThreadInv'
  BY DEF ThreadInv
<1> DEFINE of == parser.of
           pos == parser.pos
<1>1. /\ UNCHANGED <<config, expand, group, done, consumer, out>>
      /\ input' = input /\ next' = next /\ current' = current /\ parser'.of = of
      /\ parser.pc # "gone"
  <2>1. parser \in Threads
    BY DEF TypeOK, Threads
  <2> QED
    BY <2>1 DEF ParserStep, Extend, PassOver, File, Bad, EndOfArchive, Send, At, config, expand, Threads
<1>2. /\ Reading /\ pos \in Nat \ {0} /\ Len(Records) \in Nat /\ of \in DOMAIN input
      /\ parser \in Threads /\ chan \in Seq([index : Nat, name : Names])
  <2>1. parser \in Threads /\ chan \in Seq([index : Nat, name : Names])
    BY DEF TypeOK, Threads
  <2>2. Reading
    BY <1>1, <2>1 DEF AtHeader, InHand, Threads
  <2> QED
    BY <2>1, <2>2, ReadingIs
<1>3. \A j, type : Newest(of, j, type)' = Newest(of, j, type) /\ Kept(of)' = Kept(of)
  BY <1>1, Reference
<1>4. Attached' <=> (current = 0 => chan' = <<>> /\ (consumer # "dropped" => parser'.pc = "gone"))
  BY <1>1 DEF Attached, expand
<1>5. Reading' <=> /\ parser'.pos \in 1..(Len(Records) + 1)
                   /\ \A k \in 1..(parser'.pos - 1) : Records[k].type \notin {"end", "bad"}
  BY <1>1, <1>2 DEF Reading, Records
<1>6. current = 0 => consumer = "dropped"
  BY <1>1 DEF Attached
<1>7. ASSUME At("long") \/ At("pax") \/ At("skip") \/ At("link") \/ At("file"),
             parser'.pos = pos + 1
      PROVE  Reading'
  <2>1. pos <= Len(Records) /\ Records[pos].type \notin {"end", "bad"}
    BY <1>7 DEF At
  <2>2. \A k \in 1..(pos + 1 - 1) : k = pos \/ k \in 1..(pos - 1)
    BY <1>2
  <2>3. \A k \in 1..(pos + 1 - 1) : Records[k].type \notin {"end", "bad"}
    BY <1>2, <2>1, <2>2 DEF Reading
  <2> QED
    BY <1>2, <1>5, <1>7, <2>1, <2>3
<1>8. CASE Extend
  <2>1. /\ At("long") \/ At("pax") \/ At("skip")
        /\ parser'.pos = pos + 1 /\ parser'.pc = "parse" /\ chan' = chan
        /\ parser'.long = IF At("long") THEN <<Name>> ELSE parser.long
        /\ parser'.pax = IF At("pax") THEN <<Name>> ELSE parser.pax
    BY <1>2, <1>8 DEF Extend, Threads, At
  <2>2. /\ parser.long = Newest(of, pos, "long") /\ parser.pax = Newest(of, pos, "pax")
        /\ input[of].records[pos].type \in Header
        /\ At("long") <=> input[of].records[pos].type = "long"
        /\ At("pax") <=> input[of].records[pos].type = "pax"
    BY <2>1 DEF AtHeader, At, Records, Header
  <2>3. /\ parser'.long = Newest(of, pos + 1, "long")
        /\ parser'.pax = Newest(of, pos + 1, "pax")
    BY <1>2, <2>1, <2>2, NewestNext DEF Name, Records
  <2>4. AtHeader'
    BY <1>1, <1>3, <1>7, <2>1, <2>3 DEF AtHeader
  <2> QED
    BY <1>4, <1>6, <2>1, <2>4 DEF ThreadInv, InHand, AtEnd, Attached
<1>9. CASE PassOver
  <2>1. /\ At("link") /\ parser'.pos = pos + 1 /\ parser'.pc = "parse" /\ chan' = chan
        /\ parser'.long = <<>> /\ parser'.pax = <<>>
    BY <1>2, <1>9 DEF PassOver, Threads, At
  <2>2. input[of].records[pos].type = "link"
    BY <2>1 DEF At, Records
  <2>3. Newest(of, pos + 1, "long") = <<>> /\ Newest(of, pos + 1, "pax") = <<>>
    BY <1>2, <2>2, NewestNext DEF Header
  <2>4. AtHeader'
    BY <1>1, <1>3, <1>7, <2>1, <2>3 DEF AtHeader
  <2> QED
    BY <1>4, <1>6, <2>1, <2>4 DEF ThreadInv, InHand, AtEnd, Attached
<1>10. CASE File
  <2>1. /\ FileName = TrueName(of, pos)
        /\ pos \in Kept(of) <=> FileName.kept
        /\ parser.pax # <<>> => parser.long = <<>>
    BY <1>10, FileIs DEF File
  <2>2. /\ At("file") /\ parser'.pos = pos + 1 /\ chan' = chan
        /\ parser'.pc = IF FileName.kept THEN "send" ELSE "parse"
        /\ parser'.pax = <<>>
        /\ parser'.long = IF parser.pax # <<>> THEN parser.long ELSE <<>>
        /\ FileName.kept => sending' = [index |-> pos, name |-> FileName]
    BY <1>2, <1>10 DEF File, Threads, At
  <2>3. input[of].records[pos].type = "file"
    BY <2>2 DEF At, Records
  <2>4. Newest(of, pos + 1, "long") = <<>> /\ Newest(of, pos + 1, "pax") = <<>>
    BY <1>2, <2>3, NewestNext DEF Header
  <2>5. parser'.long = <<>>
    BY <2>1, <2>2
  <2>6. AtHeader'
    BY <1>1, <1>3, <1>7, <2>2, <2>4, <2>5 DEF AtHeader
  <2>7. ASSUME FileName.kept
        PROVE  /\ sending' # Failed /\ sending'.index = parser'.pos - 1
               /\ sending'.index \in Kept(of) /\ sending'.name = TrueName(of, pos)
               /\ sending'.index = pos
    <3>1. sending'.index = pos /\ sending'.name = FileName
      BY <2>2, <2>7
    <3>2. sending' # Failed
      BY <1>2, <3>1, FailedHasNoFile
    <3>3. parser'.pos - 1 = pos
      BY <1>2, <2>2
    <3>4. pos \in Kept(of)
      BY <2>1, <2>7
    <3>5. sending'.name = TrueName(of, pos)
      BY <2>1, <3>1
    <3> HIDE DEF of, pos
    <3> QED
      BY <3>1, <3>2, <3>3, <3>4, <3>5
  <2>9. InHand'
    <3>1. Reading'
      BY <1>7, <2>2
    <3>2. parser'.pc = "send" => FileName.kept
      BY <2>2
    <3>3. \A j : TrueName(of, j)' = TrueName(of, j)
      BY <1>1, Reference
    <3> QED
      BY <1>1, <1>3, <2>2, <2>5, <2>7, <3>1, <3>2, <3>3 DEF InHand
  <2>10. AtEnd'
    BY <2>2 DEF AtEnd
  <2>11. Attached'
    BY <1>4, <1>6, <2>2 DEF Attached
  <2> QED
    BY <2>6, <2>9, <2>10, <2>11 DEF ThreadInv
<1>11. CASE Bad
  <2>1. /\ At("bad") /\ parser'.pos = pos /\ parser'.pc = "send" /\ chan' = chan
        /\ sending' = Failed
    BY <1>2, <1>11 DEF Bad, Threads
  <2>2. Reading'
    BY <1>2, <1>5, <2>1 DEF Reading
  <2>3. InHand'
    BY <1>1, <2>1, <2>2 DEF InHand, At, Records
  <2> QED
    BY <1>4, <1>6, <2>1, <2>3 DEF ThreadInv, AtHeader, AtEnd, Attached
<1>12. CASE EndOfArchive
  <2>1. /\ At("end") \/ pos > Len(Records)
        /\ parser'.pos = pos /\ parser'.pc = "gone" /\ chan' = chan
    BY <1>2, <1>12 DEF EndOfArchive, Threads
  <2>2. Reading'
    BY <1>2, <1>5, <2>1 DEF Reading
  <2>3. AtEnd'
    BY <1>1, <1>2, <2>1, <2>2 DEF AtEnd, At, Records
  <2> QED
    BY <1>4, <1>6, <2>1, <2>3 DEF ThreadInv, AtHeader, InHand, Attached
<1>13. CASE Send
  <2>1. /\ parser.pc = "send" /\ parser'.pos = pos /\ sending' = sending
        /\ parser'.long = parser.long /\ parser'.pax = parser.pax
    BY <1>2, <1>13 DEF Send, Threads
  <2>2. Reading'
    BY <1>2, <1>5, <2>1 DEF Reading
  <2>3. CASE current = 0
    <3>1. parser'.pc = "gone" /\ chan' = chan
      BY <1>2, <1>13, <2>3 DEF Send, Threads
    <3> QED
      BY <1>1, <1>4, <2>3, <3>1 DEF ThreadInv, AtHeader, InHand, AtEnd, Attached
  <2>4. CASE current # 0 /\ sending = Failed
    <3>1. parser'.pc = "gone" /\ chan' = Append(chan, sending)
      BY <1>2, <1>13, <2>4 DEF Send, Threads
    <3>2. chan' # <<>> /\ chan'[Len(chan')] = Failed
      <4>1. sending \in [index : Nat, name : Names]
        BY DEF TypeOK
      <4> QED
        BY <1>2, <2>4, <3>1, <4>1
    <3>3. pos <= Len(Records) /\ Records[pos].type = "bad"
      BY <2>1, <2>4 DEF InHand
    <3>4. AtEnd'
      BY <1>1, <2>1, <2>2, <3>2, <3>3 DEF AtEnd, Records
    <3> QED
      BY <1>4, <2>4, <3>1, <3>4 DEF ThreadInv, AtHeader, InHand
  <2>5. CASE current # 0 /\ sending # Failed
    <3>1. parser'.pc = "parse"
      BY <1>2, <1>13, <2>5 DEF Send, Threads
    <3>2. /\ sending.index = pos - 1 /\ sending.index \in Kept(of)
          /\ parser.long = <<>> /\ parser.pax = <<>>
      BY <2>1, <2>5 DEF InHand
    <3>3. pos - 1 \in Nat \ {0} /\ input[of].records[pos - 1].type = "file"
      <4>1. sending.index \in DOMAIN Records /\ input[of].records[sending.index].type = "file"
        BY <3>2 DEF Kept, Readable, Records
      <4>2. DOMAIN Records = 1..Len(Records)
        BY <1>2, ReadingIs
      <4> QED
        BY <1>2, <3>2, <4>1, <4>2
    <3>4. Newest(of, (pos - 1) + 1, "long") = <<>> /\ Newest(of, (pos - 1) + 1, "pax") = <<>>
      BY <3>3, NewestNext DEF Header
    <3>5. (pos - 1) + 1 = pos
      BY <1>2
    <3>6. AtHeader'
      BY <1>1, <1>3, <2>1, <2>2, <3>2, <3>4, <3>5 DEF AtHeader
    <3> QED
      BY <1>4, <2>5, <3>1, <3>6 DEF ThreadInv, InHand, AtEnd
  <2> QED
    BY <2>3, <2>4, <2>5
<1> QED
  BY <1>8, <1>9, <1>10, <1>11, <1>12, <1>13 DEF ParserStep

(* What is in flight keeps its order, and nothing is left out of it. *)
LEMMA ThreadFlow ==
  ASSUME TypeOK, ThreadInv, NamedOnce, ParserStep, NEW f \in Nat, Flow(f)
  PROVE  Flow(f)'
<1> DEFINE of == parser.of
           pos == parser.pos
<1> SUFFICES ASSUME current # 0
             PROVE  f < parser'.pos /\ InOrderFrom(f)' /\ NoneSkipped(f)'
  <2>1. current' = current
    BY DEF ParserStep, Extend, PassOver, File, Bad, EndOfArchive, Send, expand
  <2> QED
    BY <2>1 DEF Flow
<1>1. /\ UNCHANGED <<config, expand, group, done, consumer, out>>
      /\ input' = input /\ parser'.of = of /\ parser.pc # "gone"
      /\ parser \in Threads /\ chan \in Seq([index : Nat, name : Names])
      /\ sending \in [index : Nat, name : Names]
  <2>1. /\ parser \in Threads /\ chan \in Seq([index : Nat, name : Names])
        /\ sending \in [index : Nat, name : Names]
    BY DEF TypeOK, Threads
  <2> QED
    BY <2>1 DEF ParserStep, Extend, PassOver, File, Bad, EndOfArchive, Send, At, config, expand, Threads
<1>2. /\ Reading /\ pos \in Nat \ {0} /\ Len(Records) \in Nat /\ of \in DOMAIN input
      /\ Kept(of) \subseteq Nat
  <2>1. Reading
    BY <1>1 DEF ThreadInv, AtHeader, InHand, Threads
  <2> QED
    BY <2>1, ReadingIs
<1>3. Kept(of)' = Kept(of) /\ \A j : TrueName(of, j)' = TrueName(of, j)
  BY <1>1, Reference
<1>4. f < pos /\ InOrderFrom(f) /\ NoneSkipped(f)
  BY DEF Flow
<1>5. \A i \in DOMAIN chan :
        /\ chan[i] # Failed /\ chan[i].index \in Kept(of) /\ f < chan[i].index
        /\ chan[i].index < pos /\ chan[i].name = TrueName(of, chan[i].index)
        /\ chan[i].index \in Nat
  BY <1>1, <1>2, <1>4 DEF InOrderFrom
<1>6. \A i, k \in DOMAIN chan : i < k => chan[i].index < chan[k].index
  BY <1>4, <1>5 DEF InOrderFrom
<1>7. \A j \in Kept(of) : f < j /\ j < pos =>
        (\E i \in DOMAIN chan : chan[i].index = j) \/ (parser.pc = "send" /\ sending.index = j)
  BY <1>4 DEF NoneSkipped
<1>8. ASSUME chan' = chan, parser'.pos \in {pos, pos + 1}, parser.pc = "parse",
             parser'.pos = pos + 1 =>
               IF parser'.pc = "send" THEN sending'.index = pos ELSE pos \notin Kept(of),
             parser'.pc = "send" /\ sending' # Failed => parser'.pos = pos + 1
      PROVE  f < parser'.pos /\ InOrderFrom(f)' /\ NoneSkipped(f)'
  <2>1. pos <= parser'.pos /\ parser'.pos \in Nat
    BY <1>2, <1>8
  <2>2. \A i \in DOMAIN chan : chan[i].index < parser'.pos
    BY <1>2, <1>5, <2>1
  <2>3. parser'.pc = "send" /\ sending' # Failed =>
          f < sending'.index /\ \A i \in DOMAIN chan : chan[i].index < sending'.index
    <3> SUFFICES ASSUME parser'.pc = "send", sending' # Failed
                 PROVE  f < sending'.index /\ \A i \in DOMAIN chan : chan[i].index < sending'.index
      OBVIOUS
    <3>1. sending'.index = pos
      BY <1>8, <1>2
    <3> QED
      BY <1>4, <1>5, <3>1
  <2>4. InOrderFrom(f)'
    BY <1>1, <1>3, <1>5, <1>6, <1>8, <2>2, <2>3 DEF InOrderFrom
  <2>5. NoneSkipped(f)'
    <3> SUFFICES ASSUME NEW j \in Kept(of), f < j, j < parser'.pos
                 PROVE  \/ \E i \in DOMAIN chan : chan[i].index = j
                        \/ parser'.pc = "send" /\ sending'.index = j
      BY <1>1, <1>3, <1>8 DEF NoneSkipped
    <3>1. CASE j < pos
      BY <1>7, <1>8, <3>1
    <3>2. CASE ~(j < pos)
      <4>1. j = pos /\ parser'.pos = pos + 1
        BY <1>2, <1>8, <3>2
      <4> QED
        BY <1>8, <4>1
    <3> QED
      BY <3>1, <3>2
  <2> QED
    BY <1>2, <1>4, <2>1, <2>4, <2>5
<1>9. CASE Extend \/ PassOver
  <2>1. /\ parser.pc = "parse" /\ parser'.pc = "parse" /\ parser'.pos = pos + 1 /\ chan' = chan
        /\ At("long") \/ At("pax") \/ At("skip") \/ At("link")
    BY <1>1, <1>9 DEF Extend, PassOver, At, Threads
  <2>2. pos \notin Kept(of)
    BY <2>1 DEF Kept, At, Records
  <2> QED
    BY <1>8, <2>1, <2>2
<1>10. CASE File
  <2>1. pos \in Kept(of) <=> FileName.kept
    BY <1>10, FileIs DEF File, ThreadInv
  <2>2. /\ parser.pc = "parse" /\ parser'.pos = pos + 1 /\ chan' = chan
        /\ parser'.pc = IF FileName.kept THEN "send" ELSE "parse"
        /\ FileName.kept => sending'.index = pos
    BY <1>1, <1>10 DEF File, At, Threads
  <2> QED
    BY <1>8, <2>1, <2>2
<1>11. CASE Bad \/ EndOfArchive
  <2>1. /\ parser.pc = "parse" /\ parser'.pos = pos /\ chan' = chan
        /\ parser'.pc = "gone" \/ (parser'.pc = "send" /\ sending' = Failed)
    BY <1>1, <1>11 DEF Bad, EndOfArchive, At, Threads
  <2>2. pos # pos + 1
    BY <1>2
  <2> QED
    BY <1>8, <2>1, <2>2
<1>12. CASE Send
  <2>1. /\ parser.pc = "send" /\ parser'.pos = pos /\ sending' = sending
        /\ chan' = Append(chan, sending)
        /\ parser'.pc = IF sending = Failed THEN "gone" ELSE "parse"
    BY <1>1, <1>12 DEF Send, Threads
  <2>2. sending # Failed => /\ sending.index = pos - 1 /\ sending.index \in Kept(of)
                            /\ sending.name = TrueName(of, sending.index)
                            /\ f < sending.index
                            /\ \A i \in DOMAIN chan : chan[i].index < sending.index
    BY <1>4, <2>1 DEF ThreadInv, InHand, InOrderFrom
  <2>3. /\ Len(chan) \in Nat /\ DOMAIN chan = 1..Len(chan)
        /\ DOMAIN chan' = 1..(Len(chan) + 1) /\ Len(chan') = Len(chan) + 1
        /\ \A i \in DOMAIN chan : chan'[i] = chan[i]
        /\ chan'[Len(chan) + 1] = sending
    BY <1>1, <2>1
  <2>4. \A i \in DOMAIN chan' : i \in DOMAIN chan \/ i = Len(chan')
    BY <2>3
  <2>5. \A i \in DOMAIN chan' :
          IF chan'[i] = Failed THEN i = Len(chan') /\ parser'.pc = "gone"
          ELSE /\ chan'[i].index \in Kept(of)
               /\ f < chan'[i].index /\ chan'[i].index < pos
               /\ chan'[i].name = TrueName(of, chan'[i].index)
    <3> SUFFICES ASSUME NEW i \in DOMAIN chan'
                 PROVE  IF chan'[i] = Failed THEN i = Len(chan') /\ parser'.pc = "gone"
                        ELSE /\ chan'[i].index \in Kept(of)
                             /\ f < chan'[i].index /\ chan'[i].index < pos
                             /\ chan'[i].name = TrueName(of, chan'[i].index)
      OBVIOUS
    <3>1. CASE i \in DOMAIN chan
      BY <1>5, <2>3, <3>1
    <3>2. CASE i = Len(chan')
      <4>1. chan'[i] = sending
        BY <2>3, <3>2
      <4>2. sending # Failed => sending.index < pos
        BY <1>2, <2>2
      <4> QED
        BY <2>1, <2>2, <3>2, <4>1, <4>2
    <3> QED
      BY <2>4, <3>1, <3>2
  <2>6. \A i, k \in DOMAIN chan' :
          i < k /\ chan'[k] # Failed => chan'[i].index < chan'[k].index
    <3> SUFFICES ASSUME NEW i \in DOMAIN chan', NEW k \in DOMAIN chan', i < k, chan'[k] # Failed
                 PROVE  chan'[i].index < chan'[k].index
      OBVIOUS
    <3>1. i \in DOMAIN chan
      BY <2>3
    <3>2. CASE k \in DOMAIN chan
      BY <1>6, <2>3, <3>1, <3>2
    <3>3. CASE k = Len(chan')
      BY <2>2, <2>3, <3>1, <3>3
    <3> QED
      BY <2>4, <3>2, <3>3
  <2>7. InOrderFrom(f)'
    <3>1. parser'.pc # "send"
      BY <2>1
    <3> QED
      BY <1>1, <1>3, <2>1, <2>5, <2>6, <3>1 DEF InOrderFrom
  <2>8. NoneSkipped(f)'
    <3> SUFFICES ASSUME NEW j \in Kept(of), f < j, j < pos
                 PROVE  \E i \in DOMAIN chan' : chan'[i].index = j
      BY <1>1, <1>3, <2>1 DEF NoneSkipped
    <3>1. CASE \E i \in DOMAIN chan : chan[i].index = j
      BY <2>3, <3>1
    <3>2. CASE sending.index = j
      BY <2>3, <3>2
    <3> QED
      BY <1>7, <3>1, <3>2
  <2> QED
    BY <1>4, <2>1, <2>7, <2>8
<1> QED
  BY <1>9, <1>10, <1>11, <1>12 DEF ParserStep

-----------------------------------------------------------------------------
(* The consumer.                                                           *)
Flight == Seq([index : Nat, name : Names])

LEMMA HeadTail ==
  ASSUME NEW S, NEW s \in Seq(S), s # <<>>
  PROVE  /\ Len(s) \in Nat \ {0} /\ DOMAIN s = 1..Len(s) /\ Head(s) = s[1] /\ Head(s) \in S
         /\ Tail(s) \in Seq(S) /\ Len(Tail(s)) = Len(s) - 1
         /\ DOMAIN Tail(s) = 1..(Len(s) - 1)
         /\ \A i \in 1..(Len(s) - 1) : Tail(s)[i] = s[i + 1]
  OBVIOUS

(* The types of what the consumer changes. *)
LEMMA ConsumerTypes ==
  ASSUME TypeOK, UNCHANGED <<config, sending>>,
         next' \in 0..Len(input), current' \in {0, next'}, pending' \in BOOLEAN,
         exhausted' \in BOOLEAN, done' \in BOOLEAN,
         parser' = parser \/ parser' \in Threads,
         chan' \in {chan, <<>>} \/ (chan # <<>> /\ chan' = Tail(chan)),
         group' \in {group, <<>>} \/ \E g \in Item : group' = <<g>>,
         consumer' \in {"idle", "pulling", "ended", "dropped"},
         out' = out \/ \E g \in Item : out' = Append(out, g)
  PROVE  TypeOK'
<1>1. /\ input' = input /\ handler' = handler /\ sending' = sending
      /\ input \in Inputs /\ handler \in Handlers /\ sending \in [index : Nat, name : Names]
      /\ parser \in Threads /\ chan \in Flight /\ Len(chan) <= Readahead
      /\ group \in Seq(Item) /\ Len(group) <= 1 /\ out \in Seq(Item)
  BY DEF TypeOK, config, Threads, Flight
<1>2. chan' \in Flight /\ Len(chan') <= Readahead
  <2>1. Readahead \in Nat /\ Len(chan) \in Nat /\ chan \in Flight /\ Len(chan) <= Readahead
    <3>1. chan \in Flight /\ Len(chan) <= Readahead
      BY <1>1
    <3>2. Len(chan) \in Nat
      BY <3>1 DEF Flight
    <3> QED
      BY <3>1, <3>2, ReaderAssumption
  <2>2. CASE chan' = chan
    BY <1>1, <2>2
  <2>3. CASE chan' = <<>>
    BY <2>1, <2>3 DEF Flight
  <2>4. CASE chan # <<>> /\ chan' = Tail(chan)
    <3>1. Tail(chan) \in Flight /\ Len(Tail(chan)) = Len(chan) - 1
      BY <2>1, <2>4 DEF Flight
    <3>2. Len(chan) - 1 <= Readahead
      BY <2>1
    <3>3. Len(Tail(chan)) <= Readahead
      BY <3>1, <3>2
    <3> QED
      BY <2>4, <3>1, <3>3
  <2> QED
    BY <2>2, <2>3, <2>4
<1>3. group' \in Seq(Item) /\ Len(group') <= 1
  <2>1. CASE group' = group
    BY <1>1, <2>1
  <2>2. CASE group' = <<>>
    BY <2>2
  <2>3. CASE \E g \in Item : group' = <<g>>
    BY <2>3
  <2> QED
    BY <2>1, <2>2, <2>3
<1>4. out' \in Seq(Item)
  BY <1>1
<1>5. parser' \in Threads
  BY <1>1
<1> QED
  BY <1>1, <1>2, <1>3, <1>4, <1>5 DEF TypeOK, Threads, Flight

LEMMA ErrorIs == \A i \in Nat : Error(i) \in Item /\ Error(i).files = {}
BY DEF Error, Item

LEMMA GroupIs ==
  ASSUME TypeOK, group # <<>>
  PROVE  group[1] \in Item /\ DOMAIN group = {1} /\ group = <<group[1]>>
<1>1. group \in Seq(Item) /\ Len(group) <= 1
  BY DEF TypeOK
<1>2. Len(group) = 1
  <2>1. Len(group) \in Nat /\ Len(group) # 0
    BY <1>1
  <2>2. Len(group) <= 1
    BY <1>1
  <2>3. \A n \in Nat : n # 0 /\ n <= 1 => n = 1
    OBVIOUS
  <2> QED
    BY <2>1, <2>2, <2>3
<1> QED
  BY <1>1, <1>2

LEMMA AddedIs ==
  ASSUME TypeOK, chan # <<>>
  PROVE  Added(Head(chan)) \in Item
<1> DEFINE item == Head(chan)
<1>1. item \in [index : Nat, name : Names] /\ current \in Nat
  <2>1. chan \in Seq([index : Nat, name : Names]) /\ next \in 0..Len(input) /\ current \in {0, next}
    BY DEF TypeOK
  <2>2. item \in [index : Nat, name : Names]
    <3>1. chan \in Flight
      BY <2>1 DEF Flight
    <3> QED
      BY <3>1, HeadTail DEF Flight
  <2>3. input \in Seq(Source)
    <3>1. input \in Inputs
      BY DEF TypeOK
    <3> QED
      BY <3>1, ReaderAssumption
  <2>4. current \in Nat
    BY <2>1, <2>3
  <2> QED
    BY <2>2, <2>4
<1>2. item.index \in Nat /\ item.name \in Names
  BY <1>1
<1>3. item.name.ext \in DOMAIN Lower /\ Lower[item.name.ext] \in DOMAIN Lower
  BY <1>2, ReaderAssumption
<1> HIDE DEF item
<1>4. CASE Starts(item.name)
  <2>1. item.name.key \in {n.key : n \in Names}
    BY <1>2
  <2> QED
    BY <1>1, <1>2, <1>3, <1>4, <2>1 DEF Added, Item, item
<1>5. CASE ~Starts(item.name)
  <2>1. group[1] \in Item
    BY <1>5, GroupIs DEF Starts
  <2> QED
    BY <1>2, <1>3, <1>5, <2>1 DEF Added, Item, item
<1> QED
  BY <1>4, <1>5

LEMMA PullTypes ==
  ASSUME TypeOK, Pull \/ PullStep \/ Drop
  PROVE  TypeOK'
<1>1. /\ next \in 0..Len(input) /\ next \in Nat /\ current \in {0, next} /\ current \in Nat
      /\ pending \in BOOLEAN
      /\ exhausted \in BOOLEAN /\ done \in BOOLEAN
      /\ consumer \in {"idle", "pulling", "ended", "dropped"} /\ Len(input) \in Nat
  <2>1. input \in Inputs
    BY DEF TypeOK
  <2>2. Len(input) \in Nat
    <3>1. input \in Seq(Source)
      BY <2>1, ReaderAssumption
    <3> QED
      BY <3>1
  <2>3. next \in 0..Len(input) /\ current \in {0, next}
    BY DEF TypeOK
  <2>4. next \in Nat /\ current \in Nat
    BY <2>2, <2>3
  <2> QED
    BY <2>2, <2>3, <2>4 DEF TypeOK
<1>2. group # <<>> => group[1] \in Item
  BY GroupIs
<1> USE DEF Return, config, expand, thread
<1>3. CASE Pull
  BY <1>1, <1>3, ConsumerTypes DEF Pull
<1>4. CASE Finish
  BY <1>1, <1>2, <1>4, ConsumerTypes DEF Finish
<1>5. CASE Boundary
  BY <1>1, <1>2, <1>5, ConsumerTypes DEF Boundary
<1>6. CASE Exhausted
  BY <1>1, <1>6, ConsumerTypes DEF Exhausted
<1>7. CASE PushNothing
  BY <1>1, <1>7, ConsumerTypes DEF PushNothing, Receive
<1>8. CASE PushFile
  <2>1. Added(Head(chan)) \in Item
    BY <1>8, AddedIs DEF PushFile, Receive
  <2>2. group' = <<Added(Head(chan))>> /\ chan # <<>> /\ chan' = Tail(chan)
    BY <1>8 DEF PushFile, Receive
  <2>3. \/ out' = out /\ consumer' = consumer
        \/ group # <<>> /\ out' = Append(out, group[1]) /\ consumer' = "idle"
    BY <1>8 DEF PushFile
  <2>4. UNCHANGED <<config, expand, thread, done>>
    BY <1>8 DEF PushFile
  <2> QED
    BY <1>1, <1>2, <2>1, <2>2, <2>3, <2>4, ConsumerTypes
<1>9. CASE PushDuplicate
  BY <1>1, <1>9, ErrorIs, ConsumerTypes DEF PushDuplicate, Receive
<1>10. CASE ReceiveError
  BY <1>1, <1>10, ErrorIs, ConsumerTypes DEF ReceiveError
<1>11. CASE ReceiveNone
  BY <1>1, <1>11, ConsumerTypes DEF ReceiveNone
<1>12. CASE OpenShard
  <2>1. next' \in 0..Len(input) /\ current' = next'
    BY <1>1, <1>12 DEF OpenShard
  <2>2. parser' \in Threads
    <3>1. next + 1 \in 0..Len(input) /\ <<>> \in Seq(Names)
      BY <1>1, <1>12 DEF OpenShard
    <3> QED
      BY <1>12, <3>1 DEF OpenShard, Threads
  <2> QED
    BY <1>1, <1>12, <2>1, <2>2, ConsumerTypes DEF OpenShard
<1>13. CASE OpenFails
  <2>1. next' \in 0..Len(input) /\ next + 1 \in Nat
    BY <1>1, <1>13 DEF OpenFails
  <2> QED
    BY <1>1, <1>13, <2>1, ErrorIs, ConsumerTypes DEF OpenFails, Between, Pulling
<1>14. CASE NoMoreSources
  BY <1>1, <1>14, ConsumerTypes DEF NoMoreSources
<1>15. CASE Drop
  BY <1>1, <1>15, ConsumerTypes DEF Drop
<1> QED
  BY <1>3, <1>4, <1>5, <1>6, <1>7, <1>8, <1>9, <1>10, <1>11, <1>12, <1>13, <1>14, <1>15 DEF PullStep

(* While the thread and its archive stay as they are. *)
LEMMA ThreadWaits ==
  ASSUME TypeOK, AtHeader, InHand, UNCHANGED <<config, thread>>, next' \in {next, next + 1}
  PROVE  AtHeader' /\ InHand' /\ (Reading => Reading')
<1>1. /\ input' = input /\ parser' = parser /\ sending' = sending /\ next \in Nat
  <2>1. input \in Inputs /\ next \in 0..Len(input)
    BY DEF TypeOK
  <2>2. Len(input) \in Nat
    <3>1. input \in Seq(Source)
      BY <2>1, ReaderAssumption
    <3> QED
      BY <3>1
  <2> QED
    BY <2>1, <2>2 DEF config, thread
<1>2. Reading => Reading'
  <2>1. 1..next \subseteq 1..next'
    BY <1>1
  <2> QED
    BY <1>1, <2>1 DEF Reading, Records
<1>3. /\ \A i, j, type : Newest(i, j, type)' = Newest(i, j, type)
      /\ \A i : Kept(i)' = Kept(i)
      /\ \A i, j : TrueName(i, j)' = TrueName(i, j)
  BY Reference
<1>4. AtHeader'
  BY <1>1, <1>2, <1>3 DEF AtHeader
<1>5. InHand'
  BY <1>1, <1>2, <1>3 DEF InHand, Records
<1> QED
  BY <1>2, <1>4, <1>5

LEMMA PullThread ==
  ASSUME TypeOK, ThreadInv, NEW f \in Nat, Flow(f), Pull \/ PullStep \/ Drop
  PROVE  ThreadInv'
<1>1. next \in Nat /\ parser.of <= next /\ chan \in Flight /\ parser.of \in Nat
  <2>1. input \in Inputs /\ next \in 0..Len(input) /\ parser \in Threads
    BY DEF TypeOK, Threads
  <2>2. Len(input) \in Nat
    <3>1. input \in Seq(Source)
      BY <2>1, ReaderAssumption
    <3> QED
      BY <3>1
  <2>3. chan \in Flight
    BY DEF TypeOK, Flight
  <2>4. parser.of \in Nat
    BY <2>1, <2>2 DEF Threads
  <2> QED
    BY <2>1, <2>2, <2>3, <2>4 DEF ThreadInv, Attached
<1>2. ASSUME UNCHANGED <<config, thread>>, next' \in {next, next + 1},
             current' = current \/ current' = 0,
             current' = 0 => chan' = <<>> /\ (consumer' # "dropped" => parser.pc = "gone"),
             current' # 0 => /\ consumer' # "dropped"
                             /\ \/ chan' = chan
                                \/ chan # <<>> /\ Head(chan) # Failed /\ chan' = Tail(chan),
             consumer' = "dropped" => group' = <<>>
      PROVE  ThreadInv'
  <2>1. parser' = parser
    BY <1>2 DEF thread
  <2>2. Attached'
    BY <1>1, <1>2, <2>1 DEF ThreadInv, Attached
  <2>3. AtEnd'
    <3> SUFFICES ASSUME parser.pc = "gone", current' # 0
                 PROVE  AtEnd'
      BY <2>1 DEF AtEnd
    <3>1. /\ Reading /\ Reading'
          /\ parser.pos <= Len(Records) =>
               \/ Records[parser.pos].type = "end"
               \/ /\ Records[parser.pos].type = "bad"
                  /\ chan # <<>> /\ chan[Len(chan)] = Failed
      BY <1>2, ThreadWaits DEF ThreadInv, AtEnd
    <3>2. chan # <<>> /\ chan[Len(chan)] = Failed => chan' # <<>> /\ chan'[Len(chan')] = Failed
      <4> SUFFICES ASSUME chan # <<>>, chan[Len(chan)] = Failed, chan' = Tail(chan), Head(chan) # Failed
                   PROVE  chan' # <<>> /\ chan'[Len(chan')] = Failed
        BY <1>2
      <4>1. /\ Len(chan) \in Nat \ {0} /\ Head(chan) = chan[1] /\ Len(Tail(chan)) = Len(chan) - 1
            /\ \A i \in 1..(Len(chan) - 1) : Tail(chan)[i] = chan[i + 1]
        BY <1>1, HeadTail DEF Flight
      <4>2. Len(chan) # 1
        BY <4>1
      <4>3. Len(chan) - 1 \in 1..(Len(chan) - 1) /\ (Len(chan) - 1) + 1 = Len(chan)
        BY <4>1, <4>2
      <4>4. chan'[Len(chan')] = Failed
        BY <4>1, <4>3
      <4>5. Len(chan') # 0
        BY <4>1, <4>2
      <4> QED
        BY <4>4, <4>5
    <3>3. Records' = Records
      BY <1>2, <2>1 DEF Records, config
    <3> QED
      BY <2>1, <3>1, <3>2, <3>3 DEF AtEnd
  <2> QED
    BY <1>2, <2>2, <2>3, ThreadWaits DEF ThreadInv
<1>3. /\ current # 0 => consumer # "dropped"
      /\ current = 0 => chan = <<>> /\ (consumer # "dropped" => parser.pc = "gone")
      /\ consumer = "dropped" => group = <<>>
  BY DEF ThreadInv, Attached
<1> USE DEF Return, expand, thread
<1>4. CASE Pull
  BY <1>2, <1>3, <1>4 DEF Pull
<1>5. CASE Finish \/ Boundary \/ Exhausted \/ NoMoreSources \/ OpenFails
  BY <1>2, <1>3, <1>5 DEF Finish, Boundary, Exhausted, NoMoreSources, OpenFails, Between, Pulling
<1>6. CASE PushNothing \/ PushFile \/ PushDuplicate
  <2>1. /\ UNCHANGED <<config, thread>> /\ next' = next /\ current' = current
        /\ consumer = "pulling" /\ consumer' # "dropped" /\ current # 0
        /\ chan # <<>> /\ Head(chan) # Failed /\ chan' = Tail(chan)
    BY <1>6 DEF PushNothing, PushFile, PushDuplicate, Receive, Pulling
  <2> QED
    BY <1>2, <2>1
<1>7. CASE ReceiveError
  <2>1. parser.pc = "gone"
    <3>1. chan # <<>> /\ Head(chan) = Failed /\ current # 0
      BY <1>7 DEF ReceiveError
    <3>2. 1 \in DOMAIN chan /\ Head(chan) = chan[1]
      BY <1>1, <3>1, HeadTail DEF Flight
    <3> QED
      BY <3>1, <3>2 DEF Flow, InOrderFrom
  <2>2. /\ UNCHANGED <<config, thread>> /\ next' = next /\ current' = 0 /\ chan' = <<>>
        /\ consumer' # "dropped"
    BY <1>7 DEF ReceiveError, Pulling
  <2> QED
    BY <1>2, <2>1, <2>2
<1>8. CASE ReceiveNone
  BY <1>2, <1>3, <1>8 DEF ReceiveNone, Pulling
<1>9. CASE Drop
  BY <1>2, <1>3, <1>9 DEF Drop
<1>10. CASE OpenShard
  <2> PICK i \in Nat : i = next + 1
    BY <1>1
  <2>1. /\ input' = input /\ input[i].opens /\ i \in DOMAIN input /\ i \in Nat /\ next' = i
        /\ current' = i
        /\ parser'.of = i /\ parser'.pc = "parse" /\ parser'.pos = 1
        /\ parser'.long = <<>> /\ parser'.pax = <<>> /\ consumer' = "pulling"
    <3>1. input \in Seq(Source)
      <4>1. input \in Inputs
        BY DEF TypeOK
      <4> QED
        BY <4>1, ReaderAssumption
    <3> QED
      BY <1>1, <1>10, <3>1 DEF OpenShard, Between, Pulling, config
  <2>2. Len(input[i].records) \in Nat
    BY <2>1, RecordsAre
  <2>3. Reading'
    <3>1. Records' = input[i].records
      BY <2>1 DEF Records
    <3>2. i \in 1..i /\ 1 \in 1..(Len(input[i].records) + 1) /\ 1..(1 - 1) = {}
      BY <1>1, <2>1, <2>2
    <3> QED
      BY <2>1, <3>1, <3>2 DEF Reading
  <2>4. \A j, type : Newest(i, j, type)' = Newest(i, j, type)
    BY <1>10, Reference DEF OpenShard
  <2>5. AtHeader'
    <3>1. Newest(i, 1, "long") = <<>> /\ Newest(i, 1, "pax") = <<>>
      <4>1. 1 \in Nat \ {0}
        OBVIOUS
      <4> QED
        BY <4>1, NewestNext
    <3>2. Newest(i, 1, "long")' = <<>> /\ Newest(i, 1, "pax")' = <<>>
      BY <2>4, <3>1
    <3> QED
      BY <2>1, <2>3, <3>2 DEF AtHeader
  <2>6. Attached'
    BY <1>1, <2>1 DEF Attached
  <2> QED
    BY <2>1, <2>5, <2>6 DEF ThreadInv, InHand, AtEnd
<1> QED
  BY <1>4, <1>5, <1>6, <1>7, <1>8, <1>9, <1>10 DEF PullStep

-----------------------------------------------------------------------------
(* What is returned.                                                       *)
LEMMA Appended ==
  ASSUME TypeOK, NEW item \in Item, out' = Append(out, item)
  PROVE  /\ Samples' = Samples \cup (IF item.files = {} THEN {} ELSE {Len(out) + 1})
         /\ \A n \in Samples : out'[n] = out[n] /\ n < Len(out) + 1 /\ n \in Nat
         /\ out'[Len(out) + 1] = item
         /\ NoErrors' <=> NoErrors /\ item.files # {}
<1>1. out \in Seq(Item)
  BY DEF TypeOK
<1>2. /\ Len(out) \in Nat /\ DOMAIN out = 1..Len(out) /\ DOMAIN out' = 1..(Len(out) + 1)
      /\ \A n \in 1..Len(out) : out'[n] = out[n]
      /\ out'[Len(out) + 1] = item
  BY <1>1
<1>3. \A n \in DOMAIN out' : n \in 1..Len(out) \/ n = Len(out) + 1
  BY <1>2
<1>4. \A n \in 1..Len(out) : n \in DOMAIN out' /\ n < Len(out) + 1 /\ n \in Nat
  BY <1>2
<1>5. Len(out) + 1 \in DOMAIN out'
  BY <1>2
<1>6. Samples' = Samples \cup (IF item.files = {} THEN {} ELSE {Len(out) + 1})
  BY <1>2, <1>3, <1>4, <1>5 DEF Samples
<1>7. \A n \in Samples : n \in 1..Len(out)
  BY <1>2 DEF Samples
<1>8. NoErrors' <=> NoErrors /\ item.files # {}
  BY <1>2, <1>3, <1>4, <1>5 DEF NoErrors, Samples
<1> QED
  BY <1>2, <1>4, <1>6, <1>7, <1>8

(* An error is no sample. *)
LEMMA ErrorReturned ==
  ASSUME TypeOK, UNCHANGED config, Returned, NEW i \in Nat, out' = Append(out, Error(i))
  PROVE  Returned' /\ Samples' = Samples /\ (\A n \in Samples : out'[n] = out[n]) /\ ~NoErrors'
<1>1. /\ Samples' = Samples /\ \A n \in Samples : out'[n] = out[n]
      /\ ~NoErrors'
  BY Appended, ErrorIs
<1>2. \A s : WholeRun(s)' <=> WholeRun(s)
  BY Reference
<1>3. \A n \in Samples' : WholeRun(out'[n])
  BY <1>1 DEF Returned
<1>4. \A n, m \in Samples' : n < m => InOrder(out'[n], out'[m])
  BY <1>1 DEF Returned
<1>5. Returned'
  BY <1>2, <1>3, <1>4 DEF Returned, InOrder
<1> QED
  BY <1>1, <1>5

(* A whole run that comes after the others may be returned. *)
LEMMA SampleReturned ==
  ASSUME TypeOK, UNCHANGED config, Returned, NEW g \in Item, out' = Append(out, g),
         WholeRun(g), g.files # {}, \A n \in Samples : InOrder(out[n], g)
  PROVE  /\ Returned' /\ Samples' = Samples \cup {Len(out) + 1}
         /\ \A n \in Samples : out'[n] = out[n]
         /\ out'[Len(out) + 1] = g /\ (NoErrors' <=> NoErrors)
<1>1. /\ Samples' = Samples \cup {Len(out) + 1}
      /\ \A n \in Samples : out'[n] = out[n] /\ n < Len(out) + 1 /\ n \in Nat
      /\ out'[Len(out) + 1] = g /\ (NoErrors' <=> NoErrors)
  BY Appended
<1>2. \A s : WholeRun(s)' <=> WholeRun(s)
  BY Reference
<1>3. Len(out) + 1 \in Nat
  <2>1. out \in Seq(Item)
    BY DEF TypeOK
  <2> QED
    BY <2>1
<1>4. ASSUME NEW n \in Samples'
      PROVE  WholeRun(out'[n])
  BY <1>1 DEF Returned
<1>5. ASSUME NEW n \in Samples', NEW m \in Samples', n < m
      PROVE  InOrder(out'[n], out'[m])
  <2>1. n \in Samples
    BY <1>1, <1>3, <1>5
  <2>2. CASE m \in Samples
    BY <1>1, <1>5, <2>1, <2>2 DEF Returned
  <2>3. CASE m = Len(out) + 1
    BY <1>1, <2>1, <2>3
  <2> QED
    BY <1>1, <2>2, <2>3
<1>6. Returned'
  BY <1>2, <1>4, <1>5 DEF Returned, InOrder
<1> QED
  BY <1>1, <1>6

LEMMA SourceIs ==
  ASSUME TypeOK
  PROVE  /\ input \in Seq(Source) /\ Len(input) \in Nat /\ DOMAIN input = 1..Len(input)
         /\ next \in Nat /\ next <= Len(input) /\ parser.of \in Nat /\ parser.of <= Len(input)
         /\ \A i \in 1..Len(input) : Keyed(i) \subseteq Nat \ {0} /\ Keyed(i) \subseteq Kept(i)
         /\ \A i \in 1..Len(input) : Kept(i) \subseteq Nat \ {0} /\ Kept(i) \subseteq Readable(i)
<1>1. input \in Seq(Source)
  <2>1. input \in Inputs
    BY DEF TypeOK
  <2> QED
    BY <2>1, ReaderAssumption
<1>2. Len(input) \in Nat /\ DOMAIN input = 1..Len(input)
  BY <1>1
<1>3. next \in 0..Len(input) /\ parser.of \in 0..Len(input)
  <2>1. parser \in Threads /\ next \in 0..Len(input)
    BY DEF TypeOK, Threads
  <2> QED
    BY <2>1 DEF Threads
<1>4. ASSUME NEW i \in 1..Len(input)
      PROVE  Kept(i) \subseteq Nat \ {0} /\ Keyed(i) \subseteq Kept(i) /\ Kept(i) \subseteq Readable(i)
  <2>1. DOMAIN input[i].records \subseteq Nat \ {0}
    BY <1>2, RecordsAre
  <2> QED
    BY <1>2, <2>1, KeyedAreNats DEF Kept
<1> QED
  BY <1>1, <1>2, <1>3, <1>4

-----------------------------------------------------------------------------
(* Where nothing is received and nothing returned.                         *)
LEMMA NothingReturned ==
  ASSUME UNCHANGED <<config, out>>, Returned
  PROVE  Returned' /\ Samples' = Samples /\ (NoErrors' <=> NoErrors)
<1>1. Samples' = Samples
  BY DEF Samples
<1>2. \A s : WholeRun(s)' <=> WholeRun(s)
  BY Reference
<1> QED
  BY <1>1, <1>2 DEF Returned, InOrder, NoErrors

LEMMA Stays ==
  ASSUME TypeOK, NEW f \in Nat, Assembled(f), UNCHANGED <<config, next, current, group, out>>,
         parser'.of = parser.of, done => done',
         consumer' = "dropped" <=> consumer = "dropped"
  PROVE  Assembled(f)'
<1> SUFFICES ASSUME consumer # "dropped"
             PROVE  Grouped(f)' /\ Behind(f)' /\ AllTaken(f)' /\ ReadOut(f)'
  BY DEF Assembled
<1>1. Grouped(f) /\ Behind(f) /\ AllTaken(f) /\ ReadOut(f)
  BY DEF Assembled
<1>2. /\ \A i, g : InProgress(i, g, f)' <=> InProgress(i, g, f)
      /\ \A i : Keyed(i)' = Keyed(i)
      /\ \A i, j : RunOf(i, j)' = RunOf(i, j) /\ Firsts(i, j)' = Firsts(i, j)
  BY Reference
<1>3. Samples' = Samples
  BY DEF Samples
<1>4. Grouped(f)'
  BY <1>1, <1>2 DEF Grouped
<1>5. Behind(f)'
  BY <1>1, <1>3 DEF Behind, InOrder
<1>6. AllTaken(f)'
  <2>1. \A i, j : Taken(i, j)' <=> Taken(i, j)
    BY <1>3 DEF Taken
  <2> QED
    BY <1>1, <1>2, <2>1 DEF AllTaken
<1>7. ReadOut(f)'
  BY <1>1, <1>2 DEF ReadOut
<1> QED
  BY <1>4, <1>5, <1>6, <1>7

-----------------------------------------------------------------------------
(* What is received is the next file of the archive that is sent at all.   *)
Comes(i, f, n) == n \in Kept(i) /\ f < n /\ \A j \in Kept(i) : f < j => n <= j

LEMMA HeadNext ==
  ASSUME TypeOK, ThreadInv, NEW f \in Nat, Flow(f), Receive,
         UNCHANGED <<config, thread, current>>
  PROVE  \E n \in Nat : /\ n = Head(chan).index /\ Comes(current, f, n)
                        /\ Head(chan).name = TrueName(current, n)
                        /\ parser.of = current /\ current \in 1..Len(input) /\ current \in 1..next
                        /\ Flow(n)'
<1> DEFINE of == parser.of
<1>1. /\ current # 0 /\ chan # <<>> /\ Head(chan) # Failed /\ chan' = Tail(chan)
      /\ f < parser.pos /\ InOrderFrom(f) /\ NoneSkipped(f) /\ chan \in Flight
      /\ parser' = parser /\ sending' = sending
  BY DEF Receive, Flow, TypeOK, Flight, thread
<1>2. of = current /\ current \in 1..Len(input) /\ current \in 1..next
  <2>1. of = current
    BY <1>1 DEF ThreadInv, Attached
  <2>2. next \in 0..Len(input) /\ current \in {0, next}
    BY DEF TypeOK
  <2>3. next \in Nat /\ Len(input) \in Nat
    BY SourceIs
  <2> QED
    BY <1>1, <2>1, <2>2, <2>3
<1>3. Kept(of) \subseteq Nat \ {0}
  BY <1>2, SourceIs
<1>4. /\ Len(chan) \in Nat \ {0} /\ DOMAIN chan = 1..Len(chan) /\ Head(chan) = chan[1]
      /\ Len(Tail(chan)) = Len(chan) - 1 /\ DOMAIN Tail(chan) = 1..(Len(chan) - 1)
      /\ \A i \in 1..(Len(chan) - 1) : Tail(chan)[i] = chan[i + 1]
  BY <1>1, HeadTail DEF Flight
<1> PICK n : n = chan[1].index
  OBVIOUS
<1>5. 1 \in DOMAIN chan
  BY <1>4
<1>6. /\ n \in Kept(of) /\ n \in Nat /\ f < n /\ n < parser.pos
      /\ chan[1].name = TrueName(of, n)
  BY <1>1, <1>3, <1>4, <1>5 DEF InOrderFrom
<1>7. \A i \in DOMAIN chan : i # 1 /\ chan[i] # Failed => n < chan[i].index
  BY <1>1, <1>4, <1>5 DEF InOrderFrom
<1>8. parser.pc = "send" /\ sending # Failed => n < sending.index
  BY <1>1, <1>5 DEF InOrderFrom
<1>9. \A j \in Kept(of) : f < j /\ j < parser.pos =>
        \/ \E i \in DOMAIN chan : chan[i].index = j /\ chan[i] # Failed
        \/ parser.pc = "send" /\ sending.index = j /\ sending # Failed
  BY <1>1, <1>3, FailedHasNoFile DEF NoneSkipped
<1>10. parser.pos \in Nat
  BY DEF TypeOK
<1>11. \A j \in Kept(of) : f < j => n <= j
  <2> SUFFICES ASSUME NEW j \in Kept(of), f < j
               PROVE  n <= j
    OBVIOUS
  <2>1. CASE j < parser.pos
    BY <1>3, <1>6, <1>7, <1>8, <1>9, <2>1
  <2>2. CASE ~(j < parser.pos)
    BY <1>3, <1>6, <1>10, <2>2
  <2> QED
    BY <2>1, <2>2
<1>12. Comes(current, f, n)
  BY <1>2, <1>6, <1>11 DEF Comes
<1>13. /\ Kept(current)' = Kept(current)
       /\ \A j : TrueName(current, j)' = TrueName(current, j)
  BY Reference
<1>14. \A i \in DOMAIN Tail(chan) : i + 1 \in DOMAIN chan /\ i + 1 # 1 /\ Tail(chan)[i] = chan[i + 1]
  BY <1>4
<1>15. InOrderFrom(n)'
  <2>1. ASSUME NEW i \in DOMAIN Tail(chan)
        PROVE  IF Tail(chan)[i] = Failed THEN i = Len(Tail(chan)) /\ parser.pc = "gone"
               ELSE /\ Tail(chan)[i].index \in Kept(of)
                    /\ n < Tail(chan)[i].index /\ Tail(chan)[i].index < parser.pos
                    /\ Tail(chan)[i].name = TrueName(of, Tail(chan)[i].index)
    <3>1. CASE chan[i + 1] = Failed
      <4>1. i + 1 = Len(chan) /\ parser.pc = "gone"
        BY <1>1, <1>14, <3>1 DEF InOrderFrom
      <4> QED
        BY <1>4, <1>14, <3>1, <4>1
    <3>2. CASE chan[i + 1] # Failed
      BY <1>1, <1>7, <1>14, <3>2 DEF InOrderFrom
    <3> QED
      BY <3>1, <3>2
  <2>2. ASSUME NEW i \in DOMAIN Tail(chan), NEW k \in DOMAIN Tail(chan), i < k, Tail(chan)[k] # Failed
        PROVE  Tail(chan)[i].index < Tail(chan)[k].index
    <3>1. i + 1 < k + 1
      BY <1>4, <2>2
    <3> QED
      BY <1>1, <1>14, <2>2, <3>1 DEF InOrderFrom
  <2>3. ASSUME parser.pc = "send", sending # Failed, NEW i \in DOMAIN Tail(chan)
        PROVE  Tail(chan)[i].index < sending.index
    BY <1>1, <1>14, <2>3 DEF InOrderFrom
  <2> QED
    BY <1>1, <1>2, <1>8, <1>13, <2>1, <2>2, <2>3 DEF InOrderFrom
<1>16. NoneSkipped(n)'
  <2> SUFFICES ASSUME NEW j \in Kept(of), n < j, j < parser.pos
               PROVE  \/ \E i \in DOMAIN Tail(chan) : Tail(chan)[i].index = j
                      \/ parser.pc = "send" /\ sending.index = j
    BY <1>1, <1>2, <1>13 DEF NoneSkipped
  <2>1. f < j
    BY <1>3, <1>6
  <2>2. CASE \E i \in DOMAIN chan : chan[i].index = j
    <3> PICK i \in DOMAIN chan : chan[i].index = j
      BY <2>2
    <3>1. i # 1 /\ i \in 1..Len(chan)
      BY <1>3, <1>4, <1>6
    <3>2. i - 1 \in DOMAIN Tail(chan) /\ (i - 1) + 1 = i
      BY <1>4, <3>1
    <3> QED
      BY <1>14, <3>2
  <2> QED
    BY <1>9, <2>1, <2>2
<1>17. Flow(n)'
  BY <1>1, <1>6, <1>15, <1>16 DEF Flow
<1> QED
  BY <1>2, <1>4, <1>6, <1>12, <1>17

(* When nothing more can come, all that is sent at all has been seen. *)
LEMMA AllSeen ==
  ASSUME TypeOK, ThreadInv, NEW f \in Nat, Flow(f), current # 0, parser.pc = "gone",
         chan = <<>> \/ Head(chan) = Failed
  PROVE  /\ parser.of = current /\ current \in 1..Len(input)
         /\ \A j \in Kept(current) : j <= f
         /\ chan = <<>> => Unbroken(current)
<1> DEFINE pos == parser.pos
<1>1. /\ Reading
      /\ pos <= Len(Records) =>
           \/ Records[pos].type = "end"
           \/ Records[pos].type = "bad" /\ chan # <<>>
  BY DEF ThreadInv, AtEnd
<1>2. /\ parser.of \in DOMAIN input /\ Len(Records) \in Nat /\ DOMAIN Records = 1..Len(Records)
      /\ pos \in Nat \ {0}
  BY <1>1, ReadingIs
<1>3. parser.of = current /\ current \in 1..Len(input) /\ Records = input[current].records
  <2>1. parser.of = current
    BY DEF ThreadInv, Attached
  <2> QED
    BY <1>2, <2>1, SourceIs DEF Records
<1>4. \A k \in 1..(pos - 1) : Records[k].type \notin {"end", "bad"}
  BY <1>1 DEF Reading
<1>5. \A j \in Readable(current) : j \in DOMAIN Records /\ \A k \in 1..j : Records[k].type \notin {"end", "bad"}
  BY <1>3 DEF Readable
<1>6. ASSUME NEW j \in Readable(current)
      PROVE  j < pos
  <2> SUFFICES ASSUME ~(j < pos)
               PROVE  FALSE
    OBVIOUS
  <2>1. j \in 1..Len(Records)
    BY <1>2, <1>5
  <2>2. pos \in 1..j /\ pos <= Len(Records)
    BY <1>2, <2>1
  <2> QED
    BY <1>1, <1>5, <2>2
<1>7. ASSUME NEW j \in Kept(current)
      PROVE  j <= f
  <2>1. j \in Nat \ {0} /\ j < pos
    BY <1>3, <1>6, SourceIs
  <2> SUFFICES ASSUME f < j
               PROVE  FALSE
    BY <2>1
  <2>2. PICK i \in DOMAIN chan : chan[i].index = j
    BY <1>3, <2>1 DEF Flow, NoneSkipped
  <2>3. chan \in Flight
    BY DEF TypeOK, Flight
  <2>4. chan # <<>>
    BY <2>2
  <2>5. Head(chan) = chan[1] /\ DOMAIN chan = 1..Len(chan) /\ Len(chan) \in Nat \ {0} /\ 1 \in DOMAIN chan
    <3>1. Head(chan) = chan[1] /\ DOMAIN chan = 1..Len(chan) /\ Len(chan) \in Nat \ {0}
      BY <2>3, <2>4, HeadTail DEF Flight
    <3>2. 1 \in 1..Len(chan)
      BY <3>1
    <3> QED
      BY <3>1, <3>2
  <2>6. Len(chan) = 1
    BY <2>4, <2>5 DEF Flow, InOrderFrom
  <2>7. i = 1
    BY <2>2, <2>5, <2>6
  <2> QED
    BY <2>1, <2>2, <2>4, <2>5, <2>7, FailedHasNoFile
<1>8. ASSUME chan = <<>>
      PROVE  Unbroken(current)
  <2> SUFFICES ASSUME NEW j \in DOMAIN Records, Records[j].type = "bad"
               PROVE  \E k \in 1..(j - 1) : Records[k].type = "end"
    BY <1>3 DEF Unbroken
  <2>1. ~(j \in 1..(pos - 1))
    BY <1>4
  <2>2. j \in 1..Len(Records)
    BY <1>2
  <2>3. pos <= j /\ pos <= Len(Records)
    BY <1>2, <2>1, <2>2
  <2>4. Records[pos].type = "end"
    BY <1>1, <1>8, <2>3
  <2>5. pos \in 1..(j - 1)
    BY <1>2, <2>2, <2>3, <2>4
  <2> QED
    BY <2>4, <2>5
<1> QED
  BY <1>3, <1>7, <1>8

-----------------------------------------------------------------------------
(* Each action in turn.                                                    *)
LEMMA ThreadGoesOn ==
  ASSUME TypeOK, ThreadInv, NamedOnce, Settled, NEW f \in Nat, Progress(f), ParserStep
  PROVE  Settled' /\ Progress(f)'
<1>1. /\ UNCHANGED <<config, expand, group, done, consumer, out>> /\ parser'.of = parser.of
  <2>1. parser \in Threads
    BY DEF TypeOK, Threads
  <2> QED
    BY <2>1 DEF ParserStep, Extend, PassOver, File, Bad, EndOfArchive, Send, Threads
<1>2. Flow(f)'
  BY ThreadFlow DEF Progress
<1>3. Assembled(f)'
  BY <1>1, Stays DEF Progress, expand
<1>4. Returned' /\ (NoErrors' <=> NoErrors)
  BY <1>1, NothingReturned DEF Settled
<1>5. Flags'
  BY <1>1, <1>4 DEF Settled, Flags, config, expand
<1>6. NoneBroken'
  BY <1>1, <1>4, Reference DEF Settled, NoneBroken, config, expand
<1> QED
  BY <1>2, <1>3, <1>4, <1>5, <1>6 DEF Settled, Progress

LEMMA Quiet ==
  ASSUME TypeOK, Settled, NEW f \in Nat, Progress(f),
         Pull \/ Exhausted \/ NoMoreSources \/ (Finish /\ group = <<>>) \/ (Boundary /\ group = <<>>)
  PROVE  Settled' /\ Progress(f)'
<1>1. /\ UNCHANGED <<config, next, current, thread, chan, out>> /\ group' = group
      /\ (done => done') /\ consumer # "dropped" /\ consumer' # "dropped"
  BY DEF Pull, Exhausted, NoMoreSources, Finish, Boundary, Between, Pulling, expand
<1>2. Assembled(f)'
  BY <1>1, Stays DEF Progress, thread
<1>3. Flow(f)'
  <2>1. \A i : Kept(i)' = Kept(i) /\ \A j : TrueName(i, j)' = TrueName(i, j)
    BY <1>1, Reference
  <2>2. InOrderFrom(f) => InOrderFrom(f)'
    BY <1>1, <2>1 DEF InOrderFrom, thread
  <2>3. NoneSkipped(f) => NoneSkipped(f)'
    BY <1>1, <2>1 DEF NoneSkipped, thread
  <2> QED
    BY <1>1, <2>2, <2>3 DEF Progress, Flow, thread
<1>4. Returned' /\ (NoErrors' <=> NoErrors)
  BY <1>1, NothingReturned DEF Settled
<1>5. Flags'
  <2>1. CASE Pull
    BY <1>1, <1>4, <2>1 DEF Settled, Flags, config, expand, Pull
  <2>2. CASE Exhausted
    BY <1>1, <1>4, <2>2 DEF Settled, Flags, config, expand, Exhausted, Pulling
  <2>3. CASE NoMoreSources
    BY <1>1, <1>4, <2>3 DEF Settled, Flags, config, NoMoreSources, Between, Pulling
  <2>4. CASE Finish /\ group = <<>>
    BY <1>1, <1>4, <2>4 DEF Settled, Flags, config, expand, Finish
  <2>5. CASE Boundary /\ group = <<>>
    BY <1>1, <1>4, <2>5 DEF Settled, Flags, config, Boundary, Pulling
  <2> QED
    BY <2>1, <2>2, <2>3, <2>4, <2>5
<1>6. NoneBroken'
  BY <1>1, <1>4, Reference DEF Settled, NoneBroken, config
<1> QED
  BY <1>2, <1>3, <1>4, <1>5, <1>6 DEF Settled, Progress

LEMMA Leaves ==
  ASSUME Settled, NEW f \in Nat, Drop
  PROVE  Settled' /\ Progress(f)'
<1>1. /\ UNCHANGED <<config, next, pending, exhausted, done, out>>
      /\ consumer' = "dropped" /\ current' = 0 /\ group' = <<>>
  BY DEF Drop
<1>2. Returned' /\ (NoErrors' <=> NoErrors)
  BY <1>1, NothingReturned DEF Settled
<1>3. Flags'
  BY <1>1, <1>2 DEF Settled, Flags, config
<1> QED
  BY <1>1, <1>2, <1>3 DEF Settled, NoneBroken, Progress, Flow, Assembled

(* The sample in progress is complete and handed out. *)
LEMMA TakesOut ==
  ASSUME TypeOK, Settled, NEW f \in Nat, Progress(f), Finish \/ Boundary, group # <<>>
  PROVE  Settled' /\ Progress(f)'
<1> DEFINE g == group[1]
<1>1. /\ UNCHANGED <<config, next, current, exhausted, thread, chan, done>>
      /\ group' = <<>> /\ consumer = "pulling" /\ consumer' = "idle" /\ out' = Append(out, g)
      /\ current = 0 \/ (done /\ handler = "stop")
      /\ done => pending' = pending
      /\ pending' => pending
  BY DEF Finish, Boundary, Pulling, Return, Settled, Flags, expand
<1>2. Grouped(f) /\ Behind(f) /\ AllTaken(f) /\ ReadOut(f)
  BY <1>1 DEF Progress, Assembled
<1> PICK of \in Nat : of = parser.of
  BY SourceIs
<1>3. of # 0 /\ InProgress(of, g, f) /\ g \in Item /\ of \in 1..Len(input) /\ Keyed(of) \subseteq Nat
  <2>1. of # 0 /\ InProgress(of, g, f) /\ g \in Item
    BY <1>2, GroupIs DEF Grouped
  <2>2. of <= Len(input) /\ Len(input) \in Nat
    BY SourceIs
  <2>3. of \in 1..Len(input)
    BY <2>1, <2>2
  <2> QED
    BY <2>1, <2>3, SourceIs
<1>4. g.of = of /\ g.files # {} /\ \A j \in g.files : j <= f
  BY <1>3 DEF InProgress
<1> HIDE DEF g
<1>5. WholeRun(g)
  <2>1. handler = "stop" \/ \A j \in Keyed(of) : j <= f
    BY <1>1, <1>2, <1>3 DEF ReadOut
  <2> QED
    BY <1>3, <2>1, Completes
<1>6. /\ Returned' /\ Samples' = Samples \cup {Len(out) + 1}
      /\ \A n \in Samples : out'[n] = out[n]
      /\ out'[Len(out) + 1] = g /\ (NoErrors' <=> NoErrors)
  <2>1. \A n \in Samples : InOrder(out[n], g)
    BY <1>2 DEF Behind, g
  <2> QED
    BY <1>1, <1>3, <1>4, <1>5, <2>1, SampleReturned DEF Settled
<1>7. /\ \A i : Keyed(i)' = Keyed(i) /\ (Unbroken(i)' <=> Unbroken(i))
      /\ \A i, j : RunOf(i, j)' = RunOf(i, j) /\ Firsts(i, j)' = Firsts(i, j)
  BY <1>1, Reference
<1>8. Grouped(f)'
  BY <1>1 DEF Grouped
<1>9. Behind(f)'
  <2>1. ASSUME NEW n \in Samples'
        PROVE  out'[n].of < of \/ (out'[n].of = of /\ \A j \in out'[n].files : j <= f)
    BY <1>2, <1>4, <1>6 DEF Behind
  <2> QED
    BY <1>1, <2>1 DEF Behind, thread
<1>10. AllTaken(f)'
  <2>1. \A i, j : Taken(i, j) => Taken(i, j)'
    BY <1>4, <1>6 DEF Taken, g
  <2> QED
    BY <1>1, <1>2, <1>7, <2>1 DEF AllTaken, thread
<1>11. ReadOut(f)'
  BY <1>1, <1>2, <1>7 DEF ReadOut, thread
<1>12. Flow(f)'
  <2>1. \A i : Kept(i)' = Kept(i) /\ \A j : TrueName(i, j)' = TrueName(i, j)
    BY <1>1, Reference
  <2>2. InOrderFrom(f) => InOrderFrom(f)'
    BY <1>1, <2>1 DEF InOrderFrom, thread
  <2>3. NoneSkipped(f) => NoneSkipped(f)'
    BY <1>1, <2>1 DEF NoneSkipped, thread
  <2> QED
    BY <1>1, <2>2, <2>3 DEF Progress, Flow, thread
<1>13. Flags'
  BY <1>1, <1>6 DEF Settled, Flags, config
<1>14. NoneBroken'
  BY <1>1, <1>6, <1>7 DEF Settled, NoneBroken, config
<1> QED
  BY <1>1, <1>6, <1>8, <1>9, <1>10, <1>11, <1>12, <1>13, <1>14 DEF Settled, Progress, Assembled

(* What holds of the file that comes, whether or not it is keyed. *)
LEMMA Arrives ==
  ASSUME TypeOK, NEW i \in 1..Len(input), NEW f \in Nat, NEW n \in Nat, Comes(i, f, n)
  PROVE  /\ Keyed(i) \subseteq Nat /\ f < n
         /\ n \in Keyed(i) <=> TrueName(i, n).ext # ""
         /\ n \in Keyed(i) => Follows(i, f, n)
         /\ \A j \in Keyed(i) : j <= n <=> j <= f \/ j = n
         /\ \A j \in Keyed(i) : f < j => n <= j
<1>1. Kept(i) \subseteq Nat \ {0} /\ Keyed(i) \subseteq Kept(i)
  BY SourceIs
<1>2. n \in Kept(i) /\ n \in Nat /\ f < n /\ \A j \in Kept(i) : f < j => n <= j
  BY <1>1 DEF Comes
<1>3. n \in Keyed(i) <=> TrueName(i, n).ext # ""
  BY <1>2 DEF Keyed, Kept
<1>4. \A j \in Keyed(i) : (j <= n <=> j <= f \/ j = n) /\ (f < j => n <= j)
  BY <1>1, <1>2
<1>5. n \in Keyed(i) => Follows(i, f, n)
  <2>1. \A j \in Keyed(i) : j < n => j <= f
    BY <1>1, <1>2
  <2> QED
    BY <1>2, <2>1 DEF Follows
<1> QED
  BY <1>1, <1>2, <1>3, <1>4, <1>5

(* After a file is received: its source stays, and of the rest it is left  *)
(* to say what becomes of the group and of what is returned.               *)
LEMMA Received ==
  ASSUME TypeOK, Settled, UNCHANGED <<config, expand, thread>>, NEW f \in Nat, NEW n \in Nat,
         Progress(f), Flow(n)', NEW of \in 1..Len(input), parser.of = of, current = of,
         Comes(of, f, n), consumer = "pulling", ~done, consumer' \in {"pulling", "idle"},
         done' => handler = "stop",
         Returned', NoErrors' => NoErrors,
         Grouped(n)', Behind(n)',
         \A i, j : Taken(i, j) => Taken(i, j)',
         n \in Keyed(of) /\ n \in Firsts(of, RunOf(of, n)) => Taken(of, n)'
  PROVE  Settled' /\ Progress(n)'
<1>1. /\ \A i : Keyed(i)' = Keyed(i) /\ (Unbroken(i)' <=> Unbroken(i))
      /\ \A i, j : RunOf(i, j)' = RunOf(i, j) /\ Firsts(i, j)' = Firsts(i, j)
  BY Reference
<1>2. \A j \in Keyed(of) : j <= n <=> j <= f \/ j = n
  BY Arrives
<1>3. AllTaken(n)'
  <2>1. AllTaken(f)
    BY DEF Progress, Assembled
  <2>2. ASSUME NEW i \in 1..next, NEW j \in Keyed(i), i = of => j <= n, j \in Firsts(i, RunOf(i, j))
        PROVE  Taken(i, j)'
    <3>1. CASE i = of /\ j = n
      BY <2>2, <3>1
    <3>2. CASE ~(i = of /\ j = n)
      BY <1>2, <2>1, <2>2, <3>2 DEF AllTaken
    <3> QED
      BY <3>1, <3>2
  <2> QED
    BY <1>1, <2>2 DEF AllTaken, thread, expand
<1>4. current # 0
  BY SourceIs
<1>5. ReadOut(n)'
  BY <1>4 DEF ReadOut, expand
<1>6. Flags'
  BY <1>4 DEF Settled, Flags, expand, config
<1>7. NoneBroken'
  BY <1>1 DEF Settled, NoneBroken, expand, config
<1> QED
  BY <1>3, <1>5, <1>6, <1>7 DEF Settled, Progress, Assembled

LEMMA PassesNothing ==
  ASSUME TypeOK, ThreadInv, Settled, NEW f \in Nat, Progress(f), PushNothing
  PROVE  Settled' /\ \E n \in Nat : Progress(n)'
<1>1. /\ Receive /\ UNCHANGED <<config, expand, thread>> /\ current' = current
      /\ Flow(f) /\ Grouped(f) /\ Behind(f)
      /\ group' = group /\ done' = done /\ consumer' = consumer /\ out' = out
      /\ consumer = "pulling" /\ ~done /\ parser' = parser
  BY DEF PushNothing, Receive, Pulling, Progress, Assembled, expand, thread
<1>head. PICK n \in Nat : /\ n = Head(chan).index /\ Comes(current, f, n)
                          /\ Head(chan).name = TrueName(current, n)
                          /\ parser.of = current /\ current \in 1..Len(input) /\ Flow(n)'
  BY <1>1, HeadNext
<1>of. PICK of \in Nat : of = current /\ of = parser.of /\ of \in 1..Len(input) /\ Comes(of, f, n)
  BY <1>head, SourceIs
<1>2. /\ Keyed(of) \subseteq Nat /\ f < n /\ f <= n
      /\ n \notin Keyed(of)
      /\ \A j \in Keyed(of) : j <= n => j <= f
      /\ \A j \in Keyed(of) : f < j => n <= j
  <2>1. TrueName(of, n).ext = ""
    BY <1>head, <1>of DEF PushNothing
  <2>2. Keyed(of) \subseteq Nat /\ f < n /\ n \notin Keyed(of)
    BY <1>of, <2>1, Arrives
  <2>3. \A j \in Keyed(of) : f < j => n <= j
    BY <1>of, Arrives
  <2> QED
    BY <2>2, <2>3
<1>3. Returned' /\ (NoErrors' <=> NoErrors) /\ Samples' = Samples
  BY <1>1, NothingReturned DEF Settled
<1>4. Grouped(n)'
  <2>1. /\ Keyed(of)' = Keyed(of)
        /\ \A i, g : InProgress(i, g, n)' <=> InProgress(i, g, n)
    BY <1>1, Reference
  <2>2. group # <<>> => of # 0 /\ InProgress(of, group[1], n)
    <3>1. group # <<>> => of # 0 /\ InProgress(of, group[1], f)
      BY <1>1, <1>of DEF Grouped
    <3> QED
      BY <1>2, <3>1, PassesBy
  <2>3. group = <<>> => \A j \in Keyed(of) : n < j
    <3>1. of # 0
      BY <1>1, <1>of DEF Receive
    <3>2. group = <<>> => \A j \in Keyed(of) : f < j
      BY <1>1, <1>of, <3>1 DEF Grouped
    <3> QED
      BY <1>2, <3>2
  <2> QED
    BY <1>1, <1>of, <2>1, <2>2, <2>3 DEF Grouped
<1>5. Behind(n)'
  <2>1. ASSUME NEW m \in Samples
        PROVE  out[m].of < of \/ (out[m].of = of /\ \A j \in out[m].files : j <= n)
    <3>1. out[m].of < of \/ (out[m].of = of /\ \A j \in out[m].files : j <= f)
      BY <1>1, <1>of DEF Behind
    <3>2. out[m] \in Item
      BY DEF Samples, TypeOK
    <3>3. \A j \in out[m].files : j \in Nat
      BY <3>2 DEF Item
    <3> QED
      BY <1>2, <3>1, <3>3
  <2> QED
    BY <1>1, <1>3, <1>of, <2>1 DEF Behind, InOrder
<1>6. \A i, j : Taken(i, j)' <=> Taken(i, j)
  BY <1>1, <1>3 DEF Taken
<1>7. Settled' /\ Progress(n)'
  BY <1>1, <1>2, <1>3, <1>4, <1>5, <1>6, <1>head, <1>of, Received
<1> QED
  BY <1>7

LEMMA PassesDuplicate ==
  ASSUME TypeOK, ThreadInv, Settled, NEW f \in Nat, Progress(f), PushDuplicate
  PROVE  Settled' /\ \E n \in Nat : Progress(n)'
<1> DEFINE name == Head(chan).name
           g == group[1]
<1>1. /\ Receive /\ UNCHANGED <<config, expand, thread>> /\ current' = current
      /\ Flow(f) /\ Grouped(f) /\ Behind(f)
      /\ group' = group /\ (done' => handler = "stop") /\ consumer' \in {"pulling", "idle"}
      /\ out' = out \/ out' = Append(out, Error(current))
      /\ consumer = "pulling" /\ ~done /\ parser' = parser
      /\ name.ext # "" /\ group # <<>> /\ g.key = name.key /\ Lower[name.ext] \in g.exts
  BY DEF PushDuplicate, Duplicate, Starts, Return, Receive, Pulling, Progress, Assembled, expand, thread
<1>head. PICK n \in Nat : /\ n = Head(chan).index /\ Comes(current, f, n)
                          /\ name = TrueName(current, n)
                          /\ parser.of = current /\ current \in 1..Len(input) /\ Flow(n)'
  BY <1>1, HeadNext
<1>of. PICK of \in Nat : of = current /\ of = parser.of /\ of \in 1..Len(input) /\ Comes(of, f, n)
  BY <1>head, SourceIs
<1> HIDE DEF name, g
<1>2. /\ Keyed(of) \subseteq Nat /\ f < n /\ n \in Keyed(of) /\ Follows(of, f, n)
  <2>1. TrueName(of, n).ext # ""
    BY <1>1, <1>head, <1>of
  <2> QED
    BY <1>of, <2>1, Arrives
<1>3. InProgress(of, g, n) /\ n \notin Firsts(of, RunOf(of, n)) /\ of # 0
  <2>1. InProgress(of, g, f) /\ of # 0
    BY <1>1, <1>of DEF Grouped, g
  <2>2. g.key = TrueName(of, n).key /\ Lower[TrueName(of, n).ext] \in g.exts
    BY <1>1, <1>head, <1>of
  <2> QED
    BY <1>2, <2>1, <2>2, Repeats
<1>4. Returned' /\ (NoErrors' => NoErrors) /\ Samples' = Samples /\ \A m \in Samples : out'[m] = out[m]
  <2>1. CASE out' = out
    BY <1>1, <2>1, NothingReturned DEF Settled
  <2>2. CASE out' = Append(out, Error(of))
    BY <1>1, <2>2, ErrorReturned DEF Settled
  <2> QED
    BY <1>1, <1>of, <2>1, <2>2
<1>5. Grouped(n)'
  <2>1. \A i, h : InProgress(i, h, n)' <=> InProgress(i, h, n)
    BY <1>1, Reference
  <2> QED
    BY <1>1, <1>3, <1>of, <2>1 DEF Grouped, g
<1>6. Behind(n)'
  <2>1. ASSUME NEW m \in Samples
        PROVE  /\ out[m].of < of \/ (out[m].of = of /\ \A j \in out[m].files : j <= n)
               /\ InOrder(out[m], g)
    <3>1. /\ out[m].of < of \/ (out[m].of = of /\ \A j \in out[m].files : j <= f)
          /\ InOrder(out[m], g)
      BY <1>1, <1>of DEF Behind, g
    <3>2. out[m] \in Item
      BY DEF Samples, TypeOK
    <3>3. \A j \in out[m].files : j \in Nat
      BY <3>2 DEF Item
    <3> QED
      BY <1>2, <3>1, <3>3
  <2> QED
    BY <1>1, <1>4, <1>of, <2>1 DEF Behind, InOrder, g
<1>7. \A i, j : Taken(i, j) => Taken(i, j)'
  BY <1>1, <1>4 DEF Taken
<1>8. Settled' /\ Progress(n)'
  BY <1>1, <1>2, <1>3, <1>4, <1>5, <1>6, <1>7, <1>head, <1>of, Received
<1> QED
  BY <1>8

LEMMA FilesAreNats ==
  TypeOK => \A m \in Samples : out[m] \in Item /\ out[m].files \subseteq Nat
<1> SUFFICES ASSUME TypeOK, NEW m \in Samples
             PROVE  out[m] \in Item /\ out[m].files \subseteq Nat
  OBVIOUS
<1>1. out[m] \in Item
  BY DEF Samples, TypeOK
<1> QED
  BY <1>1 DEF Item

LEMMA TakesFile ==
  ASSUME TypeOK, ThreadInv, Settled, NEW f \in Nat, Progress(f), PushFile
  PROVE  Settled' /\ \E n \in Nat : Progress(n)'
<1> DEFINE item == Head(chan)
           g == group[1]
<1>1. /\ Receive /\ UNCHANGED <<config, expand, thread, done>> /\ current' = current
      /\ Flow(f) /\ Grouped(f) /\ Behind(f) /\ ~done'
      /\ consumer' \in {"pulling", "idle"}
      /\ consumer = "pulling" /\ ~done /\ parser' = parser /\ current # 0 /\ chan # <<>>
      /\ item.name.ext # "" /\ ~Duplicate(item.name)
      /\ group' = <<Added(item)>>
      /\ IF Starts(item.name) /\ group # <<>> THEN out' = Append(out, g) ELSE out' = out
  BY DEF PushFile, Return, Receive, Pulling, Progress, Assembled, expand, thread
<1>head. PICK n \in Nat : /\ n = item.index /\ Comes(current, f, n)
                          /\ item.name = TrueName(current, n)
                          /\ parser.of = current /\ current \in 1..Len(input) /\ Flow(n)'
  BY <1>1, HeadNext
<1>of. PICK of \in Nat : of = current /\ of = parser.of /\ of \in 1..Len(input) /\ Comes(of, f, n)
  BY <1>head, SourceIs
<1>2. Keyed(of) \subseteq Nat /\ f < n /\ n \in Keyed(of) /\ Follows(of, f, n)
  <2>1. TrueName(of, n).ext # ""
    BY <1>1, <1>head, <1>of
  <2> QED
    BY <1>of, <2>1, Arrives
<1>name. item.name = TrueName(of, n) /\ item.index = n /\ of # 0
  BY <1>head, <1>of, <1>1
<1>3. /\ \A i : Keyed(i)' = Keyed(i)
      /\ \A i, h : InProgress(i, h, n)' <=> InProgress(i, h, n)
  BY <1>1, Reference
<1>4. ASSUME NEW m \in Samples
      PROVE  /\ out[m].of < of \/ (out[m].of = of /\ \A j \in out[m].files : j <= f /\ j < n /\ j <= n)
             /\ group # <<>> => InOrder(out[m], g)
  <2>1. /\ out[m].of < of \/ (out[m].of = of /\ \A j \in out[m].files : j <= f)
        /\ group # <<>> => InOrder(out[m], g)
    BY <1>1, <1>of DEF Behind
  <2>2. \A j \in out[m].files : j \in Nat
    BY FilesAreNats
  <2> QED
    BY <1>2, <2>1, <2>2
<1>grow. ASSUME NEW h, Added(item) = h, InProgress(of, h, n)
         PROVE  /\ Grouped(n)' /\ h.of = of /\ n \in h.files /\ group' = <<h>>
                /\ (\A m \in Samples' : out'[m].of < of \/ (out'[m].of = of /\ \A j \in out'[m].files : j <= n))
                   /\ (\A m \in Samples' : InOrder(out'[m], h)) => Behind(n)'
  <2>1. Grouped(n)'
    BY <1>1, <1>3, <1>grow, <1>of, <1>name DEF Grouped
  <2>2. h.of = of
    BY <1>grow DEF InProgress
  <2>3. n \in h.files
    <3>1. CASE Starts(item.name)
      BY <1>grow, <1>name, <3>1 DEF Added
    <3>2. CASE ~Starts(item.name)
      <4>1. g \in Item
        BY <3>2, GroupIs DEF Starts
      <4> QED
        BY <1>grow, <1>name, <3>2, <4>1 DEF Added, Item
    <3> QED
      BY <3>1, <3>2
  <2>4. (\A m \in Samples' : out'[m].of < of \/ (out'[m].of = of /\ \A j \in out'[m].files : j <= n))
           /\ (\A m \in Samples' : InOrder(out'[m], h)) => Behind(n)'
    BY <1>1, <1>grow, <1>of DEF Behind, InOrder
  <2> QED
    BY <1>1, <1>grow, <2>1, <2>2, <2>3, <2>4
<1>end. ASSUME Returned', NoErrors' => NoErrors, Grouped(n)', Behind(n)',
               \A i, j : Taken(i, j) => Taken(i, j)', Taken(of, n)'
        PROVE  Settled' /\ Progress(n)'
  <2>1. done' => handler = "stop"
    BY <1>1
  <2> QED
    BY <1>1, <1>2, <1>end, <1>head, <1>of, <2>1, Received
<1>5. CASE Starts(item.name)
  <2>1. Added(item) = Begun(of, n)
    BY <1>5, <1>name, <1>of DEF Added, Begun
  <2>2. InProgress(of, Begun(of, n), n)
    <3>1. CASE group = <<>>
      <4>1. \A j \in Keyed(of) : f < j
        BY <1>1, <1>of, <3>1 DEF Grouped
      <4> QED
        BY <1>2, <4>1, Begins
    <3>2. CASE group # <<>>
      <4>1. InProgress(of, g, f) /\ g.key # TrueName(of, n).key
        BY <1>1, <1>5, <1>name, <1>of, <3>2 DEF Grouped, Starts
      <4> QED
        BY <1>2, <4>1, Begins
    <3> QED
      BY <3>1, <3>2
  <2>3. PICK h : h = Begun(of, n)
    OBVIOUS
  <2>4. h.of = of /\ h.files = {n}
    BY <2>3 DEF Begun
  <2>5. /\ Grouped(n)' /\ group' = <<h>>
        /\ (\A m \in Samples' : out'[m].of < of \/ (out'[m].of = of /\ \A j \in out'[m].files : j <= n))
           /\ (\A m \in Samples' : InOrder(out'[m], h)) => Behind(n)'
    BY <1>grow, <2>1, <2>2, <2>3
  <2>6. CASE group = <<>>
    <3>1. out' = out
      BY <1>1, <2>6
    <3>2. Returned' /\ (NoErrors' <=> NoErrors) /\ Samples' = Samples
      BY <1>1, <3>1, NothingReturned DEF Settled
    <3>3. Behind(n)'
      BY <1>4, <2>4, <2>5, <3>1, <3>2 DEF InOrder
    <3>4. \A i, j : Taken(i, j) => Taken(i, j)'
      BY <2>6, <3>1, <3>2 DEF Taken
    <3>5. Taken(of, n)'
      BY <2>4, <2>5 DEF Taken
    <3> QED
      BY <1>end, <2>5, <3>2, <3>3, <3>4, <3>5
  <2>7. CASE group # <<>>
    <3>1. out' = Append(out, g) /\ g \in Item
      BY <1>1, <1>5, <2>7, GroupIs
    <3>2. InProgress(of, g, f) /\ g.key # TrueName(of, n).key
      BY <1>1, <1>5, <1>name, <1>of, <2>7 DEF Grouped, Starts
    <3>3. g.of = of /\ g.files # {} /\ \A j \in g.files : j <= f
      BY <3>2 DEF InProgress
    <3>4. WholeRun(g)
      BY <1>2, <3>2, Completes
    <3>5. /\ Returned' /\ Samples' = Samples \cup {Len(out) + 1}
          /\ \A m \in Samples : out'[m] = out[m]
          /\ out'[Len(out) + 1] = g /\ (NoErrors' <=> NoErrors)
      BY <1>1, <1>4, <2>7, <3>1, <3>3, <3>4, SampleReturned DEF Settled
    <3>6. \A j \in g.files : j < n /\ j <= n
      <4>1. g.files \subseteq Nat
        BY <3>1 DEF Item
      <4> QED
        BY <1>2, <3>3, <4>1
    <3>7. Behind(n)'
      <4>1. \A m \in Samples' : out'[m].of < of \/ (out'[m].of = of /\ \A j \in out'[m].files : j <= n)
        BY <1>4, <3>3, <3>5, <3>6
      <4>2. \A m \in Samples' : InOrder(out'[m], h)
        BY <1>4, <2>4, <3>3, <3>5, <3>6 DEF InOrder
      <4> QED
        BY <2>5, <4>1, <4>2
    <3>8. \A i, j : Taken(i, j) => Taken(i, j)'
      BY <3>3, <3>5 DEF Taken
    <3>9. Taken(of, n)'
      BY <2>4, <2>5 DEF Taken
    <3> QED
      BY <1>end, <2>5, <3>5, <3>7, <3>8, <3>9
  <2> QED
    BY <2>6, <2>7
<1>6. CASE ~Starts(item.name)
  <2>1. /\ group # <<>> /\ g.key = TrueName(of, n).key /\ Lower[TrueName(of, n).ext] \notin g.exts
        /\ out' = out /\ g \in Item /\ InProgress(of, g, f)
    <3>1. group # <<>> /\ g.key = TrueName(of, n).key
      BY <1>6, <1>name DEF Starts
    <3>2. Lower[TrueName(of, n).ext] \notin g.exts /\ out' = out
      BY <1>1, <1>6, <1>name DEF Duplicate
    <3>3. g \in Item /\ InProgress(of, g, f)
      BY <1>1, <1>of, <3>1, GroupIs DEF Grouped
    <3> QED
      BY <3>1, <3>2, <3>3
  <2>2. PICK h : h = [g EXCEPT !.exts = @ \cup {Lower[TrueName(of, n).ext]}, !.files = @ \cup {n}]
    OBVIOUS
  <2>3. Added(item) = h
    BY <1>6, <1>name, <2>2 DEF Added
  <2>4. InProgress(of, h, n)
    BY <1>2, <2>1, <2>2, Continues
  <2>5. h.of = g.of /\ h.files = g.files \cup {n} /\ g.of = of
    BY <2>1, <2>2 DEF Item, InProgress
  <2>6. /\ Grouped(n)' /\ group' = <<h>>
        /\ (\A m \in Samples' : out'[m].of < of \/ (out'[m].of = of /\ \A j \in out'[m].files : j <= n))
           /\ (\A m \in Samples' : InOrder(out'[m], h)) => Behind(n)'
    BY <1>grow, <2>3, <2>4
  <2>7. Returned' /\ (NoErrors' <=> NoErrors) /\ Samples' = Samples
    BY <1>1, <2>1, NothingReturned DEF Settled
  <2>8. Behind(n)'
    <3>1. ASSUME NEW m \in Samples
          PROVE  InOrder(out[m], h)
      <4>1. InOrder(out[m], g) /\ (out[m].of = of => \A j \in out[m].files : j < n)
        <5>1. out[m] \in Item
          BY FilesAreNats
        <5>2. out[m].of \in Nat
          BY <5>1 DEF Item
        <5> QED
          BY <1>4, <2>1, <5>2
      <4> QED
        BY <2>5, <4>1 DEF InOrder
    <3> QED
      BY <1>4, <2>1, <2>6, <2>7, <3>1
  <2>9. \A i, j : Taken(i, j) => Taken(i, j)'
    BY <2>1, <2>5, <2>6, <2>7 DEF Taken
  <2>10. Taken(of, n)'
    BY <2>5, <2>6 DEF Taken
  <2> QED
    BY <1>end, <2>6, <2>7, <2>8, <2>9, <2>10
<1> QED
  BY <1>5, <1>6

LEMMA Breaks ==
  ASSUME TypeOK, ThreadInv, Settled, NEW f \in Nat, Progress(f), ReceiveError \/ ReceiveNone
  PROVE  Settled' /\ Progress(f)'
<1>1. /\ UNCHANGED <<config, next, thread, group>> /\ current # 0 /\ current' = 0
      /\ consumer = "pulling" /\ consumer' \in {"pulling", "idle"} /\ ~done /\ ~exhausted
      /\ pending' /\ parser' = parser
      /\ chan = <<>> \/ Head(chan) = Failed
      /\ Flow(f) /\ Grouped(f) /\ Behind(f) /\ AllTaken(f)
  BY DEF ReceiveError, ReceiveNone, Return, Pulling, Progress, Assembled, thread
<1>2. parser.pc = "gone"
  <2>1. CASE ReceiveError
    <3>1. chan \in Flight /\ chan # <<>> /\ Head(chan) = Failed
      BY <2>1 DEF ReceiveError, TypeOK, Flight
    <3>2. 1 \in DOMAIN chan /\ Head(chan) = chan[1]
      BY <3>1, HeadTail DEF Flight
    <3> QED
      BY <1>1, <3>1, <3>2 DEF Flow, InOrderFrom
  <2>2. CASE ReceiveNone
    BY <2>2 DEF ReceiveNone
  <2> QED
    BY <2>1, <2>2
<1>of. PICK of \in Nat : of = current
  BY SourceIs DEF TypeOK
<1>3. /\ parser.of = of /\ of \in 1..Len(input)
      /\ \A j \in Kept(of) : j <= f
      /\ chan = <<>> => Unbroken(of)
  BY <1>1, <1>2, <1>of, AllSeen
<1>4. /\ \A i : Keyed(i)' = Keyed(i) /\ (Unbroken(i)' <=> Unbroken(i))
      /\ \A i, g : InProgress(i, g, f)' <=> InProgress(i, g, f)
      /\ \A i, j : RunOf(i, j)' = RunOf(i, j) /\ Firsts(i, j)' = Firsts(i, j)
  BY <1>1, Reference
<1>5. /\ Returned' /\ (NoErrors' => NoErrors)
      /\ Samples' = Samples /\ \A m \in Samples : out'[m] = out[m]
  <2>1. CASE out' = out
    BY <1>1, <2>1, NothingReturned DEF Settled
  <2>2. CASE out' = Append(out, Error(of))
    BY <1>1, <2>2, ErrorReturned DEF Settled
  <2>3. out' = out \/ out' = Append(out, Error(of))
    BY <1>of DEF ReceiveError, ReceiveNone, Return
  <2> QED
    BY <2>1, <2>2, <2>3
<1>error. ReceiveError /\ handler = "reraise" => ~NoErrors'
  <2> SUFFICES ASSUME ReceiveError, handler = "reraise"
               PROVE  ~NoErrors'
    OBVIOUS
  <2>1. out' = Append(out, Error(of))
    BY <1>of DEF ReceiveError, Return
  <2> QED
    BY <1>1, <2>1, ErrorReturned DEF Settled
<1>6. Grouped(f)'
  BY <1>1, <1>4 DEF Grouped
<1>7. Behind(f)'
  BY <1>1, <1>5 DEF Behind, InOrder
<1>8. AllTaken(f)'
  <2>1. \A i, j : Taken(i, j) => Taken(i, j)'
    BY <1>1, <1>5 DEF Taken
  <2> QED
    BY <1>1, <1>4, <2>1 DEF AllTaken
<1>9. ReadOut(f)'
  <2>1. Keyed(of) \subseteq Kept(of)
    BY DEF Keyed, Kept
  <2> QED
    BY <1>1, <1>3, <1>4, <2>1 DEF ReadOut
<1>10. Flags'
  <2>1. CASE ReceiveError
    <3>1. exhausted' = (handler = "stop") /\ done' = (handler = "reraise") /\ handler' = handler
      BY <2>1 DEF ReceiveError, config
    <3> QED
      BY <1>1, <1>error, <2>1, <3>1 DEF Flags
  <2>2. CASE ReceiveNone
    <3>1. exhausted' = exhausted /\ done' = done /\ consumer' = consumer
      BY <2>2 DEF ReceiveNone
    <3> QED
      BY <1>1, <3>1 DEF Flags
  <2> QED
    BY <2>1, <2>2
<1>11. NoneBroken'
  <2>1. CASE ReceiveError
    <3>1. handler' = handler
      BY <1>1 DEF config
    <3> QED
      BY <1>error, <2>1, <3>1 DEF NoneBroken
  <2>2. CASE ReceiveNone
    <3>1. Unbroken(of)
      BY <1>3, <2>2 DEF ReceiveNone
    <3> QED
      BY <1>1, <1>4, <1>5, <1>of, <3>1 DEF NoneBroken, Settled, config
  <2> QED
    BY <2>1, <2>2
<1> QED
  BY <1>1, <1>5, <1>6, <1>7, <1>8, <1>9, <1>10, <1>11 DEF Settled, Progress, Flow, Assembled

LEMMA Opens ==
  ASSUME TypeOK, ThreadInv, Settled, NEW f \in Nat, Progress(f), OpenShard
  PROVE  Settled' /\ Progress(0)'
<1> PICK i \in Nat : i = next + 1
  BY SourceIs
<1>1. /\ UNCHANGED <<config, pending, exhausted, chan, group, done, consumer, out>>
      /\ current = 0 /\ current' = i /\ next' = i /\ input[i].opens
      /\ parser'.pc = "parse" /\ parser'.of = i /\ parser'.pos = 1
      /\ consumer = "pulling" /\ ~done /\ ~pending /\ ~exhausted
      /\ Behind(f) /\ AllTaken(f) /\ ReadOut(f)
  BY DEF OpenShard, Between, Pulling, Progress, Assembled, config
<1>2. group = <<>> /\ chan = <<>> /\ parser.of <= next /\ parser.of \in Nat /\ next \in Nat
  BY <1>1, SourceIs DEF Settled, Flags, ThreadInv, Attached
<1>3. i \in 1..Len(input) /\ Keyed(i) \subseteq Nat \ {0}
  <2>1. i \in 1..Len(input)
    BY <1>2, SourceIs DEF OpenShard
  <2> QED
    BY <2>1, SourceIs
<1>4. /\ \A k : Keyed(k)' = Keyed(k) /\ (Unbroken(k)' <=> Unbroken(k))
      /\ \A k, j : RunOf(k, j)' = RunOf(k, j) /\ Firsts(k, j)' = Firsts(k, j)
  BY <1>1, Reference
<1>5. Returned' /\ (NoErrors' <=> NoErrors) /\ Samples' = Samples
  BY <1>1, NothingReturned DEF Settled
<1>6. Flow(0)'
  <2>1. InOrderFrom(0)'
    BY <1>1, <1>2 DEF InOrderFrom
  <2>2. NoneSkipped(0)'
    <3> SUFFICES ASSUME NEW j \in Kept(i), 0 < j, j < 1
                 PROVE  FALSE
      <4>1. Kept(i)' = Kept(i)
        BY <1>1, Reference
      <4> QED
        BY <1>1, <4>1 DEF NoneSkipped
    <3>1. j \in Nat
      BY <1>3, SourceIs
    <3> QED
      BY <3>1
  <2> QED
    BY <1>1, <2>1, <2>2 DEF Flow
<1>7. Grouped(0)'
  BY <1>1, <1>2, <1>3, <1>4 DEF Grouped
<1>8. Behind(0)'
  <2>1. ASSUME NEW m \in Samples
        PROVE  out[m].of < i
    <3>1. out[m].of \in Nat
      <4>1. out[m] \in Item
        BY FilesAreNats
      <4> QED
        BY <4>1 DEF Item
    <3>2. out[m].of <= parser.of
      BY <1>1, <1>2, <3>1 DEF Behind
    <3> QED
      BY <1>2, <3>1, <3>2
  <2> QED
    BY <1>1, <1>2, <1>5, <2>1 DEF Behind
<1>9. AllTaken(0)'
  <2>1. \A k, j : Taken(k, j)' <=> Taken(k, j)
    BY <1>1, <1>5 DEF Taken
  <2>2. ASSUME NEW k \in 1..i, NEW j \in Keyed(k), k = i => j <= 0, j \in Firsts(k, RunOf(k, j))
        PROVE  Taken(k, j)
    <3>1. k # i
      BY <1>3, <2>2
    <3>2. k \in 1..next
      BY <1>2, <3>1
    <3>3. k = parser.of => j <= f
      BY <1>1, <3>2 DEF ReadOut
    <3> QED
      BY <1>1, <2>2, <3>2, <3>3 DEF AllTaken
  <2> QED
    BY <1>1, <1>4, <2>1, <2>2 DEF AllTaken
<1>10. current' # 0
  BY <1>1, <1>2
<1>11. Flags'
  BY <1>1, <1>10 DEF Flags
<1>12. NoneBroken'
  <2> SUFFICES ASSUME handler = "reraise", NoErrors, NEW k \in 1..i
               PROVE  input[k].opens /\ (k # i => Unbroken(k))
    BY <1>1, <1>4, <1>5 DEF NoneBroken, config
  <2>1. CASE k = i
    BY <1>1, <2>1
  <2>2. CASE k # i
    <3>1. k \in 1..next /\ k # current
      BY <1>1, <1>2, <2>2
    <3> QED
      BY <1>1, <3>1 DEF NoneBroken, Settled
  <2> QED
    BY <2>1, <2>2
<1> QED
  BY <1>1, <1>5, <1>6, <1>7, <1>8, <1>9, <1>10, <1>11, <1>12 DEF Settled, Progress, Assembled, ReadOut

LEMMA DoesNotOpen ==
  ASSUME TypeOK, ThreadInv, Settled, NEW f \in Nat, Progress(f), OpenFails
  PROVE  Settled' /\ Progress(f)'
<1>of. PICK i \in Nat : i = next + 1
  BY SourceIs
<1>1. /\ UNCHANGED <<config, current, pending, thread, chan, group>>
      /\ current = 0 /\ next' = i /\ ~input[i].opens /\ parser' = parser
      /\ consumer = "pulling" /\ consumer' \in {"pulling", "idle"} /\ ~done /\ ~pending /\ ~exhausted
      /\ exhausted' = (handler = "stop") /\ done' = (handler # "continue")
      /\ Behind(f) /\ AllTaken(f) /\ ReadOut(f)
  BY <1>of DEF OpenFails, Between, Pulling, Return, Progress, Assembled, thread
<1>2. group = <<>> /\ next \in Nat
  BY <1>1, SourceIs DEF Settled, Flags
<1>3. /\ \A k : Keyed(k)' = Keyed(k) /\ (Unbroken(k)' <=> Unbroken(k))
      /\ \A k, j : RunOf(k, j)' = RunOf(k, j) /\ Firsts(k, j)' = Firsts(k, j)
  BY <1>1, Reference
<1>4. /\ Returned' /\ (NoErrors' => NoErrors)
      /\ Samples' = Samples /\ \A m \in Samples : out'[m] = out[m]
      /\ handler = "reraise" => ~NoErrors'
  <2>1. CASE handler = "reraise"
    <3>1. out' = Append(out, Error(i))
      BY <1>of, <2>1 DEF OpenFails, Return
    <3> QED
      BY <1>1, <1>of, <3>1, ErrorReturned DEF Settled
  <2>2. CASE handler # "reraise"
    <3>1. out' = out
      BY <2>2 DEF OpenFails
    <3> QED
      BY <1>1, <2>2, <3>1, NothingReturned DEF Settled
  <2> QED
    BY <2>1, <2>2
<1>5. Keyed(i) = {}
  BY <1>1 DEF Keyed, Readable
<1>6. Behind(f)'
  BY <1>1, <1>2, <1>4 DEF Behind
<1>7. AllTaken(f)'
  <2>1. \A k, j : Taken(k, j) => Taken(k, j)'
    BY <1>1, <1>4 DEF Taken
  <2>2. \A k \in 1..i : k \in 1..next \/ k = i
    BY <1>2, <1>of
  <2> QED
    BY <1>1, <1>3, <1>5, <2>1, <2>2 DEF AllTaken
<1>8. ReadOut(f)'
  BY <1>1, <1>3 DEF ReadOut
<1>9. Grouped(f)' /\ Flow(f)'
  BY <1>1, <1>2 DEF Grouped, Flow
<1>10. handler' = handler /\ handler \in {"continue", "stop", "reraise"}
  BY <1>1, ReaderAssumption DEF TypeOK, config
<1>11. Flags'
  BY <1>1, <1>2, <1>4, <1>10 DEF Flags
<1>12. NoneBroken'
  BY <1>4, <1>10 DEF NoneBroken
<1> QED
  BY <1>4, <1>6, <1>7, <1>8, <1>9, <1>11, <1>12 DEF Settled, Progress, Assembled

LEMMA Rests ==
  ASSUME TypeOK, ThreadInv, Settled, NEW f \in Nat, Progress(f), UNCHANGED vars
  PROVE  TypeOK' /\ ThreadInv' /\ Settled' /\ Progress(f)'
<1>1. /\ UNCHANGED <<config, thread>> /\ input' = input /\ handler' = handler
      /\ next' = next /\ current' = current /\ pending' = pending /\ exhausted' = exhausted
      /\ parser' = parser /\ sending' = sending /\ chan' = chan /\ group' = group
      /\ done' = done /\ consumer' = consumer /\ out' = out
  BY DEF vars, config, expand, thread
<1>2. TypeOK'
  BY <1>1 DEF TypeOK
<1>3. ThreadInv'
  <2>1. AtHeader' /\ InHand' /\ (Reading => Reading')
    BY <1>1, ThreadWaits DEF ThreadInv
  <2>2. AtEnd'
    BY <1>1, <2>1 DEF ThreadInv, AtEnd, Records
  <2>3. Attached'
    BY <1>1 DEF ThreadInv, Attached
  <2> QED
    BY <2>1, <2>2, <2>3 DEF ThreadInv
<1>4. Assembled(f)'
  BY <1>1, Stays DEF Progress
<1>5. Flow(f)'
  <2>1. \A i : Kept(i)' = Kept(i) /\ \A j : TrueName(i, j)' = TrueName(i, j)
    BY <1>1, Reference
  <2>2. InOrderFrom(f) => InOrderFrom(f)'
    BY <1>1, <2>1 DEF InOrderFrom
  <2>3. NoneSkipped(f) => NoneSkipped(f)'
    BY <1>1, <2>1 DEF NoneSkipped
  <2> QED
    BY <1>1, <2>2, <2>3 DEF Progress, Flow
<1>6. Returned' /\ (NoErrors' <=> NoErrors)
  BY <1>1, NothingReturned DEF Settled
<1>7. Flags'
  BY <1>1, <1>6 DEF Settled, Flags
<1>8. NoneBroken'
  BY <1>1, <1>6, Reference DEF Settled, NoneBroken
<1> QED
  BY <1>2, <1>3, <1>4, <1>5, <1>6, <1>7, <1>8 DEF Settled, Progress

-----------------------------------------------------------------------------
LEMMA Starting == Init => IInv
<1> SUFFICES ASSUME Init
             PROVE  IInv
  OBVIOUS
<1>1. input \in Inputs /\ input \in Seq(Source) /\ Len(input) \in Nat
  <2>1. input \in Inputs
    BY DEF Init
  <2>2. input \in Seq(Source)
    BY <2>1, ReaderAssumption
  <2> QED
    BY <2>1, <2>2
<1>2. TypeOK
  <2>1. Failed \in [index : Nat, name : Names]
    <3>1. (CHOOSE n \in Names : TRUE) \in Names
      BY ReaderAssumption
    <3> QED
      BY <3>1 DEF Failed
  <2>2. parser \in [pc : {"parse", "send", "gone"}, of : 0..Len(input), pos : Nat,
                    long : Seq(Names), pax : Seq(Names)]
    <3>1. <<>> \in Seq(Names) /\ 0 \in 0..Len(input)
      BY <1>1
    <3> QED
      BY <3>1 DEF Init
  <2>3. /\ chan \in Seq([index : Nat, name : Names]) /\ Len(chan) <= Readahead
        /\ group \in Seq(Item) /\ Len(group) <= 1 /\ out \in Seq(Item)
    <3>1. Readahead \in Nat
      BY ReaderAssumption
    <3>2. 0 <= Readahead
      BY <3>1
    <3>3. chan = <<>> /\ group = <<>> /\ out = <<>>
      BY DEF Init
    <3> QED
      BY <3>2, <3>3
  <2>4. next \in 0..Len(input) /\ current \in {0, next}
    BY <1>1 DEF Init
  <2> QED
    BY <2>1, <2>2, <2>3, <2>4 DEF Init, TypeOK
<1>3. Samples = {} /\ DOMAIN out = {}
  BY DEF Init, Samples
<1>4. ThreadInv
  BY DEF Init, ThreadInv, AtHeader, InHand, AtEnd, Attached
<1>5. Progress(0)
  <2>1. 1..next = {} /\ current = 0 /\ parser.of = 0 /\ group = <<>>
    BY DEF Init
  <2> QED
    BY <1>3, <2>1 DEF Progress, Flow, Assembled, Grouped, Behind, AllTaken, ReadOut
<1>6. Settled
  <2>1. 1..next = {}
    BY DEF Init
  <2>2. Flags /\ NoneBroken
    BY <2>1 DEF Init, Flags, NoneBroken
  <2>3. Returned
    BY <1>3 DEF Returned
  <2> QED
    BY <2>2, <2>3 DEF Settled
<1> QED
  BY <1>2, <1>4, <1>5, <1>6 DEF IInv

LEMMA Inductive == NamedOnce /\ IInv /\ [Next]_vars => NamedOnce' /\ IInv'
<1> SUFFICES ASSUME NamedOnce, IInv, [Next]_vars
             PROVE  NamedOnce' /\ IInv'
  OBVIOUS
<1> PICK f \in Nat : Progress(f)
  BY DEF IInv
<1>1. TypeOK /\ ThreadInv /\ Settled /\ Flow(f)
  BY DEF IInv, Progress
<1>2. CASE ParserStep
  <2>1. TypeOK' /\ ThreadInv'
    BY <1>1, <1>2, ThreadTypes, ThreadStep
  <2>2. Settled' /\ Progress(f)'
    BY <1>1, <1>2, ThreadGoesOn
  <2>3. UNCHANGED config
    BY <1>2 DEF ParserStep, Extend, PassOver, File, Bad, EndOfArchive, Send
  <2>4. NamedOnce'
    BY <2>3, Reference
  <2> QED
    BY <2>1, <2>2, <2>4 DEF IInv
<1>3. CASE Pull \/ PullStep \/ Drop
  <2>1. TypeOK' /\ ThreadInv'
    BY <1>1, <1>3, PullTypes, PullThread
  <2>2. UNCHANGED config
    BY <1>3 DEF Pull, PullStep, Drop, Finish, Boundary, Exhausted, PushNothing, PushFile,
      PushDuplicate, ReceiveError, ReceiveNone, OpenShard, OpenFails, NoMoreSources
  <2>3. NamedOnce'
    BY <2>2, Reference
  <2>4. Settled' /\ \E n \in Nat : Progress(n)'
    <3>1. CASE Pull \/ Exhausted \/ NoMoreSources
      BY <1>1, <3>1, Quiet
    <3>2. CASE Finish \/ Boundary
      <4>1. CASE group = <<>>
        BY <1>1, <3>2, <4>1, Quiet
      <4>2. CASE group # <<>>
        BY <1>1, <3>2, <4>2, TakesOut
      <4> QED
        BY <4>1, <4>2
    <3>3. CASE PushNothing
      BY <1>1, <3>3, PassesNothing
    <3>4. CASE PushFile
      BY <1>1, <3>4, TakesFile
    <3>5. CASE PushDuplicate
      BY <1>1, <3>5, PassesDuplicate
    <3>6. CASE ReceiveError \/ ReceiveNone
      BY <1>1, <3>6, Breaks
    <3>7. CASE OpenShard
      <4>1. Settled' /\ Progress(0)'
        BY <1>1, <3>7, Opens
      <4> QED
        BY <4>1
    <3>8. CASE OpenFails
      BY <1>1, <3>8, DoesNotOpen
    <3>9. CASE Drop
      BY <1>1, <3>9, Leaves
    <3> QED
      BY <1>3, <3>1, <3>2, <3>3, <3>4, <3>5, <3>6, <3>7, <3>8, <3>9 DEF PullStep
  <2> QED
    BY <2>1, <2>3, <2>4 DEF IInv
<1>4. CASE Dropped \/ UNCHANGED vars
  <2>1. UNCHANGED vars
    BY <1>4 DEF Dropped
  <2>2. TypeOK' /\ ThreadInv' /\ Settled' /\ Progress(f)'
    BY <1>1, <2>1, Rests
  <2>3. NamedOnce'
    BY <2>1, Reference DEF vars
  <2> QED
    BY <2>2, <2>3 DEF IInv
<1> QED
  BY <1>2, <1>3, <1>4 DEF Next

LEMMA Holds == NamedOnce /\ Spec => []IInv
<1>1. Init => IInv
  BY Starting
<1>2. NamedOnce /\ IInv /\ [Next]_vars => NamedOnce' /\ IInv'
  BY Inductive
<1> QED
  BY <1>1, <1>2, PTL DEF Spec

(* Samples are whole runs of one shard's files, in order, each once.  They *)
(* are whatever the sources hold and however the thread runs ahead.        *)
THEOREM RunsAreWhole == NamedOnce /\ Spec => []SamplesAreRuns
<1>1. IInv => SamplesAreRuns
  BY DEF IInv, Settled, Returned, SamplesAreRuns
<1> QED
  BY <1>1, Holds, PTL

(* A caller that reads to the end and is told of no error has had every    *)
(* file that belongs to a sample, out of archives of which none broke off. *)
THEOREM NoFileIsLost == NamedOnce /\ Spec => []NothingLost
<1>1. IInv => NothingLost
  <2> SUFFICES ASSUME IInv, consumer = "ended", handler # "stop", NoErrors,
                      NEW i \in DOMAIN input
               PROVE  /\ \A j \in Keyed(i) : j \in Firsts(i, RunOf(i, j)) =>
                           \E n \in Samples : out[n].of = i /\ j \in out[n].files
                      /\ handler = "reraise" =>
                           /\ input[i].opens
                           /\ \A j \in DOMAIN input[i].records : input[i].records[j].type = "bad" =>
                                j \notin Readable(i) /\
                                \E k \in 1..(j - 1) : input[i].records[k].type = "end"
    BY DEF NothingLost, NoErrors
  <2>1. TypeOK /\ Flags /\ NoneBroken
    BY DEF IInv, Settled
  <2>2. group = <<>> /\ current = 0 /\ next = Len(input)
    BY <2>1 DEF Flags
  <2>3. i \in 1..next /\ i # 0
    BY <2>1, <2>2, SourceIs
  <2> PICK f \in Nat : AllTaken(f) /\ ReadOut(f)
    BY DEF IInv, Progress, Assembled
  <2>4. ASSUME NEW j \in Keyed(i), j \in Firsts(i, RunOf(i, j))
        PROVE  \E n \in Samples : out[n].of = i /\ j \in out[n].files
    <3>1. i = parser.of => j <= f
      BY <2>2, <2>3 DEF ReadOut
    <3>2. Taken(i, j)
      BY <2>3, <2>4, <3>1 DEF AllTaken
    <3> QED
      BY <2>2, <3>2 DEF Taken
  <2>5. ASSUME handler = "reraise"
        PROVE  input[i].opens /\ Unbroken(i)
    BY <2>1, <2>2, <2>3, <2>5 DEF NoneBroken
  <2>6. ASSUME Unbroken(i), NEW j \in DOMAIN input[i].records, input[i].records[j].type = "bad"
        PROVE  /\ j \notin Readable(i)
               /\ \E k \in 1..(j - 1) : input[i].records[k].type = "end"
    <3>1. \E k \in 1..(j - 1) : input[i].records[k].type = "end"
      BY <2>6 DEF Unbroken
    <3>2. j \in Nat \ {0}
      BY <2>1, RecordsAre
    <3>3. j \in 1..j
      BY <3>2
    <3>4. j \notin Readable(i)
      BY <2>6, <3>3 DEF Readable
    <3> QED
      BY <3>1, <3>4
  <2> QED
    BY <2>4, <2>5, <2>6
<1> QED
  BY <1>1, Holds, PTL
=============================================================================
