--------------------------- MODULE FileCacheProofs ---------------------------
(***************************************************************************)
(* Any number of workers and URLs, any budget and any number of attempts,  *)
(* faults and deaths: what open() returns is a complete transfer of a URL  *)
(* with the cache name of the one asked for, races between workers cost    *)
(* nobody an attempt, a body that is not an archive is found, and the      *)
(* directory stays bounded.                                                *)
(*                                                                         *)
(* The directory is a sequence only for the ages of its files.  What the   *)
(* operations do to it is said first of the set of its files, `Content`,   *)
(* and the rest of the proof speaks of that set.                           *)
(***************************************************************************)
EXTENDS FileCache, FiniteSetTheorems, TLAPS

Content(s) == {s[i] : i \in DOMAIN s}
Distinct(s) == \A i, j \in DOMAIN s : s[i].name = s[j].name => i = j

(* What lies under a final name is whole, and of a URL with that name; the *)
(* temporary file that a worker is about to rename is whole and of its own *)
(* URL.                                                                    *)
FinalIsWhole ==
  \A f \in Content(files), u \in Urls : f.name = Dest(u) => f.whole /\ Dest(f.of) = Dest(u)

CopiedIsWhole ==
  \A w \in Workers, f \in Content(files) :
    pc[w] = "rename" /\ f.name = Temp(w) => f.whole /\ f.of = url[w]

GotIsWhole ==
  \A w \in Workers : \A i \in DOMAIN got[w] : got[w][i].whole /\ Dest(got[w][i].of) = Dest(url[w])

(* A worker that opens has an attempt left, and one whose file has gone    *)
(* has an excuse left for the failure that awaits it.                      *)
AttemptLeft == \A w \in Workers : Opening(w) => failures[w] < Retries

Lost(w) ==
  \/ pc[w] \in {"copy", "rename"} /\ \A f \in Content(files) : f.name # Temp(w)
  \/ pc[w] \in {"validate", "handle"} /\ \A f \in Content(files) : f.name # Dest(url[w])

LossIsExcused == \A w \in Workers : Lost(w) => failures[w] < excuses[w]

IInv ==
  /\ TypeOK
  /\ FinalIsWhole
  /\ CopiedIsWhole
  /\ GotIsWhole
  /\ AttemptLeft
  /\ LossIsExcused
  /\ RacesDoNotFail

-----------------------------------------------------------------------------
(* What the operations on the directory do to its files.                   *)

Directory == files \in Seq(File) /\ Distinct(files)

LEMMA ExistsContent ==
  \A n : Exists(n) <=> \E f \in Content(files) : f.name = n
BY DEF Exists, Content

LEMMA LookupContent ==
  ASSUME Directory, NEW n, Exists(n)
  PROVE  Lookup(n) \in Content(files) /\ Lookup(n).name = n
BY DEF Lookup, Exists, Content

LEMMA WithoutContent ==
  ASSUME Directory, NEW n
  PROVE  /\ Without(n) \in Seq(File)
         /\ Distinct(Without(n))
         /\ Content(Without(n)) = {f \in Content(files) : f.name # n}
<1>1. CASE ~Exists(n)
  BY <1>1 DEF Without, Exists, Directory, Content
<1>2. CASE Exists(n)
  <2> DEFINE at == CHOOSE i \in DOMAIN files : files[i].name = n
             new == [i \in 1..(Len(files) - 1) |-> IF i < at THEN files[i] ELSE files[i + 1]]
  <2>1. at \in DOMAIN files /\ files[at].name = n
    BY <1>2 DEF Exists
  <2>2. Without(n) = new
    BY <1>2 DEF Without
  <2>3. Len(files) \in Nat /\ DOMAIN files = 1..Len(files) /\ at \in 1..Len(files)
    BY <2>1 DEF Directory
  <2> HIDE DEF at
  <2>4. \A i \in 1..(Len(files) - 1) :
          LET j == IF i < at THEN i ELSE i + 1
          IN  j \in DOMAIN files /\ j # at /\ new[i] = files[j]
    BY <2>3
  <2>5. new \in Seq(File)
    <3>1. \A i \in 1..(Len(files) - 1) : new[i] \in File
      BY <2>4 DEF Directory
    <3>2. new \in [1..(Len(files) - 1) -> File]
      BY <3>1
    <3>3. Len(files) - 1 \in Nat
      BY <2>3
    <3> QED
      BY <3>2, <3>3 DEF Seq
  <2>6. DOMAIN new = 1..(Len(files) - 1)
    OBVIOUS
  <2>7. Distinct(new)
    <3> SUFFICES ASSUME NEW i \in 1..(Len(files) - 1), NEW j \in 1..(Len(files) - 1),
                        new[i].name = new[j].name
                 PROVE  i = j
      BY <2>6 DEF Distinct
    <3> DEFINE fi == IF i < at THEN i ELSE i + 1
               fj == IF j < at THEN j ELSE j + 1
    <3>1. /\ fi \in DOMAIN files /\ new[i] = files[fi]
          /\ fj \in DOMAIN files /\ new[j] = files[fj]
      BY <2>4
    <3>2. fi = fj
      BY <3>1 DEF Directory, Distinct
    <3> QED
      BY <3>2, <2>3
  <2>8. Content(new) \subseteq {f \in Content(files) : f.name # n}
    BY <2>1, <2>4, <2>6 DEF Content, Directory, Distinct
  <2>9. {f \in Content(files) : f.name # n} \subseteq Content(new)
    <3> SUFFICES ASSUME NEW j \in DOMAIN files, files[j].name # n
                 PROVE  files[j] \in Content(new)
      BY DEF Content
    <3> DEFINE i == IF j < at THEN j ELSE j - 1
    <3>1. i \in 1..(Len(files) - 1) /\ new[i] = files[j]
      BY <2>1, <2>3
    <3> QED
      BY <3>1, <2>6 DEF Content
  <2> QED
    BY <2>2, <2>5, <2>7, <2>8, <2>9
<1> QED
  BY <1>1, <1>2

LEMMA ChangedContent ==
  ASSUME Directory, NEW n, NEW file \in File, file.name = n
  PROVE  /\ Changed(n, file) \in Seq(File)
         /\ Distinct(Changed(n, file))
         /\ \A f \in Content(Changed(n, file)) :
              (f = file /\ Exists(n)) \/ (f \in Content(files) /\ f.name # n)
         /\ \A f \in Content(files) :
              IF f.name = n THEN file \in Content(Changed(n, file))
              ELSE f \in Content(Changed(n, file))
<1> DEFINE new == Changed(n, file)
<1>1. /\ DOMAIN new = DOMAIN files
      /\ \A i \in DOMAIN files : new[i] = IF files[i].name = n THEN file ELSE files[i]
  BY DEF Changed
<1>2. new \in Seq(File)
  BY DEF Changed, Directory
<1>3. \A i \in DOMAIN files : new[i].name = files[i].name
  BY <1>1
<1> HIDE DEF new
<1>4. Distinct(new)
  BY <1>1, <1>3 DEF Distinct, Directory
<1>5. \A f \in Content(new) : (f = file /\ Exists(n)) \/ (f \in Content(files) /\ f.name # n)
  <2> SUFFICES ASSUME NEW i \in DOMAIN files
               PROVE  (new[i] = file /\ Exists(n)) \/ (new[i] \in Content(files) /\ new[i].name # n)
    BY <1>1 DEF Content
  <2>1. files[i].name = n => Exists(n)
    BY DEF Exists
  <2>2. files[i] \in Content(files)
    BY DEF Content
  <2>3. CASE files[i].name = n
    <3>1. new[i] = file
      BY <1>1, <2>3
    <3>2. Exists(n)
      BY <2>1, <2>3
    <3> QED
      BY <3>1, <3>2
  <2>4. CASE files[i].name # n
    BY <1>1, <2>2, <2>4
  <2> QED
    BY <2>3, <2>4
<1>6. \A f \in Content(files) :
        IF f.name = n THEN file \in Content(new) ELSE f \in Content(new)
  BY <1>1 DEF Content
<1> QED
  BY <1>2, <1>4, <1>5, <1>6 DEF new

LEMMA AppendContent ==
  ASSUME Directory, NEW file \in File, ~Exists(file.name)
  PROVE  /\ Append(files, file) \in Seq(File)
         /\ Distinct(Append(files, file))
         /\ Content(Append(files, file)) = Content(files) \cup {file}
<1> DEFINE new == Append(files, file)
<1>1. /\ Len(files) \in Nat /\ DOMAIN files = 1..Len(files)
      /\ DOMAIN new = 1..(Len(files) + 1)
      /\ \A i \in 1..Len(files) : new[i] = files[i]
      /\ new[Len(files) + 1] = file
      /\ new \in Seq(File)
  BY DEF Directory
<1> HIDE DEF new
<1>2. \A i \in 1..Len(files) : files[i].name # file.name
  BY <1>1 DEF Exists
<1>3. \A i \in DOMAIN new : i \in 1..Len(files) \/ i = Len(files) + 1
  BY <1>1
<1>4. Distinct(new)
  BY <1>1, <1>2, <1>3 DEF Distinct, Directory
<1>5. Content(new) = Content(files) \cup {file}
  BY <1>1, <1>3 DEF Content
<1> QED
  BY <1>1, <1>4, <1>5 DEF new

LEMMA RenamedContent ==
  ASSUME Directory, NEW from \in Names, NEW to \in Names, from # to
  PROVE  /\ Renamed(from, to) \in Seq(File)
         /\ Distinct(Renamed(from, to))
         /\ Content(Renamed(from, to)) =
              {f \in Content(files) : f.name \notin {from, to}}
                \cup {[f EXCEPT !.name = to] : f \in {g \in Content(files) : g.name = from}}
<1> DEFINE others == Without(to)
           new == Renamed(from, to)
<1>1. /\ others \in Seq(File)
      /\ Distinct(others)
      /\ Content(others) = {f \in Content(files) : f.name # to}
  BY WithoutContent
<1>2. /\ DOMAIN new = DOMAIN others
      /\ \A i \in DOMAIN others :
           new[i] = IF others[i].name = from THEN [others[i] EXCEPT !.name = to] ELSE others[i]
      /\ new = [i \in DOMAIN others |->
                 IF others[i].name = from THEN [others[i] EXCEPT !.name = to] ELSE others[i]]
  BY DEF Renamed
<1> HIDE DEF others, new
<1>3. \A i \in DOMAIN others : others[i] \in File /\ others[i].name # to
  BY <1>1 DEF Content
<1>4. \A f \in File : /\ [f EXCEPT !.name = to] \in File
                      /\ [f EXCEPT !.name = to].name = to
  BY DEF File
<1>5. \A i \in DOMAIN others : new[i] \in File
  BY <1>2, <1>3, <1>4
<1>6. new \in Seq(File)
  BY <1>1, <1>2, <1>5
<1>7. Distinct(new)
  BY <1>1, <1>2, <1>3, <1>4 DEF Distinct
<1>8. Content(new) = {new[i] : i \in DOMAIN others}
  BY <1>2 DEF Content
<1>9. \A i \in DOMAIN others : others[i] \in Content(files)
  BY <1>1 DEF Content
<1>10. \A f \in Content(files) : f.name # to => \E i \in DOMAIN others : others[i] = f
  BY <1>1 DEF Content
<1>11. Content(new) \subseteq
         {f \in Content(files) : f.name \notin {from, to}}
           \cup {[f EXCEPT !.name = to] : f \in {g \in Content(files) : g.name = from}}
  BY <1>2, <1>3, <1>8, <1>9
<1>12. {f \in Content(files) : f.name \notin {from, to}} \subseteq Content(new)
  BY <1>2, <1>8, <1>10
<1>13. {[f EXCEPT !.name = to] : f \in {g \in Content(files) : g.name = from}} \subseteq Content(new)
  BY <1>2, <1>8, <1>10
<1> QED
  BY <1>6, <1>7, <1>11, <1>12, <1>13 DEF new

-----------------------------------------------------------------------------
(* Types.                                                                  *)

LEMMA NamesApart ==
  /\ \A w, x : Temp(w) = Temp(x) => w = x
  /\ \A u, w : Dest(u) # Temp(w)
  /\ \A u, n : Dest(u) # Orphan(n)
  /\ \A w, n : Temp(w) # Orphan(n)
  /\ \A u \in Urls : Dest(u) \in Names
  /\ \A w \in Workers : Temp(w) \in Names
  /\ \A n \in 1..MaxCrashes : Orphan(n) \in Names
BY DEF Dest, Temp, Orphan, Names

Sites == {"idle", "lookup", "cleanup", "evict", "create", "copy",
          "rename", "validate", "reject", "handle", "opened", "failed"}

(* TypeOK is what the directory is, and what the rest is. *)
Locals ==
  /\ throttled \in BOOLEAN
  /\ pc \in [Workers -> Sites]
  /\ url \in [Workers -> Urls]
  /\ failures \in [Workers -> 0..Retries]
  /\ listing \in [Workers -> Seq(Names)] /\ total \in [Workers -> Nat]
  /\ got \in [Workers -> Seq(File)]
  /\ faults \in 0..MaxFaults /\ crashes \in 0..MaxCrashes
  /\ excuses \in [Workers -> 0..Retries]

LEMMA TypeParts == TypeOK <=> Directory /\ Locals
BY DEF TypeOK, Directory, Distinct, Locals, Sites

LEMMA TypePartsNext == TypeOK' <=> Directory' /\ Locals'
BY DEF TypeOK, Directory, Distinct, Locals, Sites

(* Another attempt can only fail while one is left. *)
LEMMA FailTypes ==
  ASSUME Locals, NEW w \in Workers, failures[w] < Retries, Fail(w)
  PROVE  /\ pc' \in [Workers -> Sites]
         /\ failures' \in [Workers -> 0..Retries]
<1>1. Retries \in Nat /\ failures[w] \in 0..Retries
  BY CacheAssumption DEF Locals
<1>2. failures[w] + 1 \in 0..Retries
  BY <1>1
<1> QED
  BY <1>2 DEF Fail, Goto, Locals, Sites

LEMMA ExcuseTypes ==
  ASSUME Locals, NEW S, Excuse(S)
  PROVE  excuses' \in [Workers -> 0..Retries]
<1>1. \A w \in Workers : excuses[w] \in 0..Retries /\ Retries \in Nat
  BY CacheAssumption DEF Locals
<1>2. \A w \in Workers :
        (IF w \in S /\ excuses[w] < Retries THEN excuses[w] + 1 ELSE excuses[w]) \in 0..Retries
  BY <1>1
<1> QED
  BY <1>2 DEF Excuse

LEMMA TypeStep ==
  TypeOK /\ AttemptLeft /\ [Next]_vars => TypeOK'
<1> SUFFICES ASSUME Directory, Locals, AttemptLeft, [Next]_vars
             PROVE  Directory' /\ Locals'
  BY TypeParts, TypePartsNext
<1> USE CacheAssumption
<1>1. ASSUME NEW w \in Workers, Open(w)
      PROVE  Directory' /\ Locals'
  BY <1>1 DEF Open, Goto, Directory, Distinct, Locals, Sites
<1>2. ASSUME NEW w \in Workers, LookUp(w) \/ Skip(w)
      PROVE  Directory' /\ Locals'
  BY <1>2 DEF LookUp, Skip, Goto, Directory, Distinct, Locals, Sites, local
<1>3. ASSUME NEW w \in Workers, Collect(w)
      PROVE  Directory' /\ Locals'
  <2>1. [i \in DOMAIN files |-> files[i].name] \in Seq(Names)
    <3>1. \A i \in DOMAIN files : files[i].name \in Names
      <4>1. \A i \in DOMAIN files : files[i] \in File
        BY DEF Directory
      <4> QED
        BY <4>1 DEF File
    <3>2. [i \in 1..Len(files) |-> files[i].name] \in [1..Len(files) -> Names]
      BY <3>1 DEF Directory
    <3> QED
      BY <3>2 DEF Directory, Seq
  <2>2. Len(files) \in Nat
    BY DEF Directory
  <2> QED
    BY <1>3, <2>1, <2>2 DEF Collect, Goto, Directory, Distinct, Locals, Sites
<1>4. ASSUME NEW w \in Workers, Evict(w)
      PROVE  Directory' /\ Locals'
  <2> DEFINE name == Head(listing[w])
  <2>1. total[w] \in Nat /\ total[w] > Budget /\ Budget \in Nat
    BY <1>4 DEF Evict, Locals
  <2>2. total[w] - 1 \in Nat
    BY <2>1
  <2>3. Tail(listing[w]) \in Seq(Names)
    BY <1>4 DEF Evict, Locals
  <2>4. excuses' \in [Workers -> 0..Retries]
    BY <1>4, ExcuseTypes DEF Evict, Locals
  <2>5. Directory'
    <3>1. CASE Exists(name)
      BY <1>4, <3>1, WithoutContent DEF Evict, Directory, Distinct
    <3>2. CASE ~Exists(name)
      BY <1>4, <3>2 DEF Evict, Directory, Distinct
    <3> QED
      BY <3>1, <3>2
  <2>6. total' \in [Workers -> Nat] /\ listing' \in [Workers -> Seq(Names)]
    BY <1>4, <2>2, <2>3 DEF Evict, Locals
  <2> QED
    BY <1>4, <2>4, <2>5, <2>6 DEF Evict, Locals
<1>5. ASSUME NEW w \in Workers, Cleaned(w)
      PROVE  Directory' /\ Locals'
  BY <1>5 DEF Cleaned, Goto, Directory, Distinct, Locals, Sites
<1>6. ASSUME NEW w \in Workers, Create(w)
      PROVE  Directory' /\ Locals'
  <2> DEFINE new == [name |-> Temp(w), of |-> url[w], archive |-> TRUE, whole |-> FALSE]
  <2>1. new \in File /\ new.name = Temp(w)
    BY NamesApart DEF File, Locals
  <2>2. Directory'
    <3>1. CASE Exists(Temp(w))
      <4>1. files' = Changed(Temp(w), new)
        BY <1>6, <3>1 DEF Create
      <4> HIDE DEF new
      <4> QED
        BY <2>1, <4>1, ChangedContent DEF Directory, Distinct
    <3>2. CASE ~Exists(Temp(w))
      BY <1>6, <2>1, <3>2, AppendContent DEF Create, Directory, Distinct
    <3> QED
      BY <3>1, <3>2
  <2> QED
    BY <1>6, <2>2 DEF Create, Goto, Locals, Sites, local
<1>7. ASSUME NEW w \in Workers, Copy(w)
      PROVE  Directory' /\ Locals'
  <2> PICK archive \in BOOLEAN :
        /\ archive \/ faults < MaxFaults
        /\ faults' = IF archive THEN faults ELSE faults + 1
        /\ IF archive THEN UNCHANGED excuses ELSE Excuse(Workers)
        /\ files' = Changed(Temp(w), [name |-> Temp(w), of |-> url[w],
                                      archive |-> archive, whole |-> TRUE])
    BY <1>7 DEF Copy
  <2> DEFINE new == [name |-> Temp(w), of |-> url[w], archive |-> archive, whole |-> TRUE]
  <2>1. new \in File /\ new.name = Temp(w)
    BY NamesApart DEF File, Locals
  <2>2. Directory'
    <3>1. files' = Changed(Temp(w), new)
      OBVIOUS
    <3> HIDE DEF new
    <3>2. Changed(Temp(w), new) \in Seq(File) /\ Distinct(Changed(Temp(w), new))
      BY <2>1, ChangedContent
    <3> QED
      BY <3>1, <3>2 DEF Directory, Distinct
  <2>3. faults' \in 0..MaxFaults
    BY DEF Locals
  <2>4. excuses' \in [Workers -> 0..Retries]
    BY ExcuseTypes DEF Locals
  <2> QED
    BY <1>7, <2>2, <2>3, <2>4 DEF Copy, Goto, Locals, Sites
<1>8. ASSUME NEW w \in Workers, CopyFails(w)
      PROVE  Directory' /\ Locals'
  <2>1. Directory'
    BY <1>8, WithoutContent DEF CopyFails, Directory, Distinct
  <2>2. failures[w] < Retries
    BY <1>8 DEF CopyFails, AttemptLeft, Opening
  <2>3. faults' \in 0..MaxFaults
    BY <1>8 DEF CopyFails, Locals
  <2> QED
    BY <1>8, <2>1, <2>2, <2>3, FailTypes, ExcuseTypes DEF CopyFails, Locals
<1>9. ASSUME NEW w \in Workers, Rename(w)
      PROVE  Directory' /\ Locals'
  <2>1. failures[w] < Retries
    BY <1>9 DEF Rename, AttemptLeft, Opening
  <2>2. CASE Exists(Temp(w))
    <3>1. Directory'
      BY <1>9, <2>2, NamesApart, RenamedContent DEF Rename, Directory, Distinct, Locals
    <3> QED
      BY <1>9, <2>2, <3>1 DEF Rename, Goto, Locals, Sites
  <2>3. CASE ~Exists(Temp(w))
    BY <1>9, <2>1, <2>3, FailTypes DEF Rename, Directory, Distinct, Locals
  <2> QED
    BY <2>2, <2>3
<1>10. ASSUME NEW w \in Workers, Check(w)
       PROVE  Directory' /\ Locals'
  <2>1. failures[w] < Retries
    BY <1>10 DEF Check, AttemptLeft, Opening
  <2>2. CASE Exists(Dest(url[w]))
    BY <1>10, <2>2 DEF Check, Goto, Directory, Distinct, Locals, Sites
  <2>3. CASE ~Exists(Dest(url[w]))
    BY <1>10, <2>1, <2>3, FailTypes DEF Check, Directory, Distinct, Locals
  <2> QED
    BY <2>2, <2>3
<1>11. ASSUME NEW w \in Workers, Reject(w)
       PROVE  Directory' /\ Locals'
  <2>1. Directory'
    BY <1>11, WithoutContent DEF Reject, Directory, Distinct
  <2>2. failures[w] < Retries
    BY <1>11 DEF Reject, AttemptLeft, Opening
  <2> QED
    BY <1>11, <2>1, <2>2, FailTypes, ExcuseTypes DEF Reject, Locals
<1>12. ASSUME NEW w \in Workers, Handle(w)
       PROVE  Directory' /\ Locals'
  <2>1. failures[w] < Retries
    BY <1>12 DEF Handle, AttemptLeft, Opening
  <2>2. CASE Exists(Dest(url[w]))
    <3>1. Lookup(Dest(url[w])) \in File
      BY <2>2, LookupContent DEF Content, Directory
    <3>2. <<Lookup(Dest(url[w]))>> \in Seq(File)
      BY <3>1
    <3>3. got' \in [Workers -> Seq(File)]
      BY <1>12, <2>2, <3>2 DEF Handle, Locals
    <3> QED
      BY <1>12, <2>2, <3>3 DEF Handle, Goto, Directory, Distinct, Locals, Sites
  <2>3. CASE ~Exists(Dest(url[w]))
    BY <1>12, <2>1, <2>3, FailTypes DEF Handle, Directory, Distinct, Locals
  <2> QED
    BY <2>2, <2>3
<1>13. ASSUME NEW w \in Workers, Crash(w)
       PROVE  Directory' /\ Locals'
  <2>1. crashes + 1 \in 1..MaxCrashes
    BY <1>13 DEF Crash, Locals
  <2>2. Directory'
    BY <1>13, <2>1, NamesApart, RenamedContent DEF Crash, Directory, Distinct
  <2> QED
    BY <1>13, <2>1, <2>2 DEF Crash, Goto, Locals, Sites
<1>14. CASE UNCHANGED vars
  BY <1>14 DEF vars, Directory, Distinct, Locals
<1> QED
  BY <1>1, <1>2, <1>3, <1>4, <1>5, <1>6, <1>7, <1>8, <1>9, <1>10, <1>11, <1>12, <1>13, <1>14
  DEF Next, OpenStep

-----------------------------------------------------------------------------
(* What is whole.                                                          *)

(* Nothing can break where no file appears and no worker comes to rename.  *)
LEMMA KeepsWhole ==
  ASSUME FinalIsWhole, CopiedIsWhole,
         \A f \in Content(files') : f \in Content(files),
         \A w \in Workers : pc'[w] = "rename" => pc[w] = "rename" /\ url'[w] = url[w]
  PROVE  FinalIsWhole' /\ CopiedIsWhole'
<1>1. FinalIsWhole'
  BY DEF FinalIsWhole, Dest
<1>2. CopiedIsWhole'
  BY DEF CopiedIsWhole, Temp
<1> QED
  BY <1>1, <1>2

LEMMA WholeStep ==
  TypeOK /\ FinalIsWhole /\ CopiedIsWhole /\ [Next]_vars => FinalIsWhole' /\ CopiedIsWhole'
<1> SUFFICES ASSUME Directory, Locals, FinalIsWhole, CopiedIsWhole, [Next]_vars
             PROVE  FinalIsWhole' /\ CopiedIsWhole'
  BY TypeParts
<1>1. ASSUME NEW w \in Workers,
             \/ Open(w) \/ LookUp(w) \/ Skip(w) \/ Collect(w) \/ Cleaned(w)
             \/ Check(w) \/ Handle(w)
      PROVE  FinalIsWhole' /\ CopiedIsWhole'
  <2>1. files' = files
    BY <1>1 DEF Open, LookUp, Skip, Collect, Cleaned, Check, Handle
  <2>2. \A x \in Workers : pc'[x] = "rename" => pc[x] = "rename" /\ url'[x] = url[x]
    BY <1>1 DEF Open, LookUp, Skip, Collect, Cleaned, Check, Handle, Fail, Goto, local, Locals
  <2> QED
    BY <2>1, <2>2, KeepsWhole
<1>2. ASSUME NEW w \in Workers, Evict(w)
      PROVE  FinalIsWhole' /\ CopiedIsWhole'
  <2>1. \A f \in Content(files') : f \in Content(files)
    BY <1>2, WithoutContent DEF Evict
  <2>2. \A x \in Workers : pc'[x] = "rename" => pc[x] = "rename" /\ url'[x] = url[x]
    BY <1>2 DEF Evict
  <2> QED
    BY <2>1, <2>2, KeepsWhole
<1>3. ASSUME NEW w \in Workers, CopyFails(w) \/ Reject(w)
      PROVE  FinalIsWhole' /\ CopiedIsWhole'
  <2>1. \A f \in Content(files') : f \in Content(files)
    BY <1>3, WithoutContent DEF CopyFails, Reject
  <2>2. \A x \in Workers : pc'[x] = "rename" => pc[x] = "rename" /\ url'[x] = url[x]
    BY <1>3 DEF CopyFails, Reject, Fail, Goto, Locals
  <2> QED
    BY <2>1, <2>2, KeepsWhole
<1>4. ASSUME NEW w \in Workers, Create(w)
      PROVE  FinalIsWhole' /\ CopiedIsWhole'
  <2> DEFINE new == [name |-> Temp(w), of |-> url[w], archive |-> TRUE, whole |-> FALSE]
  <2>1. new \in File /\ new.name = Temp(w)
    BY NamesApart DEF File, Locals
  <2>2. files' = IF Exists(Temp(w)) THEN Changed(Temp(w), new) ELSE Append(files, new)
    BY <1>4 DEF Create
  <2> HIDE DEF new
  <2>3. \A f \in Content(files') : f = new \/ f \in Content(files)
    BY <2>1, <2>2, ChangedContent, AppendContent
  <2>4. /\ url' = url
        /\ pc'[w] = "copy"
        /\ \A x \in Workers \ {w} : pc'[x] = pc[x]
    BY <1>4 DEF Create, Goto, Locals, local
  <2>5. FinalIsWhole'
    BY <2>1, <2>3, NamesApart DEF FinalIsWhole, Dest, Temp
  <2>6. CopiedIsWhole'
    BY <2>1, <2>3, <2>4, NamesApart DEF CopiedIsWhole, Temp
  <2> QED
    BY <2>5, <2>6
<1>5. ASSUME NEW w \in Workers, Copy(w)
      PROVE  FinalIsWhole' /\ CopiedIsWhole'
  <2> PICK archive \in BOOLEAN :
        files' = Changed(Temp(w), [name |-> Temp(w), of |-> url[w],
                                   archive |-> archive, whole |-> TRUE])
    BY <1>5 DEF Copy
  <2> DEFINE new == [name |-> Temp(w), of |-> url[w], archive |-> archive, whole |-> TRUE]
  <2>1. new \in File /\ new.name = Temp(w) /\ new.whole /\ new.of = url[w]
    BY NamesApart DEF File, Locals
  <2>2. files' = Changed(Temp(w), new)
    OBVIOUS
  <2> HIDE DEF new
  <2>3. \A f \in Content(files') : f = new \/ (f \in Content(files) /\ f.name # Temp(w))
    BY <2>1, <2>2, ChangedContent
  <2>4. url' = url /\ \A x \in Workers \ {w} : pc'[x] = pc[x]
    BY <1>5 DEF Copy, Goto, Locals
  <2>5. FinalIsWhole'
    BY <2>1, <2>3, NamesApart DEF FinalIsWhole, Dest, Temp
  <2>6. CopiedIsWhole'
    <3>1. ASSUME NEW x \in Workers, NEW f \in Content(files'),
                 pc'[x] = "rename", f.name = Temp(x)
          PROVE  f.whole /\ f.of = url[x]
      <4>1. CASE x = w
        BY <2>1, <2>3, <3>1, <4>1
      <4>2. CASE x # w
        <5>1. f.name # new.name
          BY <2>1, <3>1, <4>2, NamesApart
        <5>2. f \in Content(files) /\ pc[x] = "rename"
          BY <2>3, <2>4, <3>1, <4>2, <5>1
        <5> QED
          BY <3>1, <5>2 DEF CopiedIsWhole
      <4> QED
        BY <4>1, <4>2
    <3> QED
      BY <2>4, <3>1 DEF CopiedIsWhole, Temp
  <2> QED
    BY <2>5, <2>6
<1>6. ASSUME NEW w \in Workers, Rename(w)
      PROVE  FinalIsWhole' /\ CopiedIsWhole'
  <2> DEFINE dest == Dest(url[w])
  <2>1. /\ url' = url
        /\ pc[w] = "rename" /\ pc'[w] # "rename"
        /\ \A x \in Workers \ {w} : pc'[x] = pc[x]
    BY <1>6 DEF Rename, Fail, Goto, Locals
  <2>2. CASE Exists(Temp(w))
    <3>1. \A f \in Content(files') :
            \/ f \in Content(files) /\ f.name \notin {Temp(w), dest}
            \/ \E g \in Content(files) : g.name = Temp(w) /\ f = [g EXCEPT !.name = dest]
      BY <1>6, <2>2, RenamedContent, NamesApart DEF Rename, Locals
    <3>2. \A g \in Content(files) : g.name = Temp(w) => g.whole /\ g.of = url[w] /\ g \in File
      BY <2>1 DEF CopiedIsWhole, Content, Directory
    <3>3. \A f \in Content(files') :
            \/ f \in Content(files)
            \/ f.name = dest /\ f.whole /\ f.of = url[w]
      BY <3>1, <3>2 DEF File
    <3>4. FinalIsWhole'
      BY <3>3, NamesApart DEF FinalIsWhole, Dest
    <3>5. ASSUME NEW x \in Workers, NEW f \in Content(files'),
                 pc'[x] = "rename", f.name = Temp(x)
          PROVE  f.whole /\ f.of = url[x]
      <4>1. x # w /\ pc[x] = "rename"
        BY <2>1, <3>5
      <4>2. f \in Content(files)
        BY <3>3, <3>5, NamesApart
      <4> QED
        BY <3>5, <4>1, <4>2 DEF CopiedIsWhole
    <3>6. CopiedIsWhole'
      BY <2>1, <3>5 DEF CopiedIsWhole, Temp
    <3> QED
      BY <3>4, <3>6
  <2>3. CASE ~Exists(Temp(w))
    BY <1>6, <2>1, <2>3, KeepsWhole DEF Rename
  <2> QED
    BY <2>2, <2>3
<1>7. ASSUME NEW w \in Workers, Crash(w)
      PROVE  FinalIsWhole' /\ CopiedIsWhole'
  <2> DEFINE orphan == Orphan(crashes + 1)
  <2>1. orphan \in Names /\ orphan # Temp(w) /\ Temp(w) \in Names
    BY <1>7, NamesApart, CacheAssumption DEF Crash, Locals
  <2>2. \A f \in Content(files') :
          \/ f \in Content(files)
          \/ \E g \in Content(files) : f = [g EXCEPT !.name = orphan]
    BY <1>7, <2>1, RenamedContent DEF Crash
  <2>3. \A g \in Content(files) : g \in File
    BY DEF Content, Directory
  <2>4. \A f \in Content(files') : f \in Content(files) \/ f.name = orphan
    BY <2>2, <2>3 DEF File
  <2>5. /\ url' = url /\ pc'[w] = "idle"
        /\ \A x \in Workers \ {w} : pc'[x] = pc[x]
    BY <1>7 DEF Crash, Goto, Locals
  <2>6. FinalIsWhole'
    BY <2>4, NamesApart DEF FinalIsWhole, Dest
  <2>7. ASSUME NEW x \in Workers, NEW f \in Content(files'),
               pc'[x] = "rename", f.name = Temp(x)
        PROVE  f.whole /\ f.of = url[x]
    <3>1. pc[x] = "rename"
      BY <2>5, <2>7
    <3>2. f \in Content(files)
      BY <2>4, <2>7, NamesApart
    <3> QED
      BY <2>7, <3>1, <3>2 DEF CopiedIsWhole
  <2>8. CopiedIsWhole'
    BY <2>5, <2>7 DEF CopiedIsWhole, Temp
  <2> QED
    BY <2>6, <2>8
<1>8. CASE UNCHANGED vars
  BY <1>8, KeepsWhole DEF vars
<1> QED
  BY <1>1, <1>2, <1>3, <1>4, <1>5, <1>6, <1>7, <1>8 DEF Next, OpenStep

LEMMA GotStep ==
  TypeOK /\ FinalIsWhole /\ GotIsWhole /\ [Next]_vars => GotIsWhole'
<1> SUFFICES ASSUME Directory, Locals, FinalIsWhole, GotIsWhole, [Next]_vars
             PROVE  GotIsWhole'
  BY TypeParts
<1>1. ASSUME NEW w \in Workers, Open(w)
      PROVE  GotIsWhole'
  BY <1>1 DEF Open, GotIsWhole, Locals
<1>2. ASSUME NEW w \in Workers, Handle(w)
      PROVE  GotIsWhole'
  <2> DEFINE dest == Dest(url[w])
             file == Lookup(dest)
  <2>1. CASE Exists(dest)
    <3>1. file.whole /\ Dest(file.of) = dest
      BY <2>1, LookupContent DEF FinalIsWhole, Locals
    <3>2. url' = url /\ got' = [got EXCEPT ![w] = <<file>>]
      BY <1>2, <2>1 DEF Handle
    <3> HIDE DEF file
    <3>3. \A i \in DOMAIN <<file>> : <<file>>[i] = file
      OBVIOUS
    <3> QED
      BY <3>1, <3>2, <3>3 DEF GotIsWhole, Locals
  <2>2. CASE ~Exists(dest)
    BY <1>2, <2>2 DEF Handle, GotIsWhole
  <2> QED
    BY <2>1, <2>2
<1>3. ASSUME got' = got /\ url' = url
      PROVE  GotIsWhole'
  BY <1>3 DEF GotIsWhole
<1> QED
  BY <1>1, <1>2, <1>3 DEF Next, OpenStep, LookUp, Skip, Collect, Evict, Cleaned, Create, Copy,
     CopyFails, Rename, Check, Reject, Crash, local, vars

-----------------------------------------------------------------------------
(* Attempts and excuses.                                                   *)

LEMMA FailLeaves ==
  ASSUME Locals, AttemptLeft, NEW w \in Workers, Opening(w), Fail(w)
  PROVE  /\ failures'[w] = failures[w] + 1 /\ failures[w] + 1 <= Retries
         /\ pc'[w] \in {"lookup", "failed"}
         /\ pc'[w] = "lookup" => failures[w] + 1 < Retries
         /\ \A x \in Workers \ {w} : failures'[x] = failures[x] /\ pc'[x] = pc[x]
<1>1. failures[w] < Retries /\ failures[w] \in Nat /\ Retries \in Nat
  BY CacheAssumption DEF AttemptLeft, Locals
<1> QED
  BY <1>1 DEF Fail, Goto, Locals

LEMMA AttemptStep ==
  TypeOK /\ AttemptLeft /\ [Next]_vars => AttemptLeft'
<1> SUFFICES ASSUME Locals, AttemptLeft, [Next]_vars
             PROVE  AttemptLeft'
  BY TypeParts
<1>1. ASSUME NEW w \in Workers, Open(w)
      PROVE  AttemptLeft'
  BY <1>1, CacheAssumption DEF Open, Goto, AttemptLeft, Opening, Locals
<1>2. ASSUME NEW w \in Workers, Opening(w), failures' = failures,
             \A x \in Workers \ {w} : pc'[x] = pc[x]
      PROVE  AttemptLeft'
  BY <1>2 DEF AttemptLeft, Opening
<1>3. ASSUME NEW w \in Workers,
             \/ LookUp(w) \/ Skip(w) \/ Collect(w) \/ Evict(w) \/ Cleaned(w) \/ Create(w)
             \/ Copy(w)
      PROVE  AttemptLeft'
  BY <1>2, <1>3 DEF LookUp, Skip, Collect, Evict, Cleaned, Create, Copy, Goto, Opening, Locals, local
<1>4. ASSUME NEW w \in Workers, Opening(w), Fail(w)
      PROVE  AttemptLeft'
  BY <1>4, FailLeaves DEF AttemptLeft, Opening
<1>5. ASSUME NEW w \in Workers, CopyFails(w) \/ Rename(w) \/ Check(w) \/ Reject(w) \/ Handle(w)
      PROVE  AttemptLeft'
  BY <1>2, <1>4, <1>5 DEF CopyFails, Rename, Check, Reject, Handle, Goto, Opening, Locals
<1>6. ASSUME NEW w \in Workers, Crash(w)
      PROVE  AttemptLeft'
  BY <1>6 DEF Crash, Goto, AttemptLeft, Opening, Locals
<1>7. CASE UNCHANGED vars
  BY <1>7 DEF vars, AttemptLeft, Opening
<1> QED
  BY <1>1, <1>3, <1>5, <1>6, <1>7 DEF Next, OpenStep

(* An excuse never takes one away, and gives one to all it is meant for    *)
(* that have an attempt left to lose.                                      *)
LEMMA ExcuseGives ==
  ASSUME Locals, RacesDoNotFail, NEW S, Excuse(S)
  PROVE  \A x \in Workers :
           /\ excuses'[x] >= excuses[x]
           /\ x \in S /\ failures[x] < Retries => failures[x] < excuses'[x]
<1> SUFFICES ASSUME NEW x \in Workers
             PROVE  /\ excuses'[x] >= excuses[x]
                    /\ x \in S /\ failures[x] < Retries => failures[x] < excuses'[x]
  OBVIOUS
<1>1. /\ excuses[x] \in Nat /\ failures[x] \in Nat /\ Retries \in Nat
      /\ failures[x] <= excuses[x]
  BY CacheAssumption DEF Locals, RacesDoNotFail
<1>2. excuses'[x] = IF x \in S /\ excuses[x] < Retries THEN excuses[x] + 1 ELSE excuses[x]
  BY DEF Excuse
<1> QED
  BY <1>1, <1>2

(* The workers that do not move: their names stay, or what took one away   *)
(* has excused them all.                                                   *)
LEMMA OthersExcused ==
  ASSUME Locals, AttemptLeft, LossIsExcused, RacesDoNotFail, NEW w \in Workers,
         Locals',
         url' = url,
         \A x \in Workers \ {w} : pc'[x] = pc[x] /\ failures'[x] = failures[x],
         \A x \in Workers : excuses'[x] >= excuses[x],
         \/ \A f \in Content(files) :
              f.name = Temp(w) \/ \E g \in Content(files') : g.name = f.name
         \/ \A x \in Workers : failures[x] < Retries => failures[x] < excuses'[x]
  PROVE  \A x \in Workers \ {w} :
           /\ Lost(x)' => failures'[x] < excuses'[x]
           /\ failures'[x] <= excuses'[x]
<1> SUFFICES ASSUME NEW x \in Workers \ {w}
             PROVE  /\ Lost(x)' => failures'[x] < excuses'[x]
                    /\ failures'[x] <= excuses'[x]
  OBVIOUS
<1>1. /\ excuses[x] \in Nat /\ excuses'[x] \in Nat /\ failures[x] \in Nat
      /\ failures'[x] = failures[x] /\ pc'[x] = pc[x]
      /\ failures[x] <= excuses[x] /\ excuses[x] <= excuses'[x]
  BY DEF Locals, RacesDoNotFail
<1>2. failures'[x] <= excuses'[x]
  BY <1>1
<1>3. ASSUME Lost(x)'
      PROVE  failures'[x] < excuses'[x]
  <2>1. CASE \A f \in Content(files) :
               f.name = Temp(w) \/ \E g \in Content(files') : g.name = f.name
    <3>1. Lost(x)
      BY <1>1, <1>3, <2>1, NamesApart DEF Lost, Temp, Dest
    <3> QED
      BY <1>1, <3>1 DEF LossIsExcused
  <2>2. CASE \A y \in Workers : failures[y] < Retries => failures[y] < excuses'[y]
    <3>1. Opening(x)
      BY <1>1, <1>3 DEF Lost, Opening
    <3> QED
      BY <1>1, <2>2, <3>1 DEF AttemptLeft
  <2> QED
    BY <2>1, <2>2
<1> QED
  BY <1>2, <1>3

Excused == LossIsExcused /\ RacesDoNotFail

(* The worker that moves, and all the others.                              *)
LEMMA AllExcused ==
  ASSUME NEW w \in Workers,
         \A x \in Workers \ {w} :
           /\ Lost(x)' => failures'[x] < excuses'[x]
           /\ failures'[x] <= excuses'[x],
         Lost(w)' => failures'[w] < excuses'[w],
         failures'[w] <= excuses'[w]
  PROVE  Excused'
BY DEF Excused, LossIsExcused, RacesDoNotFail

(* An attempt that fails uses up an excuse there was before. *)
LEMMA FailureExcused ==
  ASSUME Locals, Locals', AttemptLeft, NEW w \in Workers, Opening(w), Fail(w),
         failures[w] < excuses'[w]
  PROVE  /\ ~Lost(w)'
         /\ failures'[w] <= excuses'[w]
<1>1. failures'[w] = failures[w] + 1 /\ pc'[w] \in {"lookup", "failed"}
  BY FailLeaves
<1>2. failures[w] \in Nat /\ excuses'[w] \in Nat
  BY DEF Locals
<1> QED
  BY <1>1, <1>2 DEF Lost

LEMMA ExcusedStep ==
  TypeOK /\ TypeOK' /\ AttemptLeft /\ Excused /\ [Next]_vars => Excused'
<1> SUFFICES ASSUME Directory, Locals, Locals', AttemptLeft, LossIsExcused, RacesDoNotFail,
                    [Next]_vars
             PROVE  Excused'
  BY TypeParts, TypePartsNext DEF Excused
<1>0. \A x \in Workers : /\ failures[x] \in Nat /\ excuses[x] \in Nat
                         /\ failures'[x] \in Nat /\ excuses'[x] \in Nat
                         /\ failures[x] <= excuses[x]
  BY DEF Locals, RacesDoNotFail
<1>1. ASSUME NEW w \in Workers, Open(w)
      PROVE  Excused'
  <2>1. /\ files' = files
        /\ failures'[w] = 0 /\ pc'[w] = "lookup"
        /\ \A x \in Workers \ {w} : /\ pc'[x] = pc[x] /\ url'[x] = url[x]
                                     /\ failures'[x] = failures[x] /\ excuses'[x] = excuses[x]
    BY <1>1 DEF Open, Goto, Locals
  <2>2. \A x \in Workers \ {w} : Lost(x)' => failures'[x] < excuses'[x]
    BY <2>1 DEF Lost, LossIsExcused, Dest, Temp
  <2>3. \A x \in Workers \ {w} : failures'[x] <= excuses'[x]
    BY <2>1, <1>0
  <2> QED
    BY <2>1, <2>2, <2>3, <1>0, AllExcused DEF Lost
<1>2. ASSUME NEW w \in Workers, LookUp(w) \/ Skip(w) \/ Collect(w) \/ Cleaned(w)
      PROVE  Excused'
  <2>1. /\ files' = files /\ url' = url /\ failures' = failures /\ excuses' = excuses
        /\ pc'[w] \in {"cleanup", "create", "evict", "handle"}
        /\ pc'[w] = "handle" => Exists(Dest(url[w]))
        /\ \A x \in Workers \ {w} : pc'[x] = pc[x]
    BY <1>2 DEF LookUp, Skip, Collect, Cleaned, Goto, Locals, local
  <2>2. ~Lost(w)'
    BY <2>1, ExistsContent DEF Lost, Dest
  <2> QED
    BY <2>1, <2>2, <1>0, OthersExcused, AllExcused
<1>3. ASSUME NEW w \in Workers, Evict(w)
      PROVE  Excused'
  <2>1. /\ url' = url /\ failures' = failures /\ pc' = pc /\ pc[w] = "evict"
        /\ (files' = files /\ excuses' = excuses) \/ Excuse(Workers)
    BY <1>3 DEF Evict
  <2>2. ~Lost(w)'
    BY <2>1 DEF Lost
  <2>3. /\ \A x \in Workers : excuses'[x] >= excuses[x]
        /\ \/ files' = files
           \/ \A x \in Workers : failures[x] < Retries => failures[x] < excuses'[x]
    BY <2>1, <1>0, ExcuseGives
  <2> QED
    BY <2>1, <2>2, <2>3, <1>0, OthersExcused, AllExcused
<1>4. ASSUME NEW w \in Workers, Create(w)
      PROVE  Excused'
  <2> DEFINE new == [name |-> Temp(w), of |-> url[w], archive |-> TRUE, whole |-> FALSE]
  <2>1. new \in File /\ new.name = Temp(w)
    BY NamesApart DEF File, Locals
  <2>2. files' = IF Exists(Temp(w)) THEN Changed(Temp(w), new) ELSE Append(files, new)
    BY <1>4 DEF Create
  <2> HIDE DEF new
  <2>3. \A f \in Content(files) : f.name = Temp(w) \/ \E g \in Content(files') : g.name = f.name
    BY <2>1, <2>2, ChangedContent, AppendContent
  <2>4. \E g \in Content(files') : g.name = Temp(w)
    BY <2>1, <2>2, ChangedContent, AppendContent, ExistsContent
  <2>5. /\ url' = url /\ failures' = failures /\ excuses' = excuses /\ pc'[w] = "copy"
        /\ \A x \in Workers \ {w} : pc'[x] = pc[x]
    BY <1>4 DEF Create, Goto, Locals, local
  <2>6. ~Lost(w)'
    BY <2>4, <2>5 DEF Lost, Temp
  <2> QED
    BY <2>3, <2>5, <2>6, <1>0, OthersExcused, AllExcused
<1>5. ASSUME NEW w \in Workers, Copy(w)
      PROVE  Excused'
  <2> PICK archive \in BOOLEAN :
        /\ IF archive THEN UNCHANGED excuses ELSE Excuse(Workers)
        /\ files' = Changed(Temp(w), [name |-> Temp(w), of |-> url[w],
                                      archive |-> archive, whole |-> TRUE])
    BY <1>5 DEF Copy
  <2> DEFINE new == [name |-> Temp(w), of |-> url[w], archive |-> archive, whole |-> TRUE]
  <2>1. new \in File /\ new.name = Temp(w)
    BY NamesApart DEF File, Locals
  <2>2. files' = Changed(Temp(w), new)
    OBVIOUS
  <2> HIDE DEF new
  <2>3. \A f \in Content(files) : \E g \in Content(files') : g.name = f.name
    BY <2>1, <2>2, ChangedContent
  <2>4. /\ url' = url /\ failures' = failures /\ pc[w] = "copy" /\ pc'[w] = "rename"
        /\ \A x \in Workers \ {w} : pc'[x] = pc[x]
    BY <1>5 DEF Copy, Goto, Locals
  <2>5. \A x \in Workers : excuses'[x] >= excuses[x]
    BY <1>0, ExcuseGives
  <2>6. Lost(w)' => Lost(w)
    BY <2>3, <2>4 DEF Lost, Temp
  <2>7. Lost(w)' => failures'[w] < excuses'[w]
    BY <2>4, <2>5, <2>6, <1>0 DEF LossIsExcused
  <2>8. failures'[w] <= excuses'[w]
    BY <2>4, <2>5, <1>0
  <2> QED
    BY <2>3, <2>4, <2>5, <2>7, <2>8, OthersExcused, AllExcused
<1>6. ASSUME NEW w \in Workers, CopyFails(w)
      PROVE  Excused'
  <2>1. /\ url' = url /\ Opening(w) /\ Fail(w) /\ Excuse({w}) /\ files' = Without(Temp(w))
    BY <1>6 DEF CopyFails, Opening
  <2>2. failures[w] < excuses'[w] /\ \A x \in Workers : excuses'[x] >= excuses[x]
    BY <2>1, ExcuseGives DEF AttemptLeft
  <2>3. \A f \in Content(files) : f.name = Temp(w) \/ \E g \in Content(files') : g.name = f.name
    BY <2>1, WithoutContent
  <2>4. ~Lost(w)' /\ failures'[w] <= excuses'[w]
    BY <2>1, <2>2, FailureExcused
  <2> QED
    BY <2>1, <2>2, <2>3, <2>4, FailLeaves, OthersExcused, AllExcused
<1>7. ASSUME NEW w \in Workers, Rename(w)
      PROVE  Excused'
  <2> DEFINE dest == Dest(url[w])
  <2>1. url' = url /\ excuses' = excuses /\ pc[w] = "rename"
    BY <1>7 DEF Rename
  <2>2. CASE Exists(Temp(w))
    <3>1. /\ files' = Renamed(Temp(w), dest) /\ failures' = failures
          /\ pc'[w] \in {"validate", "handle"}
          /\ \A x \in Workers \ {w} : pc'[x] = pc[x]
      BY <1>7, <2>2 DEF Rename, Goto, Locals
    <3>2. Temp(w) \in Names /\ dest \in Names /\ Temp(w) # dest
      BY NamesApart DEF Locals
    <3>3. Content(files') =
            {f \in Content(files) : f.name \notin {Temp(w), dest}}
              \cup {[f EXCEPT !.name = dest] : f \in {g \in Content(files) : g.name = Temp(w)}}
      BY <3>1, <3>2, RenamedContent
    <3>4. \E g \in Content(files') : g.name = dest
      <4>1. PICK f \in Content(files) : f.name = Temp(w)
        BY <2>2, ExistsContent
      <4>2. f \in File
        BY DEF Content, Directory
      <4>3. [f EXCEPT !.name = dest].name = dest
        BY <4>2 DEF File
      <4> QED
        BY <3>3, <4>1, <4>3
    <3>5. \A f \in Content(files) : f.name = Temp(w) \/ \E g \in Content(files') : g.name = f.name
      BY <3>3, <3>4
    <3>6. ~Lost(w)'
      BY <2>1, <3>1, <3>4 DEF Lost, Dest
    <3> QED
      BY <2>1, <3>1, <3>5, <3>6, <1>0, OthersExcused, AllExcused
  <2>3. CASE ~Exists(Temp(w))
    <3>1. files' = files /\ Fail(w) /\ Opening(w)
      BY <1>7, <2>3 DEF Rename, Opening
    <3>2. failures[w] < excuses'[w]
      BY <2>1, <2>3, ExistsContent DEF Lost, LossIsExcused
    <3>3. ~Lost(w)' /\ failures'[w] <= excuses'[w]
      BY <3>1, <3>2, FailureExcused
    <3> QED
      BY <2>1, <3>1, <3>3, <1>0, FailLeaves, OthersExcused, AllExcused
  <2> QED
    BY <2>2, <2>3
<1>8. ASSUME NEW w \in Workers, Check(w) \/ Handle(w)
      PROVE  Excused'
  <2>1. /\ url' = url /\ excuses' = excuses /\ files' = files
        /\ pc[w] \in {"validate", "handle"} /\ Opening(w)
    BY <1>8 DEF Check, Handle, Opening
  <2>2. CASE Exists(Dest(url[w]))
    <3>1. /\ failures' = failures /\ pc'[w] \in {"handle", "reject", "opened"}
          /\ \A x \in Workers \ {w} : pc'[x] = pc[x]
      BY <1>8, <2>2 DEF Check, Handle, Goto, Locals
    <3>2. ~Lost(w)'
      BY <2>1, <2>2, <3>1, ExistsContent DEF Lost, Dest
    <3> QED
      BY <2>1, <3>1, <3>2, <1>0, OthersExcused, AllExcused
  <2>3. CASE ~Exists(Dest(url[w]))
    <3>1. Fail(w)
      BY <1>8, <2>3 DEF Check, Handle
    <3>2. failures[w] < excuses'[w]
      BY <2>1, <2>3, ExistsContent DEF Lost, LossIsExcused
    <3>3. ~Lost(w)' /\ failures'[w] <= excuses'[w]
      BY <2>1, <3>1, <3>2, FailureExcused
    <3> QED
      BY <2>1, <3>1, <3>3, <1>0, FailLeaves, OthersExcused, AllExcused
  <2> QED
    BY <2>2, <2>3
<1>9. ASSUME NEW w \in Workers, Reject(w)
      PROVE  Excused'
  <2>1. url' = url /\ Opening(w) /\ Fail(w) /\ Excuse(Workers)
    BY <1>9 DEF Reject, Opening
  <2>2. /\ \A x \in Workers : excuses'[x] >= excuses[x]
        /\ \A x \in Workers : failures[x] < Retries => failures[x] < excuses'[x]
    BY <2>1, ExcuseGives
  <2>3. ~Lost(w)' /\ failures'[w] <= excuses'[w]
    BY <2>1, <2>2, FailureExcused DEF AttemptLeft
  <2> QED
    BY <2>1, <2>2, <2>3, FailLeaves, OthersExcused, AllExcused
<1>10. ASSUME NEW w \in Workers, Crash(w)
       PROVE  Excused'
  <2> DEFINE orphan == Orphan(crashes + 1)
  <2>1. /\ url' = url /\ excuses' = excuses /\ pc'[w] = "idle" /\ failures'[w] = 0
        /\ \A x \in Workers \ {w} : pc'[x] = pc[x] /\ failures'[x] = failures[x]
        /\ files' = Renamed(Temp(w), orphan)
    BY <1>10 DEF Crash, Goto, Locals
  <2>2. orphan \in Names /\ orphan # Temp(w) /\ Temp(w) \in Names
    BY <1>10, NamesApart, CacheAssumption DEF Crash, Locals
  <2>3. {f \in Content(files) : f.name \notin {Temp(w), orphan}} \subseteq Content(files')
    BY <2>1, <2>2, RenamedContent
  <2>4. ~Lost(w)'
    BY <2>1 DEF Lost
  <2>5. \A x \in Workers \ {w} : Lost(x)' => Lost(x)
    BY <2>1, <2>3, NamesApart DEF Lost, Temp, Dest
  <2>6. \A x \in Workers \ {w} : /\ Lost(x)' => failures'[x] < excuses'[x]
                                  /\ failures'[x] <= excuses'[x]
    BY <2>1, <2>5, <1>0 DEF LossIsExcused
  <2> QED
    BY <2>1, <2>4, <2>6, <1>0, AllExcused
<1>11. CASE UNCHANGED vars
  BY <1>11 DEF vars, Excused, LossIsExcused, RacesDoNotFail, Lost, Temp, Dest
<1> QED
  BY <1>1, <1>2, <1>3, <1>4, <1>5, <1>6, <1>7, <1>8, <1>9, <1>10, <1>11 DEF Next, OpenStep

-----------------------------------------------------------------------------
LEMMA Initially == Init => IInv
<1> SUFFICES ASSUME Init
             PROVE  IInv
  OBVIOUS
<1> USE CacheAssumption
<1>1. Directory /\ Content(files) = {}
  BY DEF Init, Directory, Distinct, Content
<1>2. Locals
  BY DEF Init, Locals, Sites
<1>3. FinalIsWhole /\ CopiedIsWhole
  BY <1>1 DEF FinalIsWhole, CopiedIsWhole
<1>4. GotIsWhole /\ AttemptLeft /\ LossIsExcused /\ RacesDoNotFail
  BY DEF Init, GotIsWhole, AttemptLeft, Opening, LossIsExcused, Lost, RacesDoNotFail
<1> QED
  BY <1>1, <1>2, <1>3, <1>4, TypeParts DEF IInv

LEMMA Inductive == IInv /\ [Next]_vars => IInv'
<1> SUFFICES ASSUME IInv, [Next]_vars
             PROVE  IInv'
  OBVIOUS
<1>1. TypeOK'
  BY TypeStep DEF IInv
<1>2. FinalIsWhole' /\ CopiedIsWhole' /\ GotIsWhole'
  BY WholeStep, GotStep DEF IInv
<1>3. AttemptLeft' /\ Excused'
  BY <1>1, AttemptStep, ExcusedStep DEF IInv, Excused
<1> QED
  BY <1>1, <1>2, <1>3 DEF IInv, Excused

(* The invariant holds of every directory and any number of workers. *)
LEMMA Invariant == Spec => []IInv
BY Initially, Inductive, PTL DEF Spec

(* Whoever downloads, evicts, retries or dies meanwhile, what open()       *)
(* returns is a complete transfer of a URL with the cache name of the one  *)
(* that was asked for, so of that URL if no other has its name; no two     *)
(* files of the directory have one name.                                   *)
THEOREM WholeAlways == Spec => []OpenedIsWhole
<1>1. IInv => OpenedIsWhole
  <2> SUFFICES ASSUME IInv
               PROVE  OpenedIsWhole
    OBVIOUS
  <2>1. TypeOK /\ GotIsWhole
    BY DEF IInv
  <2>2. \A w \in Workers : \A i \in DOMAIN got[w] : got[w][i].of \in Urls
    <3>1. \A w \in Workers : got[w] \in Seq(File)
      BY <2>1 DEF TypeOK
    <3>2. \A f \in File : f.of \in Urls
      BY DEF File
    <3> QED
      BY <3>1, <3>2
  <2>3. ASSUME NEW w \in Workers, NEW i \in DOMAIN got[w], OnlyOneNamed(url[w])
        PROVE  got[w][i].of = url[w]
    BY <2>1, <2>2, <2>3 DEF GotIsWhole, OnlyOneNamed
  <2> QED
    BY <2>1, <2>3 DEF GotIsWhole, OpenedIsWhole
<1> QED
  BY <1>1, Invariant, PTL

(* An attempt of open() fails only for a transfer that failed, a body that *)
(* was not an archive, or a file that was removed: never because another   *)
(* worker opened, downloaded or renamed the same shard.                    *)
THEOREM RacesAreHarmless == Spec => []RacesDoNotFail
<1>1. IInv => RacesDoNotFail
  BY DEF IInv
<1> QED
  BY <1>1, Invariant, PTL

-----------------------------------------------------------------------------
(* Bodies that are not archives.                                           *)

Finals == {Dest(u) : u \in Urls}
Bad(n) == \E f \in Content(files) : f.name = n /\ ~f.archive
Checking(n) == \E w \in Workers : pc[w] \in {"validate", "reject"} /\ Dest(url[w]) = n
Unchecked == {n \in Finals : Bad(n) /\ ~Checking(n)}

(* One that nobody is to check any more is left by a death. *)
DeathsExcuseBad ==
  Validate => IsFiniteSet(Unchecked) /\ Cardinality(Unchecked) <= crashes

LEMMA NoMoreUnchecked ==
  ASSUME Locals, DeathsExcuseBad, crashes' = crashes,
         Validate => \A n \in Finals : Bad(n)' /\ ~Checking(n)' => Bad(n) /\ ~Checking(n)
  PROVE  DeathsExcuseBad'
<1> SUFFICES ASSUME Validate
             PROVE  IsFiniteSet(Unchecked') /\ Cardinality(Unchecked') <= crashes
  BY DEF DeathsExcuseBad
<1>1. Unchecked' \subseteq Unchecked
  BY DEF Unchecked
<1>2. IsFiniteSet(Unchecked) /\ Cardinality(Unchecked) <= crashes
  BY DEF DeathsExcuseBad
<1>3. /\ IsFiniteSet(Unchecked') /\ Cardinality(Unchecked') <= Cardinality(Unchecked)
      /\ Cardinality(Unchecked') \in Nat /\ Cardinality(Unchecked) \in Nat
  BY <1>1, <1>2, FS_Subset, FS_CardinalityType
<1>4. crashes \in Int
  BY CacheAssumption DEF Locals
<1> QED
  BY <1>2, <1>3, <1>4

(* What goes by a name stays, or is gone. *)
LEMMA BadStays ==
  ASSUME NEW CONSTANT n, \A f \in Content(files') : f.name = n => f \in Content(files)
  PROVE  Bad(n)' => Bad(n)
  BY DEF Bad

LEMMA CaughtStep ==
  TypeOK /\ DeathsExcuseBad /\ [Next]_vars => DeathsExcuseBad'
<1> SUFFICES ASSUME Directory, Locals, DeathsExcuseBad, [Next]_vars
             PROVE  DeathsExcuseBad'
  BY TypeParts
<1>1. ASSUME NEW w \in Workers,
             \/ Open(w) \/ LookUp(w) \/ Skip(w) \/ Collect(w) \/ Evict(w) \/ Cleaned(w)
             \/ Create(w) \/ Copy(w) \/ CopyFails(w) \/ Handle(w)
      PROVE  DeathsExcuseBad'
  <2>1. crashes' = crashes
    BY <1>1 DEF Open, LookUp, Skip, Collect, Evict, Cleaned, Create, Copy, CopyFails, Handle
  <2>2. \A f \in Content(files'), n \in Finals : f.name = n => f \in Content(files)
    <3>1. CASE files' = files
      BY <3>1
    <3>2. CASE Evict(w) \/ CopyFails(w)
      BY <3>2, WithoutContent DEF Evict, CopyFails
    <3>3. CASE Create(w)
      <4> DEFINE new == [name |-> Temp(w), of |-> url[w], archive |-> TRUE, whole |-> FALSE]
      <4>1. new \in File /\ new.name = Temp(w)
        BY NamesApart DEF File, Locals
      <4>2. files' = IF Exists(Temp(w)) THEN Changed(Temp(w), new) ELSE Append(files, new)
        BY <3>3 DEF Create
      <4> HIDE DEF new
      <4>3. \A f \in Content(files') : f = new \/ f \in Content(files)
        BY <4>1, <4>2, ChangedContent, AppendContent
      <4> QED
        BY <4>1, <4>3, NamesApart DEF Finals
    <3>4. CASE Copy(w)
      <4> PICK archive \in BOOLEAN :
            files' = Changed(Temp(w), [name |-> Temp(w), of |-> url[w],
                                       archive |-> archive, whole |-> TRUE])
        BY <3>4 DEF Copy
      <4> DEFINE new == [name |-> Temp(w), of |-> url[w], archive |-> archive, whole |-> TRUE]
      <4>1. new \in File /\ new.name = Temp(w)
        BY NamesApart DEF File, Locals
      <4>2. files' = Changed(Temp(w), new)
        OBVIOUS
      <4> HIDE DEF new
      <4>3. \A f \in Content(files') : f = new \/ f \in Content(files)
        BY <4>1, <4>2, ChangedContent
      <4> QED
        BY <4>1, <4>3, NamesApart DEF Finals
    <3> QED
      BY <1>1, <3>1, <3>2, <3>3, <3>4 DEF Open, LookUp, Skip, Collect, Cleaned, Handle
  <2>3. \A x \in Workers : pc[x] \in {"validate", "reject"} => pc'[x] = pc[x] /\ url'[x] = url[x]
    BY <1>1 DEF Open, LookUp, Skip, Collect, Evict, Cleaned, Create, Copy, CopyFails, Handle,
                Opening, Fail, Goto, Locals, local
  <2>4. \A n \in Finals : Checking(n) => Checking(n)'
    BY <2>3 DEF Checking
  <2> QED
    BY <2>1, <2>2, <2>4, BadStays, NoMoreUnchecked
<1>2. ASSUME NEW w \in Workers, Rename(w)
      PROVE  DeathsExcuseBad'
  <2>1. /\ crashes' = crashes /\ url' = url /\ pc[w] = "rename"
        /\ \A x \in Workers \ {w} : pc'[x] = pc[x]
    BY <1>2 DEF Rename, Fail, Goto, Locals
  <2>2. \A n \in Finals : Checking(n) => Checking(n)'
    BY <2>1 DEF Checking
  <2>3. CASE Exists(Temp(w))
    <3>1. files' = Renamed(Temp(w), Dest(url[w])) /\ (Validate => pc'[w] = "validate")
      BY <1>2, <2>3 DEF Rename, Goto, Locals
    <3>2. \A f \in Content(files') :
            \/ f \in Content(files)
            \/ \E g \in Content(files) : f = [g EXCEPT !.name = Dest(url[w])]
      BY <3>1, RenamedContent, NamesApart DEF Locals
    <3>3. \A f \in Content(files') : f \in Content(files) \/ f.name = Dest(url[w])
      <4>1. \A g \in Content(files) : [g EXCEPT !.name = Dest(url[w])].name = Dest(url[w])
        <5>1. \A g \in Content(files) : g \in File
          BY DEF Content, Directory
        <5> QED
          BY <5>1 DEF File
      <4> QED
        BY <3>2, <4>1
    <3>4. \A n \in Finals : n # Dest(url[w]) => (Bad(n)' => Bad(n))
      BY <3>3, BadStays
    <3>5. Validate => Checking(Dest(url[w]))'
      BY <2>1, <3>1 DEF Checking
    <3> QED
      BY <2>1, <2>2, <3>4, <3>5, NoMoreUnchecked
  <2>4. CASE ~Exists(Temp(w))
    BY <1>2, <2>1, <2>2, <2>4, BadStays, NoMoreUnchecked DEF Rename
  <2> QED
    BY <2>3, <2>4
<1>3. ASSUME NEW w \in Workers, Check(w) \/ Reject(w)
      PROVE  DeathsExcuseBad'
  <2>1. /\ crashes' = crashes /\ url' = url
        /\ \A x \in Workers \ {w} : pc'[x] = pc[x]
        /\ \A f \in Content(files') : f \in Content(files)
    BY <1>3, WithoutContent DEF Check, Reject, Fail, Goto, Locals
  <2>2. pc'[w] = "reject" \/ ~Bad(Dest(url[w]))'
    <3>1. CASE Check(w)
      <4>1. files' = files /\ (Exists(Dest(url[w])) => pc'[w] =
              IF Lookup(Dest(url[w])).archive THEN "handle" ELSE "reject")
        BY <1>3, <3>1 DEF Check, Goto, Locals
      <4>2. CASE Exists(Dest(url[w])) /\ Lookup(Dest(url[w])).archive
        <5>1. \A f \in Content(files) : f.name = Dest(url[w]) => f = Lookup(Dest(url[w]))
          BY <4>2, LookupContent DEF Content, Directory, Distinct
        <5> QED
          BY <2>1, <4>1, <4>2, <5>1 DEF Bad, Dest
      <4>3. CASE ~Exists(Dest(url[w]))
        BY <2>1, <4>1, <4>3, ExistsContent DEF Bad, Dest
      <4> QED
        BY <4>1, <4>2, <4>3
    <3>2. CASE Reject(w)
      <4>1. \A f \in Content(files') : f.name # Dest(url[w])
        BY <3>2, WithoutContent DEF Reject
      <4> QED
        BY <2>1, <4>1 DEF Bad, Dest
    <3> QED
      BY <1>3, <3>1, <3>2
  <2>3. \A n \in Finals : Checking(n) /\ Bad(n)' => Checking(n)'
    BY <2>1, <2>2 DEF Checking
  <2> QED
    BY <2>1, <2>3, BadStays, NoMoreUnchecked
<1>4. ASSUME NEW w \in Workers, Crash(w)
      PROVE  DeathsExcuseBad'
  <2> DEFINE orphan == Orphan(crashes + 1)
  <2>1. /\ url' = url /\ crashes' = crashes + 1
        /\ \A x \in Workers \ {w} : pc'[x] = pc[x]
        /\ files' = Renamed(Temp(w), orphan)
    BY <1>4 DEF Crash, Goto, Locals
  <2>2. orphan \in Names /\ orphan # Temp(w) /\ Temp(w) \in Names
    BY <1>4, NamesApart, CacheAssumption DEF Crash, Locals
  <2>3. \A f \in Content(files') :
          \/ f \in Content(files)
          \/ \E g \in Content(files) : f = [g EXCEPT !.name = orphan]
    BY <2>1, <2>2, RenamedContent
  <2>4. \A f \in Content(files') : f \in Content(files) \/ f.name = orphan
    <3>1. \A g \in Content(files) : g \in File
      BY DEF Content, Directory
    <3> QED
      BY <2>3, <3>1 DEF File
  <2>5. \A n \in Finals : Bad(n)' => Bad(n)
    BY <2>4, BadStays, NamesApart DEF Finals
  <2>6. Unchecked' \subseteq Unchecked \cup {Dest(url[w])}
    BY <2>1, <2>5 DEF Unchecked, Checking
  <2> SUFFICES ASSUME Validate
               PROVE  IsFiniteSet(Unchecked') /\ Cardinality(Unchecked') <= crashes + 1
    BY <2>1 DEF DeathsExcuseBad
  <2>7. IsFiniteSet(Unchecked) /\ Cardinality(Unchecked) <= crashes
    BY DEF DeathsExcuseBad
  <2>8. /\ IsFiniteSet(Unchecked \cup {Dest(url[w])}) /\ Cardinality(Unchecked) \in Nat
        /\ Cardinality(Unchecked \cup {Dest(url[w])}) <= Cardinality(Unchecked) + 1
    <3>1. Cardinality(Unchecked) \in Nat
      BY <2>7, FS_CardinalityType
    <3>2. /\ IsFiniteSet(Unchecked \cup {Dest(url[w])})
          /\ Cardinality(Unchecked \cup {Dest(url[w])}) =
               IF Dest(url[w]) \in Unchecked THEN Cardinality(Unchecked)
               ELSE Cardinality(Unchecked) + 1
      BY <2>7, FS_AddElement
    <3> QED
      BY <3>1, <3>2
  <2>9. /\ IsFiniteSet(Unchecked')
        /\ Cardinality(Unchecked') <= Cardinality(Unchecked \cup {Dest(url[w])})
        /\ Cardinality(Unchecked') \in Nat /\ Cardinality(Unchecked \cup {Dest(url[w])}) \in Nat
    BY <2>6, <2>8, FS_Subset, FS_CardinalityType
  <2>10. crashes \in Int
    BY CacheAssumption DEF Locals
  <2> QED
    BY <2>7, <2>8, <2>9, <2>10
<1>5. CASE UNCHANGED vars
  BY <1>5, BadStays, NoMoreUnchecked DEF vars, Checking
<1> QED
  BY <1>1, <1>2, <1>3, <1>4, <1>5 DEF Next, OpenStep

(* A body that is not an archive is removed by whoever checks it, or is    *)
(* still to be checked: as many as there were deaths may lie under a final *)
(* name unchecked, and no more (FileCache::download, check_tar_format).    *)
THEOREM BadAreCaught == Spec => []BadFilesAreCaught
<1>1. Init => DeathsExcuseBad
  <2> SUFFICES ASSUME Init
               PROVE  DeathsExcuseBad
    OBVIOUS
  <2>1. Unchecked = {} /\ crashes = 0
    BY DEF Init, Unchecked, Bad, Content
  <2> QED
    BY <2>1, FS_EmptySet DEF DeathsExcuseBad
<1>2. TypeOK /\ DeathsExcuseBad => BadFilesAreCaught
  <2> SUFFICES ASSUME Directory, DeathsExcuseBad, Validate
               PROVE  Cardinality({Dest(u) : u \in {u \in Urls : /\ Exists(Dest(u))
                                                                /\ ~Lookup(Dest(u)).archive}}
                        \ {Dest(url[w]) : w \in {v \in Workers : pc[v] \in {"validate", "reject"}}})
                        <= crashes
    BY TypeParts DEF BadFilesAreCaught
  <2>1. \A n \in Finals : Exists(n) /\ ~Lookup(n).archive <=> Bad(n)
    <3> SUFFICES ASSUME NEW n \in Finals
                 PROVE  Exists(n) /\ ~Lookup(n).archive <=> Bad(n)
      OBVIOUS
    <3>1. Exists(n) <=> \E f \in Content(files) : f.name = n
      BY ExistsContent
    <3>2. ASSUME Exists(n)
          PROVE  \A f \in Content(files) : f.name = n <=> f = Lookup(n)
      BY <3>2, LookupContent DEF Content, Directory, Distinct
    <3> QED
      BY <3>1, <3>2 DEF Bad
  <2>2. {Dest(u) : u \in {u \in Urls : Exists(Dest(u)) /\ ~Lookup(Dest(u)).archive}}
          \ {Dest(url[w]) : w \in {v \in Workers : pc[v] \in {"validate", "reject"}}} = Unchecked
    <3>1. {Dest(u) : u \in {u \in Urls : Exists(Dest(u)) /\ ~Lookup(Dest(u)).archive}}
            = {n \in Finals : Bad(n)}
      BY <2>1 DEF Finals
    <3> QED
      BY <3>1 DEF Unchecked, Checking
  <2> QED
    BY <2>2 DEF DeathsExcuseBad
<1>3. IInv => TypeOK
  BY DEF IInv
<1> QED
  BY <1>1, <1>2, <1>3, CaughtStep, Invariant, PTL DEF Spec

-----------------------------------------------------------------------------
(* The size of the directory.                                              *)

Present == {f.name : f \in Content(files)}
Listed(w) == {listing[w][i] : i \in DOMAIN listing[w]}

(* Who has looked at the directory and not created a file since; and of    *)
(* those, who will remove another file, or find it gone, before it does.   *)
Pending == {w \in Workers : pc[w] \in {"evict", "create"}}
Evicting == {w \in Workers : pc[w] = "evict" /\ total[w] > Budget /\ listing[w] # <<>>}

(* Whose temporary file w has on its list. *)
Writing(w) == {x \in Workers : pc[x] \in {"copy", "rename"} /\ Temp(x) \in Listed(w)}

(* Each file that w has not on its list is some worker's, which has created *)
(* it since or renamed a listed one; Afoot(r, w) are the others: w itself,  *)
(* those that may still create one or rename one, but not those that looked *)
(* after w (by the order r) and are still evicting: what they find makes up *)
(* for what they are to create.                                             *)
Later(r, w) == {x \in Evicting : r[x] > r[w]}
Afoot(r, w) == (Pending \ Later(r, w)) \cup Writing(w) \cup {w}

Fit(N, W, limit) == Cardinality(N) + Cardinality(W) <= limit

Room == Budget + Cardinality(Workers)

Level(r, w) ==
  \/ Fit(Present \ Listed(w), Afoot(r, w), Cardinality(Workers))
  \/ Fit(Present, Pending \ Later(r, w), Room)

Balanced(r) ==
  /\ Fit(Present, Pending \ Evicting, Room)
  /\ \A w \in Evicting : Level(r, w)

Ordered == \E r \in [Workers -> Nat], n \in Nat :
             (\A w \in Workers : r[w] < n) /\ Balanced(r)

TempInUse == \A w \in Workers : Temp(w) \in Present => pc[w] \in {"copy", "rename"}
ListingFits == \A w \in Workers : pc[w] = "evict" => Len(listing[w]) <= total[w]

SizeInv == TempInUse /\ ListingFits /\ (~throttled => Ordered)

-----------------------------------------------------------------------------
LEMMA PresentIsFinite ==
  ASSUME Directory
  PROVE  /\ IsFiniteSet(Present) /\ Cardinality(Present) = Len(files)
         /\ Present \subseteq Names
<1> DEFINE name == [i \in 1..Len(files) |-> files[i].name]
<1>1. /\ Len(files) \in Nat /\ DOMAIN files = 1..Len(files)
      /\ Present = {files[i].name : i \in 1..Len(files)}
      /\ \A i \in 1..Len(files) : files[i] \in File
  BY DEF Present, Content, Directory
<1>2. name \in Bijection(1..Len(files), Present)
  <2>1. name \in [1..Len(files) -> Present]
    BY <1>1
  <2>2. \A i, j \in 1..Len(files) : name[i] = name[j] => i = j
    BY <1>1 DEF Directory, Distinct
  <2>3. \A n \in Present : \E i \in 1..Len(files) : name[i] = n
    BY <1>1
  <2> HIDE DEF name
  <2>4. name \in Injection(1..Len(files), Present)
    BY <2>1, <2>2 DEF Injection, IsInjective
  <2>5. name \in Surjection(1..Len(files), Present)
    BY <2>1, <2>3 DEF Surjection
  <2> QED
    BY <2>4, <2>5 DEF Bijection
<1>3. ExistsBijection(1..Len(files), Present)
  BY <1>2 DEF ExistsBijection
<1>4. IsFiniteSet(1..Len(files)) /\ Cardinality(1..Len(files)) = Len(files)
  BY <1>1, FS_Interval
<1>5. IsFiniteSet(Present) /\ Cardinality(Present) = Len(files)
  BY <1>3, <1>4, FS_Bijection
<1>6. Present \subseteq Names
  BY <1>1 DEF File
<1> QED
  BY <1>5, <1>6

LEMMA ListedIsFinite ==
  ASSUME NEW list \in Seq(Names)
  PROVE  LET S == {list[i] : i \in DOMAIN list}
         IN  IsFiniteSet(S) /\ Cardinality(S) <= Len(list)
<1> DEFINE S == {list[i] : i \in DOMAIN list}
<1>1. Len(list) \in Nat /\ DOMAIN list = 1..Len(list)
  OBVIOUS
<1>2. list \in Surjection(1..Len(list), S)
  BY <1>1 DEF Surjection
<1>3. ExistsSurjection(1..Len(list), S)
  BY <1>2 DEF ExistsSurjection
<1> QED
  BY <1>1, <1>3, FS_NatSurjection, FS_SurjCardinalityBound

(* Names for workers: nothing is added, or a name instead of another, or   *)
(* one that a worker makes up for.                                         *)
Traded(N, W, M, V) ==
  \/ M \subseteq N /\ V \subseteq W
  \/ \E n : \E m \in N : M \subseteq (N \ {m}) \cup {n} /\ V \subseteq W
  \/ \E n : \E x \in W : M \subseteq N \cup {n} /\ V \subseteq W \ {x}

LEMMA StillFit ==
  ASSUME NEW N, NEW W, NEW M, NEW V, NEW limit \in Nat, IsFiniteSet(N), IsFiniteSet(W),
         Fit(N, W, limit), Traded(N, W, M, V)
  PROVE  Fit(M, V, limit)
<1>1. /\ Cardinality(N) \in Nat /\ Cardinality(W) \in Nat
      /\ Cardinality(N) + Cardinality(W) <= limit
  BY FS_CardinalityType DEF Fit
<1> SUFFICES \E a, b \in Nat : /\ IsFiniteSet(M) /\ Cardinality(M) <= a
                               /\ IsFiniteSet(V) /\ Cardinality(V) <= b
                               /\ a + b <= limit
  <2> PICK a \in Nat, b \in Nat : /\ IsFiniteSet(M) /\ Cardinality(M) <= a
                                  /\ IsFiniteSet(V) /\ Cardinality(V) <= b
                                  /\ a + b <= limit
    OBVIOUS
  <2>1. Cardinality(M) \in Nat /\ Cardinality(V) \in Nat
    BY FS_CardinalityType
  <2> QED
    BY <2>1 DEF Fit
<1>2. CASE M \subseteq N /\ V \subseteq W
  BY <1>1, <1>2, FS_Subset
<1>3. ASSUME NEW n, NEW m \in N, M \subseteq (N \ {m}) \cup {n}, V \subseteq W
      PROVE  IsFiniteSet(M) /\ Cardinality(M) <= Cardinality(N)
             /\ IsFiniteSet(V) /\ Cardinality(V) <= Cardinality(W)
  <2>1. IsFiniteSet(N \ {m}) /\ Cardinality(N \ {m}) = Cardinality(N) - 1
    BY FS_RemoveElement
  <2>2. /\ IsFiniteSet((N \ {m}) \cup {n})
        /\ Cardinality((N \ {m}) \cup {n}) =
             IF n \in N \ {m} THEN Cardinality(N \ {m}) ELSE Cardinality(N \ {m}) + 1
    BY <2>1, FS_AddElement
  <2>3. Cardinality((N \ {m}) \cup {n}) \in Nat /\ Cardinality((N \ {m}) \cup {n}) <= Cardinality(N)
    <3>1. Cardinality((N \ {m}) \cup {n}) \in Nat
      BY <2>2, FS_CardinalityType
    <3>2. CASE n \in N \ {m}
      BY <1>1, <2>1, <2>2, <3>1, <3>2
    <3>3. CASE n \notin N \ {m}
      BY <1>1, <2>1, <2>2, <3>1, <3>3
    <3> QED
      BY <3>2, <3>3
  <2>4. IsFiniteSet(M) /\ Cardinality(M) <= Cardinality((N \ {m}) \cup {n})
    BY <1>3, <2>2, FS_Subset
  <2>5. Cardinality(M) \in Nat
    BY <2>4, FS_CardinalityType
  <2> QED
    BY <1>1, <1>3, <2>3, <2>4, <2>5, FS_Subset
<1>4. ASSUME NEW n, NEW x \in W, M \subseteq N \cup {n}, V \subseteq W \ {x}
      PROVE  /\ IsFiniteSet(M) /\ Cardinality(M) <= Cardinality(N) + 1
             /\ IsFiniteSet(V) /\ Cardinality(V) <= Cardinality(W) - 1
             /\ Cardinality(W) - 1 \in Nat
  <2>1. /\ IsFiniteSet(N \cup {n})
        /\ Cardinality(N \cup {n}) = IF n \in N THEN Cardinality(N) ELSE Cardinality(N) + 1
    BY FS_AddElement
  <2>2. Cardinality(N \cup {n}) \in Nat /\ Cardinality(N \cup {n}) <= Cardinality(N) + 1
    BY <1>1, <2>1
  <2>3. IsFiniteSet(M) /\ Cardinality(M) <= Cardinality(N \cup {n})
    BY <1>4, <2>1, FS_Subset
  <2>4. Cardinality(M) \in Nat
    BY <2>3, FS_CardinalityType
  <2>5. IsFiniteSet(W \ {x}) /\ Cardinality(W \ {x}) = Cardinality(W) - 1
    BY FS_RemoveElement
  <2>6. Cardinality(W \ {x}) \in Nat
    BY <2>5, FS_CardinalityType
  <2>7. IsFiniteSet(V) /\ Cardinality(V) <= Cardinality(W \ {x})
    BY <1>4, <2>5, FS_Subset
  <2> QED
    BY <1>1, <2>2, <2>3, <2>4, <2>5, <2>6, <2>7
<1>5. CASE \E n : \E m \in N : M \subseteq (N \ {m}) \cup {n} /\ V \subseteq W
  BY <1>1, <1>3, <1>5
<1>6. CASE \E n : \E x \in W : M \subseteq N \cup {n} /\ V \subseteq W \ {x}
  <2> PICK n : \E x \in W : M \subseteq N \cup {n} /\ V \subseteq W \ {x}
    BY <1>6
  <2> PICK x \in W : M \subseteq N \cup {n} /\ V \subseteq W \ {x}
    OBVIOUS
  <2>1. /\ IsFiniteSet(M) /\ Cardinality(M) <= Cardinality(N) + 1
        /\ IsFiniteSet(V) /\ Cardinality(V) <= Cardinality(W) - 1
        /\ Cardinality(W) - 1 \in Nat
    BY <1>4
  <2>2. Cardinality(N) + 1 \in Nat /\ Cardinality(N) + 1 + (Cardinality(W) - 1) <= limit
    BY <1>1
  <2> QED
    BY <2>1, <2>2
<1> QED
  BY <1>2, <1>5, <1>6 DEF Traded

(* Any set of workers is finite, and of the workers there are no more.     *)
LEMMA WorkersFinite ==
  ASSUME NEW W, W \subseteq Workers
  PROVE  /\ IsFiniteSet(W) /\ Cardinality(W) \in Nat
         /\ Cardinality(W) <= Cardinality(Workers) /\ Cardinality(Workers) \in Nat
  BY CacheAssumption, FS_Subset, FS_CardinalityType

LEMMA RoomIsNat == Room \in Nat /\ Cardinality(Workers) \in Nat
<1>1. Cardinality(Workers) \in Nat
  BY WorkersFinite
<1> QED
  BY <1>1, CacheAssumption DEF Room

(* Taking away what was listed and no more than a budget makes room. *)
LEMMA ListedFits ==
  ASSUME NEW N, NEW L, NEW W, W \subseteq Workers, IsFiniteSet(N), IsFiniteSet(L),
         Cardinality(L) <= Budget, Fit(N \ L, W, Cardinality(Workers))
  PROVE  Fit(N, W, Room)
<1>1. /\ IsFiniteSet(N \ L)
      /\ Cardinality(N \ L) = Cardinality(N) - Cardinality(N \cap L)
      /\ IsFiniteSet(N \cap L) /\ Cardinality(N \cap L) <= Cardinality(L)
  BY FS_Difference, FS_Intersection
<1>2. /\ Cardinality(N) \in Nat /\ Cardinality(N \cap L) \in Nat /\ Cardinality(L) \in Nat
      /\ Cardinality(N \ L) \in Nat
  BY <1>1, FS_CardinalityType
<1>3. Cardinality(W) \in Nat /\ Cardinality(Workers) \in Nat /\ Budget \in Nat
  BY WorkersFinite, CacheAssumption
<1> QED
  BY <1>1, <1>2, <1>3 DEF Fit, Room

-----------------------------------------------------------------------------
(* The names there are after each operation on the directory.              *)
LEMMA NamesWithout ==
  ASSUME Directory, NEW n, files' = Without(n)
  PROVE  Present' = Present \ {n}
  BY WithoutContent DEF Present

LEMMA NamesChanged ==
  ASSUME Directory, NEW n, NEW file \in File, file.name = n, files' = Changed(n, file)
  PROVE  Present' \subseteq Present
<1>1. \A f \in Content(files') :
        (f = file /\ Exists(n)) \/ (f \in Content(files) /\ f.name # n)
  BY ChangedContent
<1> QED
  BY <1>1, ExistsContent DEF Present

LEMMA NamesAppended ==
  ASSUME Directory, NEW file \in File, ~Exists(file.name), files' = Append(files, file)
  PROVE  Present' \subseteq Present \cup {file.name}
  BY AppendContent DEF Present

LEMMA NamesRenamed ==
  ASSUME Directory, NEW from \in Names, NEW to \in Names, from # to,
         files' = Renamed(from, to)
  PROVE  IF from \in Present THEN Present' \subseteq (Present \ {from}) \cup {to}
         ELSE Present' \subseteq Present
<1>1. Content(files') =
        {f \in Content(files) : f.name \notin {from, to}}
          \cup {[f EXCEPT !.name = to] : f \in {g \in Content(files) : g.name = from}}
  BY RenamedContent
<1>2. \A f \in Content(files) : f \in File
  BY DEF Content, Directory
<1>3. \A f \in File : [f EXCEPT !.name = to].name = to
  BY DEF File
<1>4. \A f \in Content(files') :
        \/ f \in Content(files) /\ f.name \notin {from, to}
        \/ f.name = to /\ from \in Present
  BY <1>1, <1>2, <1>3 DEF Present
<1> QED
  BY <1>4 DEF Present

(* The steps of one worker leave the others where they are. *)
OthersWait(w) ==
  \A x \in Workers : x # w => pc'[x] = pc[x] /\ total'[x] = total[x] /\ listing'[x] = listing[x]

LEMMA OthersStay ==
  ASSUME NEW w \in Workers, OthersWait(w), NEW r
  PROVE  \A x \in Workers : x # w =>
           /\ Listed(x)' = Listed(x)
           /\ x \in Pending' <=> x \in Pending
           /\ x \in Evicting' <=> x \in Evicting
           /\ \A u \in Workers : u # w =>
                /\ x \in Writing(u)' <=> x \in Writing(u)
                /\ x \in Later(r, u)' <=> x \in Later(r, u)
<1>1. \A x \in Workers : x # w =>
        /\ Listed(x)' = Listed(x)
        /\ x \in Pending' <=> x \in Pending
        /\ x \in Evicting' <=> x \in Evicting
  BY DEF OthersWait, Listed, Pending, Evicting
<1>2. \A x \in Workers, u \in Workers : x # w /\ u # w => (x \in Writing(u)' <=> x \in Writing(u))
  BY <1>1 DEF OthersWait, Writing, Temp
<1>3. \A u : \A x \in Workers : x # w => (x \in Later(r, u)' <=> x \in Later(r, u))
  BY <1>1 DEF Later
<1> QED
  BY <1>1, <1>2, <1>3

(* What keeps the balance: no more names, or as many, or a worker for one. *)
LEMMA BalanceKept ==
  ASSUME Directory, NEW r, Balanced(r), Evicting' \subseteq Evicting,
         Traded(Present, Pending \ Evicting, Present', Pending' \ Evicting'),
         \A u \in Evicting' :
           /\ Traded(Present \ Listed(u), Afoot(r, u), Present' \ Listed(u)', Afoot(r, u)')
           /\ Traded(Present, Pending \ Later(r, u), Present', Pending' \ Later(r, u)')
  PROVE  Balanced(r)'
<1>1. /\ IsFiniteSet(Present) /\ IsFiniteSet(Pending \ Evicting)
      /\ \A u \in Evicting : /\ IsFiniteSet(Present \ Listed(u)) /\ IsFiniteSet(Afoot(r, u))
                              /\ IsFiniteSet(Pending \ Later(r, u))
  <2>1. IsFiniteSet(Present)
    BY PresentIsFinite
  <2>2. \A u : IsFiniteSet(Present \ Listed(u))
    BY <2>1, FS_Difference
  <2>3. Pending \ Evicting \subseteq Workers
    BY DEF Pending
  <2>4. \A u \in Evicting : Afoot(r, u) \subseteq Workers /\ Pending \ Later(r, u) \subseteq Workers
    BY DEF Afoot, Pending, Writing, Evicting
  <2> QED
    BY <2>1, <2>2, <2>3, <2>4, WorkersFinite
<1>2. Fit(Present', Pending' \ Evicting', Room)
  BY <1>1, StillFit, RoomIsNat DEF Balanced
<1>3. ASSUME NEW u \in Evicting'
      PROVE  Level(r, u)'
  <2>1. u \in Evicting /\ Level(r, u)
    BY DEF Balanced
  <2>2. CASE Fit(Present \ Listed(u), Afoot(r, u), Cardinality(Workers))
    <3>1. Fit(Present' \ Listed(u)', Afoot(r, u)', Cardinality(Workers))
      BY <1>1, <2>1, <2>2, StillFit, RoomIsNat
    <3> QED
      BY <3>1 DEF Level, Fit
  <2>3. CASE Fit(Present, Pending \ Later(r, u), Room)
    <3>1. Fit(Present', Pending' \ Later(r, u)', Room)
      BY <1>1, <2>1, <2>3, StillFit, RoomIsNat
    <3> QED
      BY <3>1 DEF Level, Fit, Room
  <2> QED
    BY <2>1, <2>2, <2>3 DEF Level
<1> QED
  BY <1>2, <1>3 DEF Balanced, Fit, Room

(* Nothing is created, and w does not come to evict or to create.          *)
LEMMA NothingCreated ==
  ASSUME Directory, NEW r, Balanced(r), NEW w \in Workers, OthersWait(w),
         Present' \subseteq Present, w \notin Evicting',
         w \in Pending' => w \in Pending /\ w \notin Evicting,
         \A u \in Workers : u # w /\ w \in Writing(u)' => w \in Writing(u)
  PROVE  Balanced(r)'
<1>1. Evicting' \subseteq Evicting /\ Evicting' \subseteq Workers
  BY OthersStay DEF Evicting
<1>2. Pending' \ Evicting' \subseteq Pending \ Evicting
  <2> SUFFICES ASSUME NEW x \in Workers, x \in Pending' \ Evicting'
               PROVE  x \in Pending \ Evicting
    BY DEF Pending
  <2> QED
    BY OthersStay
<1>3. ASSUME NEW u \in Evicting'
      PROVE  /\ Present' \ Listed(u)' \subseteq Present \ Listed(u)
             /\ Afoot(r, u)' \subseteq Afoot(r, u)
             /\ Pending' \ Later(r, u)' \subseteq Pending \ Later(r, u)
  <2>1. u \in Workers /\ u # w /\ Listed(u)' = Listed(u)
    BY <1>1, OthersStay
  <2>2. Pending' \ Later(r, u)' \subseteq Pending \ Later(r, u)
    <3> SUFFICES ASSUME NEW x \in Workers, x \in Pending' \ Later(r, u)'
                 PROVE  x \in Pending \ Later(r, u)
      BY DEF Pending
    <3>1. CASE x # w
      BY <2>1, <3>1, OthersStay
    <3>2. CASE x = w
      BY <3>2 DEF Later
    <3> QED
      BY <3>1, <3>2
  <2>3. Writing(u)' \subseteq Writing(u)
    <3> SUFFICES ASSUME NEW x \in Workers, x \in Writing(u)'
                 PROVE  x \in Writing(u)
      BY DEF Writing
    <3> QED
      BY <2>1, OthersStay
  <2>4. Afoot(r, u)' \subseteq Afoot(r, u)
    BY <2>2, <2>3 DEF Afoot
  <2> QED
    BY <2>1, <2>2, <2>4
<1> QED
  BY <1>1, <1>2, <1>3, BalanceKept DEF Traded

(* A file is created by one that was to create it. *)
LEMMA OneCreated ==
  ASSUME Directory, NEW r, Balanced(r), NEW w \in Workers, OthersWait(w),
         Present' \subseteq Present \cup {Temp(w)}, pc[w] = "create", w \notin Pending'
  PROVE  Balanced(r)'
<1>1. w \in Pending /\ w \notin Evicting /\ w \notin Evicting'
  BY DEF Pending, Evicting
<1>2. Evicting' \subseteq Evicting /\ Evicting' \subseteq Workers
  BY <1>1, OthersStay DEF Evicting
<1>3. Pending' \ Evicting' \subseteq (Pending \ Evicting) \ {w}
  <2> SUFFICES ASSUME NEW x \in Workers, x \in Pending' \ Evicting'
               PROVE  x \in (Pending \ Evicting) \ {w}
    BY DEF Pending
  <2> QED
    BY OthersStay
<1>4. ASSUME NEW u \in Evicting'
      PROVE  /\ Traded(Present \ Listed(u), Afoot(r, u), Present' \ Listed(u)', Afoot(r, u)')
             /\ Traded(Present, Pending \ Later(r, u), Present', Pending' \ Later(r, u)')
  <2>1. u \in Workers /\ u # w /\ Listed(u)' = Listed(u)
    BY <1>1, <1>2, OthersStay
  <2>2. w \in Pending \ Later(r, u)
    BY <1>1 DEF Later
  <2>3. Pending' \ Later(r, u)' \subseteq (Pending \ Later(r, u)) \ {w}
    <3> SUFFICES ASSUME NEW x \in Workers, x \in Pending' \ Later(r, u)'
                 PROVE  x \in (Pending \ Later(r, u)) \ {w}
      BY DEF Pending
    <3> QED
      BY <2>1, OthersStay
  <2>4. Writing(u)' \subseteq Writing(u) \cup {w}
    <3> SUFFICES ASSUME NEW x \in Workers, x \in Writing(u)'
                 PROVE  x \in Writing(u) \cup {w}
      BY DEF Writing
    <3> QED
      BY <2>1, OthersStay
  <2>5. CASE Temp(w) \in Listed(u)
    <3>1. Present' \ Listed(u)' \subseteq Present \ Listed(u)
      BY <2>1, <2>5
    <3>2. Afoot(r, u)' \subseteq Afoot(r, u)
      BY <2>2, <2>3, <2>4 DEF Afoot
    <3> QED
      BY <1>1, <2>2, <2>3, <3>1, <3>2 DEF Traded
  <2>6. CASE Temp(w) \notin Listed(u)
    <3>1. w \notin Writing(u)'
      BY <2>1, <2>6 DEF Writing, Temp
    <3>2. w \in Afoot(r, u) /\ Afoot(r, u)' \subseteq Afoot(r, u) \ {w}
      BY <2>1, <2>2, <2>3, <2>4, <3>1 DEF Afoot
    <3>3. Present' \ Listed(u)' \subseteq (Present \ Listed(u)) \cup {Temp(w)}
      BY <2>1
    <3> QED
      BY <2>2, <2>3, <3>2, <3>3 DEF Traded
  <2> QED
    BY <2>5, <2>6
<1>5. Traded(Present, Pending \ Evicting, Present', Pending' \ Evicting')
  BY <1>1, <1>3 DEF Traded
<1> QED
  BY <1>2, <1>4, <1>5, BalanceKept

(* The temporary file of w gets another name. *)
LEMMA OneMoved ==
  ASSUME Directory, NEW r, Balanced(r), NEW w \in Workers, OthersWait(w), NEW to,
         Temp(w) \in Present, Present' \subseteq (Present \ {Temp(w)}) \cup {to},
         pc[w] \in {"copy", "rename"}, pc'[w] \notin {"evict", "create", "copy", "rename"}
  PROVE  Balanced(r)'
<1>1. w \notin Pending /\ w \notin Pending' /\ w \notin Evicting /\ w \notin Evicting'
  BY DEF Pending, Evicting
<1>2. Evicting' \subseteq Evicting /\ Evicting' \subseteq Workers
  BY <1>1, OthersStay DEF Evicting
<1>3. Pending' \ Evicting' \subseteq Pending \ Evicting
  <2> SUFFICES ASSUME NEW x \in Workers, x \in Pending' \ Evicting'
               PROVE  x \in Pending \ Evicting
    BY DEF Pending
  <2> QED
    BY <1>1, OthersStay
<1>4. ASSUME NEW u \in Evicting'
      PROVE  /\ Traded(Present \ Listed(u), Afoot(r, u), Present' \ Listed(u)', Afoot(r, u)')
             /\ Traded(Present, Pending \ Later(r, u), Present', Pending' \ Later(r, u)')
  <2>1. u \in Workers /\ u # w /\ Listed(u)' = Listed(u)
    BY <1>1, <1>2, OthersStay
  <2>2. Pending' \ Later(r, u)' \subseteq Pending \ Later(r, u)
    <3> SUFFICES ASSUME NEW x \in Workers, x \in Pending' \ Later(r, u)'
                 PROVE  x \in Pending \ Later(r, u)
      BY DEF Pending
    <3> QED
      BY <1>1, <2>1, OthersStay
  <2>3. Writing(u)' \subseteq Writing(u) \ {w}
    <3> SUFFICES ASSUME NEW x \in Workers, x \in Writing(u)'
                 PROVE  x \in Writing(u) \ {w}
      BY DEF Writing
    <3>1. x # w
      BY DEF Writing
    <3> QED
      BY <2>1, <3>1, OthersStay
  <2>4. Afoot(r, u)' \subseteq Afoot(r, u) \ {w}
    BY <1>1, <2>1, <2>2, <2>3 DEF Afoot
  <2>5. CASE Temp(w) \in Listed(u)
    <3>1. w \in Afoot(r, u)
      BY <2>5 DEF Afoot, Writing
    <3>2. Present' \ Listed(u)' \subseteq (Present \ Listed(u)) \cup {to}
      BY <2>1
    <3> QED
      BY <2>2, <2>4, <3>1, <3>2 DEF Traded
  <2>6. CASE Temp(w) \notin Listed(u)
    <3>1. /\ Temp(w) \in Present \ Listed(u)
          /\ Present' \ Listed(u)' \subseteq ((Present \ Listed(u)) \ {Temp(w)}) \cup {to}
          /\ Afoot(r, u)' \subseteq Afoot(r, u)
      BY <2>1, <2>4, <2>6
    <3> QED
      BY <2>2, <3>1 DEF Traded
  <2> QED
    BY <2>5, <2>6
<1>5. Traded(Present, Pending \ Evicting, Present', Pending' \ Evicting')
  BY <1>3 DEF Traded
<1> QED
  BY <1>2, <1>4, <1>5, BalanceKept

(* The oldest file on the list of w is removed, or was gone.  When that was *)
(* its last, what is there and was on its list is within the budget.        *)
LEMMA OneEvicted ==
  ASSUME Directory, Locals, NEW r \in [Workers -> Nat], Balanced(r), NEW w \in Workers,
         OthersWait(w), w \in Evicting, Present' \subseteq Present,
         Present' \ Listed(w)' \subseteq Present \ Listed(w), Listed(w)' \subseteq Listed(w),
         Directory', Locals', ListingFits', pc' = pc
  PROVE  Balanced(r)'
<1>1. Pending' = Pending /\ Evicting' \subseteq Evicting /\ Evicting' \subseteq Workers
  <2>1. Pending' = Pending
    BY DEF Pending
  <2>2. \A x \in Workers : x \in Evicting' => x \in Evicting
    BY OthersStay
  <2> QED
    BY <2>1, <2>2 DEF Evicting
<1>2. \A u \in Workers : Writing(u)' \subseteq Writing(u)
  <2>1. \A u \in Workers : Listed(u)' \subseteq Listed(u)
    BY OthersStay
  <2> QED
    BY <2>1 DEF Writing, Temp
<1>3. \A u \in Workers : Present' \ Listed(u)' \subseteq Present \ Listed(u)
  BY OthersStay
<1>4. CASE w \in Evicting'
  <2>1. Evicting' = Evicting
    <3>1. \A x \in Workers : x \in Evicting' <=> x \in Evicting
      BY <1>4, OthersStay
    <3> QED
      BY <3>1 DEF Evicting
  <2>2. \A u \in Workers : Later(r, u)' = Later(r, u)
    BY <2>1 DEF Later
  <2>3. \A u \in Workers : Afoot(r, u)' \subseteq Afoot(r, u)
    BY <1>1, <1>2, <2>2 DEF Afoot
  <2> QED
    BY <1>1, <1>3, <2>1, <2>2, <2>3, BalanceKept DEF Traded
<1>5. CASE w \notin Evicting'
  <2>1. Cardinality(Listed(w)') <= Budget /\ IsFiniteSet(Listed(w)')
    <3>1. listing'[w] \in Seq(Names) /\ total'[w] \in Nat /\ Budget \in Nat
      BY CacheAssumption DEF Locals
    <3>2. pc'[w] = "evict"
      BY DEF Evicting
    <3>3. Len(listing'[w]) <= total'[w]
      BY <3>2 DEF ListingFits
    <3>4. total'[w] <= Budget \/ listing'[w] = <<>>
      BY <1>5, <3>1, <3>2 DEF Evicting
    <3>5. Len(listing'[w]) \in Nat /\ Len(listing'[w]) <= Budget
      BY <3>1, <3>3, <3>4
    <3>6. IsFiniteSet(Listed(w)') /\ Cardinality(Listed(w)') <= Len(listing'[w])
      BY <3>1, ListedIsFinite DEF Listed
    <3>7. Cardinality(Listed(w)') \in Nat
      BY <3>6, FS_CardinalityType
    <3> QED
      BY <3>1, <3>5, <3>6, <3>7
  <2>2. Fit(Present', Pending \ Later(r, w), Room)
    <3>1. /\ IsFiniteSet(Present) /\ IsFiniteSet(Present')
          /\ IsFiniteSet(Present \ Listed(w)) /\ IsFiniteSet(Present' \ Listed(w)')
      BY PresentIsFinite, FS_Subset, FS_Difference
    <3>2. /\ Afoot(r, w) \subseteq Workers /\ IsFiniteSet(Afoot(r, w))
          /\ Pending \ Later(r, w) \subseteq Workers /\ IsFiniteSet(Pending \ Later(r, w))
          /\ Pending \ Later(r, w) \subseteq Afoot(r, w)
      <4>1. Afoot(r, w) \subseteq Workers /\ Pending \ Later(r, w) \subseteq Afoot(r, w)
        BY DEF Afoot, Pending, Writing
      <4> QED
        BY <4>1, WorkersFinite
    <3>3. CASE Fit(Present \ Listed(w), Afoot(r, w), Cardinality(Workers))
      <4>1. Traded(Present \ Listed(w), Afoot(r, w), Present' \ Listed(w)', Pending \ Later(r, w))
        BY <3>2 DEF Traded
      <4>2. Fit(Present' \ Listed(w)', Pending \ Later(r, w), Cardinality(Workers))
        BY <3>1, <3>2, <3>3, <4>1, StillFit, RoomIsNat
      <4> QED
        BY <2>1, <3>1, <3>2, <4>2, ListedFits
    <3>4. CASE Fit(Present, Pending \ Later(r, w), Room)
      <4>1. Traded(Present, Pending \ Later(r, w), Present', Pending \ Later(r, w))
        BY DEF Traded
      <4> QED
        BY <3>1, <3>2, <3>4, <4>1, StillFit, RoomIsNat
    <3> QED
      BY <3>3, <3>4 DEF Balanced, Level
  <2>3. \A W : W \subseteq Pending \ Later(r, w) => Fit(Present', W, Room)
    <3> SUFFICES ASSUME NEW W, W \subseteq Pending \ Later(r, w)
                 PROVE  Fit(Present', W, Room)
      OBVIOUS
    <3>1. IsFiniteSet(Present') /\ IsFiniteSet(Pending \ Later(r, w))
      <4>1. Pending \ Later(r, w) \subseteq Workers
        BY DEF Pending
      <4> QED
        BY <4>1, PresentIsFinite, FS_Subset, WorkersFinite
    <3>2. Traded(Present', Pending \ Later(r, w), Present', W)
      BY DEF Traded
    <3> QED
      BY <2>2, <3>1, <3>2, StillFit, RoomIsNat
  <2>4. w \notin Later(r, w) /\ Later(r, w) \subseteq Evicting'
    <3>1. w \notin Later(r, w)
      BY DEF Later
    <3>2. \A x \in Workers : x \in Later(r, w) => x \in Evicting'
      BY <3>1, OthersStay DEF Later
    <3> QED
      BY <3>1, <3>2 DEF Later, Evicting
  <2>5. Fit(Present', Pending' \ Evicting', Room)
    BY <1>1, <2>3, <2>4
  <2>6. ASSUME NEW u \in Evicting'
        PROVE  Level(r, u)'
    <3>1. u \in Workers /\ u # w /\ u \in Evicting /\ r[u] \in Nat /\ r[w] \in Nat
      BY <1>1, <1>5
    <3>2. CASE r[u] < r[w]
      <4>1. \A x \in Later(r, w) : r[x] > r[u]
        BY <3>1, <3>2 DEF Later, Evicting
      <4>2. Later(r, w) \subseteq Later(r, u)'
        BY <2>4, <4>1 DEF Later
      <4>3. Fit(Present', Pending' \ Later(r, u)', Room)
        BY <1>1, <2>3, <4>2
      <4> QED
        BY <4>3 DEF Level, Fit, Room
    <3>3. CASE ~(r[u] < r[w])
      <4>1. w \notin Later(r, u) /\ w \notin Later(r, u)'
        BY <3>1, <3>3 DEF Later
      <4>2. Later(r, u)' = Later(r, u)
        <5>1. \A x \in Workers : x \in Later(r, u)' <=> x \in Later(r, u)
          BY <3>1, <4>1, OthersStay
        <5> QED
          BY <5>1 DEF Later, Evicting
      <4>3. /\ Present' \ Listed(u)' \subseteq Present \ Listed(u)
            /\ Afoot(r, u)' \subseteq Afoot(r, u)
        BY <1>1, <1>2, <1>3, <3>1, <4>2 DEF Afoot
      <4>4. /\ IsFiniteSet(Present) /\ IsFiniteSet(Present \ Listed(u))
            /\ IsFiniteSet(Afoot(r, u)) /\ IsFiniteSet(Pending \ Later(r, u))
        <5>1. Afoot(r, u) \subseteq Workers /\ Pending \ Later(r, u) \subseteq Workers
          BY <3>1 DEF Afoot, Pending, Writing
        <5> QED
          BY <5>1, PresentIsFinite, FS_Difference, WorkersFinite
      <4>5. Level(r, u)
        BY <3>1 DEF Balanced
      <4>6. CASE Fit(Present \ Listed(u), Afoot(r, u), Cardinality(Workers))
        <5>1. Fit(Present' \ Listed(u)', Afoot(r, u)', Cardinality(Workers))
          BY <4>3, <4>4, <4>6, StillFit, RoomIsNat DEF Traded
        <5> QED
          BY <5>1 DEF Level, Fit
      <4>7. CASE Fit(Present, Pending \ Later(r, u), Room)
        <5>1. Fit(Present', Pending' \ Later(r, u)', Room)
          BY <1>1, <4>2, <4>4, <4>7, StillFit, RoomIsNat DEF Traded
        <5> QED
          BY <5>1 DEF Level, Fit, Room
      <4> QED
        BY <4>5, <4>6, <4>7 DEF Level
    <3> QED
      BY <3>2, <3>3
  <2> QED
    BY <2>5, <2>6 DEF Balanced, Fit, Room
<1> QED
  BY <1>4, <1>5

(* w looks at the directory after all the others. *)
LEMMA OneCollected ==
  ASSUME Directory, Locals, NEW r \in [Workers -> Nat], Balanced(r), NEW w \in Workers,
         OthersWait(w), NEW n \in Nat, \A x \in Workers : r[x] < n,
         w \notin Pending, pc[w] = "cleanup", pc'[w] = "evict", Present' = Present,
         Listed(w)' = Present, total'[w] = Cardinality(Present),
         Len(listing'[w]) = Cardinality(Present), Locals'
  PROVE  Balanced([r EXCEPT ![w] = n])'
<1> DEFINE s == [r EXCEPT ![w] = n]
<1>1. /\ s[w] = n /\ \A x \in Workers : x # w => s[x] = r[x] /\ s[x] < s[w]
      /\ \A x \in Workers : s[x] \in Nat
  OBVIOUS
<1> HIDE DEF s
<1>2. w \notin Evicting /\ w \in Pending'
  BY DEF Pending, Evicting
<1>3. IsFiniteSet(Present) /\ Cardinality(Present) \in Nat
  BY PresentIsFinite, FS_CardinalityType
<1>4. \A x \in Evicting' : x \in Workers
  BY DEF Evicting
<1>5. CASE w \in Evicting'
  <2>1. Pending' \ Evicting' \subseteq Pending \ Evicting
    <3> SUFFICES ASSUME NEW x \in Workers, x \in Pending' \ Evicting'
                 PROVE  x \in Pending \ Evicting
      BY DEF Pending
    <3> QED
      BY <1>5, OthersStay
  <2>2. ASSUME NEW u \in Workers, u # w
        PROVE  /\ Pending' \ Later(s, u)' \subseteq Pending \ Later(r, u)
               /\ Afoot(s, u)' \subseteq Afoot(r, u)
               /\ Present' \ Listed(u)' = Present \ Listed(u)
    <3>1. w \in Later(s, u)'
      BY <1>1, <1>5, <2>2 DEF Later
    <3>2. \A x \in Workers : x # w => (x \in Later(s, u)' <=> x \in Later(r, u))
      BY <1>1, <2>2, OthersStay DEF Later
    <3>3. Pending' \ Later(s, u)' \subseteq Pending \ Later(r, u)
      <4> SUFFICES ASSUME NEW x \in Workers, x \in Pending' \ Later(s, u)'
                   PROVE  x \in Pending \ Later(r, u)
        BY DEF Pending
      <4> QED
        BY <3>1, <3>2, OthersStay
    <3>4. Writing(u)' \subseteq Writing(u)
      <4> SUFFICES ASSUME NEW x \in Workers, x \in Writing(u)'
                   PROVE  x \in Writing(u)
        BY DEF Writing
      <4>1. x # w
        BY DEF Writing
      <4> QED
        BY <2>2, <4>1, OthersStay
    <3> QED
      BY <2>2, <3>3, <3>4, OthersStay DEF Afoot
  <2>3. Fit(Present', Pending' \ Evicting', Room)
    <3>1. IsFiniteSet(Pending \ Evicting)
      <4>1. Pending \ Evicting \subseteq Workers
        BY DEF Pending
      <4> QED
        BY <4>1, WorkersFinite
    <3>2. Fit(Present, Pending \ Evicting, Room)
      BY DEF Balanced
    <3>3. Traded(Present, Pending \ Evicting, Present', Pending' \ Evicting')
      BY <2>1 DEF Traded
    <3> QED
      BY <1>3, <3>1, <3>2, <3>3, StillFit, RoomIsNat
  <2>4. ASSUME NEW u \in Evicting', u # w
        PROVE  Level(s, u)'
    <3>1. u \in Workers /\ u \in Evicting
      BY <1>4, <2>4, OthersStay
    <3>2. IsFiniteSet(Present \ Listed(u)) /\ IsFiniteSet(Afoot(r, u)) /\ IsFiniteSet(Pending \ Later(r, u))
      <4>1. Afoot(r, u) \subseteq Workers /\ Pending \ Later(r, u) \subseteq Workers
        BY <3>1 DEF Afoot, Pending, Writing
      <4> QED
        BY <1>3, <4>1, FS_Difference, WorkersFinite
    <3>3. /\ Pending' \ Later(s, u)' \subseteq Pending \ Later(r, u)
          /\ Afoot(s, u)' \subseteq Afoot(r, u)
          /\ Present' \ Listed(u)' = Present \ Listed(u)
      BY <2>2, <2>4, <3>1
    <3>4. CASE Fit(Present \ Listed(u), Afoot(r, u), Cardinality(Workers))
      <4>1. Fit(Present' \ Listed(u)', Afoot(s, u)', Cardinality(Workers))
        BY <3>2, <3>3, <3>4, StillFit, RoomIsNat DEF Traded
      <4> QED
        BY <4>1 DEF Level, Fit
    <3>5. CASE Fit(Present, Pending \ Later(r, u), Room)
      <4>1. Fit(Present', Pending' \ Later(s, u)', Room)
        BY <1>3, <3>2, <3>3, <3>5, StillFit, RoomIsNat DEF Traded
      <4> QED
        BY <4>1 DEF Level, Fit, Room
    <3> QED
      BY <3>1, <3>4, <3>5 DEF Balanced, Level
  <2>5. Level(s, w)'
    <3>1. Present' \ Listed(w)' = {}
      OBVIOUS
    <3>2. Afoot(s, w)' \subseteq Workers
      BY DEF Afoot, Pending, Writing
    <3>3. Fit({}, Afoot(s, w)', Cardinality(Workers))
      BY <3>2, WorkersFinite, FS_EmptySet DEF Fit
    <3> QED
      BY <3>1, <3>3 DEF Level, Fit
  <2> QED
    BY <2>3, <2>4, <2>5 DEF Balanced, Fit, Room, s
<1>6. CASE w \notin Evicting'
  <2>1. Cardinality(Present) <= Budget /\ Budget \in Nat
    <3>1. total'[w] <= Budget \/ listing'[w] = <<>>
      BY <1>6, <1>3, CacheAssumption DEF Evicting
    <3>2. listing'[w] = <<>> => Len(listing'[w]) = 0
      OBVIOUS
    <3> QED
      BY <1>3, <3>1, <3>2, CacheAssumption
  <2>2. \A W : W \subseteq Workers => Fit(Present', W, Room)
    <3> SUFFICES ASSUME NEW W, W \subseteq Workers
                 PROVE  Cardinality(Present) + Cardinality(W) <= Budget + Cardinality(Workers)
      BY DEF Fit, Room
    <3> QED
      BY <1>3, <2>1, WorkersFinite
  <2>3. \A u : Level(s, u)'
    <3> SUFFICES ASSUME NEW u
                 PROVE  Level(s, u)'
      OBVIOUS
    <3>1. Pending' \ Later(s, u)' \subseteq Workers
      BY DEF Pending
    <3>2. Fit(Present', Pending' \ Later(s, u)', Room)
      BY <2>2, <3>1
    <3> QED
      BY <3>2 DEF Level, Fit, Room
  <2>4. Fit(Present', Pending' \ Evicting', Room)
    <3>1. Pending' \ Evicting' \subseteq Workers
      BY DEF Pending
    <3> QED
      BY <2>2, <3>1
  <2> QED
    BY <2>3, <2>4 DEF Balanced, Fit, Room, s
<1> QED
  BY <1>5, <1>6

LEMMA OthersWaiting ==
  ASSUME Locals, NEW w \in Workers, Open(w) \/ OpenStep(w) \/ Crash(w)
  PROVE  OthersWait(w)
<1>1. CASE Open(w) \/ LookUp(w) \/ Skip(w) \/ Cleaned(w) \/ Create(w) \/ Copy(w)
  BY <1>1 DEF Open, LookUp, Skip, Cleaned, Create, Copy, Goto, OthersWait, Locals, local
<1>2. CASE Collect(w) \/ Evict(w) \/ Crash(w)
  BY <1>2 DEF Collect, Evict, Crash, Goto, OthersWait, Locals
<1>3. CASE CopyFails(w) \/ Rename(w) \/ Check(w)
  BY <1>3 DEF CopyFails, Rename, Check, Fail, Goto, OthersWait, Locals
<1>4. CASE Reject(w) \/ Handle(w)
  BY <1>4 DEF Reject, Handle, Fail, Goto, OthersWait, Locals
<1> QED
  BY <1>1, <1>2, <1>3, <1>4 DEF OpenStep

(* What becomes of the names. *)
LEMMA NamesStep ==
  ASSUME Directory, Locals, NEW w \in Workers
  PROVE  /\ Open(w) \/ LookUp(w) \/ Skip(w) \/ Collect(w) \/ Cleaned(w) \/ Check(w) \/ Handle(w)
              => Present' = Present
         /\ Evict(w) => Present' \subseteq Present /\ Head(listing[w]) \notin Present'
         /\ CopyFails(w) => Present' = Present \ {Temp(w)}
         /\ Reject(w) \/ Copy(w) => Present' \subseteq Present
         /\ Create(w) => Present' \subseteq Present \cup {Temp(w)}
         /\ Rename(w) => IF Temp(w) \in Present
                         THEN Present' \subseteq (Present \ {Temp(w)}) \cup {Dest(url[w])}
                         ELSE Present' = Present
         /\ Crash(w) => IF Temp(w) \in Present
                        THEN Present' \subseteq (Present \ {Temp(w)}) \cup {Orphan(crashes + 1)}
                        ELSE Present' \subseteq Present
<1>1. Open(w) \/ LookUp(w) \/ Skip(w) \/ Collect(w) \/ Cleaned(w) \/ Check(w) \/ Handle(w)
        => Present' = Present
  BY DEF Open, LookUp, Skip, Collect, Cleaned, Check, Handle, Present
<1>2. ASSUME Evict(w)
      PROVE  Present' \subseteq Present /\ Head(listing[w]) \notin Present'
  <2>1. CASE Exists(Head(listing[w]))
    BY <1>2, <2>1, NamesWithout DEF Evict
  <2>2. CASE ~Exists(Head(listing[w]))
    BY <1>2, <2>2, ExistsContent DEF Evict, Present
  <2> QED
    BY <2>1, <2>2
<1>3. CopyFails(w) => Present' = Present \ {Temp(w)}
  BY NamesWithout DEF CopyFails
<1>4. Reject(w) => Present' \subseteq Present
  BY NamesWithout DEF Reject
<1>5. ASSUME Copy(w)
      PROVE  Present' \subseteq Present
  <2> PICK archive \in BOOLEAN :
        files' = Changed(Temp(w), [name |-> Temp(w), of |-> url[w],
                                   archive |-> archive, whole |-> TRUE])
    BY <1>5 DEF Copy
  <2> DEFINE new == [name |-> Temp(w), of |-> url[w], archive |-> archive, whole |-> TRUE]
  <2>1. new \in File /\ new.name = Temp(w)
    BY NamesApart DEF File, Locals
  <2>2. files' = Changed(Temp(w), new)
    OBVIOUS
  <2> HIDE DEF new
  <2> QED
    BY <2>1, <2>2, NamesChanged
<1>6. ASSUME Create(w)
      PROVE  Present' \subseteq Present \cup {Temp(w)}
  <2> DEFINE new == [name |-> Temp(w), of |-> url[w], archive |-> TRUE, whole |-> FALSE]
  <2>1. new \in File /\ new.name = Temp(w)
    BY NamesApart DEF File, Locals
  <2>2. files' = IF Exists(Temp(w)) THEN Changed(Temp(w), new) ELSE Append(files, new)
    BY <1>6 DEF Create
  <2> HIDE DEF new
  <2>3. CASE Exists(Temp(w))
    BY <2>1, <2>2, <2>3, NamesChanged
  <2>4. CASE ~Exists(Temp(w))
    BY <2>1, <2>2, <2>4, NamesAppended
  <2> QED
    BY <2>3, <2>4
<1>7. ASSUME Rename(w)
      PROVE  IF Temp(w) \in Present
             THEN Present' \subseteq (Present \ {Temp(w)}) \cup {Dest(url[w])}
             ELSE Present' = Present
  <2>1. Exists(Temp(w)) <=> Temp(w) \in Present
    BY ExistsContent DEF Present
  <2>2. CASE Exists(Temp(w))
    <3>1. /\ Temp(w) \in Names /\ Dest(url[w]) \in Names /\ Temp(w) # Dest(url[w])
          /\ files' = Renamed(Temp(w), Dest(url[w]))
      BY <1>7, <2>2, NamesApart DEF Rename, Locals
    <3> QED
      BY <2>1, <2>2, <3>1, NamesRenamed
  <2>3. CASE ~Exists(Temp(w))
    BY <1>7, <2>1, <2>3 DEF Rename, Present
  <2> QED
    BY <2>2, <2>3
<1>8. ASSUME Crash(w)
      PROVE  IF Temp(w) \in Present
             THEN Present' \subseteq (Present \ {Temp(w)}) \cup {Orphan(crashes + 1)}
             ELSE Present' \subseteq Present
  <2>1. /\ Orphan(crashes + 1) \in Names /\ Temp(w) \in Names /\ Temp(w) # Orphan(crashes + 1)
        /\ files' = Renamed(Temp(w), Orphan(crashes + 1))
    BY <1>8, NamesApart, CacheAssumption DEF Crash, Locals
  <2> QED
    BY <2>1, NamesRenamed
<1> QED
  BY <1>1, <1>2, <1>3, <1>4, <1>5, <1>6, <1>7, <1>8

LEMMA TempStep ==
  ASSUME Directory, Locals, TempInUse, NEW w \in Workers,
         Open(w) \/ OpenStep(w) \/ Crash(w)
  PROVE  TempInUse'
<1>1. OthersWait(w)
  BY OthersWaiting
<1>2. \A x \in Workers : x # w /\ Temp(x) \in Present' => Temp(x) \in Present
  BY NamesStep, NamesApart DEF OpenStep
<1>3. Temp(w) \in Present' => pc'[w] \in {"copy", "rename"}
  <2>1. CASE Open(w) \/ LookUp(w) \/ Skip(w) \/ Collect(w) \/ Cleaned(w) \/ Check(w)
             \/ Handle(w) \/ Evict(w) \/ Reject(w)
    <3>1. Present' \subseteq Present
      BY <2>1, NamesStep
    <3>2. pc[w] \notin {"copy", "rename"}
      BY <2>1 DEF Open, Opening, LookUp, Skip, Collect, Cleaned, Check, Handle, Evict, Reject
    <3> QED
      BY <3>1, <3>2 DEF TempInUse
  <2>2. CASE Create(w) \/ Copy(w)
    BY <2>2 DEF Create, Copy, Goto, Locals
  <2>3. CASE CopyFails(w) \/ Rename(w) \/ Crash(w)
    <3>1. Temp(w) \notin Present'
      BY <2>3, NamesStep, NamesApart
    <3> QED
      BY <3>1
  <2> QED
    BY <2>1, <2>2, <2>3 DEF OpenStep
<1>4. \A x \in Workers : Temp(x)' = Temp(x)
  BY DEF Temp
<1> QED
  BY <1>1, <1>2, <1>3, <1>4 DEF TempInUse, OthersWait

LEMMA ListingStep ==
  ASSUME Directory, Locals, ListingFits, NEW w \in Workers,
         Open(w) \/ OpenStep(w) \/ Crash(w)
  PROVE  ListingFits'
<1>1. OthersWait(w)
  BY OthersWaiting
<1>2. pc'[w] = "evict" => Len(listing'[w]) <= total'[w]
  <2>1. CASE Collect(w)
    <3>1. listing'[w] = [i \in DOMAIN files |-> files[i].name] /\ total'[w] = Len(files)
      BY <2>1 DEF Collect, Locals
    <3>2. DOMAIN files = 1..Len(files) /\ Len(files) \in Nat
      BY DEF Directory
    <3>3. Len(listing'[w]) = Len(files)
      BY <3>1, <3>2
    <3> QED
      BY <3>1, <3>2, <3>3
  <2>2. CASE Evict(w)
    <3>1. listing[w] \in Seq(Names) /\ total[w] \in Nat /\ listing[w] # <<>>
      BY <2>2 DEF Evict, Locals
    <3>2. Len(listing[w]) <= total[w]
      BY <2>2 DEF Evict, ListingFits
    <3>3. listing'[w] = Tail(listing[w]) /\ total'[w] \in {total[w], total[w] - 1}
      BY <2>2 DEF Evict, Locals
    <3>4. Len(Tail(listing[w])) = Len(listing[w]) - 1 /\ Len(listing[w]) \in Nat
      BY <3>1
    <3> QED
      BY <3>1, <3>2, <3>3, <3>4
  <2>3. CASE ~Collect(w) /\ ~Evict(w)
    <3>1. pc'[w] # "evict"
      <4>1. CASE Open(w) \/ LookUp(w) \/ Skip(w) \/ Cleaned(w) \/ Create(w) \/ Copy(w) \/ Crash(w)
        BY <4>1 DEF Open, LookUp, Skip, Cleaned, Create, Copy, Crash, Goto, Locals
      <4>2. CASE CopyFails(w) \/ Rename(w) \/ Check(w) \/ Reject(w) \/ Handle(w)
        BY <4>2 DEF CopyFails, Rename, Check, Reject, Handle, Fail, Goto, Locals
      <4> QED
        BY <2>3, <4>1, <4>2 DEF OpenStep
    <3> QED
      BY <3>1
  <2> QED
    BY <2>1, <2>2, <2>3
<1> QED
  BY <1>1, <1>2 DEF ListingFits, OthersWait

LEMMA BalanceStep ==
  ASSUME Directory, Locals, Directory', Locals', TempInUse, ListingFits', ~throttled, Ordered,
         NEW w \in Workers, Open(w) \/ OpenStep(w) \/ Crash(w)
  PROVE  Ordered'
<1> PICK r \in [Workers -> Nat] : \E n \in Nat : (\A x \in Workers : r[x] < n) /\ Balanced(r)
  BY DEF Ordered
<1> PICK n \in Nat : (\A x \in Workers : r[x] < n) /\ Balanced(r)
  OBVIOUS
<1>1. OthersWait(w)
  BY OthersWaiting
<1>2. Balanced(r)' => Ordered'
  BY DEF Ordered
<1>3. CASE Open(w) \/ LookUp(w) \/ Cleaned(w) \/ Copy(w) \/ CopyFails(w)
           \/ Check(w) \/ Reject(w) \/ Handle(w)
  <2>1. Present' \subseteq Present
    BY <1>3, NamesStep
  <2>2. w \notin Evicting' /\ (w \in Pending' => w \in Pending /\ w \notin Evicting)
    <3>1. CASE Cleaned(w)
      <4>1. pc'[w] = "create" /\ pc[w] = "evict"
        BY <3>1 DEF Cleaned, Goto, Locals
      <4>2. ~(total[w] > Budget) \/ listing[w] = <<>>
        <5>1. total[w] \in Nat /\ Budget \in Nat
          BY CacheAssumption DEF Locals
        <5> QED
          BY <3>1, <5>1 DEF Cleaned
      <4> QED
        BY <4>1, <4>2 DEF Pending, Evicting
    <3>2. CASE Open(w) \/ LookUp(w) \/ Copy(w)
      BY <3>2 DEF Open, LookUp, Copy, Goto, Pending, Evicting, Locals
    <3>3. CASE CopyFails(w) \/ Check(w) \/ Reject(w) \/ Handle(w)
      BY <3>3 DEF CopyFails, Check, Reject, Handle, Fail, Goto, Pending, Evicting, Locals
    <3> QED
      BY <1>3, <3>1, <3>2, <3>3
  <2>3. pc'[w] \in {"copy", "rename"} => pc[w] \in {"copy", "rename"}
    <3>1. CASE Open(w) \/ LookUp(w) \/ Cleaned(w) \/ Copy(w)
      BY <3>1 DEF Open, LookUp, Cleaned, Copy, Goto, Locals
    <3>2. CASE CopyFails(w) \/ Check(w) \/ Reject(w) \/ Handle(w)
      BY <3>2 DEF CopyFails, Check, Reject, Handle, Fail, Goto, Locals
    <3> QED
      BY <1>3, <3>1, <3>2
  <2>4. \A u \in Workers : u # w /\ w \in Writing(u)' => w \in Writing(u)
    BY <1>1, <2>3, OthersStay DEF Writing, Temp
  <2> QED
    BY <1>1, <1>2, <2>1, <2>2, <2>4, NothingCreated
<1>4. ASSUME Skip(w)
      PROVE  FALSE
  BY <1>4 DEF Skip
<1>5. CASE Collect(w)
  <2>1. /\ pc[w] = "cleanup" /\ pc'[w] = "evict" /\ files' = files
        /\ listing'[w] = [i \in DOMAIN files |-> files[i].name] /\ total'[w] = Len(files)
    BY <1>5 DEF Collect, Goto, Locals
  <2>2. w \notin Pending
    BY <2>1 DEF Pending
  <2>3. Present' = Present
    BY <2>1 DEF Present
  <2>4. Listed(w)' = Present
    BY <2>1 DEF Listed, Present, Content
  <2>5. Cardinality(Present) = Len(files) /\ Len(files) \in Nat /\ DOMAIN files = 1..Len(files)
    BY PresentIsFinite DEF Directory
  <2>6. Len(listing'[w]) = Len(files)
    BY <2>1, <2>5
  <2>7. Balanced([r EXCEPT ![w] = n])'
    BY <1>1, <2>1, <2>2, <2>3, <2>4, <2>5, <2>6, OneCollected
  <2>8. /\ [r EXCEPT ![w] = n] \in [Workers -> Nat] /\ n + 1 \in Nat
        /\ \A x \in Workers : [r EXCEPT ![w] = n][x] < n + 1
    OBVIOUS
  <2> QED
    BY <2>7, <2>8 DEF Ordered
<1>6. CASE Evict(w)
  <2>1. /\ pc[w] = "evict" /\ total[w] > Budget /\ listing[w] # <<>>
        /\ pc' = pc /\ listing'[w] = Tail(listing[w]) /\ listing[w] \in Seq(Names)
    BY <1>6 DEF Evict, Locals
  <2>2. w \in Evicting
    BY <2>1 DEF Evicting
  <2>3. Present' \subseteq Present /\ Head(listing[w]) \notin Present'
    BY <1>6, NamesStep
  <2>4. /\ Listed(w)' \subseteq Listed(w)
        /\ \A m \in Listed(w) : m = Head(listing[w]) \/ m \in Listed(w)'
    <3>1. /\ Len(listing[w]) \in Nat \ {0} /\ DOMAIN listing[w] = 1..Len(listing[w])
          /\ DOMAIN Tail(listing[w]) = 1..(Len(listing[w]) - 1)
          /\ \A i \in 1..(Len(listing[w]) - 1) : Tail(listing[w])[i] = listing[w][i + 1]
          /\ Head(listing[w]) = listing[w][1]
      BY <2>1
    <3>2. \A i \in 1..Len(listing[w]) : i = 1 \/ (i - 1 \in 1..(Len(listing[w]) - 1) /\ (i - 1) + 1 = i)
      BY <3>1
    <3>3. \A i \in 1..(Len(listing[w]) - 1) : i + 1 \in 1..Len(listing[w])
      BY <3>1
    <3>4. Listed(w) = {listing[w][i] : i \in 1..Len(listing[w])}
      BY <3>1 DEF Listed
    <3>5. Listed(w)' = {listing[w][i + 1] : i \in 1..(Len(listing[w]) - 1)}
      BY <2>1, <3>1 DEF Listed
    <3>6. Listed(w)' \subseteq Listed(w)
      BY <3>3, <3>4, <3>5
    <3>7. ASSUME NEW i \in 1..Len(listing[w])
          PROVE  listing[w][i] = Head(listing[w]) \/ listing[w][i] \in Listed(w)'
      <4>1. CASE i = 1
        BY <3>1, <4>1
      <4>2. CASE i # 1
        BY <3>2, <3>5, <4>2
      <4> QED
        BY <4>1, <4>2
    <3> QED
      BY <3>4, <3>6, <3>7
  <2>5. Present' \ Listed(w)' \subseteq Present \ Listed(w)
    BY <2>3, <2>4
  <2> QED
    BY <1>1, <1>2, <2>1, <2>2, <2>3, <2>4, <2>5, OneEvicted
<1>7. CASE Create(w)
  <2>1. Present' \subseteq Present \cup {Temp(w)}
    BY <1>7, NamesStep
  <2>2. pc[w] = "create" /\ w \notin Pending'
    BY <1>7 DEF Create, Goto, Pending, Locals
  <2> QED
    BY <1>1, <1>2, <2>1, <2>2, OneCreated
<1>8. CASE Rename(w) \/ Crash(w)
  <2>1. pc'[w] \notin {"evict", "create", "copy", "rename"}
    BY <1>8 DEF Rename, Crash, Fail, Goto, Locals
  <2>2. CASE Temp(w) \in Present
    <3>1. \E to : Present' \subseteq (Present \ {Temp(w)}) \cup {to}
      BY <1>8, <2>2, NamesStep
    <3>2. pc[w] \in {"copy", "rename"}
      BY <2>2 DEF TempInUse
    <3> QED
      BY <1>1, <1>2, <2>1, <2>2, <3>1, <3>2, OneMoved
  <2>3. CASE Temp(w) \notin Present
    <3>1. Present' \subseteq Present
      BY <1>8, <2>3, NamesStep
    <3>2. w \notin Evicting' /\ w \notin Pending' /\ \A u : w \notin Writing(u)'
      BY <2>1 DEF Evicting, Pending, Writing
    <3> QED
      BY <1>1, <1>2, <3>1, <3>2, NothingCreated
  <2> QED
    BY <2>2, <2>3
<1> QED
  BY <1>3, <1>4, <1>5, <1>6, <1>7, <1>8 DEF OpenStep

LEMMA SizeStep == IInv /\ IInv' /\ SizeInv /\ [Next]_vars => SizeInv'
<1> SUFFICES ASSUME Directory, Locals, Directory', Locals', SizeInv, [Next]_vars
             PROVE  SizeInv'
  BY TypeParts, TypePartsNext DEF IInv
<1>1. ASSUME NEW w \in Workers, Open(w) \/ OpenStep(w) \/ Crash(w)
      PROVE  SizeInv'
  <2>1. TempInUse' /\ ListingFits'
    BY <1>1, TempStep, ListingStep DEF SizeInv
  <2>2. throttled' = throttled
    BY <1>1 DEF Open, OpenStep, LookUp, Skip, Collect, Evict, Cleaned, Create, Copy, CopyFails,
                Rename, Check, Reject, Handle, Crash
  <2>3. ~throttled => Ordered'
    BY <1>1, <2>1, BalanceStep DEF SizeInv
  <2> QED
    BY <2>1, <2>2, <2>3 DEF SizeInv
<1>2. CASE UNCHANGED vars
  <2>1. /\ TempInUse' <=> TempInUse
        /\ ListingFits' <=> ListingFits
    BY <1>2 DEF vars, TempInUse, ListingFits, Present, Content, Temp
  <2>2. throttled' = throttled
    BY <1>2 DEF vars
  <2>3. Present' = Present /\ Pending' = Pending /\ Evicting' = Evicting
    BY <1>2 DEF vars, Present, Content, Pending, Evicting
  <2>4. \A u : Listed(u)' = Listed(u) /\ Writing(u)' = Writing(u)
    BY <1>2 DEF vars, Listed, Writing, Temp
  <2>5. \A r : Balanced(r) => Balanced(r)'
    BY <2>3, <2>4 DEF Balanced, Level, Afoot, Later, Fit, Room
  <2>6. Ordered => Ordered'
    BY <2>5 DEF Ordered
  <2> QED
    BY <2>1, <2>2, <2>6 DEF SizeInv
<1> QED
  BY <1>1, <1>2 DEF Next

(* Unless cleanups are skipped, the files of the directory are never more  *)
(* than the budget and one for every worker, whatever looks, evictions,    *)
(* downloads, renames and deaths come between (LruCleanup::cleanup counts  *)
(* every file there is, and FileCache::download creates one at a time).    *)
THEOREM DirectoryIsBounded == Spec => []BoundedDirectory
<1>1. Init => SizeInv
  <2> SUFFICES ASSUME Init
               PROVE  SizeInv
    OBVIOUS
  <2>1. Present = {} /\ Pending = {} /\ Evicting = {}
    BY DEF Init, Present, Content, Pending, Evicting
  <2>2. TempInUse /\ ListingFits
    BY <2>1 DEF Init, TempInUse, ListingFits
  <2>3. Fit(Present, Pending \ Evicting, Room)
    <3>1. Fit({}, {}, Room)
      BY FS_EmptySet, RoomIsNat DEF Fit
    <3>2. Pending \ Evicting = {}
      BY <2>1
    <3> QED
      BY <2>1, <3>1, <3>2
  <2>4. Balanced([x \in Workers |-> 0])
    BY <2>1, <2>3 DEF Balanced
  <2>5. Ordered
    BY <2>4 DEF Ordered
  <2> QED
    BY <2>2, <2>5 DEF SizeInv
<1>2. IInv /\ SizeInv => BoundedDirectory
  <2> SUFFICES ASSUME Directory, Ordered
               PROVE  Len(files) <= Budget + Cardinality(Workers)
    BY TypeParts DEF IInv, SizeInv, BoundedDirectory
  <2>1. Fit(Present, Pending \ Evicting, Room)
    BY DEF Ordered, Balanced
  <2>2. Cardinality(Present) = Len(files) /\ Len(files) \in Nat
    BY PresentIsFinite DEF Directory
  <2>3. Cardinality(Pending \ Evicting) \in Nat
    <3>1. Pending \ Evicting \subseteq Workers
      BY DEF Pending
    <3> QED
      BY <3>1, WorkersFinite
  <2> QED
    BY <2>1, <2>2, <2>3, RoomIsNat DEF Fit, Room
<1> QED
  BY <1>1, <1>2, SizeStep, Invariant, PTL DEF Spec
=============================================================================
