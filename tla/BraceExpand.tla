----------------------------- MODULE BraceExpand -----------------------------
(***************************************************************************)
(* Shard specifications: `a-{000..002}.tar::b-{x,y}.tar` to a list of URLs *)
(* (crates/webdataset-core/src/braceexpand.rs and utils.rs).               *)
(*                                                                         *)
(* A text is a sequence of characters.  Two characters that only matter    *)
(* together are one: `..`, `::`, and a reference `${NAME}`, which is a     *)
(* member of Variables.                                                    *)
(*                                                                         *)
(* The second half is the reference: a pattern as a tree, how it is        *)
(* written, and which texts it stands for.                                 *)
(***************************************************************************)
EXTENDS Integers, FiniteSets, SequencesExt, Results

CONSTANTS
  Variables,  (* the references that may occur                              *)
  Env         (* [set of variables -> text]: those of WDS_* that are set    *)

Digit == <<"0", "1", "2", "3", "4", "5", "6", "7", "8", "9">>
Letter == <<"a", "b", "c", "d", "e">>
Escape == "\\"

Place(s, c) == CHOOSE i \in DOMAIN s : s[i] = c

(* Braces that are left alone: parse_expression's None. *)
NotAGroup == [tag |-> "none"]

Min2(m, n) == IF m < n THEN m ELSE n
Larger(m, n) == IF m > n THEN m ELSE n

Split(text, at) ==
  LET add(parts, c) ==
        IF c = at THEN Append(parts, <<>>)
        ELSE ReplaceAt(parts, Len(parts), Append(Last(parts), c))
  IN  FoldLeft(add, << <<>> >>, text)

RECURSIVE Unescape(_)
Unescape(text) ==
  IF text = <<>> THEN <<>>
  ELSE IF text[1] = Escape /\ Len(text) > 1
       THEN <<text[2]>> \o Unescape(SubSeq(text, 3, Len(text)))
       ELSE <<text[1]>> \o Unescape(Tail(text))

-----------------------------------------------------------------------------
(* Ranges.                                                                 *)

Unsigned(s) == IF s # <<>> /\ s[1] = "-" THEN Tail(s) ELSE s

IsInt(s) == Unsigned(s) # <<>> /\ \A i \in DOMAIN Unsigned(s) : Contains(Digit, Unsigned(s)[i])

Value(s) ==
  LET shift(n, c) == 10 * n + Place(Digit, c) - 1
      n == FoldLeft(shift, 0, Unsigned(s))
  IN  IF Unsigned(s) = s THEN n ELSE -n

Decimal[n \in Nat] ==
  IF n < 10 THEN <<Digit[n + 1]>> ELSE Decimal[n \div 10] \o <<Digit[(n % 10) + 1]>>

ZeroFill(digits, width) == [i \in 1..Larger(width - Len(digits), 0) |-> "0"] \o digits

Pad(n, width) ==
  IF n < 0 THEN <<"-">> \o ZeroFill(Decimal[-n], width - 1)
  ELSE ZeroFill(Decimal[n], width)

ZeroPadded(s) ==
  /\ s # <<"0">> /\ s # <<"-", "0">>
  /\ s[1] = "0" \/ (s[1] = "-" /\ s[2] = "0")

Step(s) ==
  LET signs == {i \in DOMAIN s : \A j \in 1..i : s[j] = "-"}
      size == SubSeq(s, Cardinality(signs) + 1, Len(s))
  IN  IF ~IsInt(size) THEN Err ELSE Ok(Larger(Value(size), 1))

(* The two loops; i64 does not overflow here. *)
Values(first, last, step) ==
  IF first <= last
  THEN [i \in 1..((last - first) \div step + 1) |-> first + (i - 1) * step]
  ELSE [i \in 1..((first - last) \div step + 1) |-> first - (i - 1) * step]

Ranged(ends, step) ==
  LET width == IF ZeroPadded(ends[1]) \/ ZeroPadded(ends[2])
               THEN Larger(Len(ends[1]), Len(ends[2])) ELSE 0
      values == Values(Value(ends[1]), Value(ends[2]), step)
      letters == Values(Place(Letter, ends[1][1]), Place(Letter, ends[2][1]), step)
  IN  IF IsInt(ends[1]) THEN [i \in DOMAIN values |-> Pad(values[i], width)]
      ELSE [i \in DOMAIN letters |-> <<Letter[letters[i]]>>]

IsLetter(s) == Len(s) = 1 /\ Contains(Letter, s[1])

(* parse_int_range and parse_char_range, of the parts between the dots. *)
IsRange(parts) ==
  /\ Len(parts) \in {2, 3}
  /\ \/ IsInt(parts[1]) /\ IsInt(parts[2])
     \/ IsLetter(parts[1]) /\ IsLetter(parts[2])

ParseRange(parts) ==
  LET step == IF Len(parts) = 3 THEN Step(parts[3]) ELSE Ok(1)
  IN  IF step = Err THEN Err ELSE Ok(Ranged(parts, step.of))

-----------------------------------------------------------------------------
(* Groups.                                                                 *)

(* Mutant: the last group varies slowest. *)
ProductSwapped(prefixes, group) ==
  FlattenSeq([j \in DOMAIN group |-> [i \in DOMAIN prefixes |-> prefixes[i] \o group[j]]])

Product(prefixes, group) ==
  FlattenSeq([i \in DOMAIN prefixes |-> [j \in DOMAIN group |-> prefixes[i] \o group[j]]])

(* A scan takes a text character by character.  It keeps where the part    *)
(* that is being read began, how deep in braces it is, whether the next    *)
(* character is escaped, and what it has found.                            *)
Began == [start |-> 1, depth |-> 0, escaped |-> FALSE, failed |-> FALSE, found |-> <<>>]

Scan(text, Seen(_, _)) ==
  LET next(scan, pos) ==
        IF scan.failed THEN scan
        ELSE IF scan.escaped THEN [scan EXCEPT !.escaped = FALSE]
        ELSE IF text[pos] = Escape THEN [scan EXCEPT !.escaped = TRUE]
        ELSE Seen(scan, pos)
      upto[n \in 0..Len(text)] == IF n = 0 THEN Began ELSE next(upto[n - 1], n)
  IN  upto[Len(text)]

Found(scan, from, what) ==
  [scan EXCEPT !.found = Append(@, what), !.start = from]

RECURSIVE BraceExpand(_)

Flattened(each) == IF each = Err THEN Err ELSE Ok(FlattenSeq(each.of))
BraceExpandAll(texts) == Flattened(Collected([i \in DOMAIN texts |-> BraceExpand(texts[i])]))

Arms(text, end) ==
  IF end.depth # 0 THEN Err
  ELSE IF end.found = <<>> THEN NotAGroup
  ELSE BraceExpandAll(Append(end.found, SubSeq(text, end.start, Len(text))))

(* Arms are cut at the commas outside braces. *)
ParseSequence(text) ==
  LET step(scan, pos) ==
        CASE text[pos] = "{" -> [scan EXCEPT !.depth = @ + 1]
          [] text[pos] = "}" -> [scan EXCEPT !.depth = @ - 1]
          [] text[pos] = "," /\ scan.depth = 0 ->
               Found(scan, pos + 1, SubSeq(text, scan.start, pos - 1))
          [] OTHER -> scan
  IN  Arms(text, Scan(text, step))

ParseExpression(text) ==
  IF IsRange(Split(text, "..")) THEN ParseRange(Split(text, "..")) ELSE ParseSequence(text)

(* The group that a brace at `pos` closes. *)
Closed(scan, pos, group) ==
  LET closed == [scan EXCEPT !.depth = 0]
  IN  IF group = Err THEN [closed EXCEPT !.failed = TRUE]
      ELSE IF group = NotAGroup THEN closed
      ELSE Found(closed, pos + 1, group.of)

(* What the end of a pattern makes of it. *)
Items(end, rest) ==
  IF end.failed \/ end.depth # 0 THEN Err
  ELSE IF rest # <<>> THEN Ok(Append(end.found, <<Unescape(rest)>>))
  ELSE Ok(IF end.found = <<>> THEN << << <<>> >> >> ELSE end.found)

ParsePattern(text) ==
  LET step(scan, pos) ==
        CASE text[pos] = "{" /\ scan.depth = 0 /\ pos > scan.start ->
               [Found(scan, pos, <<Unescape(SubSeq(text, scan.start, pos - 1))>>) EXCEPT !.depth = 1]
          [] text[pos] = "{" /\ ~(scan.depth = 0 /\ pos > scan.start) ->
               [scan EXCEPT !.depth = @ + 1]
          [] text[pos] = "}" /\ scan.depth = 0 -> [scan EXCEPT !.failed = TRUE]
          [] text[pos] = "}" /\ scan.depth = 1 ->
               Closed(scan, pos, ParseExpression(SubSeq(text, scan.start + 1, pos - 1)))
          [] text[pos] = "}" /\ scan.depth > 1 -> [scan EXCEPT !.depth = @ - 1]
          [] OTHER -> scan
      ended(end) == Items(end, SubSeq(text, end.start, Len(text)))
  IN  ended(Scan(text, step))

Products(groups) ==
  IF groups = Err THEN Err ELSE Ok(FoldLeft(Product, << <<>> >>, groups.of))

BraceExpand(text) == Products(ParsePattern(text))

-----------------------------------------------------------------------------
(* Specifications.                                                         *)

EnvSubst(text) ==
  LET refers == {i \in DOMAIN text : text[i] \in Variables}
  IN  IF \E i \in refers : text[i] \notin DOMAIN Env THEN Err
      ELSE Ok(FlattenSeq([i \in DOMAIN text |->
                            IF i \in refers THEN Env[text[i]] ELSE <<text[i]>>]))

RECURSIVE Substituted(_, _)
Substituted(text, rounds) ==
  IF rounds = 0 \/ EnvSubst(text) = Ok(text) THEN Ok(text)
  ELSE IF EnvSubst(text) = Err THEN Err
  ELSE Substituted(EnvSubst(text).of, rounds - 1)

SubstitutedAll(parts) == Collected([i \in DOMAIN parts |-> Substituted(parts[i], 10)])
ExpandUrls(spec) ==
  LET urls == SubstitutedAll(Split(spec, "::"))
  IN  IF urls = Err THEN Err ELSE BraceExpandAll(urls.of)

-----------------------------------------------------------------------------
(* The reference.  A pattern is a sequence of nodes: text, which is        *)
(* written with escapes; one of several arms; a range; braces that mean    *)
(* themselves; a variable.                                                 *)

Text(s) == <<"text", s>>
OneOf(arms) == <<"oneof", arms>>
Bare(pattern) == <<"bare", pattern>>
Var(name) == <<"var", name>>

(* From `first` to `last`, which are written with as many digits as given. *)
Range3(first, last, step, width) ==
  <<"range", <<first, last, step, width>> >>

Braced(s) == <<"{">> \o s \o <<"}">>
Joined(texts, by) ==
  FlattenSeq([i \in DOMAIN texts |-> IF i = 1 THEN texts[1] ELSE by \o texts[i]])
Escaped(s) ==
  FlattenSeq([i \in DOMAIN s |->
    IF s[i] \in {"{", "}", ",", Escape} THEN <<Escape, s[i]>> ELSE <<s[i]>>])

(* n by its digits, from the highest place down. *)
Numeral(n, width) ==
  LET sign == IF n < 0 THEN <<"-">> ELSE <<>>
      m == IF n < 0 THEN -n ELSE n
      natural == CHOOSE k \in 1..9 : 10^k > m /\ \A j \in 1..(k - 1) : 10^j <= m
      places == Larger(natural, width - Len(sign))
  IN  sign \o [k \in 1..places |-> Digit[((m \div 10^(places - k)) % 10) + 1]]

RECURSIVE Written(_, _), Means(_, _)

(* As it is written, or, with escapes left out, as it is read literally. *)
Written(pattern, escaped) ==
  LET node(x) ==
        CASE x[1] = "text" -> IF escaped THEN Escaped(x[2]) ELSE x[2]
          [] x[1] = "oneof" ->
               Braced(Joined([i \in DOMAIN x[2] |-> Written(x[2][i], escaped)], <<",">>))
          [] x[1] = "bare" -> Braced(Written(x[2], escaped))
          [] x[1] = "var" -> <<x[2]>>
          [] x[1] = "range" ->
               Braced(Numeral(x[2][1], x[2][4]) \o <<"..">> \o Numeral(x[2][2], x[2][4])
                      \o IF x[2][3] = 0 THEN <<>> ELSE <<"..">> \o Numeral(x[2][3], 1))
  IN  FlattenSeq([i \in DOMAIN pattern |-> node(pattern[i])])

(* The numbers a range stands for, in order. *)
Numbers(first, last, step) ==
  LET low == Min2(first, last)
      members == {n \in low..Larger(first, last) : (n - first) % Larger(step, 1) = 0}
      before(n) == {m \in members : IF first <= last THEN m < n ELSE m > n}
  IN  [k \in 1..Cardinality(members) |->
         CHOOSE n \in members : Cardinality(before(n)) = k - 1]

(* The texts a pattern stands for; a variable stands for the pattern it is *)
(* bound to.                                                               *)
Means(pattern, binding) ==
  LET node(x) ==
        CASE x[1] = "text" -> <<x[2]>>
          [] x[1] = "oneof" -> FlattenSeq([i \in DOMAIN x[2] |-> Means(x[2][i], binding)])
          [] x[1] = "bare" -> <<Braced(Written(x[2], FALSE))>>
          [] x[1] = "var" -> Means(binding[x[2]], binding)
          [] x[1] = "range" ->
               LET all == Numbers(x[2][1], x[2][2], x[2][3])
                   padded == \E i \in {1, 2} : ZeroPadded(Numeral(x[2][i], x[2][4]))
                   width == IF padded
                            THEN Larger(Len(Numeral(x[2][1], x[2][4])), Len(Numeral(x[2][2], x[2][4])))
                            ELSE 1
               IN  [i \in DOMAIN all |-> Numeral(all[i], width)]
      pairs(s, t) == FlattenSeq([i \in DOMAIN s |-> [j \in DOMAIN t |-> s[i] \o t[j]]])
  IN  FoldLeft(pairs, << <<>> >>, [i \in DOMAIN pattern |-> node(pattern[i])])

(* A brace counts unless an odd number of backslashes stands before it.   *)
Counts(text, i) ==
  Cardinality({j \in 1..(i - 1) : \A k \in j..(i - 1) : text[k] = Escape}) % 2 = 0

Depth(text, i) ==
  LET add(d, j) ==
        IF j > i \/ ~Counts(text, j) THEN d
        ELSE IF text[j] = "{" THEN d + 1 ELSE IF text[j] = "}" THEN d - 1 ELSE d
  IN  FoldLeft(add, 0, [j \in DOMAIN text |-> j])

Balanced(text) ==
  /\ \A i \in DOMAIN text : Depth(text, i) >= 0
  /\ text # <<>> => Depth(text, Len(text)) = 0
=============================================================================
