----------------------------- MODULE MCAdapters -----------------------------
(* Chains of one and two adapters over short streams, with Errs in them. *)
EXTENDS Adapters

S(id) == Ok(<<id>>)
E(id) == Err(<<id>>)

Bare ==
  [kind |-> "map", drops |-> {}, fails |-> {}, handler |-> "reraise",
   size |-> 1, every |-> 1, partial |-> FALSE, count |-> Unlimited]

Maps == {[Bare EXCEPT !.drops = d, !.fails = {2}, !.handler = h] :
           d \in {{}, {1, 3}}, h \in {"continue", "stop", "reraise"}}
Lists == {[Bare EXCEPT !.kind = "listed", !.size = n, !.partial = p] :
            n \in {1, 2, 3}, p \in BOOLEAN}
Shuffles == {[Bare EXCEPT !.kind = "shuffle", !.size = n, !.every = m] :
               n \in {3}, m \in {1, 3}} \cup
            {[Bare EXCEPT !.kind = "shuffle", !.size = 1]}
Checks == {[Bare EXCEPT !.kind = "nonEmpty"]}
Unbatches == {[Bare EXCEPT !.kind = "unbatch"]}
Slices == {[Bare EXCEPT !.kind = "slice", !.size = n, !.every = m, !.count = c] :
             n \in {0, 2}, m \in {1, 2}, c \in {0, 1, Unlimited}}

Streams ==
  {<<>>, <<S(1)>>, <<E(1)>>, <<S(1), S(2), S(3), S(4), S(5)>>,
   <<S(1), E(2), S(3), S(4)>>, <<E(1), S(2), S(3), E(4)>>, <<S(2), S(1), E(3), E(4), S(5)>>}

Over(data, chains, async) ==
  {[data |-> <<d>>, mix |-> "turns", longest |-> FALSE, weights |-> <<1>>,
    chain |-> c, async |-> a] : d \in data, c \in chains, a \in async}

Blocking == Maps \cup Lists \cup Checks \cup Unbatches \cup Slices

(* A list of samples is not listed again. *)
Pairs(stages) == {c \in {<<s, t>> : s, t \in stages} : ~(c[1] \in Lists /\ c[2] \in Lists)}

Chained ==
  Over(Streams, Pairs(Blocking), {FALSE})
  \cup Over(Streams, Pairs(Maps \cup Lists \cup Checks), {TRUE})
  \cup Over(Streams, {<<s>> : s \in Shuffles} \cup {<<s, t>> : s \in Maps \cup Checks, t \in Shuffles},
            BOOLEAN)

Datasets3 ==
  {<<a, b, c>> : a \in {<<>>, <<S(1), S(2)>>}, b \in {<<>>, <<S(3)>>, <<S(3), S(4), S(5)>>},
                 c \in {<<>>, <<S(6)>>}}

(* A RandomMix may go on after its end, when it stops at the first dataset to *)
(* run out or only datasets of no weight are left; an adapter that asks again *)
(* (NonEmpty, Listed) promises nothing over it, so none is put there.         *)
MixedPlans ==
  {[data |-> d, mix |-> "turns", longest |-> l, weights |-> <<1, 1, 1>>, chain |-> c,
    async |-> FALSE] :
     d \in Datasets3, l \in BOOLEAN, c \in {<<>>} \cup {<<t>> : t \in Checks \cup Lists}}
  \cup
  {[data |-> d, mix |-> "random", longest |-> l, weights |-> w, chain |-> <<>>,
    async |-> FALSE] :
     d \in Datasets3, l \in BOOLEAN, w \in {<<1, 1, 1>>, <<1, 0, 0>>, <<0, 1, 1>>}}

MCPlans == Chained \cup MixedPlans
=============================================================================
