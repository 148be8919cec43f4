--------------------------- MODULE BindParamsProofs ---------------------------
(***************************************************************************)
(* Proofs about BindParams, for statements with any number of parameters   *)
(* and calls with any values: the loops of paraql__on_after_parse give     *)
(* each parameter the value that is meant for it.                          *)
(*                                                                         *)
(* The loop is a recursive function.  SetInduction, which follows from the *)
(* order of the naturals being well founded, shows that it satisfies its   *)
(* equation (ScanEquation) and what it has after each parameter            *)
(* (ScanInvariant).                                                        *)
(***************************************************************************)
EXTENDS BindParams, FiniteSetTheorems, WellFoundedInduction, TLAPS

-----------------------------------------------------------------------------
(* Induction over the naturals, as facts about sets.                        *)

\* A set of naturals that is not empty has a least member.
LEMMA LeastMember ==
  ASSUME NEW T \in SUBSET Nat, T # {}
  PROVE  \E x \in T : \A y \in T : x <= y
<1>1. PICK x \in T : \A y \in T : ~ (<<y, x>> \in OpToRel(<, Nat))
  BY WFMin, NatLessThanWellFounded
<1>2. \A y \in T : ~(y < x)
  BY <1>1 DEF OpToRel
<1>. QED BY <1>2

\* A set of naturals with 0 and every successor of its members is Nat.
LEMMA SetInduction ==
  ASSUME NEW T \in SUBSET Nat, 0 \in T, \A n \in T : n + 1 \in T
  PROVE  T = Nat
<1>1. SUFFICES ASSUME Nat \ T # {} PROVE FALSE
  OBVIOUS
<1>2. PICK x \in Nat \ T : \A y \in Nat \ T : x <= y
  BY <1>1, LeastMember
<1>3. x # 0 /\ x - 1 \in Nat
  BY <1>2
<1>4. x - 1 \in T
  BY <1>2, <1>3
<1>. QED BY <1>2, <1>3, <1>4

-----------------------------------------------------------------------------
(* The loop over the parameters of a call.                                  *)

Blank == [ok |-> TRUE, pos |-> 0, values |-> <<>>]

\* after is the loop's result after each of the first n parameters.
IsScan(after, n, names, named, positional) ==
  after = [i \in 0..n |->
             IF i = 0 THEN Blank
                      ELSE ScanParameter(after[i - 1], names[i], named, positional)]

\* The recursive definition of the loop has a solution.
LEMMA ScanEquation ==
  ASSUME NEW names, NEW named, NEW positional, Len(names) \in Nat
  PROVE  \E after : /\ IsScan(after, Len(names), names, named, positional)
                    /\ Scan(names, named, positional) = after[Len(names)]
<1> DEFINE G(g, n) == IsScan(g, n, names, named, positional)
           S(r, i) == ScanParameter(r, names[i], named, positional)
           T == {n \in Nat : \E g : G(g, n)}
<1>1. 0 \in T
  <2>1. G([i \in 0..0 |-> Blank], 0) BY DEF IsScan
  <2>. QED BY <2>1
<1>2. \A n \in T : n + 1 \in T
  <2>1. SUFFICES ASSUME NEW n \in Nat, NEW g, G(g, n) PROVE \E h : G(h, n + 1)
    OBVIOUS
  <2> DEFINE h == [i \in 0..n+1 |-> IF i \in 0..n THEN g[i] ELSE S(g[n], n + 1)]
  <2> HIDE DEF S
  <2>2. \A i \in 0..n+1 : h[i] = IF i = 0 THEN Blank ELSE S(h[i-1], i)
    <3>1. TAKE i \in 0..n+1
    <3>2. CASE i = 0 BY <3>2, <2>1 DEF IsScan
    <3>3. CASE i = n+1
      <4>1. h[i] = S(g[n], n + 1) /\ h[i - 1] = g[n] BY <3>3
      <4>. QED BY <4>1, <3>3
    <3>4. CASE i # 0 /\ i # n+1
      <4>1. g[i] = S(g[i-1], i) BY <3>4, <2>1 DEF IsScan, S
      <4>2. h[i] = g[i] /\ h[i-1] = g[i-1] BY <3>4
      <4>. QED BY <4>1, <4>2, <3>4
    <3>. QED BY <3>2, <3>3, <3>4
  <2>3. h = [i \in 0..n+1 |-> IF i = 0 THEN Blank ELSE S(h[i-1], i)]
    BY <2>2
  <2>4. G(h, n+1) BY <2>3 DEF IsScan, S
  <2>. HIDE DEF h, G
  <2>. QED BY <2>4
<1>3. T = Nat
  <2>. HIDE DEF T
  <2>0. T \in SUBSET Nat BY DEF T
  <2>. QED BY <1>1, <1>2, <2>0, SetInduction
<1>4. \E g : G(g, Len(names)) BY <1>3
<1>. QED BY <1>4 DEF Scan, IsScan, Blank

-----------------------------------------------------------------------------
(* How many of the parameters up to one are nameless.                       *)

\* Rank counts the nameless parameters: it grows by one with each of them.
LEMMA RankStep ==
  ASSUME NEW names, Len(names) \in Nat
  PROVE  /\ Rank(0, names) = 0
         /\ Rank(Len(names), names) = Cardinality(Nameless(names))
         /\ \A i \in 0..Len(names) : Rank(i, names) \in Nat
         /\ \A i \in 1..Len(names) :
              Rank(i, names) = IF names[i] = NULL THEN Rank(i - 1, names) + 1
                                                  ELSE Rank(i - 1, names)
<1> DEFINE L == Len(names)
           Upto(i) == {j \in Nameless(names) : j <= i}
<1>1. \A i \in 0..L : IsFiniteSet(Upto(i)) /\ Cardinality(Upto(i)) \in Nat
  <2>1. IsFiniteSet(1..L) BY FS_Interval
  <2>2. \A i \in 0..L : Upto(i) \in SUBSET (1..L) BY DEF Nameless
  <2>. QED BY <2>1, <2>2, FS_Subset, FS_CardinalityType
<1>2. Upto(0) = {} /\ Upto(L) = Nameless(names)
  BY DEF Nameless
<1>3. \A i \in 1..L :
        Cardinality(Upto(i)) = IF names[i] = NULL THEN Cardinality(Upto(i - 1)) + 1
                                                  ELSE Cardinality(Upto(i - 1))
  <2>1. TAKE i \in 1..L
  <2>2. CASE names[i] = NULL
    <3>1. Upto(i) = Upto(i - 1) \cup {i} /\ i \notin Upto(i - 1)
      BY <2>2 DEF Nameless
    <3>2. IsFiniteSet(Upto(i - 1)) BY <1>1
    <3>. HIDE DEF Upto
    <3>. QED BY <2>2, <3>1, <3>2, FS_AddElement
  <2>3. CASE names[i] # NULL
    <3>1. Upto(i) = Upto(i - 1) BY <2>3 DEF Nameless
    <3>. HIDE DEF Upto
    <3>. QED BY <2>3, <3>1
  <2>. QED BY <2>2, <2>3
<1>. QED BY <1>1, <1>2, <1>3, FS_EmptySet DEF Rank

-----------------------------------------------------------------------------
(* What the loop has after each parameter.                                  *)

\* The value given to parameter i, and whether there is a usable one.
Source(i, names, named, positional) ==
  IF names[i] = NULL THEN positional[Rank(i, names)]
                     ELSE named[Lookup(names[i], named)]

Fits(i, names, named, positional) ==
  /\ IF names[i] = NULL THEN Rank(i, names) <= Len(positional)
                        ELSE named # NULL /\ Lookup(names[i], named) \in DOMAIN named
  /\ ParseValue(Source(i, names, named, positional)) # NULL

ScanInv(r, i, names, named, positional) ==
  /\ r = [ok |-> r.ok, pos |-> r.pos, values |-> r.values]
  /\ r.ok \in BOOLEAN
  /\ r.ok <=> \A j \in 1..i : Fits(j, names, named, positional)
  /\ r.ok => /\ r.pos = Rank(i, names) /\ r.pos <= Len(positional)
             /\ r.values = [j \in 1..i |-> ParseValue(Source(j, names, named, positional))]

\* One round of the loop: the parameter is nameless or named, and fits or not.
LEMMA ScanRound ==
  ASSUME NEW names, Len(names) \in Nat, NEW named, NEW positional, Len(positional) \in Nat,
         NEW r, NEW i \in 1..Len(names),
         ScanInv(r, i - 1, names, named, positional)
  PROVE  ScanInv(ScanParameter(r, names[i], named, positional), i, names, named, positional)
<1> DEFINE fits(j) == Fits(j, names, named, positional)
           value(j) == ParseValue(Source(j, names, named, positional))
           s == ScanParameter(r, names[i], named, positional)
<1>0. /\ r = [ok |-> r.ok, pos |-> r.pos, values |-> r.values]
      /\ r.ok \in BOOLEAN
      /\ r.ok <=> \A j \in 1..(i-1) : fits(j)
      /\ r.ok => /\ r.pos = Rank(i - 1, names) /\ r.pos <= Len(positional)
                 /\ r.values = [j \in 1..(i-1) |-> value(j)]
  BY DEF ScanInv
<1>1. (\A j \in 1..i : fits(j)) <=> (\A j \in 1..(i-1) : fits(j)) /\ fits(i)
  <2>. HIDE DEF fits
  <2>. QED OBVIOUS
<1>2. /\ Rank(i - 1, names) \in Nat
      /\ Rank(i, names) = IF names[i] = NULL THEN Rank(i - 1, names) + 1
                                             ELSE Rank(i - 1, names)
  BY RankStep
<1>3. CASE ~r.ok
  <2>1. s = r BY <1>3 DEF ScanParameter
  <2>. HIDE DEF fits, value, s
  <2>2. ScanInv(s, i, names, named, positional)
    <3>. USE <1>0, <1>1, <1>3, <2>1
    <3>1. s = [ok |-> s.ok, pos |-> s.pos, values |-> s.values] /\ s.ok \in BOOLEAN /\ ~s.ok
      OBVIOUS
    <3>2. ~(\A j \in 1..i : fits(j)) OBVIOUS
    <3>. QED BY <3>1, <3>2 DEF ScanInv, fits
  <2>. QED BY <2>2 DEF s
<1>4. CASE r.ok /\ fits(i)
  <2>1. s = [ok |-> TRUE, pos |-> Rank(i, names), values |-> Append(r.values, value(i))]
    <3>1. CASE names[i] = NULL
      <4>1. r.pos < Len(positional) /\ r.pos + 1 = Rank(i, names)
        BY <1>0, <1>2, <1>4, <3>1 DEF Fits
      <4>2. ParseValue(positional[r.pos + 1]) # NULL /\ value(i) = ParseValue(positional[r.pos + 1])
        BY <1>4, <3>1, <4>1 DEF Fits, Source
      <4>. HIDE DEF fits, value
      <4>. QED BY <1>0, <1>4, <3>1, <4>1, <4>2 DEF ScanParameter
    <3>2. CASE names[i] # NULL
      <4>1. named # NULL /\ Lookup(names[i], named) \in DOMAIN named /\ r.pos = Rank(i, names)
        BY <1>0, <1>2, <1>4, <3>2 DEF Fits
      <4>2. /\ ParseValue(named[Lookup(names[i], named)]) # NULL
            /\ value(i) = ParseValue(named[Lookup(names[i], named)])
        BY <1>4, <3>2 DEF Fits, Source
      <4>. HIDE DEF fits, value
      <4>. QED BY <1>0, <1>4, <3>2, <4>1, <4>2 DEF ScanParameter
    <3>. QED BY <3>1, <3>2
  <2>2. Rank(i, names) <= Len(positional)
    BY <1>0, <1>2, <1>4 DEF Fits
  <2>3. Append(r.values, value(i)) = [j \in 1..i |-> value(j)]
    <3>. HIDE DEF value
    <3>1. r.values = [j \in 1..(i-1) |-> value(j)] BY <1>0, <1>4
    <3>2. r.values \in Seq({value(j) : j \in 1..i}) /\ Len(r.values) = i - 1
      BY <3>1
    <3>. QED BY <3>1, <3>2
  <2>4. \A j \in 1..i : fits(j)
    BY <1>0, <1>1, <1>4
  <2>. HIDE DEF fits, value, s
  <2>5. ScanInv(s, i, names, named, positional)
    BY <2>1, <2>2, <2>3, <2>4 DEF ScanInv, fits, value
  <2>. QED BY <2>5 DEF s
<1>5. CASE r.ok /\ ~fits(i)
  <2>1. s = [r EXCEPT !.ok = FALSE]
    <3>1. CASE names[i] = NULL
      <4>1. r.pos + 1 = Rank(i, names) /\ r.pos \in Nat
        BY <1>0, <1>2, <1>5, <3>1
      <4>2. CASE r.pos < Len(positional)
        <5>1. ParseValue(positional[r.pos + 1]) = NULL
          BY <1>5, <3>1, <4>1, <4>2 DEF Fits, Source
        <5>. HIDE DEF fits, value
        <5>. QED BY <1>5, <3>1, <4>2, <5>1 DEF ScanParameter
      <4>3. CASE ~(r.pos < Len(positional))
        <5>. HIDE DEF fits, value
        <5>. QED BY <1>5, <3>1, <4>3 DEF ScanParameter
      <4>. QED BY <4>2, <4>3
    <3>2. CASE names[i] # NULL
      <4>2. CASE named # NULL /\ Lookup(names[i], named) \in DOMAIN named
        <5>1. ParseValue(named[Lookup(names[i], named)]) = NULL
          BY <1>5, <3>2, <4>2 DEF Fits, Source
        <5>. HIDE DEF fits, value
        <5>. QED BY <1>5, <3>2, <4>2, <5>1 DEF ScanParameter
      <4>3. CASE ~(named # NULL /\ Lookup(names[i], named) \in DOMAIN named)
        <5>. HIDE DEF fits, value
        <5>. QED BY <1>5, <3>2, <4>3 DEF ScanParameter
      <4>. QED BY <4>2, <4>3
    <3>. QED BY <3>1, <3>2
  <2>2. ~(\A j \in 1..i : fits(j))
    BY <1>1, <1>5
  <2>. HIDE DEF fits, value, s
  <2>3. s = [ok |-> FALSE, pos |-> r.pos, values |-> r.values]
    BY <1>0, <2>1
  <2>4. ScanInv(s, i, names, named, positional)
    BY <2>2, <2>3 DEF ScanInv, fits
  <2>. QED BY <2>4 DEF s
<1>. QED BY <1>0, <1>3, <1>4, <1>5

\* The whole loop: it comes through exactly when every parameter is given a
\* usable value, and then has those values in the order of the parameters.
LEMMA ScanInvariant ==
  ASSUME NEW names, Len(names) \in Nat, NEW named, NEW positional, Len(positional) \in Nat
  PROVE  ScanInv(Scan(names, named, positional), Len(names), names, named, positional)
<1> DEFINE L == Len(names)
           inv(r, i) == ScanInv(r, i, names, named, positional)
<1>1. PICK after : IsScan(after, L, names, named, positional)
                   /\ Scan(names, named, positional) = after[L]
  BY ScanEquation
<1>2. /\ after[0] = Blank
      /\ \A i \in 1..L : after[i] = ScanParameter(after[i - 1], names[i], named, positional)
  BY <1>1 DEF IsScan
<1> DEFINE T == {n \in Nat : n <= L => inv(after[n], n)}
<1>3. 0 \in T
  <2>1. Rank(0, names) = 0 BY RankStep
  <2>2. <<>> = [j \in 1..0 |-> ParseValue(Source(j, names, named, positional))]
    OBVIOUS
  <2>3. inv(Blank, 0) BY <2>1, <2>2 DEF ScanInv, Blank
  <2>. QED BY <1>2, <2>3
<1>4. \A n \in T : n + 1 \in T
  <2>1. SUFFICES ASSUME NEW n \in Nat, n \in T, n + 1 <= L PROVE inv(after[n + 1], n + 1)
    OBVIOUS
  <2>2. inv(after[n], n) BY <2>1
  <2>3. n + 1 \in 1..L /\ (n + 1) - 1 = n BY <2>1
  <2>. HIDE DEF T
  <2>4. inv(ScanParameter(after[n], names[n + 1], named, positional), n + 1)
    BY <2>2, <2>3, ScanRound
  <2>. QED BY <1>2, <2>3, <2>4
<1>5. T = Nat
  <2>. HIDE DEF T
  <2>1. T \in SUBSET Nat BY DEF T
  <2>. QED BY <1>3, <1>4, <2>1, SetInduction
<1>. QED BY <1>1, <1>5

-----------------------------------------------------------------------------
(* The reference.                                                           *)

\* But for bigints, _bind and paraql__parse_value keep what a value means.
LEMMA ValuesKeepMeaning ==
  ASSUME NEW v, v # "bigint"
  PROVE  ParseValue(Stringified(v)) = Meant(v)
BY DEF ParseValue, Stringified, Meant

\* A parameter fits exactly when the reference finds a usable value for it,
\* and it is that value.
LEMMA SourceIsGiven ==
  ASSUME NEW names, Len(names) \in Nat,
         NEW named, PlainNamed(named), named # NULL => Handed(named) # NULL,
         NEW positional, positional \in Seq(STRING), PlainPositional(positional),
         NEW i \in 1..Len(names)
  PROVE  LET all == (IF named = NULL THEN {} ELSE {named[k] : k \in DOMAIN named})
                    \cup ToSet(positional)
             given(v) == Gives(names, named, positional, i, v)
         IN  /\ Fits(i, names, Handed(named), HandedAll(positional))
                  <=> \E v \in all : given(v) /\ Meant(v) # NULL
             /\ Fits(i, names, Handed(named), HandedAll(positional))
                  => ParseValue(Source(i, names, Handed(named), HandedAll(positional)))
                       = Meant(CHOOSE v \in all : given(v))
<1> DEFINE all == (IF named = NULL THEN {} ELSE {named[k] : k \in DOMAIN named})
                  \cup ToSet(positional)
           given(v) == Gives(names, named, positional, i, v)
           hn == Handed(named)
           hp == HandedAll(positional)
           src == Source(i, names, hn, hp)
<1>0. Len(hp) = Len(positional)
  BY DEF HandedAll
<1>1. Rank(i, names) \in Nat /\ (names[i] = NULL => Rank(i, names) \in Nat \ {0})
  BY RankStep
<1> DEFINE can == IF names[i] = NULL THEN Rank(i, names) <= Len(hp)
                                     ELSE hn # NULL /\ Lookup(names[i], hn) \in DOMAIN hn
           w == IF names[i] = NULL THEN positional[Rank(i, names)]
                ELSE IF names[i] \in DOMAIN named THEN named[names[i]] ELSE named[Bare(names[i])]
<1>2. can => w \in all /\ w # "bigint" /\ src = Stringified(w)
  <2>1. CASE names[i] = NULL
    <3>1. can => Rank(i, names) \in 1..Len(positional)
      BY <1>0, <1>1, <2>1
    <3>2. can => w \in ToSet(positional) BY <2>1, <3>1 DEF ToSet
    <3>3. can => w # "bigint" BY <2>1, <3>1 DEF PlainPositional
    <3>4. can => src = Stringified(w) BY <2>1, <3>1 DEF Source, HandedAll
    <3>. QED BY <3>2, <3>3, <3>4
  <2>2. CASE names[i] # NULL
    <3>1. SUFFICES ASSUME can PROVE w \in all /\ w # "bigint" /\ src = Stringified(w)
      OBVIOUS
    <3>2. named # NULL /\ hn = [k \in DOMAIN named |-> Stringified(named[k])]
      BY <2>2, <3>1 DEF Handed
    <3>3. Lookup(names[i], hn) \in DOMAIN named BY <2>2, <3>1, <3>2
    <3>4. w = named[Lookup(names[i], hn)] BY <2>2, <3>2, <3>3 DEF Lookup
    <3>5. src = Stringified(w) BY <2>2, <3>2, <3>3, <3>4 DEF Source
    <3>. QED BY <3>2, <3>3, <3>4, <3>5 DEF PlainNamed
  <2>. QED BY <2>1, <2>2
<1>3. \A v : given(v) <=> can /\ v = w
  <2>1. CASE names[i] = NULL
    BY <1>0, <2>1 DEF Gives
  <2>2. CASE names[i] # NULL
    <3>1. named # NULL /\ hn # NULL <=> named # NULL
      OBVIOUS
    <3>2. named = NULL => hn = NULL BY DEF Handed
    <3>3. named # NULL => DOMAIN hn = DOMAIN named BY DEF Handed
    <3>4. named # NULL => (Lookup(names[i], hn) \in DOMAIN hn <=> KeysOf(names[i], named) # {})
      BY <3>3 DEF Lookup, KeysOf
    <3>. QED BY <2>2, <3>1, <3>2, <3>3, <3>4 DEF Gives
  <2>. QED BY <2>1, <2>2
<1>4. can => ParseValue(src) = Meant(w)
  BY <1>2, ValuesKeepMeaning
<1>5. Fits(i, names, hn, hp) <=> can /\ ParseValue(src) # NULL
  BY DEF Fits
<1>6. can => (CHOOSE v \in all : given(v)) = w
  <2>. HIDE DEF can, given, all, w
  <2>. QED BY <1>2, <1>3
<1>. HIDE DEF can, given, all, w, src, hn, hp
<1>7. Fits(i, names, hn, hp) <=> \E v \in all : given(v) /\ Meant(v) # NULL
  BY <1>2, <1>3, <1>4, <1>5
<1>8. Fits(i, names, hn, hp) => ParseValue(src) = Meant(CHOOSE v \in all : given(v))
  BY <1>4, <1>5, <1>6
<1>. QED BY <1>7, <1>8 DEF given, all, src, hn, hp

\* The two loops of paraql__on_after_parse, over the parameters and over the
\* keys, accept a call exactly when its values fit the statement, and give
\* each parameter the value meant for it: the loops implement the reference.
THEOREM ParseIsIntended ==
  ASSUME NEW names, Len(names) \in Nat,
         NEW named, PlainNamed(named), named # NULL => Handed(named) # NULL,
         NEW positional, positional \in Seq(STRING), PlainPositional(positional)
  PROVE  Parse(names, Handed(named), HandedAll(positional)) = Intended(names, named, positional)
<1> DEFINE L == Len(names)
           all == (IF named = NULL THEN {} ELSE {named[k] : k \in DOMAIN named})
                  \cup ToSet(positional)
           given(i, v) == Gives(names, named, positional, i, v)
           hn == Handed(named)
           hp == HandedAll(positional)
           r == Scan(names, hn, hp)
           fits(i) == Fits(i, names, hn, hp)
           value(i) == ParseValue(Source(i, names, hn, hp))
           parsed == [i \in 1..L |-> value(i)]
           meant == [i \in 1..L |-> Meant(CHOOSE v \in all : given(i, v))]
<1>0. Len(hp) = Len(positional) /\ Len(positional) \in Nat
  BY DEF HandedAll
<1>1. /\ r.ok <=> \A i \in 1..L : fits(i)
      /\ r.ok => /\ r.pos = Rank(L, names) /\ r.pos <= Len(hp)
                 /\ r.values = parsed
  BY <1>0, ScanInvariant DEF ScanInv
<1>2. \A i \in 1..L : /\ fits(i) <=> \E v \in all : given(i, v) /\ Meant(v) # NULL
                      /\ fits(i) => value(i) = Meant(CHOOSE v \in all : given(i, v))
  BY SourceIsGiven
<1>3. Rank(L, names) = Cardinality(Nameless(names)) /\ Rank(L, names) \in Nat
  BY RankStep
<1>4. ASSUME named # NULL
      PROVE  (\A key \in DOMAIN hn : Known(key, names))
               <=> DOMAIN named \subseteq
                     UNION {KeysOf(names[i], named) : i \in 1..L \ Nameless(names)}
  <2>1. DOMAIN hn = DOMAIN named BY <1>4 DEF Handed
  <2>2. \A key \in DOMAIN named :
          Known(key, names) <=> \E i \in 1..L \ Nameless(names) : key \in KeysOf(names[i], named)
    BY DEF Known, KeysOf, Nameless
  <2>. QED BY <2>1, <2>2
<1>5. named = NULL <=> hn = NULL
  BY DEF Handed
<1>6. ASSUME r.ok
      PROVE  NoSurplus(names, named, positional)
               <=> /\ r.pos = Len(hp)
                   /\ hn # NULL => \A key \in DOMAIN hn : Known(key, names)
  <2>. HIDE DEF r, hn, hp
  <2>1. r.pos = Len(hp) <=> Len(positional) <= Cardinality(Nameless(names))
    BY <1>0, <1>1, <1>3, <1>6
  <2>. QED BY <2>1, <1>4, <1>5 DEF NoSurplus
<1>. HIDE DEF r, hn, hp, fits, value, given, all
<1>7. CASE r.ok
  <2>1. parsed = meant
    BY <1>1, <1>2, <1>7
  <2>2. \A i \in 1..L : \E v \in all : given(i, v) /\ Meant(v) # NULL
    BY <1>1, <1>2, <1>7
  <2>3. Intended(names, named, positional) =
          IF NoSurplus(names, named, positional) THEN meant ELSE NULL
    BY <2>2 DEF Intended, all, given
  <2>. HIDE DEF parsed, meant
  <2>4. Parse(names, hn, hp) = IF NoSurplus(names, named, positional) THEN parsed ELSE NULL
    BY <1>1, <1>6, <1>7 DEF Parse, r
  <2>. QED BY <2>1, <2>3, <2>4 DEF hn, hp
<1>8. CASE ~r.ok
  <2>1. Parse(names, hn, hp) = NULL BY <1>8 DEF Parse, r
  <2>2. ~ \A i \in 1..L : \E v \in all : given(i, v) /\ Meant(v) # NULL
    BY <1>1, <1>2, <1>8
  <2>3. Intended(names, named, positional) = NULL
    BY <2>2 DEF Intended, all, given
  <2>. QED BY <2>1, <2>3 DEF hn, hp
<1>. QED BY <1>7, <1>8
=============================================================================
