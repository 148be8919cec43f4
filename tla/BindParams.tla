------------------------------ MODULE BindParams ------------------------------
(***************************************************************************)
(* Which value goes to which parameter of a statement: _bind of            *)
(* lib/statement.js, paraql__parse_value and paraql__on_after_parse of     *)
(* binding.c.                                                              *)
(*                                                                         *)
(* A statement has parameters 1..n.  A parameter is nameless (?) or named  *)
(* with a sigil (:a, @a, $a); its name is a pair <<sigil, base>>.  A call  *)
(* gives an array of positional values and perhaps an object of named      *)
(* ones, whose keys carry the sigil or leave it out: <<"", base>>.         *)
(***************************************************************************)
EXTENDS Naturals, Sequences, FiniteSets, SequencesExt

CONSTANT NULL  \* a nameless parameter; no object of named values

\* name + 1: the key without the sigil.
Bare(name) == <<"", name[2]>>

-----------------------------------------------------------------------------
(* Values.  "x" and "y" stand for numbers, strings, buffers.                *)

\* _bind: arrays become JSON text before the values reach the binding.
Stringified(v) == IF v = "array" THEN "json" ELSE v

Handed(named) == IF named = NULL THEN NULL ELSE [k \in DOMAIN named |-> Stringified(named[k])]
HandedAll(positional) == [k \in 1..Len(positional) |-> Stringified(positional[k])]

\* paraql__parse_value: NULL is an unsupported type.  The case of a bigint has
\* no break: the value is read once more, as a string, which it is not.
ParseValue(v) ==
  CASE v \in {"null", "undefined"} -> "null"
    [] v = "bigint"                -> "garbled"
    [] v \in {"bool", "array"}     -> NULL
    [] OTHER                       -> v

\* The key a named parameter takes its value from.
Lookup(name, named) == IF name \in DOMAIN named THEN name ELSE Bare(name)

\* One round of the loop over the parameters: r is what it has so far.
ScanParameter(r, name, named, positional) ==
  LET Take(v, pos) == IF ParseValue(v) = NULL
                        THEN [r EXCEPT !.ok = FALSE]
                        ELSE [r EXCEPT !.pos = pos, !.values = Append(@, ParseValue(v))]
  IN  CASE ~r.ok -> r
        [] r.ok /\ name = NULL ->
             IF r.pos < Len(positional) THEN Take(positional[r.pos + 1], r.pos + 1)
                                        ELSE [r EXCEPT !.ok = FALSE]
        [] r.ok /\ name # NULL ->
             IF named # NULL /\ Lookup(name, named) \in DOMAIN named
               THEN Take(named[Lookup(name, named)], r.pos)
               ELSE [r EXCEPT !.ok = FALSE]

\* The loop over the keys of the object: each must name some parameter.  A key of
\* 256 bytes or more is cut to 255 (binding.c:2195); no such key is represented.
Known(key, names) ==
  \E i \in 1..Len(names) : names[i] # NULL /\ (key = names[i] \/ key = Bare(names[i]))

\* The loop over the parameters: what it has after each of them.
Scan(names, named, positional) ==
  LET after[i \in 0..Len(names)] ==
        IF i = 0 THEN [ok |-> TRUE, pos |-> 0, values |-> <<>>]
                 ELSE ScanParameter(after[i - 1], names[i], named, positional)
  IN  after[Len(names)]

\* Mutants: surplus keys are let pass; the last parameter is forgotten.
ParseSurplusKeys(names, named, positional) ==
  LET r == Scan(names, named, positional)
  IN  IF r.ok /\ r.pos = Len(positional) THEN r.values ELSE NULL

ParseOneShort(names, named, positional) ==
  LET r == Scan(names, named, positional)
  IN  IF r.ok THEN SubSeq(r.values, 1, Len(r.values) - 1) ELSE NULL

\* paraql__on_after_parse: the value of each parameter, or NULL (a TypeError).
Parse(names, named, positional) ==
  LET r == Scan(names, named, positional)
  IN  IF /\ r.ok
         /\ r.pos = Len(positional)
         /\ named # NULL => \A key \in DOMAIN named : Known(key, names)
        THEN r.values
        ELSE NULL

-----------------------------------------------------------------------------
(* The reference: what README.md and statement.d.ts promise, without a loop. *)

\* What SQLite is to hold for a value of JavaScript; NULL for no BindValue.
Meant(v) == CASE v \in {"null", "undefined"} -> "null"
              [] v = "array"                 -> "json"
              [] v = "bool"                  -> NULL
              [] OTHER                       -> v

Nameless(names) == {i \in 1..Len(names) : names[i] = NULL}
Rank(i, names) == Cardinality({j \in Nameless(names) : j <= i})

\* The keys a named parameter may be given under.
KeysOf(name, named) == {name, Bare(name)} \cap DOMAIN named

\* Parameter i is given the value v.
Gives(names, named, positional, i, v) ==
  IF names[i] = NULL
    THEN Rank(i, names) <= Len(positional) /\ v = positional[Rank(i, names)]
    ELSE /\ named # NULL
         /\ KeysOf(names[i], named) # {}
         /\ v = IF names[i] \in DOMAIN named THEN named[names[i]] ELSE named[Bare(names[i])]

\* Nothing is given that no parameter takes.
NoSurplus(names, named, positional) ==
  /\ Len(positional) <= Cardinality(Nameless(names))
  /\ named # NULL =>
       DOMAIN named \subseteq UNION {KeysOf(names[i], named) : i \in 1..Len(names) \ Nameless(names)}

\* No value is a bigint, the one type that paraql__parse_value garbles.
PlainNamed(named) == named # NULL => \A k \in DOMAIN named : named[k] # "bigint"
PlainPositional(positional) == \A k \in 1..Len(positional) : positional[k] # "bigint"

\* The values a call means, by parameter, or NULL when it does not fit.
Intended(names, named, positional) ==
  LET given(i, v) == Gives(names, named, positional, i, v)
      all == (IF named = NULL THEN {} ELSE {named[k] : k \in DOMAIN named}) \cup ToSet(positional)
  IN  IF /\ NoSurplus(names, named, positional)
         /\ \A i \in 1..Len(names) : \E v \in all : given(i, v) /\ Meant(v) # NULL
        THEN [i \in 1..Len(names) |-> Meant(CHOOSE v \in all : given(i, v))]
        ELSE NULL

=============================================================================
