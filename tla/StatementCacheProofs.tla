------------------------- MODULE StatementCacheProofs -------------------------
(***************************************************************************)
(* Proofs about StatementCache, for every number of callers, statements    *)
(* and SQL texts and every size of the cache.                              *)
(*                                                                         *)
(* That a hit is alive (HitsAreLive) holds whatever overlaps.  It needs to *)
(* know that a statement is cached under its own SQL only (Keyed), so that *)
(* its finalization takes it out of the cache, and that a statement being  *)
(* opened is in the hands of one caller (Openers).                         *)
(*                                                                         *)
(* The other promises are kept to calls that do not overlap.  Then every   *)
(* statement that is open or closing is in the cache (AllCached), closes   *)
(* only while somebody waits for it (Awaited), and one entry too many is   *)
(* in the cache only while an eviction takes one out (Room).               *)
(***************************************************************************)
EXTENDS StatementCache, SequenceTheorems, TLAPS

Keyed == \A k \in 1..Len(cache) : sqlOf[cache[k][2]] = cache[k][1]

Openers ==
  /\ \A c \in Callers : pc[c] = "opening" =>
       stmt[c] \in Stmts /\ state[stmt[c]] = "opening" /\ sqlOf[stmt[c]] \in Sqls
  /\ \A c, d \in Callers : pc[c] = "opening" /\ pc[d] = "opening" /\ stmt[c] = stmt[d] => c = d

InCache(s) == \E k \in 1..Len(cache) : cache[k] = <<sqlOf[s], s>>

Solo == \A c, d \in Callers : pc[c] # "idle" /\ pc[d] # "idle" => c = d

AllCached == \A s \in Stmts : state[s] \in {"open", "closing"} => InCache(s)

Awaited == \A s \in Stmts : state[s] = "closing" =>
  \E c \in Callers : pc[c] \in {"evicting", "finalizing", "closing"} /\ waitFor[c] = s

NewKey == \A c \in Callers : pc[c] = "opening" => ~Has(sqlOf[stmt[c]])

Evicts(c) == pc[c] = "evicting" /\ waitFor[c] \in Stmts /\ state[waitFor[c]] = "closing"

Room == \/ Len(cache) <= cacheSize
        \/ Len(cache) = cacheSize + 1 /\ \E c \in Callers : Evicts(c)

Evicted == \A c \in Callers : pc[c] = "evicting" /\ cacheSize > 0 =>
  stmt[c] \in Stmts /\ state[stmt[c]] = "open"

Shut == /\ db = "shutting" => \E c \in Callers : pc[c] = "shutting"
        /\ db = "closed" \/ (\E c \in Callers : pc[c] = "shutting") => cache = <<>>

Sequential == Solo /\ AllCached /\ Awaited /\ NewKey /\ Room /\ Evicted /\ Shut /\ LeastRecentFirst

IInv == TypeOK /\ Keyed /\ HitsAreLive /\ Openers /\ (~overlapped => Sequential)

-----------------------------------------------------------------------------
(* The Map and the history, as sequences.                                   *)

\* Removing an element closes the gap.
LEMMA RemoveAtFacts ==
  ASSUME NEW S, NEW s \in Seq(S), NEW n \in 1..Len(s)
  PROVE  /\ RemoveAt(s, n) \in Seq(S)
         /\ Len(RemoveAt(s, n)) = Len(s) - 1
         /\ \A i \in 1..(Len(s) - 1) : RemoveAt(s, n)[i] = s[IF i < n THEN i ELSE i + 1]
<1> DEFINE p == SubSeq(s, 1, n - 1)
           q == SubSeq(s, n + 1, Len(s))
<1>1. p \in Seq(S) /\ Len(p) = n - 1 /\ \A i \in 1..(n - 1) : p[i] = s[i]
  OBVIOUS
<1>2. q \in Seq(S) /\ Len(q) = Len(s) - n /\ \A i \in 1..(Len(s) - n) : q[i] = s[n + i]
  OBVIOUS
<1>. HIDE DEF p, q
<1>3. p \o q \in Seq(S) /\ Len(p \o q) = Len(s) - 1
  <2>1. p \o q \in Seq(S) BY <1>1, <1>2, ConcatProperties
  <2>2. Len(p \o q) = Len(p) + Len(q) BY <1>1, <1>2, ConcatProperties
  <2>. QED BY <1>1, <1>2, <2>1, <2>2
<1>4. ASSUME NEW i \in 1..(Len(s) - 1) PROVE (p \o q)[i] = s[IF i < n THEN i ELSE i + 1]
  <2>1. CASE i < n BY <1>1, <1>2, <2>1
  <2>2. CASE ~(i < n)
    <3>1. (p \o q)[i] = q[i - (n - 1)] BY <1>1, <1>2, <2>2
    <3>2. i - (n - 1) \in 1..(Len(s) - n) /\ n + (i - (n - 1)) = i + 1 BY <2>2
    <3>. QED BY <1>2, <2>2, <3>1, <3>2
  <2>. QED BY <2>1, <2>2
<1>. QED BY <1>3, <1>4 DEF RemoveAt, p, q

Entries == Sqls \X Stmts
Distinct(m) == \A j, k \in 1..Len(m) : m[j][1] = m[k][1] => j = k

\* Map.delete: the other entries stay, in their order.
LEMMA WithoutFacts ==
  ASSUME cache \in Seq(Entries), Distinct(cache), NEW sql
  PROVE  LET w == Without(sql)
         IN  /\ w \in Seq(Entries) /\ Distinct(w)
             /\ Len(w) = IF Has(sql) THEN Len(cache) - 1 ELSE Len(cache)
             /\ \A i \in 1..Len(w) : w[i][1] # sql
             /\ \A i, j \in 1..Len(w) : i <= j =>
                  \E k, l \in 1..Len(cache) : k <= l /\ w[i] = cache[k] /\ w[j] = cache[l]
             /\ \A k \in 1..Len(cache) : cache[k][1] # sql => \E i \in 1..Len(w) : w[i] = cache[k]
<1> DEFINE w == Without(sql)
           n == Place(sql)
<1>1. CASE ~Has(sql)
  <2>1. w = cache BY <1>1 DEF Without
  <2>. HIDE DEF w
  <2>2. \A i \in 1..Len(w) : w[i][1] # sql BY <1>1, <2>1 DEF Has
  <2>. QED BY <1>1, <2>1, <2>2 DEF w
<1>2. CASE Has(sql)
  <2>1. n \in 1..Len(cache) /\ cache[n][1] = sql
    BY <1>2 DEF Has, Place
  <2>2. w = RemoveAt(cache, n) BY <1>2 DEF Without
  <2>. HIDE DEF w, n
  <2>3. /\ w \in Seq(Entries) /\ Len(w) = Len(cache) - 1
        /\ \A i \in 1..Len(w) : w[i] = cache[IF i < n THEN i ELSE i + 1]
    BY <2>1, <2>2, RemoveAtFacts
  <2>4. \A i \in 1..Len(w) : w[i][1] # sql
    <3>1. \A k \in 1..Len(cache) : k # n => cache[k][1] # sql BY <2>1 DEF Distinct
    <3>2. \A i \in 1..Len(w) : (IF i < n THEN i ELSE i + 1) \in 1..Len(cache) \ {n}
      BY <2>1, <2>3
    <3>. QED BY <2>3, <3>1, <3>2
  <2>5. ASSUME NEW i \in 1..Len(w), NEW j \in 1..Len(w), i <= j
        PROVE  \E k, l \in 1..Len(cache) : k <= l /\ w[i] = cache[k] /\ w[j] = cache[l]
    <3> DEFINE k == IF i < n THEN i ELSE i + 1
               l == IF j < n THEN j ELSE j + 1
    <3>1. k \in 1..Len(cache) /\ l \in 1..Len(cache) /\ k <= l BY <2>1, <2>3, <2>5
    <3>2. w[i] = cache[k] /\ w[j] = cache[l] BY <2>3
    <3>. HIDE DEF k, l
    <3>. QED BY <3>1, <3>2
  <2>6. ASSUME NEW k \in 1..Len(cache), cache[k][1] # sql
        PROVE  \E i \in 1..Len(w) : w[i] = cache[k]
    <3>1. k # n BY <2>1, <2>6
    <3>2. CASE k < n BY <2>1, <2>3, <3>2
    <3>3. CASE k > n
      <4>1. k - 1 \in 1..Len(w) /\ w[k - 1] = cache[k] BY <2>1, <2>3, <3>3
      <4>. QED BY <4>1
    <3>. QED BY <2>1, <3>1, <3>2, <3>3
  <2>7. Distinct(w)
    <3>1. SUFFICES ASSUME NEW i \in 1..Len(w), NEW j \in 1..Len(w), w[i][1] = w[j][1]
                   PROVE  i = j
      BY DEF Distinct
    <3> DEFINE k == IF i < n THEN i ELSE i + 1
               l == IF j < n THEN j ELSE j + 1
    <3>2. k \in 1..Len(cache) /\ l \in 1..Len(cache) /\ (k = l => i = j) BY <2>1, <2>3
    <3>3. w[i] = cache[k] /\ w[j] = cache[l] BY <2>3
    <3>. HIDE DEF k, l
    <3>. QED BY <3>1, <3>2, <3>3 DEF Distinct
  <2>. QED BY <1>2, <2>3, <2>4, <2>5, <2>6, <2>7 DEF w
<1>. QED BY <1>1, <1>2

\* Map.set of a key that is new, or was just deleted: the entry comes last.
LEMMA AppendFacts ==
  ASSUME NEW m \in Seq(Entries), Distinct(m), NEW e \in Entries,
         \A k \in 1..Len(m) : m[k][1] # e[1]
  PROVE  LET w == Append(m, e)
         IN  /\ w \in Seq(Entries) /\ Distinct(w)
             /\ Len(w) = Len(m) + 1 /\ w[Len(w)] = e
             /\ \A k \in 1..Len(m) : w[k] = m[k]
<1> DEFINE w == Append(m, e)
<1>1. /\ w \in Seq(Entries) /\ Len(w) = Len(m) + 1 /\ w[Len(m) + 1] = e
      /\ \A k \in 1..Len(m) : w[k] = m[k]
  OBVIOUS
<1>. HIDE DEF w
<1>2. Distinct(w)
  <2>1. SUFFICES ASSUME NEW j \in 1..Len(w), NEW k \in 1..Len(w), w[j][1] = w[k][1]
                 PROVE  j = k
    BY DEF Distinct
  <2>2. CASE j \in 1..Len(m) /\ k \in 1..Len(m) BY <1>1, <2>1, <2>2 DEF Distinct
  <2>3. CASE j = Len(m) + 1 /\ k \in 1..Len(m) BY <1>1, <2>1, <2>3
  <2>4. CASE k = Len(m) + 1 /\ j \in 1..Len(m) BY <1>1, <2>1, <2>4
  <2>. QED BY <1>1, <2>2, <2>3, <2>4
<1>. QED BY <1>1, <1>2 DEF w

\* Map.set: the statement is in, the other SQLs keep their statements.
LEMMA SetEntryFacts ==
  ASSUME cache \in Seq(Entries), Distinct(cache), NEW sql \in Sqls, NEW s \in Stmts
  PROVE  LET w == SetEntry(sql, s)
         IN  /\ w \in Seq(Entries) /\ Distinct(w)
             /\ Len(w) \in Nat \ {0}
             /\ \E i \in 1..Len(w) : w[i] = <<sql, s>>
             /\ \A i \in 1..Len(w) : w[i] = <<sql, s>> \/ \E k \in 1..Len(cache) : w[i] = cache[k]
             /\ \A k \in 1..Len(cache) : cache[k][1] # sql => \E i \in 1..Len(w) : w[i] = cache[k]
<1> DEFINE w == SetEntry(sql, s)
           e == <<sql, s>>
<1>1. CASE ~Has(sql)
  <2>1. w = Append(cache, e) BY <1>1 DEF SetEntry
  <2>2. \A k \in 1..Len(cache) : cache[k][1] # e[1] BY <1>1 DEF Has
  <2>3. e \in Entries BY DEF Entries
  <2>. HIDE DEF e, w
  <2>4. /\ w \in Seq(Entries) /\ Distinct(w) /\ Len(w) = Len(cache) + 1 /\ w[Len(w)] = e
        /\ \A k \in 1..Len(cache) : w[k] = cache[k]
    BY <2>1, <2>2, <2>3, AppendFacts
  <2>5. \E i \in 1..Len(w) : w[i] = e BY <2>4
  <2>6. \A i \in 1..Len(w) : w[i] = e \/ \E k \in 1..Len(cache) : w[i] = cache[k] BY <2>4
  <2>7. \A k \in 1..Len(cache) : \E i \in 1..Len(w) : w[i] = cache[k] BY <2>4
  <2>8. Len(w) \in Nat \ {0} BY <2>4
  <2>. QED BY <2>4, <2>5, <2>6, <2>7, <2>8 DEF e, w
<1>2. CASE Has(sql)
  <2>1. PICK n \in 1..Len(cache) : cache[n][1] = sql BY <1>2 DEF Has
  <2>2. w = [k \in 1..Len(cache) |-> IF cache[k][1] = sql THEN e ELSE cache[k]]
    BY <1>2 DEF SetEntry
  <2>3. e \in Entries /\ e[1] = sql BY DEF Entries
  <2>. HIDE DEF e, w
  <2>4. w \in Seq(Entries) /\ Len(w) = Len(cache) BY <2>2, <2>3
  <2>5. \A k \in 1..Len(cache) : w[k] = IF cache[k][1] = sql THEN e ELSE cache[k] BY <2>2
  <2>6. \A k \in 1..Len(cache) : w[k][1] = cache[k][1] BY <2>3, <2>5
  <2>7. Distinct(w) BY <2>4, <2>6 DEF Distinct
  <2>8. Len(w) \in Nat \ {0} /\ w[n] = e BY <2>1, <2>4, <2>5
  <2>9. \A i \in 1..Len(w) : w[i] = e \/ \E k \in 1..Len(cache) : w[i] = cache[k]
    BY <2>4, <2>5
  <2>10. \A k \in 1..Len(cache) : cache[k][1] # sql => \E i \in 1..Len(w) : w[i] = cache[k]
    BY <2>4, <2>5
  <2>. QED BY <2>1, <2>4, <2>7, <2>8, <2>9, <2>10 DEF e, w
<1>. QED BY <1>1, <1>2

\* A statement that is prepared becomes the last of those prepared; the others
\* stay in order.
LEMMA PreparedFacts ==
  ASSUME recent \in Seq(Sqls), \A j, k \in 1..Len(recent) : recent[j] = recent[k] => j = k,
         NEW sql \in Sqls, recent' = Prepared(sql)
  PROVE  /\ recent' \in Seq(Sqls)
         /\ \A j, k \in 1..Len(recent') : recent'[j] = recent'[k] => j = k
         /\ \A a, b : a # sql /\ b # sql /\ Before(a, b) => Before(a, b)'
         /\ \A a : a = sql \/ Before(a, a) => Before(a, sql)'
<1> DEFINE n == Rank(sql)
           m == IF sql \in ToSet(recent) THEN RemoveAt(recent, n) ELSE recent
<1>1. /\ m \in Seq(Sqls)
      /\ \A j, k \in 1..Len(m) : m[j] = m[k] => j = k
      /\ \A j \in 1..Len(m) : m[j] # sql
      /\ \A a, b : a # sql /\ b # sql /\ Before(a, b) =>
           \E i, j \in 1..Len(m) : i <= j /\ m[i] = a /\ m[j] = b
  <2>1. CASE sql \notin ToSet(recent)
    <3>1. m = recent BY <2>1
    <3>2. \A j \in 1..Len(recent) : recent[j] # sql BY <2>1 DEF ToSet
    <3>. HIDE DEF m
    <3>. QED BY <3>1, <3>2 DEF Before
  <2>2. CASE sql \in ToSet(recent)
    <3>1. n \in 1..Len(recent) /\ recent[n] = sql BY <2>2 DEF ToSet, Rank
    <3>2. m = RemoveAt(recent, n) BY <2>2
    <3>. HIDE DEF m, n
    <3>3. /\ m \in Seq(Sqls) /\ Len(m) = Len(recent) - 1
          /\ \A i \in 1..Len(m) : m[i] = recent[IF i < n THEN i ELSE i + 1]
      BY <3>1, <3>2, RemoveAtFacts
    <3>4. \A i \in 1..Len(m) : (IF i < n THEN i ELSE i + 1) \in 1..Len(recent) \ {n}
      BY <3>1, <3>3
    <3>5. \A j \in 1..Len(m) : m[j] # sql
      <4>1. \A k \in 1..Len(recent) : k # n => recent[k] # sql BY <3>1
      <4>. QED BY <3>3, <3>4, <4>1
    <3>6. ASSUME NEW j \in 1..Len(m), NEW k \in 1..Len(m), m[j] = m[k] PROVE j = k
      <4>1. (IF j < n THEN j ELSE j + 1) = (IF k < n THEN k ELSE k + 1)
        BY <3>3, <3>4, <3>6
      <4>. QED BY <3>1, <3>3, <4>1
    <3>7. ASSUME NEW a, NEW b, a # sql, b # sql, Before(a, b)
          PROVE  \E i, j \in 1..Len(m) : i <= j /\ m[i] = a /\ m[j] = b
      <4>1. PICK k, l \in 1..Len(recent) : k <= l /\ recent[k] = a /\ recent[l] = b
        BY <3>7 DEF Before
      <4>2. k # n /\ l # n BY <3>1, <3>7, <4>1
      <4> DEFINE i == IF k < n THEN k ELSE k - 1
                 j == IF l < n THEN l ELSE l - 1
      <4>3. i \in 1..Len(m) /\ j \in 1..Len(m) /\ i <= j BY <3>1, <3>3, <4>1, <4>2
      <4>4. (IF i < n THEN i ELSE i + 1) = k /\ (IF j < n THEN j ELSE j + 1) = l
        BY <3>1, <4>2
      <4>5. m[i] = recent[k] /\ m[j] = recent[l]
        <5>. HIDE DEF i, j
        <5>. QED BY <3>3, <4>3, <4>4
      <4>. HIDE DEF i, j
      <4>. QED BY <4>1, <4>3, <4>5
    <3>. QED BY <3>3, <3>5, <3>6, <3>7
  <2>. QED BY <2>1, <2>2
<1>2. recent' = Append(m, sql) BY DEF Prepared
<1>3. \A a : Before(a, a) /\ a # sql => \E i \in 1..Len(m) : m[i] = a BY <1>1
<1>. HIDE DEF m
<1>4. /\ recent' \in Seq(Sqls) /\ Len(recent') = Len(m) + 1 /\ recent'[Len(m) + 1] = sql
      /\ \A i \in 1..Len(m) : recent'[i] = m[i]
  BY <1>1, <1>2
<1>5. ASSUME NEW j \in 1..Len(recent'), NEW k \in 1..Len(recent'), recent'[j] = recent'[k]
      PROVE  j = k
  <2>1. CASE j \in 1..Len(m) /\ k \in 1..Len(m) BY <1>1, <1>4, <1>5, <2>1
  <2>2. CASE j = Len(m) + 1 /\ k \in 1..Len(m) BY <1>1, <1>4, <1>5, <2>2
  <2>3. CASE k = Len(m) + 1 /\ j \in 1..Len(m) BY <1>1, <1>4, <1>5, <2>3
  <2>. QED BY <1>1, <1>4, <2>1, <2>2, <2>3
<1>6. ASSUME NEW a, NEW b, a # sql, b # sql, Before(a, b) PROVE Before(a, b)'
  <2>1. PICK i, j \in 1..Len(m) : i <= j /\ m[i] = a /\ m[j] = b BY <1>1, <1>6
  <2>2. i \in 1..Len(recent') /\ j \in 1..Len(recent') BY <1>1, <1>4
  <2>. QED BY <1>4, <2>1, <2>2 DEF Before
<1>7. ASSUME NEW a, a = sql \/ Before(a, a) PROVE Before(a, sql)'
  <2> DEFINE l == Len(m) + 1
  <2>1. l \in 1..Len(recent') /\ recent'[l] = sql BY <1>1, <1>4
  <2>2. \E i \in 1..Len(recent') : i <= l /\ recent'[i] = a
    <3>1. CASE a = sql BY <1>1, <2>1, <3>1
    <3>2. CASE a # sql
      <4>1. PICK i \in 1..Len(m) : m[i] = a BY <1>3, <1>7, <3>2
      <4>2. i \in 1..Len(recent') /\ i <= l BY <1>1, <1>4
      <4>. QED BY <1>4, <4>1, <4>2
    <3>. QED BY <3>1, <3>2
  <2>. HIDE DEF l
  <2>. QED BY <2>1, <2>2 DEF Before
<1>. QED BY <1>4, <1>5, <1>6, <1>7

\* What is prepared comes last in the cache as well.
LEMMA OrderKept ==
  ASSUME recent \in Seq(Sqls), \A j, k \in 1..Len(recent) : recent[j] = recent[k] => j = k,
         NEW sql \in Sqls, recent' = Prepared(sql), LeastRecentFirst, ~overlapped,
         NEW w \in Seq(Entries), \A i \in 1..Len(w) : w[i][1] # sql,
         \A i, j \in 1..Len(w) : i <= j =>
           \E k, l \in 1..Len(cache) : k <= l /\ w[i] = cache[k] /\ w[j] = cache[l],
         NEW e \in Entries, e[1] = sql, cache' = Append(w, e)
  PROVE  LeastRecentFirst'
<1>1. /\ \A a, b : a # sql /\ b # sql /\ Before(a, b) => Before(a, b)'
      /\ \A a : a = sql \/ Before(a, a) => Before(a, sql)'
  BY PreparedFacts
<1>2. /\ Len(cache') = Len(w) + 1 /\ cache'[Len(cache')] = e
      /\ \A k \in 1..Len(w) : cache'[k] = w[k]
  OBVIOUS
<1>3. SUFFICES ASSUME NEW j \in 1..Len(cache'), NEW k \in 1..Len(cache'), j <= k
               PROVE  \E p, q \in 1..Len(recent') :
                        p <= q /\ recent'[p] = cache'[j][1] /\ recent'[q] = cache'[k][1]
  BY DEF LeastRecentFirst, Before
<1>4. PICK a, b : a = cache'[j][1] /\ b = cache'[k][1] OBVIOUS
<1>5. SUFFICES Before(a, b)' BY <1>4 DEF Before
<1>6. ASSUME j \in 1..Len(w), NEW l \in 1..Len(w), j <= l, NEW x, x = w[l][1]
      PROVE  Before(a, x) /\ a # sql /\ x # sql
  <2>1. PICK i, m \in 1..Len(cache) : i <= m /\ w[j] = cache[i] /\ w[l] = cache[m] BY <1>6
  <2>2. Before(cache[i][1], cache[m][1]) BY <2>1 DEF LeastRecentFirst
  <2>3. a = cache[i][1] /\ x = cache[m][1] BY <1>2, <1>4, <1>6, <2>1
  <2>4. a # sql /\ x # sql BY <1>2, <1>4, <1>6
  <2>. QED BY <2>2, <2>3, <2>4 DEF Before
<1>7. CASE k = Len(cache')
  <2>1. b = sql BY <1>2, <1>4, <1>7
  <2>2. CASE j = Len(cache') BY <1>1, <1>2, <1>4, <2>1, <2>2
  <2>3. CASE j # Len(cache')
    <3>1. j \in 1..Len(w) BY <1>2, <2>3
    <3>2. a = w[j][1] BY <1>2, <1>4, <3>1
    <3>3. Before(a, a) BY <1>6, <3>1, <3>2
    <3>. QED BY <1>1, <2>1, <3>3
  <2>. QED BY <2>2, <2>3
<1>8. CASE k # Len(cache')
  <2>1. j \in 1..Len(w) /\ k \in 1..Len(w) BY <1>2, <1>3, <1>8
  <2>2. b = w[k][1] BY <1>2, <1>4, <2>1
  <2>3. Before(a, b) /\ a # sql /\ b # sql BY <1>3, <1>6, <2>1, <2>2
  <2>. QED BY <1>1, <2>3
<1>. QED BY <1>7, <1>8

-----------------------------------------------------------------------------
(* The steps.                                                               *)

\* Only a call can overlap another.
Calls == overlapped' = (overlapped \/ \E d \in Callers : pc[d] # "idle")

\* What a cached entry is.
LEMMA EntryFacts ==
  ASSUME IInv
  PROVE  /\ cache \in Seq(Entries) /\ Distinct(cache)
         /\ \A k \in 1..Len(cache) :
              /\ cache[k] = <<cache[k][1], cache[k][2]>>
              /\ cache[k][1] \in Sqls /\ cache[k][2] \in Stmts
              /\ sqlOf[cache[k][2]] = cache[k][1]
              /\ state[cache[k][2]] \in {"open", "closing"}
         /\ \A sql : Has(sql) => Place(sql) \in 1..Len(cache) /\ cache[Place(sql)] = <<sql, Get(sql)>>
<1>1. cache \in Seq(Entries) /\ Distinct(cache) BY DEF IInv, TypeOK, Entries, Distinct
<1>2. ASSUME NEW k \in 1..Len(cache)
      PROVE  /\ cache[k] = <<cache[k][1], cache[k][2]>>
             /\ cache[k][1] \in Sqls /\ cache[k][2] \in Stmts
  <2>1. cache[k] \in Sqls \X Stmts BY <1>1 DEF Entries
  <2>. QED BY <2>1
<1>3. ASSUME NEW sql, Has(sql)
      PROVE  Place(sql) \in 1..Len(cache) /\ cache[Place(sql)] = <<sql, Get(sql)>>
  <2>1. Place(sql) \in 1..Len(cache) /\ cache[Place(sql)][1] = sql BY <1>3 DEF Has, Place
  <2>. QED BY <1>2, <2>1 DEF Get
<1>. QED BY <1>1, <1>2, <1>3 DEF IInv, Keyed, HitsAreLive

LEMMA PrepareHitStep ==
  ASSUME IInv, NEW c \in Callers, NEW sql \in Sqls, PrepareHit(c, sql), Calls
  PROVE  IInv'
<1> DEFINE w == Without(sql)
           e == <<sql, Get(sql)>>
<1>. USE DEF PrepareHit
<1>1. /\ Place(sql) \in 1..Len(cache) /\ cache[Place(sql)] = e
      /\ Get(sql) \in Stmts /\ e \in Entries
      /\ cache \in Seq(Entries) /\ Distinct(cache)
  BY EntryFacts DEF Get, Entries
<1>2. /\ w \in Seq(Entries) /\ Distinct(w) /\ Len(w) = Len(cache) - 1
      /\ \A i \in 1..Len(w) : w[i][1] # sql
      /\ \A i, j \in 1..Len(w) : i <= j =>
           \E k, l \in 1..Len(cache) : k <= l /\ w[i] = cache[k] /\ w[j] = cache[l]
      /\ \A k \in 1..Len(cache) : cache[k][1] # sql => \E i \in 1..Len(w) : w[i] = cache[k]
  BY <1>1, WithoutFacts
<1>3. cache' = Append(w, e) /\ e[1] = sql OBVIOUS
<1>. HIDE DEF w, e
<1>4. /\ cache' \in Seq(Entries) /\ Distinct(cache')
      /\ Len(cache') = Len(w) + 1 /\ cache'[Len(cache')] = e
      /\ \A k \in 1..Len(w) : cache'[k] = w[k]
  <2>1. \A k \in 1..Len(w) : w[k][1] # e[1] BY <1>2, <1>3
  <2>2. w \in Seq(Entries) /\ Distinct(w) /\ e \in Entries BY <1>1, <1>2
  <2>. QED BY ONLY <1>3, <2>1, <2>2, AppendFacts
<1>5. Len(cache') = Len(cache) BY <1>1, <1>2, <1>4
<1>6. \A i \in 1..Len(cache') : \E k \in 1..Len(cache) : cache'[i] = cache[k]
  <2>1. \A i \in 1..Len(w) : \E k \in 1..Len(cache) : w[i] = cache[k] BY <1>2
  <2>2. \A i \in 1..Len(cache') : i = Len(cache') \/ i \in 1..Len(w) BY <1>2, <1>4
  <2>. QED BY <1>1, <1>4, <2>1, <2>2
<1>7. \A k \in 1..Len(cache) : \E i \in 1..Len(cache') : cache'[i] = cache[k]
  <2>1. ASSUME NEW k \in 1..Len(cache) PROVE \E i \in 1..Len(cache') : cache'[i] = cache[k]
    <3>1. CASE cache[k][1] # sql
      <4>1. PICK i \in 1..Len(w) : w[i] = cache[k] BY <1>2, <3>1
      <4>2. i \in 1..Len(cache') BY <1>2, <1>4
      <4>. QED BY <1>4, <4>1, <4>2
    <3>2. CASE cache[k][1] = sql
      <4>1. k = Place(sql) BY <1>1, <1>3, <3>2 DEF Distinct
      <4>2. Len(cache') \in 1..Len(cache') BY <1>2, <1>4
      <4>. QED BY <1>1, <1>4, <4>1, <4>2
    <3>. QED BY <3>1, <3>2
  <2>. QED BY <2>1
<1>8. /\ recent' \in Seq(Sqls)
      /\ \A j, k \in 1..Len(recent') : recent'[j] = recent'[k] => j = k
      /\ \A a, b : a # sql /\ b # sql /\ Before(a, b) => Before(a, b)'
      /\ \A a : a = sql \/ Before(a, a) => Before(a, sql)'
  BY PreparedFacts DEF IInv, TypeOK
<1>9. TypeOK'
  <2>1. overlapped' \in BOOLEAN BY DEF IInv, TypeOK, Calls
  <2>2. stmt' \in [Callers -> Stmts \cup {NULL}] BY <1>1 DEF IInv, TypeOK
  <2>. QED BY <1>4, <1>8, <2>1, <2>2 DEF IInv, TypeOK, Entries, Distinct
<1>10. Keyed' /\ HitsAreLive' BY <1>6 DEF IInv, Keyed, HitsAreLive
<1>11. Openers' BY DEF IInv, Openers, TypeOK
<1>12. ASSUME ~overlapped' PROVE Sequential'
  <2>1. Sequential /\ ~overlapped /\ \A d \in Callers : pc[d] = "idle" BY <1>12 DEF IInv, Calls
  <2>2. AllCached'
    <3>1. \A s \in Stmts : InCache(s) => InCache(s)' BY <1>7 DEF InCache
    <3>. QED BY <2>1, <3>1 DEF Sequential, AllCached
  <2>3. Room' /\ Awaited' BY <1>5, <2>1 DEF Sequential, Room, Evicts, Awaited
  <2>4. Shut'
    <3>1. db = "open" \/ db = "closing" BY <2>1 DEF Shut, IInv, TypeOK, Sequential
    <3>. QED BY <2>1, <3>1 DEF Shut
  <2>5. LeastRecentFirst'
    <3>1. recent \in Seq(Sqls) /\ \A j, k \in 1..Len(recent) : recent[j] = recent[k] => j = k
      BY DEF IInv, TypeOK
    <3>2. LeastRecentFirst /\ ~overlapped BY <2>1 DEF Sequential
    <3>3. recent' = Prepared(sql) OBVIOUS
    <3>4. w \in Seq(Entries) /\ e \in Entries /\ \A i \in 1..Len(w) : w[i][1] # sql
      BY ONLY <1>1, <1>2
    <3>5. \A i, j \in 1..Len(w) : i <= j =>
            \E k, l \in 1..Len(cache) : k <= l /\ w[i] = cache[k] /\ w[j] = cache[l]
      BY ONLY <1>2
    <3>. QED BY ONLY <1>3, <3>1, <3>2, <3>3, <3>4, <3>5, OrderKept
  <2>6. Solo' /\ NewKey' /\ Evicted' BY <2>1 DEF Solo, NewKey, Evicted
  <2>. QED BY <2>2, <2>3, <2>4, <2>5, <2>6 DEF Sequential
<1>. QED BY <1>9, <1>10, <1>11, <1>12 DEF IInv

LEMMA PrepareMissStep ==
  ASSUME IInv, NEW c \in Callers, NEW sql \in Sqls, PrepareMiss(c, sql), Calls
  PROVE  IInv'
<1> DEFINE n == Created
<1>. USE DEF PrepareMiss
<1>1. n \in Stmts /\ state[n] = "none" BY DEF Created, Uncreated
<1>. HIDE DEF n
<1>2. \A t \in Stmts : t # n => state'[t] = state[t] /\ sqlOf'[t] = sqlOf[t]
  BY DEF IInv, TypeOK, n
<1>3. state'[n] = "opening" /\ sqlOf'[n] = sql BY <1>1 DEF IInv, TypeOK, n
<1>4. TypeOK'
  <2>1. overlapped' \in BOOLEAN BY DEF IInv, TypeOK, Calls
  <2>. QED BY <1>1, <2>1 DEF IInv, TypeOK, n
<1>5. Keyed' /\ HitsAreLive' BY <1>1, <1>2, EntryFacts DEF Keyed, HitsAreLive
<1>6. Openers'
  <2>1. pc'[c] = "opening" /\ stmt'[c] = n BY DEF IInv, TypeOK, n
  <2>2. \A d \in Callers : d # c => pc'[d] = pc[d] /\ stmt'[d] = stmt[d] BY DEF IInv, TypeOK
  <2>3. \A d \in Callers : pc[d] = "opening" => stmt[d] \in Stmts /\ stmt[d] # n
    BY <1>1 DEF IInv, Openers
  <2>. QED BY <1>1, <1>2, <1>3, <2>1, <2>2, <2>3 DEF IInv, Openers
<1>7. ASSUME ~overlapped' PROVE Sequential'
  <2>1. Sequential /\ ~overlapped /\ \A d \in Callers : pc[d] = "idle" BY <1>7 DEF IInv, Calls
  <2>2. \A d \in Callers : d # c => pc'[d] = "idle" BY <2>1 DEF IInv, TypeOK
  <2>3. pc'[c] = "opening" /\ stmt'[c] = n BY DEF IInv, TypeOK, n
  <2>4. Solo' BY <2>2 DEF Solo
  <2>5. AllCached'
    <3>1. AllCached /\ cache' = cache BY <2>1 DEF Sequential
    <3>. QED BY ONLY <1>1, <1>2, <1>3, <3>1 DEF AllCached, InCache
  <2>6. Awaited'
    <3>1. \A t \in Stmts : state[t] # "closing" BY <2>1 DEF Sequential, Awaited
    <3>. QED BY <1>2, <1>3, <3>1 DEF Awaited
  <2>7. NewKey' BY <1>3, <2>2, <2>3 DEF NewKey, Has
  <2>8. Room'
    <3>1. Len(cache) <= cacheSize BY ONLY <2>1 DEF Sequential, Room, Evicts
    <3>2. cache' = cache OBVIOUS
    <3>. QED BY ONLY <3>1, <3>2 DEF Room
  <2>9. Evicted' BY <2>2, <2>3 DEF Evicted
  <2>10. Shut' BY <2>1, <2>2, <2>3 DEF Sequential, Shut
  <2>11. LeastRecentFirst'
    <3>1. cache' = cache /\ recent' = recent OBVIOUS
    <3>. QED BY ONLY <2>1, <3>1 DEF Sequential, LeastRecentFirst, Before
  <2>. QED BY <2>4, <2>5, <2>6, <2>7, <2>8, <2>9, <2>10, <2>11 DEF Sequential
<1>. QED BY <1>4, <1>5, <1>6, <1>7 DEF IInv

LEMMA FinalizeCallStep ==
  ASSUME IInv, NEW c \in Callers, NEW s \in Stmts, FinalizeCall(c, s), Calls
  PROVE  IInv'
<1>. USE DEF FinalizeCall
<1>1. /\ state[s] \in {"open", "closing"} /\ state'[s] = "closing"
      /\ \A t \in Stmts : t # s => state'[t] = state[t]
  BY DEF IInv, TypeOK, StartFinalize
<1>2. TypeOK'
  <2>1. overlapped' \in BOOLEAN BY DEF IInv, TypeOK, Calls
  <2>2. state' \in [Stmts -> {"none", "opening", "open", "closing", "closed"}]
    BY DEF IInv, TypeOK, StartFinalize
  <2>. QED BY <2>1, <2>2 DEF IInv, TypeOK
<1>3. Keyed' /\ HitsAreLive' BY <1>1, EntryFacts DEF Keyed, HitsAreLive
<1>4. pc'[c] = "finalizing" /\ waitFor'[c] = s
      /\ \A d \in Callers : d # c => pc'[d] = pc[d] /\ waitFor'[d] = waitFor[d]
  BY DEF IInv, TypeOK
<1>5. Openers'
  <2>1. \A d \in Callers : pc'[d] = "opening" => d # c /\ stmt[d] \in Stmts /\ stmt[d] # s
    BY <1>1, <1>4 DEF IInv, Openers
  <2>. QED BY <1>1, <1>4, <2>1 DEF IInv, Openers
<1>6. ASSUME ~overlapped' PROVE Sequential'
  <2>1. Sequential /\ ~overlapped /\ \A d \in Callers : pc[d] = "idle" BY <1>6 DEF IInv, Calls
  <2>2. \A d \in Callers : d # c => pc'[d] = "idle" BY <1>4, <2>1
  <2>3. \A t \in Stmts : state[t] # "closing" BY <2>1 DEF Sequential, Awaited
  <2>4. Solo' BY <2>2 DEF Solo
  <2>5. AllCached'
    <3>1. AllCached /\ cache' = cache /\ sqlOf' = sqlOf BY <2>1 DEF Sequential
    <3>2. \A t \in Stmts : InCache(t) => InCache(t)' BY ONLY <3>1 DEF InCache
    <3>. QED BY ONLY <1>1, <3>1, <3>2 DEF AllCached
  <2>6. Awaited' BY <1>1, <1>4, <2>3 DEF Awaited
  <2>7. NewKey' /\ Evicted' BY <1>4, <2>2 DEF NewKey, Evicted
  <2>8. Room'
    <3>1. Len(cache) <= cacheSize BY ONLY <2>1 DEF Sequential, Room, Evicts
    <3>2. cache' = cache OBVIOUS
    <3>. QED BY ONLY <3>1, <3>2 DEF Room
  <2>9. Shut' BY <1>4, <2>1, <2>2 DEF Sequential, Shut
  <2>10. LeastRecentFirst' BY <2>1 DEF Sequential, LeastRecentFirst, Before
  <2>. QED BY <2>4, <2>5, <2>6, <2>7, <2>8, <2>9, <2>10 DEF Sequential
<1>. QED BY <1>2, <1>3, <1>5, <1>6 DEF IInv

LEMMA CloseCallStep ==
  ASSUME IInv, NEW c \in Callers, CloseCall(c), Calls
  PROVE  IInv'
<1>. USE DEF CloseCall
<1>1. TypeOK'
  <2>1. overlapped' \in BOOLEAN BY DEF IInv, TypeOK, Calls
  <2>. QED BY <2>1 DEF IInv, TypeOK
<1>2. Keyed' /\ HitsAreLive' BY DEF IInv, Keyed, HitsAreLive
<1>3. pc'[c] = "closing" /\ \A d \in Callers : d # c => pc'[d] = pc[d] BY DEF IInv, TypeOK
<1>4. Openers' BY <1>3 DEF IInv, Openers
<1>5. ASSUME ~overlapped' PROVE Sequential'
  <2>1. Sequential /\ ~overlapped /\ \A d \in Callers : pc[d] = "idle" BY <1>5 DEF IInv, Calls
  <2>2. \A d \in Callers : d # c => pc'[d] = "idle" BY <1>3, <2>1
  <2>3. \A t \in Stmts : state[t] # "closing" BY <2>1 DEF Sequential, Awaited
  <2>4. Solo' BY <2>2 DEF Solo
  <2>5. AllCached' BY <2>1 DEF Sequential, AllCached, InCache
  <2>6. Awaited' BY <2>3 DEF Awaited
  <2>7. NewKey' /\ Evicted' BY <1>3, <2>2 DEF NewKey, Evicted
  <2>8. Room'
    <3>1. Len(cache) <= cacheSize BY ONLY <2>1 DEF Sequential, Room, Evicts
    <3>2. cache' = cache OBVIOUS
    <3>. QED BY ONLY <3>1, <3>2 DEF Room
  <2>9. Shut' BY <1>3, <2>2 DEF Shut
  <2>10. LeastRecentFirst' BY <2>1 DEF Sequential, LeastRecentFirst, Before
  <2>. QED BY <2>4, <2>5, <2>6, <2>7, <2>8, <2>9, <2>10 DEF Sequential
<1>. QED BY <1>1, <1>2, <1>4, <1>5 DEF IInv

LEMMA OpenFailedStep ==
  ASSUME IInv, NEW c \in Callers, OpenFailed(c), UNCHANGED overlapped
  PROVE  IInv'
<1> DEFINE s == stmt[c]
<1>. USE DEF OpenFailed
<1>1. s \in Stmts /\ state[s] = "opening" BY DEF IInv, Openers
<1>2. state'[s] = "closed" /\ \A t \in Stmts : t # s => state'[t] = state[t]
  BY <1>1 DEF IInv, TypeOK
<1>3. pc'[c] = "idle" /\ \A d \in Callers : d # c => pc'[d] = pc[d] /\ stmt'[d] = stmt[d]
  BY DEF IInv, TypeOK
<1>4. TypeOK' BY <1>1 DEF IInv, TypeOK
<1>. HIDE DEF s
<1>5. Keyed' /\ HitsAreLive' BY <1>1, <1>2, EntryFacts DEF Keyed, HitsAreLive
<1>6. Openers'
  <2>1. \A d \in Callers : pc'[d] = "opening" => d # c /\ stmt[d] \in Stmts /\ stmt[d] # s
    BY <1>3 DEF IInv, Openers, s
  <2>. QED BY <1>2, <1>3, <2>1 DEF IInv, Openers
<1>7. ASSUME ~overlapped' PROVE Sequential'
  <2>1. Sequential /\ ~overlapped BY <1>7 DEF IInv
  <2>2. \A d \in Callers : d # c => pc[d] = "idle" BY <2>1 DEF Sequential, Solo
  <2>3. \A d \in Callers : pc'[d] = "idle" BY <1>3, <2>2
  <2>4. \A t \in Stmts : state[t] # "closing" BY <2>1, <2>2 DEF Sequential, Awaited
  <2>5. AllCached' BY <1>2, <2>1 DEF Sequential, AllCached, InCache
  <2>6. Awaited' BY <1>2, <2>4 DEF Awaited
  <2>7. Solo' /\ NewKey' /\ Evicted' BY <2>3 DEF Solo, NewKey, Evicted
  <2>8. Room'
    <3>1. Len(cache) <= cacheSize BY <2>1, <2>2 DEF Sequential, Room, Evicts
    <3>2. cache' = cache OBVIOUS
    <3>. QED BY ONLY <3>1, <3>2 DEF Room
  <2>9. Shut' BY <2>1, <2>2, <2>3 DEF Sequential, Shut
  <2>10. LeastRecentFirst' BY <2>1 DEF Sequential, LeastRecentFirst, Before
  <2>. QED BY <2>5, <2>6, <2>7, <2>8, <2>9, <2>10 DEF Sequential
<1>. QED BY <1>4, <1>5, <1>6, <1>7 DEF IInv

LEMMA ResumeStep ==
  ASSUME IInv, NEW c \in Callers, Resume(c), UNCHANGED overlapped
  PROVE  IInv'
<1>. USE DEF Resume
<1>1. TypeOK' BY DEF IInv, TypeOK
<1>2. Keyed' /\ HitsAreLive' BY DEF IInv, Keyed, HitsAreLive
<1>3. pc'[c] = "idle" /\ \A d \in Callers : d # c => pc'[d] = pc[d] BY DEF IInv, TypeOK
<1>4. Openers' BY <1>3 DEF IInv, Openers
<1>5. ASSUME ~overlapped' PROVE Sequential'
  <2>1. Sequential /\ ~overlapped BY <1>5 DEF IInv
  <2>2. \A d \in Callers : d # c => pc[d] = "idle" BY <2>1 DEF Sequential, Solo
  <2>3. \A d \in Callers : pc'[d] = "idle" BY <1>3, <2>2
  <2>4. \A t \in Stmts : state[t] # "closing" BY <2>1, <2>2 DEF Sequential, Awaited
  <2>5. AllCached' BY <2>1 DEF Sequential, AllCached, InCache
  <2>6. Awaited' BY <2>4 DEF Awaited
  <2>7. Solo' /\ NewKey' /\ Evicted' BY <2>3 DEF Solo, NewKey, Evicted
  <2>8. Room' BY <2>1, <2>2 DEF Sequential, Room, Evicts
  <2>9. Shut' BY <2>1, <2>2, <2>3 DEF Sequential, Shut
  <2>10. LeastRecentFirst' BY <2>1 DEF Sequential, LeastRecentFirst, Before
  <2>. QED BY <2>5, <2>6, <2>7, <2>8, <2>9, <2>10 DEF Sequential
<1>. QED BY <1>1, <1>2, <1>4, <1>5 DEF IInv

LEMMA CloseNextStep ==
  ASSUME IInv, NEW c \in Callers, CloseNext(c), UNCHANGED overlapped
  PROVE  IInv'
<1>1. CASE cache # <<>>
  <2> DEFINE s == Oldest(cache)
  <2>1. /\ pc[c] = "closing" /\ (waitFor[c] # NULL => state[waitFor[c]] = "closed")
        /\ state' = StartFinalize(s) /\ waitFor' = [waitFor EXCEPT ![c] = s]
        /\ UNCHANGED <<db, pc, cache, sqlOf, stmt, recent>>
    BY <1>1 DEF CloseNext
  <2>2. s \in Stmts /\ state[s] \in {"open", "closing"}
    <3>1. 1 \in 1..Len(cache) BY <1>1, EntryFacts
    <3>. QED BY <3>1, EntryFacts DEF Oldest
  <2>. HIDE DEF s
  <2>3. state'[s] = "closing" /\ \A t \in Stmts : t # s => state'[t] = state[t]
    BY <2>1, <2>2 DEF IInv, TypeOK, StartFinalize
  <2>4. state' \in [Stmts -> {"none", "opening", "open", "closing", "closed"}]
    BY <2>1, <2>2 DEF IInv, TypeOK, StartFinalize
  <2>5. waitFor'[c] = s /\ waitFor' \in [Callers -> Stmts \cup {NULL}]
    BY <2>1, <2>2 DEF IInv, TypeOK
  <2>6. TypeOK' BY <2>1, <2>4, <2>5 DEF IInv, TypeOK
  <2>7. Keyed' /\ HitsAreLive' BY <2>1, <2>3, EntryFacts DEF Keyed, HitsAreLive
  <2>8. Openers'
    <3>1. \A d \in Callers : pc'[d] = "opening" => stmt[d] \in Stmts /\ stmt[d] # s
      BY <2>1, <2>2 DEF IInv, Openers
    <3>. QED BY <2>1, <2>3, <3>1 DEF IInv, Openers
  <2>9. ASSUME ~overlapped' PROVE Sequential'
    <3>1. Sequential /\ ~overlapped BY <2>9 DEF IInv
    <3>2. \A d \in Callers : d # c => pc[d] = "idle" BY <2>1, <3>1 DEF Sequential, Solo
    <3>3. \A t \in Stmts : state[t] # "closing"
      <4>1. SUFFICES ASSUME NEW t \in Stmts, state[t] = "closing" PROVE FALSE OBVIOUS
      <4>2. waitFor[c] = t BY <3>1, <3>2, <4>1 DEF Sequential, Awaited
      <4>3. t # NULL BY StatementCacheAssumption
      <4>. QED BY <2>1, <4>1, <4>2, <4>3
    <3>4. AllCached' BY <2>1, <2>2, <2>3, <3>1 DEF Sequential, AllCached, InCache
    <3>5. Awaited' BY <2>1, <2>3, <2>5, <3>3 DEF Awaited
    <3>6. Solo' /\ NewKey' /\ Evicted' BY <2>1, <3>2 DEF Solo, NewKey, Evicted
    <3>7. Room' BY <2>1, <3>1, <3>2 DEF Sequential, Room, Evicts
    <3>8. Shut' BY <2>1, <3>1 DEF Sequential, Shut
    <3>9. LeastRecentFirst' BY <2>1, <3>1 DEF Sequential, LeastRecentFirst, Before
    <3>. QED BY <3>4, <3>5, <3>6, <3>7, <3>8, <3>9 DEF Sequential
  <2>. QED BY <2>6, <2>7, <2>8, <2>9 DEF IInv
<1>2. CASE cache = <<>>
  <2>1. /\ pc[c] = "closing" /\ db' = "shutting" /\ pc' = [pc EXCEPT ![c] = "shutting"]
        /\ waitFor' = [waitFor EXCEPT ![c] = NULL]
        /\ UNCHANGED <<state, cache, sqlOf, stmt, recent>>
    BY <1>2 DEF CloseNext
  <2>2. pc'[c] = "shutting" /\ \A d \in Callers : d # c => pc'[d] = pc[d]
    BY <2>1 DEF IInv, TypeOK
  <2>3. TypeOK' BY <2>1 DEF IInv, TypeOK
  <2>4. Keyed' /\ HitsAreLive' BY <2>1 DEF IInv, Keyed, HitsAreLive
  <2>5. Openers' BY <2>1, <2>2 DEF IInv, Openers
  <2>6. ASSUME ~overlapped' PROVE Sequential'
    <3>1. Sequential /\ ~overlapped BY <2>6 DEF IInv
    <3>2. \A d \in Callers : d # c => pc'[d] = "idle" BY <2>1, <2>2, <3>1 DEF Sequential, Solo
    <3>3. \A t \in Stmts : state[t] \notin {"open", "closing"}
      BY <1>2, <3>1 DEF Sequential, AllCached, InCache
    <3>4. AllCached' /\ Awaited' BY <2>1, <3>3 DEF AllCached, Awaited
    <3>5. Solo' /\ NewKey' /\ Evicted' BY <2>2, <3>2 DEF Solo, NewKey, Evicted
    <3>6. Room' BY <1>2, <2>1, StatementCacheAssumption DEF Room
    <3>7. Shut' BY <1>2, <2>1, <2>2 DEF Shut
    <3>8. LeastRecentFirst' BY <2>1, <3>1 DEF Sequential, LeastRecentFirst, Before
    <3>. QED BY <3>4, <3>5, <3>6, <3>7, <3>8 DEF Sequential
  <2>. QED BY <2>3, <2>4, <2>5, <2>6 DEF IInv
<1>. QED BY <1>1, <1>2

LEMMA ClosedStep ==
  ASSUME IInv, NEW c \in Callers, Closed(c), UNCHANGED overlapped
  PROVE  IInv'
<1>. USE DEF Closed
<1>1. TypeOK' BY DEF IInv, TypeOK
<1>2. Keyed' /\ HitsAreLive' BY DEF IInv, Keyed, HitsAreLive
<1>3. pc'[c] = "idle" /\ \A d \in Callers : d # c => pc'[d] = pc[d] BY DEF IInv, TypeOK
<1>4. Openers' BY <1>3 DEF IInv, Openers
<1>5. ASSUME ~overlapped' PROVE Sequential'
  <2>1. Sequential /\ ~overlapped BY <1>5 DEF IInv
  <2>2. \A d \in Callers : d # c => pc[d] = "idle" BY <2>1 DEF Sequential, Solo
  <2>3. \A d \in Callers : pc'[d] = "idle" BY <1>3, <2>2
  <2>4. cache = <<>> BY <2>1 DEF Sequential, Shut
  <2>5. \A t \in Stmts : state[t] \notin {"open", "closing"}
    BY <2>1, <2>4 DEF Sequential, AllCached, InCache
  <2>6. AllCached' /\ Awaited' BY <2>5 DEF AllCached, Awaited
  <2>7. Solo' /\ NewKey' /\ Evicted' BY <2>3 DEF Solo, NewKey, Evicted
  <2>8. Room' BY <2>4, StatementCacheAssumption DEF Room
  <2>9. Shut' BY <2>4 DEF Shut
  <2>10. LeastRecentFirst' BY <2>1 DEF Sequential, LeastRecentFirst, Before
  <2>. QED BY <2>6, <2>7, <2>8, <2>9, <2>10 DEF Sequential
<1>. QED BY <1>1, <1>2, <1>4, <1>5 DEF IInv

LEMMA FinalizedStep ==
  ASSUME IInv, NEW s \in Stmts, NEW sql, sql = sqlOf[s], Finalized(s), UNCHANGED overlapped
  PROVE  IInv'
<1> DEFINE w == Without(sql)
<1>. USE DEF Finalized
<1>1. state'[s] = "closed" /\ \A t \in Stmts : t # s => state'[t] = state[t]
  BY DEF IInv, TypeOK
<1>2. /\ w \in Seq(Entries) /\ Distinct(w)
      /\ Len(w) = IF Has(sql) THEN Len(cache) - 1 ELSE Len(cache)
      /\ \A i \in 1..Len(w) : w[i][1] # sql
      /\ \A i, j \in 1..Len(w) : i <= j =>
           \E k, l \in 1..Len(cache) : k <= l /\ w[i] = cache[k] /\ w[j] = cache[l]
      /\ \A k \in 1..Len(cache) : cache[k][1] # sql => \E i \in 1..Len(w) : w[i] = cache[k]
  <2>1. cache \in Seq(Entries) /\ Distinct(cache) BY EntryFacts
  <2>. QED BY ONLY <2>1, WithoutFacts
<1>3. cache' = w OBVIOUS
<1>. HIDE DEF w
<1>4. \A i \in 1..Len(w) : \E k \in 1..Len(cache) : w[i] = cache[k] /\ cache[k][2] # s
  <2>1. SUFFICES ASSUME NEW i \in 1..Len(w)
                 PROVE  \E k \in 1..Len(cache) : w[i] = cache[k] /\ cache[k][2] # s
    OBVIOUS
  <2>2. PICK k \in 1..Len(cache) : w[i] = cache[k]
    <3>1. i <= i BY <1>2
    <3>. QED BY ONLY <1>2, <3>1, i \in 1..Len(w)
  <2>3. cache[k][1] # sqlOf[s]
    <3>1. w[i][1] # sqlOf[s] BY <1>2
    <3>. QED BY ONLY <2>2, <3>1
  <2>4. sqlOf[cache[k][2]] = cache[k][1] BY EntryFacts
  <2>. QED BY ONLY <2>2, <2>3, <2>4
<1>5. TypeOK'
  <2>1. w \in Seq(Sqls \X Stmts) /\ Distinct(w) BY ONLY <1>2 DEF Entries
  <2>. QED BY <1>3, <2>1 DEF IInv, TypeOK, Distinct
<1>6. Keyed' /\ HitsAreLive'
  <2>1. SUFFICES ASSUME NEW i \in 1..Len(w)
                 PROVE  sqlOf[w[i][2]] = w[i][1] /\ state'[w[i][2]] \in {"open", "closing"}
    BY <1>3 DEF Keyed, HitsAreLive
  <2>2. PICK k \in 1..Len(cache) : w[i] = cache[k] /\ cache[k][2] # s BY ONLY <1>4
  <2>3. /\ cache[k][2] \in Stmts /\ sqlOf[cache[k][2]] = cache[k][1]
        /\ state[cache[k][2]] \in {"open", "closing"}
    BY EntryFacts
  <2>4. state'[cache[k][2]] = state[cache[k][2]] /\ sqlOf' = sqlOf BY <1>1, <2>2, <2>3
  <2>. QED BY ONLY <2>2, <2>3, <2>4
<1>7. Openers'
  <2>1. \A d \in Callers : pc[d] = "opening" => stmt[d] \in Stmts /\ stmt[d] # s
    BY DEF IInv, Openers
  <2>. QED BY <1>1, <2>1 DEF IInv, Openers
<1>8. ASSUME ~overlapped' PROVE Sequential'
  <2>1. Sequential /\ ~overlapped BY <1>8 DEF IInv
  <2>2. AllCached'
    <3>1. SUFFICES ASSUME NEW t \in Stmts, state'[t] \in {"open", "closing"}
                   PROVE  \E i \in 1..Len(w) : w[i] = <<sqlOf[t], t>>
      BY <1>3 DEF AllCached, InCache
    <3>2. t # s /\ state[t] \in {"open", "closing"} BY <1>1, <3>1
    <3>3. PICK k \in 1..Len(cache) : cache[k] = <<sqlOf[t], t>>
      BY <2>1, <3>2 DEF Sequential, AllCached, InCache
    <3>4. PICK l \in 1..Len(cache) : cache[l] = <<sqlOf[s], s>>
      BY <2>1 DEF Sequential, AllCached, InCache
    <3>5. sqlOf[t] # sqlOf[s] BY <3>2, <3>3, <3>4, EntryFacts DEF Distinct
    <3>6. cache[k][1] # sql BY <3>3, <3>5
    <3>7. PICK i \in 1..Len(w) : w[i] = cache[k] BY ONLY <1>2, <3>6, k \in 1..Len(cache)
    <3>. QED BY <3>3, <3>7
  <2>3. Has(sqlOf[s])
    <3>1. PICK l \in 1..Len(cache) : cache[l] = <<sqlOf[s], s>>
      BY <2>1 DEF Sequential, AllCached, InCache
    <3>. QED BY <3>1 DEF Has
  <2>4. Awaited' BY <1>1, <2>1 DEF Sequential, Awaited
  <2>5. Solo' BY <2>1 DEF Sequential, Solo
  <2>6. NewKey' BY <1>3, <1>4, <2>1 DEF Sequential, NewKey, Has
  <2>7. Evicted' BY <1>1, <2>1 DEF Sequential, Evicted
  <2>8. Room'
    <3>1. Len(cache) \in Nat /\ Len(cache) <= cacheSize + 1
      BY <2>1, EntryFacts, StatementCacheAssumption DEF Sequential, Room
    <3>2. Len(cache') = Len(cache) - 1 BY <1>2, <1>3, <2>3
    <3>3. Len(cache') <= cacheSize BY <3>1, <3>2, StatementCacheAssumption
    <3>. QED BY <3>3 DEF Room
  <2>9. Shut' BY <2>1, <2>3, EntryFacts DEF Sequential, Shut, Has
  <2>10. LeastRecentFirst'
    <3>1. UNCHANGED recent OBVIOUS
    <3>2. LeastRecentFirst /\ ~overlapped BY <2>1 DEF Sequential
    <3>3. SUFFICES ASSUME NEW j \in 1..Len(w), NEW k \in 1..Len(w), j <= k
                   PROVE  \E p, q \in 1..Len(recent) :
                            p <= q /\ recent[p] = w[j][1] /\ recent[q] = w[k][1]
      BY ONLY <1>3, <3>1, <3>3 DEF LeastRecentFirst, Before
    <3>4. PICK i, l \in 1..Len(cache) : i <= l /\ w[j] = cache[i] /\ w[k] = cache[l]
      BY <1>2, <3>3
    <3>5. Before(cache[i][1], cache[l][1]) BY <3>2, <3>4 DEF LeastRecentFirst
    <3>. QED BY ONLY <3>4, <3>5 DEF Before
  <2>. QED BY <2>2, <2>4, <2>5, <2>6, <2>7, <2>8, <2>9, <2>10 DEF Sequential
<1>. QED BY <1>5, <1>6, <1>7, <1>8 DEF IInv

LEMMA OpenedStep ==
  ASSUME IInv, NEW c \in Callers, NEW sql, sql = sqlOf[stmt[c]], Opened(c), UNCHANGED overlapped
  PROVE  IInv'
<1> DEFINE s == stmt[c]
           w == SetEntry(sql, s)
           o == Oldest(w)
           evicts == Len(w) > cacheSize
<1>1. s \in Stmts /\ state[s] = "opening" /\ sql \in Sqls BY DEF Opened, IInv, Openers
<1>2. /\ w \in Seq(Entries) /\ Distinct(w) /\ Len(w) \in Nat \ {0}
      /\ \E i \in 1..Len(w) : w[i] = <<sql, s>>
      /\ \A i \in 1..Len(w) : w[i] = <<sql, s>> \/ \E k \in 1..Len(cache) : w[i] = cache[k]
      /\ \A k \in 1..Len(cache) : cache[k][1] # sql => \E i \in 1..Len(w) : w[i] = cache[k]
  <2>1. cache \in Seq(Entries) /\ Distinct(cache) BY EntryFacts
  <2>. QED BY ONLY <1>1, <2>1, SetEntryFacts
<1>3. /\ cache' = w /\ recent' = Prepared(sql) /\ UNCHANGED <<db, sqlOf, stmt>>
      /\ pc[c] = "opening" /\ db # "closed"
      /\ evicts =>
           /\ waitFor' = [waitFor EXCEPT ![c] = o]
           /\ state' = IF [state EXCEPT ![s] = "open"][o] = "open"
                          THEN [[state EXCEPT ![s] = "open"] EXCEPT ![o] = "closing"]
                          ELSE [state EXCEPT ![s] = "open"]
           /\ pc' = [pc EXCEPT ![c] = "evicting"]
      /\ ~evicts =>
           /\ state' = [state EXCEPT ![s] = "open"] /\ pc' = [pc EXCEPT ![c] = "idle"]
           /\ UNCHANGED waitFor
  BY DEF Opened
<1>4. \A i \in 1..Len(w) :
        /\ w[i] = <<w[i][1], w[i][2]>> /\ w[i][2] \in Stmts /\ sqlOf[w[i][2]] = w[i][1]
        /\ w[i][2] = s \/ state[w[i][2]] \in {"open", "closing"}
  <2>1. SUFFICES ASSUME NEW i \in 1..Len(w)
                 PROVE  /\ w[i] = <<w[i][1], w[i][2]>> /\ w[i][2] \in Stmts
                        /\ sqlOf[w[i][2]] = w[i][1]
                        /\ w[i][2] = s \/ state[w[i][2]] \in {"open", "closing"}
    OBVIOUS
  <2>. HIDE DEF w
  <2>2. CASE w[i] = <<sql, s>> BY <1>1, <2>2
  <2>3. CASE \E k \in 1..Len(cache) : w[i] = cache[k] BY <2>3, EntryFacts
  <2>. QED BY <1>2, <2>2, <2>3
<1>5. o \in Stmts /\ (o = s \/ state[o] \in {"open", "closing"})
  <2>1. 1 \in 1..Len(w) BY <1>2
  <2>. QED BY <1>4, <2>1 DEF Oldest
<1>. HIDE DEF w, o, s, evicts
<1>6. /\ state'[s] = IF evicts /\ o = s THEN "closing" ELSE "open"
      /\ evicts => state'[o] = "closing"
      /\ \A t \in Stmts : t # s /\ (evicts => t # o) => state'[t] = state[t]
      /\ state' \in [Stmts -> {"none", "opening", "open", "closing", "closed"}]
  <2>1. state \in [Stmts -> {"none", "opening", "open", "closing", "closed"}] BY DEF IInv, TypeOK
  <2>2. CASE evicts
    <3>1. CASE o = s BY <1>1, <1>3, <2>1, <2>2, <3>1
    <3>2. CASE o # s BY <1>1, <1>3, <1>5, <2>1, <2>2, <3>2
    <3>. QED BY <3>1, <3>2
  <2>3. CASE ~evicts BY <1>1, <1>3, <2>1, <2>3
  <2>. QED BY <2>2, <2>3
<1>7. /\ pc'[c] = IF evicts THEN "evicting" ELSE "idle"
      /\ \A d \in Callers : d # c => pc'[d] = pc[d]
      /\ evicts => waitFor'[c] = o
      /\ pc' \in [Callers -> {"idle", "opening", "evicting", "finalizing", "closing", "shutting"}]
      /\ waitFor' \in [Callers -> Stmts \cup {NULL}]
  <2>1. /\ pc \in [Callers -> {"idle", "opening", "evicting", "finalizing", "closing", "shutting"}]
        /\ waitFor \in [Callers -> Stmts \cup {NULL}]
    BY DEF IInv, TypeOK
  <2>2. CASE evicts BY <1>3, <1>5, <2>1, <2>2
  <2>3. CASE ~evicts BY <1>3, <2>1, <2>3
  <2>. QED BY <2>2, <2>3
<1>8. /\ recent' \in Seq(Sqls)
      /\ \A j, k \in 1..Len(recent') : recent'[j] = recent'[k] => j = k
  BY <1>1, <1>3, PreparedFacts DEF IInv, TypeOK
<1>9. TypeOK'
  <2>1. cache' \in Seq(Sqls \X Stmts) /\ \A j, k \in 1..Len(cache') : cache'[j][1] = cache'[k][1] => j = k
    BY <1>2, <1>3 DEF Entries, Distinct
  <2>. QED BY <1>3, <1>6, <1>7, <1>8, <2>1 DEF IInv, TypeOK
<1>10. Keyed' /\ HitsAreLive'
  <2>1. SUFFICES ASSUME NEW i \in 1..Len(w)
                 PROVE  sqlOf[w[i][2]] = w[i][1] /\ state'[w[i][2]] \in {"open", "closing"}
    BY <1>3 DEF Keyed, HitsAreLive
  <2>. QED BY <1>4, <1>6
<1>11. Openers'
  <2>1. \A d \in Callers : pc'[d] = "opening" =>
          d # c /\ pc[d] = "opening" /\ stmt[d] \in Stmts /\ stmt[d] # s /\ stmt[d] # o
    <3>1. \A d \in Callers : pc'[d] = "opening" => d # c /\ pc[d] = "opening" BY <1>7
    <3>. QED BY <1>3, <1>5, <3>1 DEF IInv, Openers, s
  <2>. QED BY <1>3, <1>6, <2>1 DEF IInv, Openers
<1>12. ASSUME ~overlapped' PROVE Sequential'
  <2>1. Sequential /\ ~overlapped BY <1>12 DEF IInv
  <2>2. \A d \in Callers : d # c => pc'[d] = "idle" /\ pc[d] = "idle"
    BY <1>3, <1>7, <2>1 DEF Sequential, Solo
  <2>3. \A t \in Stmts : state[t] # "closing" BY <1>3, <2>1, <2>2 DEF Sequential, Awaited
  <2>4. ~Has(sql) BY <1>3, <2>1 DEF Sequential, NewKey
  <2>5. w = Append(cache, <<sql, s>>) BY <2>4 DEF SetEntry, w
  <2>6. Len(cache) \in Nat /\ Len(cache) <= cacheSize /\ Len(w) = Len(cache) + 1
    <3>1. \A d \in Callers : ~Evicts(d) BY <1>3, <2>2 DEF Evicts
    <3>2. Len(cache) <= cacheSize BY <2>1, <3>1 DEF Sequential, Room
    <3>3. cache \in Seq(Entries) /\ <<sql, s>> \in Entries BY <1>1, EntryFacts DEF Entries
    <3>. QED BY <2>5, <3>2, <3>3
  <2>7. AllCached'
    <3>1. SUFFICES ASSUME NEW t \in Stmts, state'[t] \in {"open", "closing"}
                   PROVE  \E i \in 1..Len(w) : w[i] = <<sqlOf[t], t>>
      BY <1>3 DEF AllCached, InCache
    <3>2. CASE t = s BY <1>2, <3>2 DEF s
    <3>3. CASE t # s
      <4>1. state[t] \in {"open", "closing"} BY <1>5, <1>6, <3>1, <3>3
      <4>2. PICK k \in 1..Len(cache) : cache[k] = <<sqlOf[t], t>>
        BY <2>1, <4>1 DEF Sequential, AllCached, InCache
      <4>3. cache[k][1] # sql BY <2>4 DEF Has
      <4>4. PICK i \in 1..Len(w) : w[i] = cache[k] BY <1>2, <4>3
      <4>. QED BY <4>2, <4>4
    <3>. QED BY <3>2, <3>3
  <2>8. Awaited'
    <3>1. SUFFICES ASSUME NEW t \in Stmts, state'[t] = "closing"
                   PROVE  pc'[c] = "evicting" /\ waitFor'[c] = t
      BY DEF Awaited
    <3>2. evicts /\ t = o BY <1>5, <1>6, <2>3, <3>1
    <3>. QED BY <1>7, <3>2
  <2>9. Solo' /\ NewKey' BY <1>7, <2>2 DEF Solo, NewKey
  <2>10. Room'
    <3>1. CASE ~evicts
      <4>1. Len(w) <= cacheSize BY <2>6, <3>1, StatementCacheAssumption DEF evicts
      <4>. QED BY <1>3, <4>1 DEF Room
    <3>2. CASE evicts
      <4>1. Len(w) = cacheSize + 1 BY <2>6, <3>2, StatementCacheAssumption DEF evicts
      <4>2. Evicts(c)' BY <1>5, <1>6, <1>7, <3>2 DEF Evicts
      <4>. QED BY <1>3, <4>1, <4>2 DEF Room
    <3>. QED BY <3>1, <3>2
  <2>11. Evicted'
    <3>1. SUFFICES ASSUME pc'[c] = "evicting", cacheSize > 0
                   PROVE  stmt[c] \in Stmts /\ state'[stmt[c]] = "open"
      BY <1>3, <1>7, <2>2 DEF Evicted
    <3>2. evicts BY <1>7, <3>1
    <3>3. 1 \in 1..Len(cache) BY <2>6, <3>1, <3>2, StatementCacheAssumption DEF evicts
    <3>4. w[1] = cache[1]
      <4>1. cache \in Seq(Entries) /\ <<sql, s>> \in Entries BY <1>1, EntryFacts DEF Entries
      <4>. QED BY <2>5, <3>3, <4>1
    <3>5. o # s BY <1>1, <3>3, <3>4, EntryFacts DEF Oldest, o
    <3>. QED BY <1>1, <1>6, <3>5 DEF s
  <2>12. Shut'
    <3>1. db # "shutting" BY <1>3, <2>1, <2>2 DEF Sequential, Shut
    <3>2. \A d \in Callers : pc'[d] # "shutting" BY <1>7, <2>2
    <3>. QED BY <1>3, <3>1, <3>2 DEF Shut
  <2>13. LeastRecentFirst'
    <3>1. cache \in Seq(Entries) /\ <<sql, s>> \in Entries /\ <<sql, s>>[1] = sql
      BY <1>1, EntryFacts DEF Entries
    <3>2. recent \in Seq(Sqls) /\ \A j, k \in 1..Len(recent) : recent[j] = recent[k] => j = k
      BY DEF IInv, TypeOK
    <3>3. LeastRecentFirst /\ ~overlapped BY <2>1 DEF Sequential
    <3>4. \A i \in 1..Len(cache) : cache[i][1] # sql BY <2>4 DEF Has
    <3>5. cache' = Append(cache, <<sql, s>>) /\ recent' = Prepared(sql) BY <1>3, <2>5
    <3> DEFINE e == <<sql, s>>
    <3>. HIDE DEF e
    <3>. QED BY ONLY <1>1, <3>1, <3>2, <3>3, <3>4, <3>5, OrderKept DEF e
  <2>. QED BY <2>1, <2>7, <2>8, <2>9, <2>10, <2>11, <2>12, <2>13 DEF Sequential
<1>. QED BY <1>9, <1>10, <1>11, <1>12 DEF IInv

-----------------------------------------------------------------------------
(* The invariant and what follows.                                          *)

LEMMA InitHolds == Init => IInv
<1>. SUFFICES ASSUME Init PROVE IInv OBVIOUS
<1>. USE DEF Init
<1>1. TypeOK
  <2>1. cache \in Seq(Sqls \X Stmts) /\ Len(cache) = 0 OBVIOUS
  <2>2. recent \in Seq(Sqls) /\ Len(recent) = 0 OBVIOUS
  <2>3. /\ \A j, k \in 1..Len(cache) : cache[j][1] = cache[k][1] => j = k
        /\ \A j, k \in 1..Len(recent) : recent[j] = recent[k] => j = k
    BY <2>1, <2>2
  <2>. QED BY <2>1, <2>2, <2>3 DEF TypeOK
<1>2. Keyed /\ HitsAreLive BY DEF Keyed, HitsAreLive
<1>3. Openers BY DEF Openers
<1>4. Solo /\ AllCached /\ Awaited BY DEF Solo, AllCached, Awaited
<1>5. NewKey /\ Evicted /\ Shut BY DEF NewKey, Evicted, Shut
<1>6. Room BY StatementCacheAssumption DEF Room
<1>7. LeastRecentFirst BY DEF LeastRecentFirst
<1>. QED BY <1>1, <1>2, <1>3, <1>4, <1>5, <1>6, <1>7 DEF IInv, Sequential

LEMMA UnchangedStep == ASSUME IInv, UNCHANGED vars PROVE IInv'
<1>. USE DEF vars
<1>1. TypeOK' BY DEF IInv, TypeOK
<1>2. Keyed' /\ HitsAreLive' BY DEF IInv, Keyed, HitsAreLive
<1>3. Openers' BY DEF IInv, Openers
<1>4. ASSUME ~overlapped' PROVE Sequential'
  <2>1. Sequential /\ ~overlapped BY <1>4 DEF IInv
  <2>2. Solo' /\ AllCached' BY <2>1 DEF Sequential, Solo, AllCached, InCache
  <2>3. Awaited' /\ NewKey' BY <2>1 DEF Sequential, Awaited, NewKey, Has
  <2>4. Room' /\ Evicted' BY <2>1 DEF Sequential, Room, Evicts, Evicted
  <2>5. Shut' BY <2>1 DEF Sequential, Shut
  <2>6. LeastRecentFirst'
    <3>1. cache' = cache /\ recent' = recent OBVIOUS
    <3>. QED BY ONLY <2>1, <3>1 DEF Sequential, LeastRecentFirst, Before
  <2>. QED BY <2>2, <2>3, <2>4, <2>5, <2>6 DEF Sequential
<1>. QED BY <1>1, <1>2, <1>3, <1>4 DEF IInv

LEMMA NextStep == IInv /\ [Next]_vars => IInv'
<1>. SUFFICES ASSUME IInv, [Next]_vars PROVE IInv' OBVIOUS
<1>1. ASSUME NEW c \in Callers, Call(c) PROVE IInv'
  <2>1. Calls BY <1>1 DEF Call, Calls
  <2>2. CASE \E sql \in Sqls : PrepareHit(c, sql) BY <2>1, <2>2, PrepareHitStep
  <2>3. CASE \E sql \in Sqls : PrepareMiss(c, sql) BY <2>1, <2>3, PrepareMissStep
  <2>4. CASE \E s \in Stmts : FinalizeCall(c, s) BY <2>1, <2>4, FinalizeCallStep
  <2>5. CASE CloseCall(c) BY <2>1, <2>5, CloseCallStep
  <2>. QED BY <1>1, <2>2, <2>3, <2>4, <2>5 DEF Call
<1>2. ASSUME NEW c \in Callers, Continue(c) PROVE IInv'
  <2>1. UNCHANGED overlapped BY <1>2 DEF Continue
  <2>2. CASE OpenFailed(c) BY <2>1, <2>2, OpenFailedStep
  <2>3. CASE Opened(c) BY <2>1, <2>3, OpenedStep
  <2>4. CASE Resume(c) BY <2>1, <2>4, ResumeStep
  <2>5. CASE CloseNext(c) BY <2>1, <2>5, CloseNextStep
  <2>6. CASE Closed(c) BY <2>1, <2>6, ClosedStep
  <2>. QED BY <1>2, <2>2, <2>3, <2>4, <2>5, <2>6 DEF Continue
<1>3. ASSUME NEW s \in Stmts, FinalizeDone(s) PROVE IInv'
  BY <1>3, FinalizedStep DEF FinalizeDone
<1>4. CASE UNCHANGED vars BY <1>4, UnchangedStep
<1>. QED BY <1>1, <1>2, <1>3, <1>4 DEF Next

LEMMA Invariance == Spec => []IInv
<1>. QED BY InitHolds, NextStep, PTL DEF Spec

\* The cache and the life cycles are well formed: no SQL has two entries
\* (index.js, prepare; lib/statement.js).
THEOREM TypesCorrect == Spec => []TypeOK
<1>1. IInv => TypeOK BY DEF IInv
<1>. QED BY <1>1, Invariance, PTL

\* prepare() never returns a dead statement from its cache, whoever finalizes,
\* evicts or closes at the same time (index.js, prepare; lib/statement.js, _close).
THEOREM HitsAreLiveAlways == Spec => []HitsAreLive
<1>1. IInv => HitsAreLive BY DEF IInv
<1>. QED BY <1>1, Invariance, PTL

\* Between calls made one after the other, the cache keeps its size (index.js, prepare).
THEOREM CacheBoundAlways == Spec => []CacheBound
<1>1. IInv => CacheBound BY DEF IInv, CacheBound, Sequential, Room, Evicts
<1>. QED BY <1>1, Invariance, PTL

\* Calls made one after the other share the statement of an SQL (index.js, prepare).
THEOREM OneLivePerSqlAlways == Spec => []OneLivePerSql
<1>1. IInv => OneLivePerSql
  <2>1. SUFFICES ASSUME IInv, Sequential, NEW s \in Stmts, NEW t \in Stmts,
                        state[s] = "open", state[t] = "open", sqlOf[s] = sqlOf[t]
                 PROVE  s = t
    BY DEF IInv, OneLivePerSql
  <2>2. PICK j \in 1..Len(cache) : cache[j] = <<sqlOf[s], s>>
    BY <2>1 DEF Sequential, AllCached, InCache
  <2>3. PICK k \in 1..Len(cache) : cache[k] = <<sqlOf[t], t>>
    BY <2>1 DEF Sequential, AllCached, InCache
  <2>4. j = k BY <2>1, <2>2, <2>3, EntryFacts DEF Distinct
  <2>. QED BY <2>2, <2>3, <2>4
<1>. QED BY <1>1, Invariance, PTL

\* close() leaves no statement alive (index.js, _close).
THEOREM AllFinalizedAlways == Spec => []AllFinalized
<1>1. IInv => AllFinalized
  <2>1. SUFFICES ASSUME IInv, Sequential, db = "closed", NEW s \in Stmts
                 PROVE  state[s] \in {"none", "opening", "closed"}
    BY DEF IInv, AllFinalized
  <2>2. cache = <<>> BY <2>1 DEF Sequential, Shut
  <2>3. state[s] \notin {"open", "closing"} BY <2>1, <2>2 DEF Sequential, AllCached, InCache
  <2>. QED BY <2>1, <2>3 DEF IInv, TypeOK
<1>. QED BY <1>1, Invariance, PTL

\* What prepare() evicts is the statement prepared longest ago (index.js, prepare).
THEOREM LeastRecentFirstAlways == Spec => []LeastRecentFirst
<1>1. IInv => LeastRecentFirst BY DEF IInv, Sequential, LeastRecentFirst
<1>. QED BY <1>1, Invariance, PTL

\* Calls made one after the other are given open statements: none that is
\* being finalized, and none that the call itself has evicted (index.js, prepare).
THEOREM ReturnsOpenAlways == Spec => ReturnsOpen
<1>1. IInv /\ [Next]_vars =>
        [\A c \in Callers :
           ~overlapped' /\ cacheSize > 0 /\ (Returns(c) \/ \E sql \in Sqls : PrepareHit(c, sql))
             => state'[stmt'[c]] = "open"]_vars
  <2>. SUFFICES ASSUME IInv, Next, NEW c \in Callers, ~overlapped', cacheSize > 0,
                       Returns(c) \/ \E sql \in Sqls : PrepareHit(c, sql)
                 PROVE  state'[stmt'[c]] = "open"
    OBVIOUS
  <2>2. CASE \E sql \in Sqls : PrepareHit(c, sql)
    <3>1. PICK sql \in Sqls : PrepareHit(c, sql) BY <2>2
    <3>2. /\ Has(sql) /\ stmt'[c] = Get(sql)
          /\ UNCHANGED <<db, state, pc, waitFor>>
      BY <3>1 DEF PrepareHit, IInv, TypeOK
    <3>3. Get(sql) \in Stmts /\ state[Get(sql)] \in {"open", "closing"}
      BY <3>2, EntryFacts DEF Get
    <3>4. Calls
      <4>1. ASSUME NEW d \in Callers, Continue(d) PROVE FALSE
        <5>1. \A x : pc' # [pc EXCEPT ![d] = x] \/ x = pc[d] BY <3>2 DEF IInv, TypeOK
        <5>2. CASE OpenFailed(d) BY <5>1, <5>2 DEF OpenFailed
        <5>3. CASE Opened(d) BY <5>1, <5>3 DEF Opened
        <5>4. CASE Resume(d) BY <5>1, <5>4 DEF Resume
        <5>5. CASE CloseNext(d)
          <6>1. cache # <<>> BY <3>2, EntryFacts DEF Has
          <6>2. /\ waitFor' = [waitFor EXCEPT ![d] = Oldest(cache)]
                /\ (waitFor[d] # NULL => state[waitFor[d]] = "closed")
            BY <5>5, <6>1 DEF CloseNext
          <6>3. waitFor[d] = Oldest(cache) BY <3>2, <6>2 DEF IInv, TypeOK
          <6>4. 1 \in 1..Len(cache) BY <6>1, EntryFacts
          <6>5. Oldest(cache) \in Stmts /\ state[Oldest(cache)] # "closed"
            BY <6>4, EntryFacts DEF Oldest
          <6>. QED BY <6>2, <6>3, <6>5, StatementCacheAssumption
        <5>6. CASE Closed(d) BY <5>1, <5>6 DEF Closed
        <5>. QED BY <4>1, <5>2, <5>3, <5>4, <5>5, <5>6 DEF Continue
      <4>2. ASSUME NEW s \in Stmts, FinalizeDone(s) PROVE FALSE
        BY <3>2, <4>2 DEF FinalizeDone, Finalized, IInv, TypeOK
      <4>. QED BY <4>1, <4>2 DEF Next, Call, Calls
    <3>5. \A d \in Callers : pc[d] = "idle" BY <3>4 DEF Calls
    <3>6. Sequential BY <3>4 DEF Calls, IInv
    <3>7. state[Get(sql)] # "closing" BY <3>3, <3>5, <3>6 DEF Sequential, Awaited
    <3>. QED BY <3>2, <3>3, <3>7
  <2>3. CASE Returns(c)
    <3>1. ASSUME NEW d \in Callers, Call(d) PROVE FALSE BY <2>3, <3>1 DEF Call, Returns
    <3>2. ASSUME NEW d \in Callers, Continue(d) PROVE state'[stmt'[c]] = "open"
      <4>1. Sequential BY <3>2 DEF Continue, IInv
      <4>2. d = c
        BY <2>3, <3>2, <4>1
           DEF Sequential, Solo, Continue, OpenFailed, Opened, Resume, CloseNext, Closed, Returns
      <4>3. CASE OpenFailed(c) BY <2>3, <4>3 DEF OpenFailed, Returns, IInv, TypeOK
      <4>4. CASE Opened(c)
        <5>1. stmt[c] \in Stmts BY <4>4 DEF Opened, IInv, Openers
        <5>2. state' = [state EXCEPT ![stmt[c]] = "open"] /\ stmt' = stmt
          <6>1. pc'[c] # "evicting" BY <2>3 DEF Returns
          <6>2. pc' # [pc EXCEPT ![c] = "evicting"] BY <6>1 DEF IInv, TypeOK
          <6>. QED BY <4>4, <6>2 DEF Opened
        <5>. QED BY <5>1, <5>2 DEF IInv, TypeOK
      <4>5. CASE Resume(c)
        BY <2>3, <4>1, <4>5 DEF Resume, Returns, Sequential, Evicted
      <4>6. CASE CloseNext(c) \/ Closed(c) BY <2>3, <4>6 DEF CloseNext, Closed, Returns
      <4>. QED BY <3>2, <4>2, <4>3, <4>4, <4>5, <4>6 DEF Continue
    <3>3. ASSUME NEW s \in Stmts, FinalizeDone(s) PROVE FALSE
      BY <2>3, <3>3 DEF FinalizeDone, Finalized, Returns
    <3>. QED BY <3>1, <3>2, <3>3 DEF Next
  <2>. QED BY <2>2, <2>3
<1>. QED BY <1>1, Invariance, PTL DEF Spec, ReturnsOpen
=============================================================================
