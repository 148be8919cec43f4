--------------------------- MODULE WritePathProofs ---------------------------
(***************************************************************************)
(* Proofs about WritePath, for every number of calls and of batches of     *)
(* other writers, every size of the queue and of what apply is handed.     *)
(*                                                                         *)
(* That a result comes after its batch is applied needs only that the      *)
(* promise of an append is kept for batches of the log (Promises).  What a *)
(* lone writer may rely on needs the shape of a batch (Formed), that the   *)
(* log holds each call's batch once and as it was sent (LogOnce, OwnSent), *)
(* and that the unapplied batches belong to the call in progress (Own):    *)
(* then the Deferred in the slot is that of the operation being applied.   *)
(* That the view is a replay needs that it is never ahead of apply         *)
(* (Behind) and never behind it (Caught).                                  *)
(***************************************************************************)
EXTENDS WritePath, SequenceTheorems, FiniteSetTheorems, WellFoundedInduction, TLAPS

\* What the log holds of one call: one operation, or STMT, BATCH ..., FLUSH.
Formed(s) ==
  /\ s \in Seq(Op) /\ Len(s) > 0
  /\ \A k \in 1..Len(s) : s[k].k = k /\ s[k].call = s[1].call
  /\ s[1].type \in {"EXEC", "RUN", "WRITER_ADD", "WRITER_DEL"} => Len(s) = 1
  /\ s[1].type \notin {"EXEC", "RUN", "WRITER_ADD", "WRITER_DEL"} =>
       /\ Len(s) > 1 /\ s[1].type = "STMT" /\ s[Len(s)].type = "FLUSH"
       /\ \A k \in 2..Len(s) - 1 : s[k].type = "BATCH" /\ s[k].row \in Params

CallOf(b) == log[b][1].call

LogFormed == \A b \in 1..Len(log) : Formed(log[b])
LogOnce == \A a, b \in 1..Len(log) : CallOf(a) = CallOf(b) => a = b

OwnSent ==
  /\ \A b \in 1..Len(log) : CallOf(b) \in Calls =>
       log[b] = sent[CallOf(b)] /\ pc[CallOf(b)] \in {"await", "returned"}
  /\ \A c \in Calls : sent[c] # <<>> => Formed(sent[c]) /\ sent[c][1].call = c
  /\ \A c \in Calls : pc[c] \in {"deflate", "await"} => sent[c] # <<>>

Promises == \A c \in Calls :
  /\ pc[c] # "returned" => ret[c] = NULL
  /\ pc[c] \in {"idle", "deflate"} => promise[c] = "none"
  /\ promise[c] \in {"open", "done"} => Logged(c)
  /\ promise[c] = "rejected" /\ Logged(c) => bee = "dead"

Solo == Sequential =>
  \A c, d \in Calls : pc[c] \in {"deflate", "await"} /\ pc[d] \in {"deflate", "await"} => c = d

\* What a call awaits, and, where they are made in turn, that it is its own.
Waits == \A c \in Calls : pc[c] = "await" /\ ~IsWriterOp(c) => waitOn[c] \in Calls
Slot == Sequential => \A c \in Calls :
  /\ interactive = c <=> pc[c] \in {"deflate", "await"} /\ ~IsWriterOp(c)
  /\ pc[c] = "await" /\ ~IsWriterOp(c) => waitOn[c] = c
  /\ pc[c] = "idle" => settled[c] = NULL

\* The totals of the first n rows, and of the STMT before them.
Totals(t, rows, n) ==
  /\ t.changes = Cardinality(Good(rows, n))
  /\ t.last = LastGood(rows, n)
  /\ t.errors = n - Cardinality(Good(rows, n)) + 1

OwnResult(c, r) ==
  r.by = c /\ (sent[c][1].type = "STMT" =>
                 Totals(r, BatchRows(sent[c]), Len(BatchRows(sent[c]))))

\* Of a lone writer that awaits its calls: the unapplied batches are of the
\* call in progress, what a call is given is its own, and so is what apply adds up.
OwnOpen == bee = "up" => \A b \in applied + 1 .. Len(log) :
  pc[CallOf(b)] = "await" /\ promise[CallOf(b)] = "open"
OwnSettled == \A c \in Calls : settled[c] # NULL => OwnResult(c, settled[c])
OwnReturned == \A c \in Calls : IsOutcome(ret[c]) => OwnResult(c, ret[c])
OwnTotals == ap # NULL /\ ap.b <= ap.upto /\ log[ap.b][1].type = "STMT" =>
  IF ap.k = 1 THEN ap.changes = 0 /\ ap.last = NULL /\ ap.errors = 0
              ELSE Totals(ap, BatchRows(log[ap.b]), ap.k - 2)
Own == Sequential /\ Alone => OwnOpen /\ OwnSettled /\ OwnReturned /\ OwnTotals

RowsKept ==
  /\ Compressed \/ \A c \in Calls : pc[c] # "deflate"
  /\ NoRowLost

\* Where apply is: the operations before its cursor.
Done(b, k) == b <= applied \/ (ap # NULL /\ (b < ap.b \/ (b = ap.b /\ k < ap.k)))

Behind == bee = "up" => \A i \in 1..Len(db) :
  \E b \in 1..Len(log) : IsAt(db[i], b) /\ Done(b, db[i].k)
Caught == \A b \in 1..Len(log) : \A k \in 1..Len(log[b]) :
  Done(b, k) /\ Writes(log[b][k]) => \E i \in 1..Len(db) : db[i] = log[b][k]

Replay == direct = 0 => (bee = "up" => files = "none") /\ InLogOrder /\ Behind /\ Caught

DbTyped == db \in Seq([call : Calls \cup Remotes \cup {"direct"},
                       type : {"EXEC", "RUN", "BATCH"}, k : Nat, row : Rows])

IInv ==
  /\ TypeOK /\ DbTyped
  /\ LogFormed /\ LogOnce /\ OwnSent /\ Promises
  /\ Solo /\ Waits /\ Slot /\ Own
  /\ RowsKept /\ Replay

-----------------------------------------------------------------------------
(* Induction over the naturals, as facts about sets.                        *)

\* A set of naturals that is not empty has a least member.
LEMMA LeastMember ==
  ASSUME NEW T \in SUBSET Nat, T # {}
  PROVE  \E x \in T : \A y \in T : x <= y
<1>1. PICK x \in T : \A y \in T : ~ (<<y, x>> \in OpToRel(<, Nat))
  BY WFMin, NatLessThanWellFounded
<1>2. \A y \in T : ~(y < x)
  BY <1>1 DEF OpToRel
<1>. QED BY <1>2

\* A set of naturals with 0 and every successor of its members is Nat.
LEMMA SetInduction ==
  ASSUME NEW T \in SUBSET Nat, 0 \in T, \A n \in T : n + 1 \in T
  PROVE  T = Nat
<1>1. SUFFICES ASSUME Nat \ T # {} PROVE FALSE
  OBVIOUS
<1>2. PICK x \in Nat \ T : \A y \in Nat \ T : x <= y
  BY <1>1, LeastMember
<1>3. x # 0 /\ x - 1 \in Nat
  BY <1>2
<1>4. x - 1 \in T
  BY <1>2, <1>3
<1>. QED BY <1>2, <1>3, <1>4

-----------------------------------------------------------------------------
(* The rows of the log.                                                     *)

\* rows has the queued rows of each of the first n batches.
IsOwnFlush(b) == b[1].call \in Calls /\ b[1].type = "STMT"
RowsThen(r, b) == IF IsOwnFlush(b) THEN r \o BatchRows(b) ELSE r
IsRows(rows, bs, n) ==
  rows = [i \in 0..n |-> IF i = 0 THEN <<>> ELSE RowsThen(rows[i - 1], bs[i])]

\* The recursive definition of FlushRows has a solution.
LEMMA FlushRowsEquation ==
  ASSUME NEW bs, Len(bs) \in Nat
  PROVE  \E rows : IsRows(rows, bs, Len(bs)) /\ FlushRows(bs) = rows[Len(bs)]
<1> DEFINE G(g, n) == IsRows(g, bs, n)
           S(r, i) == RowsThen(r, bs[i])
           T == {n \in Nat : \E g : G(g, n)}
<1>1. 0 \in T
  <2>1. G([i \in 0..0 |-> <<>>], 0) BY DEF IsRows
  <2>. QED BY <2>1
<1>2. \A n \in T : n + 1 \in T
  <2>1. SUFFICES ASSUME NEW n \in Nat, NEW g, G(g, n) PROVE \E h : G(h, n + 1)
    OBVIOUS
  <2> DEFINE h == [i \in 0..n+1 |-> IF i \in 0..n THEN g[i] ELSE S(g[n], n + 1)]
  <2> HIDE DEF S
  <2>2. \A i \in 0..n+1 : h[i] = IF i = 0 THEN <<>> ELSE S(h[i-1], i)
    <3>1. TAKE i \in 0..n+1
    <3>2. CASE i = 0 BY <3>2, <2>1 DEF IsRows
    <3>3. CASE i = n+1
      <4>1. h[i] = S(g[n], n + 1) /\ h[i - 1] = g[n] BY <3>3
      <4>. QED BY <4>1, <3>3
    <3>4. CASE i # 0 /\ i # n+1
      <4>1. g[i] = S(g[i-1], i) BY <3>4, <2>1 DEF IsRows, S
      <4>2. h[i] = g[i] /\ h[i-1] = g[i-1] BY <3>4
      <4>. QED BY <4>1, <4>2, <3>4
    <3>. QED BY <3>2, <3>3, <3>4
  <2>3. h = [i \in 0..n+1 |-> IF i = 0 THEN <<>> ELSE S(h[i-1], i)]
    BY <2>2
  <2>4. G(h, n+1) BY <2>3 DEF IsRows, S
  <2>. HIDE DEF h, G
  <2>. QED BY <2>4
<1>3. T = Nat
  <2>. HIDE DEF T
  <2>0. T \in SUBSET Nat BY DEF T
  <2>. QED BY <1>1, <1>2, <2>0, SetInduction
<1>4. \E g : G(g, Len(bs)) BY <1>3
<1>. QED BY <1>4 DEF FlushRows, IsRows, RowsThen, IsOwnFlush

\* What IsRows says of each batch.
LEMMA RowsStep ==
  ASSUME NEW rows, NEW bs, NEW n \in Nat, IsRows(rows, bs, n)
  PROVE  rows[0] = <<>> /\ \A i \in 1..n : rows[i] = RowsThen(rows[i - 1], bs[i])
<1>. DEFINE S(r, i) == RowsThen(r, bs[i])
<1>. HIDE DEF S
<1>1. rows = [i \in 0..n |-> IF i = 0 THEN <<>> ELSE S(rows[i - 1], i)] BY DEF IsRows, S
<1>2. \A i \in 0..n : rows[i] = IF i = 0 THEN <<>> ELSE S(rows[i - 1], i) BY <1>1
<1>3. \A i \in 1..n : i \in 0..n /\ i # 0 OBVIOUS
<1>4. \A i \in 1..n : rows[i] = S(rows[i - 1], i) BY <1>2, <1>3
<1>. QED BY <1>2, <1>4 DEF S

\* A batch of another writer, wherever it is put, has no rows of ours.
LEMMA FlushRowsInsert ==
  ASSUME NEW bs, NEW cs, Len(bs) \in Nat, Len(cs) = Len(bs) + 1, NEW m \in 1..Len(cs),
         \A i \in 1..m - 1 : cs[i] = bs[i], ~IsOwnFlush(cs[m]),
         \A i \in m..Len(bs) : cs[i + 1] = bs[i]
  PROVE  FlushRows(cs) = FlushRows(bs)
<1>1. PICK g : IsRows(g, bs, Len(bs)) /\ FlushRows(bs) = g[Len(bs)] BY FlushRowsEquation
<1>2. PICK h : IsRows(h, cs, Len(cs)) /\ FlushRows(cs) = h[Len(cs)] BY FlushRowsEquation
<1>3. g[0] = <<>> /\ \A i \in 1..Len(bs) : g[i] = RowsThen(g[i - 1], bs[i])
  BY <1>1, RowsStep
<1>4. h[0] = <<>> /\ \A i \in 1..Len(cs) : h[i] = RowsThen(h[i - 1], cs[i])
  BY <1>2, RowsStep
<1> DEFINE T == {i \in Nat : i <= Len(cs) => h[i] = g[IF i < m THEN i ELSE i - 1]}
<1>5. 0 \in T
  <2>1. h[0] = g[0] BY <1>3, <1>4
  <2>2. 0 < m /\ m \in Nat OBVIOUS
  <2>3. h[0] = g[IF 0 < m THEN 0 ELSE 0 - 1] BY ONLY <2>1, <2>2
  <2>4. 0 \in Nat OBVIOUS
  <2>. QED BY ONLY <2>3, <2>4 DEF T
<1>6. ASSUME NEW i \in T PROVE i + 1 \in T
  <2>1. SUFFICES ASSUME i + 1 <= Len(cs)
                 PROVE  h[i + 1] = g[IF i + 1 < m THEN i + 1 ELSE i + 1 - 1]
    OBVIOUS
  <2>2. i \in Nat /\ i + 1 \in 1..Len(cs) /\ h[i] = g[IF i < m THEN i ELSE i - 1] BY <1>6, <2>1
  <2>3. i + 1 - 1 = i BY <2>2
  <2>4. h[i + 1] = RowsThen(h[i], cs[i + 1]) BY <1>4, <2>2, <2>3
  <2>5. CASE i + 1 < m
    <3>1. i + 1 \in 1..m - 1 /\ i + 1 \in 1..Len(bs) BY <2>2, <2>5
    <3>2. g[i + 1] = RowsThen(g[i], bs[i + 1]) BY <1>3, <2>3, <3>1
    <3>3. cs[i + 1] = bs[i + 1] BY <3>1
    <3>4. h[i] = g[i] BY <2>2, <2>5
    <3>. QED BY <2>4, <2>5, <3>2, <3>3, <3>4
  <2>6. CASE i + 1 = m
    <3>1. h[i] = g[i] BY <2>2, <2>6
    <3>2. h[i + 1] = h[i] BY <2>4, <2>6 DEF RowsThen
    <3>. QED BY <2>3, <2>6, <3>1, <3>2
  <2>7. CASE i + 1 > m
    <3>1. i \in m..Len(bs) /\ i \in 1..Len(bs) BY <2>2, <2>7
    <3>2. g[i] = RowsThen(g[i - 1], bs[i]) BY <1>3, <3>1
    <3>3. cs[i + 1] = bs[i] BY <3>1
    <3>4. h[i] = g[i - 1] BY <2>2, <3>1
    <3>. QED BY <2>3, <2>4, <2>7, <3>2, <3>3, <3>4
  <2>. QED BY <2>2, <2>5, <2>6, <2>7
<1>7. T = Nat
  <2>1. T \in SUBSET Nat OBVIOUS
  <2>. HIDE DEF T
  <2>. QED BY <1>5, <1>6, <2>1, SetInduction
<1>8. Len(cs) \in T BY <1>7
<1>. QED BY <1>1, <1>2, <1>8

\* A batch at the end adds its rows, if it is a flush of ours.
LEMMA FlushRowsAppend ==
  ASSUME NEW bs, NEW cs, Len(bs) \in Nat, Len(cs) = Len(bs) + 1,
         \A i \in 1..Len(bs) : cs[i] = bs[i]
  PROVE  FlushRows(cs) = RowsThen(FlushRows(bs), cs[Len(cs)])
<1>1. PICK g : IsRows(g, bs, Len(bs)) /\ FlushRows(bs) = g[Len(bs)] BY FlushRowsEquation
<1>2. PICK h : IsRows(h, cs, Len(cs)) /\ FlushRows(cs) = h[Len(cs)] BY FlushRowsEquation
<1>3. g[0] = <<>> /\ \A i \in 1..Len(bs) : g[i] = RowsThen(g[i - 1], bs[i])
  BY <1>1, RowsStep
<1>4. h[0] = <<>> /\ \A i \in 1..Len(cs) : h[i] = RowsThen(h[i - 1], cs[i])
  BY <1>2, RowsStep
<1> DEFINE T == {i \in Nat : i <= Len(bs) => h[i] = g[i]}
<1>5. 0 \in T BY <1>3, <1>4
<1>6. ASSUME NEW i \in T PROVE i + 1 \in T
  <2>1. SUFFICES ASSUME i + 1 <= Len(bs) PROVE h[i + 1] = g[i + 1]
    OBVIOUS
  <2>2. i \in Nat /\ i + 1 \in 1..Len(bs) /\ h[i] = g[i] /\ i + 1 - 1 = i BY <1>6, <2>1
  <2>3. h[i + 1] = RowsThen(h[i], cs[i + 1]) BY <1>4, <2>2
  <2>4. g[i + 1] = RowsThen(g[i], bs[i + 1]) BY <1>3, <2>2
  <2>. QED BY <2>2, <2>3, <2>4
<1>7. T = Nat
  <2>1. T \in SUBSET Nat OBVIOUS
  <2>. HIDE DEF T
  <2>. QED BY <1>5, <1>6, <2>1, SetInduction
<1>8. h[Len(bs)] = g[Len(bs)] BY <1>7
<1>9. h[Len(cs)] = RowsThen(h[Len(bs)], cs[Len(cs)]) BY <1>4
<1>. QED BY <1>1, <1>2, <1>8, <1>9

\* The rows of well-formed batches are rows.
LEMMA BatchRowsType ==
  ASSUME NEW b, Formed(b), b[1].type = "STMT"
  PROVE  BatchRows(b) \in Seq(Params) /\ Len(BatchRows(b)) = Len(b) - 2
<1>1. Len(b) \in Nat /\ Len(b) > 1 BY DEF Formed
<1>2. \A k \in 1..Len(b) - 2 : b[k + 1].row \in Params
  <2>1. \A k \in 1..Len(b) - 2 : k + 1 \in 2..Len(b) - 1 BY <1>1
  <2>. QED BY <2>1 DEF Formed
<1>. QED BY <1>1, <1>2 DEF BatchRows

LEMMA FlushRowsType ==
  ASSUME NEW bs, Len(bs) \in Nat, \A i \in 1..Len(bs) : Formed(bs[i])
  PROVE  FlushRows(bs) \in Seq(Params)
<1>1. PICK g : IsRows(g, bs, Len(bs)) /\ FlushRows(bs) = g[Len(bs)] BY FlushRowsEquation
<1>2. g[0] = <<>> /\ \A i \in 1..Len(bs) : g[i] = RowsThen(g[i - 1], bs[i])
  BY <1>1, RowsStep
<1> DEFINE T == {i \in Nat : i <= Len(bs) => g[i] \in Seq(Params)}
<1>3. 0 \in T
  <2>1. g[0] \in Seq(Params) BY <1>2
  <2>. QED BY <2>1
<1>4. ASSUME NEW i \in T PROVE i + 1 \in T
  <2>1. SUFFICES ASSUME i + 1 <= Len(bs) PROVE g[i + 1] \in Seq(Params)
    OBVIOUS
  <2>2. i \in Nat /\ i + 1 \in 1..Len(bs) /\ g[i] \in Seq(Params) /\ i + 1 - 1 = i
    BY <1>4, <2>1
  <2>3. g[i + 1] = RowsThen(g[i], bs[i + 1]) BY <1>2, <2>2
  <2>4. CASE IsOwnFlush(bs[i + 1])
    <3>1. BatchRows(bs[i + 1]) \in Seq(Params) BY <2>2, <2>4, BatchRowsType DEF IsOwnFlush
    <3>. QED BY <2>2, <2>3, <2>4, <3>1, ConcatProperties DEF RowsThen
  <2>5. CASE ~IsOwnFlush(bs[i + 1]) BY <2>2, <2>3, <2>5 DEF RowsThen
  <2>. QED BY <2>4, <2>5
<1>5. T = Nat
  <2>1. T \in SUBSET Nat OBVIOUS
  <2>. HIDE DEF T
  <2>. QED BY <1>3, <1>4, <2>1, SetInduction
<1>. QED BY <1>1, <1>5

-----------------------------------------------------------------------------
(* Batches.                                                                 *)

\* One sequence after another.
LEMMA ConcatFacts ==
  ASSUME NEW S, NEW s \in Seq(S), NEW t \in Seq(S)
  PROVE  /\ s \o t \in Seq(S) /\ Len(s \o t) = Len(s) + Len(t)
         /\ \A i \in 1..Len(s) : (s \o t)[i] = s[i]
         /\ \A i \in 1..Len(t) : (s \o t)[Len(s) + i] = t[i]
<1>1. s \o t \in Seq(S) /\ Len(s \o t) = Len(s) + Len(t) BY ConcatProperties
<1>2. \A i \in 1..Len(s) : (s \o t)[i] = s[i] BY ConcatProperties
<1>3. \A i \in 1..Len(t) : (s \o t)[Len(s) + i] = t[i]
  <2>1. TAKE i \in 1..Len(t)
  <2>2. Len(s) + i \in 1..Len(s) + Len(t) /\ ~(Len(s) + i <= Len(s)) /\ Len(s) + i - Len(s) = i
    OBVIOUS
  <2>. QED BY <2>2, ConcatProperties
<1>. QED BY <1>1, <1>2, <1>3

LEMMA SingleFormed ==
  ASSUME NEW c \in Calls \cup Remotes, NEW row \in Rows,
         NEW type \in {"EXEC", "RUN", "WRITER_ADD", "WRITER_DEL"}
  PROVE  LET s == Single(c, type, row)
         IN  Formed(s) /\ s[1].call = c /\ s[1].type = type
<1> DEFINE s == Single(c, type, row)
<1>1. Node(c, type, 1, row) \in Op BY DEF Node, Op
<1>2. s \in Seq(Op) /\ Len(s) = 1 /\ s[1] = Node(c, type, 1, row) BY <1>1 DEF Single
<1>. HIDE DEF s
<1>3. s[1].call = c /\ s[1].type = type /\ s[1].k = 1 BY <1>2 DEF Node
<1>. QED BY <1>2, <1>3 DEF Formed, s

LEMMA FlushFormed ==
  ASSUME NEW c \in Calls \cup Remotes, NEW rows \in Seq(Params)
  PROVE  LET s == FlushBatch(c, rows)
         IN  /\ Formed(s) /\ s[1].call = c /\ s[1].type = "STMT"
             /\ BatchRows(s) = rows
<1> DEFINE s == FlushBatch(c, rows)
           n == Len(rows)
           p == <<Node(c, "STMT", 1, NULL)>>
           q == [k \in 1..n |-> Node(c, "BATCH", k + 1, rows[k])]
           r == <<Node(c, "FLUSH", n + 2, NULL)>>
<1>1. n \in Nat OBVIOUS
<1>2. p \in Seq(Op) /\ Len(p) = 1 /\ p[1] = Node(c, "STMT", 1, NULL)
  <2>1. Node(c, "STMT", 1, NULL) \in Op BY DEF Node, Op, Rows
  <2>. QED BY <2>1
<1>3. q \in Seq(Op) /\ Len(q) = n /\ \A k \in 1..n : q[k] = Node(c, "BATCH", k + 1, rows[k])
  <2>1. \A k \in 1..n : Node(c, "BATCH", k + 1, rows[k]) \in Op
    <3>1. TAKE k \in 1..n
    <3>2. rows[k] \in Rows /\ k + 1 \in Nat \ {0} BY DEF Rows
    <3>. QED BY <3>2 DEF Node, Op
  <2>. QED BY <1>1, <2>1
<1>4. r \in Seq(Op) /\ Len(r) = 1 /\ r[1] = Node(c, "FLUSH", n + 2, NULL)
  <2>1. Node(c, "FLUSH", n + 2, NULL) \in Op BY DEF Node, Op, Rows
  <2>. QED BY <2>1
<1>5. s = p \o q \o r BY DEF FlushBatch
<1>. HIDE DEF s, p, q, r, n
<1>6. /\ p \o q \in Seq(Op) /\ Len(p \o q) = n + 1
      /\ (p \o q)[1] = p[1] /\ \A k \in 1..n : (p \o q)[k + 1] = q[k]
  <2>1. /\ p \o q \in Seq(Op) /\ Len(p \o q) = Len(p) + Len(q)
        /\ \A i \in 1..Len(p) : (p \o q)[i] = p[i]
        /\ \A k \in 1..Len(q) : (p \o q)[Len(p) + k] = q[k]
    <3>1. p \in Seq(Op) /\ q \in Seq(Op) BY <1>2, <1>3
    <3>. QED BY ONLY <3>1, ConcatFacts
  <2>2. \A k \in 1..n : 1 + k = k + 1 BY <1>1
  <2>3. 1 \in 1..Len(p) /\ 1 + n = n + 1 BY <1>1, <1>2
  <2>. QED BY <1>2, <1>3, <2>1, <2>2, <2>3
<1>7. /\ s \in Seq(Op) /\ Len(s) = n + 2 /\ s[n + 2] = r[1]
      /\ \A k \in 1..n + 1 : s[k] = (p \o q)[k]
  <2>1. /\ s \in Seq(Op) /\ Len(s) = Len(p \o q) + Len(r)
        /\ \A k \in 1..Len(p \o q) : s[k] = (p \o q)[k]
        /\ \A k \in 1..Len(r) : s[Len(p \o q) + k] = r[k]
    <3> DEFINE u == p \o q
    <3>. HIDE DEF u
    <3>1. u \in Seq(Op) /\ r \in Seq(Op) /\ s = u \o r BY <1>4, <1>5, <1>6 DEF u
    <3>2. /\ s \in Seq(Op) /\ Len(s) = Len(u) + Len(r)
          /\ \A k \in 1..Len(u) : s[k] = u[k]
          /\ \A k \in 1..Len(r) : s[Len(u) + k] = r[k]
      BY ONLY <3>1, ConcatFacts
    <3>. QED BY <3>2 DEF u
  <2>2. n + 1 + 1 = n + 2 /\ 1 \in 1..Len(r) BY <1>1, <1>4
  <2>. QED BY <1>4, <1>6, <2>1, <2>2
<1>8. s[1] = Node(c, "STMT", 1, NULL) BY <1>1, <1>2, <1>6, <1>7
<1>9. \A k \in 1..n : s[k + 1] = Node(c, "BATCH", k + 1, rows[k])
  <2>1. TAKE k \in 1..n
  <2>2. k + 1 \in 1..n + 1 BY <1>1
  <2>. QED BY <1>3, <1>6, <1>7, <2>2
<1>10. s[n + 2] = Node(c, "FLUSH", n + 2, NULL) BY <1>4, <1>7
<1>11. \A k \in 2..n + 1 : s[k] = Node(c, "BATCH", k, rows[k - 1])
  <2>1. TAKE k \in 2..n + 1
  <2>2. k - 1 \in 1..n /\ (k - 1) + 1 = k BY <1>1
  <2>. QED BY <1>9, <2>2
<1>12. \A k \in 1..Len(s) : s[k].k = k /\ s[k].call = c
  <2>1. TAKE k \in 1..Len(s)
  <2>2. k = 1 \/ k \in 2..n + 1 \/ k = n + 2 BY <1>1, <1>7
  <2>3. CASE k \in 2..n + 1
    <3>1. s[k] = Node(c, "BATCH", k, rows[k - 1]) BY <1>11, <2>3
    <3>. QED BY <3>1 DEF Node
  <2>. QED BY <1>8, <1>10, <2>2, <2>3 DEF Node
<1>13. s[1].type = "STMT" /\ s[Len(s)].type = "FLUSH" BY <1>7, <1>8, <1>10 DEF Node
<1>14. \A k \in 2..Len(s) - 1 : s[k].type = "BATCH" /\ s[k].row \in Params
  <2>1. TAKE k \in 2..Len(s) - 1
  <2>2. k \in 2..n + 1 /\ k - 1 \in 1..Len(rows) BY <1>1, <1>7 DEF n
  <2>3. s[k] = Node(c, "BATCH", k, rows[k - 1]) /\ rows[k - 1] \in Params BY <1>11, <2>2
  <2>. QED BY <2>3 DEF Node
<1>15. Formed(s) /\ s[1].call = c
  <2>1. Len(s) > 1 /\ 1 \in 1..Len(s) BY <1>1, <1>7
  <2>. QED BY <1>7, <1>12, <1>13, <1>14, <2>1 DEF Formed
<1>16. BatchRows(s) = rows
  <2>1. Len(s) - 2 = n BY <1>1, <1>7
  <2>2. \A k \in 1..n : s[k + 1].row = rows[k]
    <3>1. TAKE k \in 1..n
    <3>2. s[k + 1] = Node(c, "BATCH", k + 1, rows[k]) BY <1>9
    <3>. QED BY <3>2 DEF Node
  <2>3. BatchRows(s) = [k \in 1..n |-> rows[k]] BY <2>1, <2>2 DEF BatchRows
  <2>. QED BY <2>3 DEF n
<1>. QED BY <1>13, <1>15, <1>16 DEF s

\* An element is inserted, those behind it move on.
LEMMA InsertAtFacts ==
  ASSUME NEW S, NEW s \in Seq(S), NEW m \in 1..Len(s) + 1, NEW e \in S
  PROVE  LET t == InsertAt(s, m, e)
         IN  /\ t \in Seq(S) /\ Len(t) = Len(s) + 1 /\ t[m] = e
             /\ \A i \in 1..m - 1 : t[i] = s[i]
             /\ \A i \in m..Len(s) : t[i + 1] = s[i]
<1> DEFINE p == SubSeq(s, 1, m - 1)
           q == SubSeq(s, m, Len(s))
           t == InsertAt(s, m, e)
<1>1. p \in Seq(S) /\ Len(p) = m - 1 /\ \A i \in 1..m - 1 : p[i] = s[i]
  OBVIOUS
<1>2. q \in Seq(S) /\ Len(q) = Len(s) - m + 1 /\ \A i \in 1..Len(s) - m + 1 : q[i] = s[m - 1 + i]
  OBVIOUS
<1>3. t = p \o <<e>> \o q BY DEF InsertAt
<1>. HIDE DEF p, q, t
<1>4. /\ p \o <<e>> \in Seq(S) /\ Len(p \o <<e>>) = m /\ (p \o <<e>>)[m] = e
      /\ \A i \in 1..m - 1 : (p \o <<e>>)[i] = s[i]
  <2>1. <<e>> \in Seq(S) /\ Len(<<e>>) = 1 /\ <<e>>[1] = e /\ 1 \in 1..1 OBVIOUS
  <2> DEFINE o == <<e>>
             u == p \o o
  <2>. HIDE DEF o
  <2>2. /\ u \in Seq(S) /\ Len(u) = Len(p) + 1
        /\ \A i \in 1..Len(p) : u[i] = p[i]
        /\ u[Len(p) + 1] = e
    <3>1. o \in Seq(S) /\ Len(o) = 1 /\ o[1] = e BY <2>1 DEF o
    <3>2. /\ u \in Seq(S) /\ Len(u) = Len(p) + Len(o)
          /\ \A i \in 1..Len(p) : u[i] = p[i]
          /\ \A i \in 1..Len(o) : u[Len(p) + i] = o[i]
      <4>1. p \in Seq(S) BY ONLY <1>1
      <4>2. o \in Seq(S) BY ONLY <3>1
      <4>. QED BY ONLY <4>1, <4>2, ConcatFacts
    <3>. HIDE DEF u
    <3>. QED BY ONLY <2>1, <3>1, <3>2
  <2>. HIDE DEF u
  <2>3. u \in Seq(S) /\ Len(u) = m /\ u[m] = e /\ \A i \in 1..m - 1 : u[i] = s[i]
    BY ONLY <1>1, <2>2, m \in Nat \ {0}
  <2>. QED BY <2>3 DEF u, o
<1>5. /\ t \in Seq(S) /\ Len(t) = m + Len(q)
      /\ \A i \in 1..m : t[i] = (p \o <<e>>)[i]
      /\ \A i \in 1..Len(q) : t[m + i] = q[i]
  <2> DEFINE u == p \o <<e>>
  <2>. HIDE DEF u
  <2>1. u \in Seq(S) /\ Len(u) = m /\ t = u \o q BY <1>3, <1>4 DEF u
  <2>2. /\ t \in Seq(S) /\ Len(t) = Len(u) + Len(q)
        /\ \A i \in 1..Len(u) : t[i] = u[i]
        /\ \A i \in 1..Len(q) : t[Len(u) + i] = q[i]
    BY ONLY <1>2, <2>1, ConcatFacts
  <2>. QED BY <2>1, <2>2 DEF u
<1>6. Len(t) = Len(s) + 1 BY <1>2, <1>5
<1>7. \A i \in m..Len(s) : t[i + 1] = s[i]
  <2>1. TAKE i \in m..Len(s)
  <2>2. i + 1 - m \in 1..Len(q) /\ m + (i + 1 - m) = i + 1 /\ m - 1 + (i + 1 - m) = i BY <1>2
  <2>3. t[m + (i + 1 - m)] = q[i + 1 - m] BY <1>5, <2>2
  <2>4. q[i + 1 - m] = s[m - 1 + (i + 1 - m)] BY <1>2, <2>2
  <2>. QED BY <2>2, <2>3, <2>4
<1>8. t[m] = e /\ \A i \in 1..m - 1 : t[i] = s[i]
  <2> DEFINE u == p \o <<e>>
  <2>1. u[m] = e /\ \A i \in 1..m - 1 : u[i] = s[i] BY ONLY <1>4
  <2>2. \A i \in 1..m : t[i] = u[i] BY ONLY <1>5
  <2>. HIDE DEF u
  <2>. QED BY ONLY <2>1, <2>2, m \in Nat \ {0}
<1>. QED BY <1>5, <1>6, <1>7, <1>8 DEF t

-----------------------------------------------------------------------------
(* The parts of the invariant an action leaves alone.                       *)

LEMMA LogFrame == ASSUME LogFormed, LogOnce, UNCHANGED log PROVE LogFormed' /\ LogOnce'
  BY DEF LogFormed, LogOnce, CallOf

LEMMA SentFrame == ASSUME OwnSent, UNCHANGED <<log, sent, pc>> PROVE OwnSent'
  BY DEF OwnSent, CallOf

LEMMA PromisesFrame ==
  ASSUME Promises, UNCHANGED <<pc, promise, log, ret>>, bee = "dead" => bee' = "dead"
  PROVE  Promises'
  BY DEF Promises, Logged

LEMMA SlotFrame ==
  ASSUME Solo, Waits, Slot, UNCHANGED <<pc, interactive, sent, waitOn, settled>>
  PROVE  Solo' /\ Waits' /\ Slot'
  BY DEF Solo, Waits, Slot, IsWriterOp

LEMMA OwnFrame ==
  ASSUME Own, UNCHANGED <<applied, log, pc, promise, settled, sent, ret, ap>>,
         bee' = "up" => bee = "up"
  PROVE  Own'
  BY DEF Own, OwnOpen, OwnSettled, OwnReturned, OwnTotals, Alone, CallOf, OwnResult

LEMMA RowsFrame ==
  ASSUME RowsKept, UNCHANGED <<accepted, log, sent, queue>>,
         \A c \in Calls : pc'[c] = "deflate" <=> pc[c] = "deflate",
         \A c \in Calls : promise[c] = "rejected" => promise'[c] = "rejected"
  PROVE  RowsKept'
<1>1. Deflating' = Deflating BY DEF Deflating
<1>2. DeflatingRows' = DeflatingRows BY <1>1 DEF DeflatingRows
<1>3. QueuedRows' = QueuedRows BY DEF QueuedRows
<1>4. FlushRows(log)' = FlushRows(log) OBVIOUS
<1>5. NoRowLost' BY <1>2, <1>3, <1>4 DEF RowsKept, NoRowLost
<1>. QED BY <1>5 DEF RowsKept

LEMMA ReplayFrame ==
  ASSUME Replay, UNCHANGED <<direct, bee, files, db, log, applied, ap>>
  PROVE  Replay'
  BY DEF Replay, InLogOrder, IsAt, Behind, Caught, Done

\* Rows that are being deflated are rows.
LEMMA DeflatingRowsType == ASSUME IInv PROVE DeflatingRows \in Seq(Params)
<1>1. CASE Deflating = {} BY <1>1 DEF DeflatingRows
<1>2. CASE Deflating # {}
  <2>1. PICK c \in Deflating : c = CHOOSE d \in Deflating : TRUE BY <1>2
  <2>2. Formed(sent[c]) /\ sent[c][1].type = "STMT" BY DEF Deflating, IInv, OwnSent
  <2>. QED BY <1>2, <2>1, <2>2, BatchRowsType DEF DeflatingRows
<1>. QED BY <1>1, <1>2

-----------------------------------------------------------------------------
(* Batching: batch, run and finalize of the statement.                      *)

LEMMA QueueStep ==
  ASSUME IInv, BatchOn \/ BatchOff \/ \E p \in Params : RunQueued(p)
  PROVE  IInv'
<1>1. UNCHANGED <<interactive, callVars, applyVars, files, direct>>
  BY DEF BatchOn, BatchOff, RunQueued
<1>. USE DEF callVars, applyVars
<1>2. /\ accepted' \in Seq(Params) /\ (queue' = NULL \/ queue' \in Seq(Params))
      /\ \A r \in Seq(Params) : accepted = r \o QueuedRows => accepted' = r \o QueuedRows'
  <2>1. CASE BatchOn
    <3>1. QueuedRows = <<>> /\ QueuedRows' = <<>> BY <2>1 DEF BatchOn, QueuedRows
    <3>. QED BY <2>1, <3>1 DEF BatchOn, IInv, TypeOK
  <2>2. CASE BatchOff
    <3>1. queue \in Seq(Params) /\ accepted \in Seq(Params) BY <2>2 DEF BatchOff, IInv, TypeOK
    <3>2. QueuedRows = queue /\ QueuedRows' = <<>> BY <2>2 DEF BatchOff, QueuedRows
    <3>3. accepted' \in Seq(Params) BY <2>2, <3>1 DEF BatchOff
    <3>4. ASSUME NEW r \in Seq(Params), accepted = r \o queue
          PROVE  SubSeq(accepted, 1, Len(accepted) - Len(queue)) = r
      <4>1. Len(accepted) = Len(r) + Len(queue) /\ \A i \in 1..Len(r) : accepted[i] = r[i]
        BY <3>1, <3>4, ConcatFacts
      <4>2. Len(accepted) - Len(queue) = Len(r) /\ Len(r) <= Len(accepted) BY <3>1, <4>1
      <4>. QED BY <3>1, <4>1, <4>2
    <3>. QED BY <2>2, <3>2, <3>3, <3>4 DEF BatchOff
  <2>3. CASE \E p \in Params : RunQueued(p)
    <3>1. PICK p \in Params : RunQueued(p) BY <2>3
    <3>2. /\ queue \in Seq(Params) /\ accepted \in Seq(Params)
          /\ queue' = Append(queue, p) /\ accepted' = Append(accepted, p)
      BY <3>1 DEF RunQueued, IInv, TypeOK
    <3>3. queue' \in Seq(Params) /\ accepted' \in Seq(Params) BY <3>2
    <3>6. queue' # NULL BY <3>3, WritePathAssumption
    <3>4. QueuedRows = queue /\ QueuedRows' = queue' BY <3>1, <3>6 DEF RunQueued, QueuedRows
    <3>5. ASSUME NEW r \in Seq(Params), accepted = r \o queue
          PROVE  Append(accepted, p) = r \o Append(queue, p)
      <4>1. r \o Append(queue, p) = Append(r \o queue, p) BY <3>2
      <4>. QED BY <3>5, <4>1
    <3>. QED BY <3>2, <3>3, <3>4, <3>5
  <2>. QED BY <2>1, <2>2, <2>3
<1>3. RowsKept'
  <2>1. SUFFICES ASSUME Sequential \/ ~Compressed, \A c \in Calls : promise[c] # "rejected"
                 PROVE  accepted' = FlushRows(log) \o DeflatingRows \o QueuedRows'
    <3>1. Deflating' = Deflating BY <1>1 DEF Deflating
    <3>2. DeflatingRows' = DeflatingRows BY <1>1, <3>1 DEF DeflatingRows
    <3>. QED BY <1>1, <3>2 DEF IInv, RowsKept, NoRowLost
  <2>2. FlushRows(log) \in Seq(Params)
    <3>1. Len(log) \in Nat /\ \A i \in 1..Len(log) : Formed(log[i])
      BY DEF IInv, TypeOK, LogFormed
    <3>. QED BY ONLY <3>1, FlushRowsType
  <2>3. DeflatingRows \in Seq(Params) BY DeflatingRowsType
  <2>4. FlushRows(log) \o DeflatingRows \in Seq(Params) BY <2>2, <2>3, ConcatProperties
  <2>. QED BY <1>2, <2>1, <2>4 DEF IInv, RowsKept, NoRowLost
<1>4. TypeOK' /\ DbTyped' BY <1>1, <1>2 DEF IInv, TypeOK, DbTyped
<1>. QED BY <1>1, <1>3, <1>4, LogFrame, SentFrame, PromisesFrame, SlotFrame, OwnFrame, ReplayFrame
         DEF IInv

-----------------------------------------------------------------------------
(* Calls.                                                                   *)

\* Where apply is, when it runs, is in the log or just behind it.
LEMMA Cursor ==
  ASSUME TypeOK, ap # NULL
  PROVE  /\ ap.upto \in Nat /\ ap.b \in Nat /\ ap.k \in Nat /\ applied \in Nat
         /\ ap.upto > applied /\ ap.upto <= Len(log) /\ ap.b > applied /\ ap.b <= ap.upto + 1
         /\ ap.b <= ap.upto => ap.k >= 1 /\ ap.k <= Len(log[ap.b])
         /\ ap.b > ap.upto => ap.k = 1
<1>1. /\ ap \in Applying
      /\ ap.upto \in applied + 1 .. Len(log) /\ ap.b \in applied + 1 .. ap.upto + 1
      /\ ap.k \in 1..IF ap.b <= ap.upto THEN Len(log[ap.b]) ELSE 1
      /\ log \in Seq(Seq(Op)) /\ applied \in 0..Len(log)
  BY DEF TypeOK, Applying
<1>2. ap.upto \in Nat /\ ap.b \in Nat /\ ap.k \in Nat /\ applied \in Nat /\ Len(log) \in Nat BY <1>1
<1>3. CASE ap.b <= ap.upto
  <2>1. ap.b \in 1..Len(log) BY <1>1, <1>2, <1>3
  <2>2. Len(log[ap.b]) \in Nat BY <1>1, <2>1
  <2>. QED BY <1>1, <1>2, <1>3, <2>2
<1>4. CASE ~(ap.b <= ap.upto) BY <1>1, <1>2, <1>4
<1>. QED BY <1>3, <1>4

\* Its place is the same in a longer log.
LEMMA ApInLongerLog ==
  ASSUME TypeOK, ap # NULL, UNCHANGED <<ap, applied>>, Len(log') \in Nat, Len(log') >= Len(log),
         \A b \in 1..Len(log) : log'[b] = log[b]
  PROVE  /\ ap' \in Applying
         /\ ap'.upto \in applied' + 1 .. Len(log') /\ ap'.b \in applied' + 1 .. ap'.upto + 1
         /\ ap'.k \in 1..IF ap'.b <= ap'.upto THEN Len(log'[ap'.b]) ELSE 1
<1>0. applied \in Nat /\ Len(log) \in Nat /\ Len(log') \in Nat /\ Len(log') >= Len(log)
  BY DEF TypeOK
<1>1. /\ ap \in Applying
      /\ ap.upto \in applied + 1 .. Len(log) /\ ap.b \in applied + 1 .. ap.upto + 1
      /\ ap.k \in 1..IF ap.b <= ap.upto THEN Len(log[ap.b]) ELSE 1
  BY DEF TypeOK
<1>2. ap.b <= ap.upto => ap.b \in 1..Len(log) BY <1>0, <1>1
<1>3. ap.b <= ap.upto => log'[ap.b] = log[ap.b] BY <1>2
<1>4. ap.k \in 1..IF ap.b <= ap.upto THEN Len(log'[ap.b]) ELSE 1 BY <1>1, <1>3
<1>5. ap.upto \in applied + 1 .. Len(log') BY ONLY <1>0, <1>1
<1>. QED BY <1>1, <1>4, <1>5

\* The log takes the batch of a call that was not in it.
LEMMA LogGrows ==
  ASSUME IInv, NEW c \in Calls, NEW s, Formed(s), s[1].call = c,
         pc[c] \in {"idle", "deflate"}, log' = Append(log, s),
         UNCHANGED <<applied, ap, db, direct, bee, files>>
  PROVE  /\ log' \in Seq(Seq(Op)) /\ Len(log') = Len(log) + 1
         /\ log'[Len(log) + 1] = s
         /\ \A b \in 1..Len(log) : log'[b] = log[b]
         /\ LogFormed' /\ LogOnce' /\ Replay'
         /\ ~Logged(c)
         /\ \A d \in Calls : Logged(d)' <=> Logged(d) \/ d = c
         /\ FlushRows(log') = RowsThen(FlushRows(log), s)
<1>0. log \in Seq(Seq(Op)) /\ s \in Seq(Op) /\ Len(log) \in Nat BY DEF IInv, TypeOK, Formed
<1>1. /\ log' \in Seq(Seq(Op)) /\ Len(log') = Len(log) + 1
      /\ log'[Len(log) + 1] = s /\ \A b \in 1..Len(log) : log'[b] = log[b]
  BY <1>0
<1>2. \A b \in 1..Len(log') : b \in 1..Len(log) \/ b = Len(log) + 1 BY <1>0, <1>1
<1>3. ~Logged(c) BY DEF Logged, IInv, OwnSent, CallOf
<1>4. LogFormed' BY <1>1, <1>2 DEF IInv, LogFormed
<1>5. LogOnce'
  <2>1. SUFFICES ASSUME NEW a \in 1..Len(log'), NEW b \in 1..Len(log'),
                        log'[a][1].call = log'[b][1].call
                 PROVE  a = b
    BY DEF LogOnce, CallOf
  <2>2. \A i \in 1..Len(log) : log'[i][1].call # c BY <1>1, <1>3 DEF Logged
  <2>3. \A i, j \in 1..Len(log) : log'[i][1].call = log'[j][1].call => i = j
    BY <1>1 DEF IInv, LogOnce, CallOf
  <2>4. CASE a \in 1..Len(log) /\ b \in 1..Len(log) BY ONLY <2>1, <2>3, <2>4
  <2>5. CASE a \in 1..Len(log) /\ b = Len(log) + 1 BY <1>1, <2>1, <2>2, <2>5
  <2>6. CASE a = Len(log) + 1 /\ b \in 1..Len(log) BY <1>1, <2>1, <2>2, <2>6
  <2>. QED BY ONLY <1>2, <2>1, <2>4, <2>5, <2>6
<1>6. \A d \in Calls : Logged(d)' <=> Logged(d) \/ d = c
  <2>1. TAKE d \in Calls
  <2>2. Len(log) + 1 \in 1..Len(log') /\ 1..Len(log) \subseteq 1..Len(log') BY <1>0, <1>1
  <2>. QED BY <1>1, <1>2, <2>2 DEF Logged
<1>7. FlushRows(log') = RowsThen(FlushRows(log), s)
  <2>1. FlushRows(log') = RowsThen(FlushRows(log), log'[Len(log')])
    BY <1>0, <1>1, FlushRowsAppend
  <2>. QED BY <1>1, <2>1
<1>8. Replay'
  <2>1. SUFFICES ASSUME direct = 0, Replay PROVE InLogOrder' /\ Behind' /\ Caught'
    BY DEF Replay, IInv
  <2>2. \A b \in 1..Len(log) : b \in 1..Len(log') /\ log'[b] = log[b] BY <1>0, <1>1
  <2>3. \A n : \A b \in 1..Len(log) : IsAt(n, b) => IsAt(n, b)' BY <2>2 DEF IsAt
  <2>4. \A b, k : Done(b, k)' <=> Done(b, k) BY DEF Done
  <2>5. InLogOrder'
    <3>0. db' = db OBVIOUS
    <3>1. SUFFICES ASSUME NEW i \in 1..Len(db'), NEW j \in 1..Len(db'), i <= j
                   PROVE  \E a, b \in 1..Len(log') :
                            /\ IsAt(db[i], a)' /\ IsAt(db[j], b)'
                            /\ a < b \/ (a = b /\ (i < j => db'[i].k < db'[j].k))
      BY ONLY <3>1, Zenon DEF InLogOrder
    <3>2. PICK a \in 1..Len(log), b \in 1..Len(log) :
            /\ IsAt(db[i], a) /\ IsAt(db[j], b)
            /\ a < b \/ (a = b /\ (i < j => db[i].k < db[j].k))
      <4>1. InLogOrder /\ i \in 1..Len(db) /\ j \in 1..Len(db) BY <2>1, <3>0 DEF Replay
      <4>. QED BY ONLY <3>1, <4>1 DEF InLogOrder
    <3>3. a \in 1..Len(log') /\ b \in 1..Len(log') BY ONLY <2>2, <3>2
    <3>4. IsAt(db[i], a)' /\ IsAt(db[j], b)' BY ONLY <2>3, <3>2, <3>0
    <3>. QED BY ONLY <3>0, <3>2, <3>3, <3>4
  <2>6. Behind' BY <2>1, <2>2, <2>3, <2>4 DEF Replay, Behind, IsAt, Done
  <2>7. Caught'
    <3>1. SUFFICES ASSUME NEW b \in 1..Len(log'), NEW k \in 1..Len(log'[b]), Done(b, k),
                          Writes(log'[b][k])
                   PROVE  \E i \in 1..Len(db) : db[i] = log'[b][k]
      BY <2>4 DEF Caught, Writes, Done
    <3>2. CASE b \in 1..Len(log)
      <4>1. log'[b] = log[b] BY <2>2, <3>2
      <4>2. Caught BY <2>1 DEF Replay
      <4>. QED BY <3>1, <3>2, <4>1, <4>2 DEF Caught
    <3>3. CASE b = Len(log) + 1
      <4>1. applied \in Nat /\ applied <= Len(log) BY DEF IInv, TypeOK
      <4>2. ap # NULL /\ (b < ap.b \/ (b = ap.b /\ k < ap.k)) BY <1>0, <3>1, <3>3, <4>1 DEF Done
      <4>3. ap.b <= Len(log) + 1 /\ ap.b > applied /\ ap.b \in Nat /\ ap.upto <= Len(log) /\ ap.upto \in Nat
        BY <1>0, <4>2, Cursor DEF IInv
      <4>4. b = ap.b /\ ap.b > ap.upto BY <1>0, <3>3, <4>2, <4>3
      <4>5. ap.k = 1 BY <4>2, <4>4, Cursor DEF IInv
      <4>6. k \in Nat /\ k >= 1
        <5>1. log'[b] \in Seq(Op) BY <1>1, <3>1
        <5>2. Len(log'[b]) \in Nat BY <5>1
        <5>. QED BY <5>2
      <4>. QED BY <4>2, <4>3, <4>4, <4>5, <4>6
    <3>. QED BY <1>2, <3>2, <3>3
  <2>. QED BY <2>5, <2>6, <2>7
<1>. QED BY <1>1, <1>3, <1>4, <1>5, <1>6, <1>7, <1>8

\* A call that starts: its batch s waits for deflate, or goes to Autobee.
Enters(c, s) ==
  /\ Idle(c) /\ Formed(s) /\ s[1].call = c
  /\ sent' = [sent EXCEPT ![c] = s]
  /\ interactive' = IF s[1].type \in {"WRITER_ADD", "WRITER_DEL"} THEN interactive ELSE c
  /\ waitOn' = IF s[1].type \in {"WRITER_ADD", "WRITER_DEL"} \/ Compressed
                 THEN waitOn ELSE [waitOn EXCEPT ![c] = c]
  /\ pc' = [pc EXCEPT ![c] = IF Compressed THEN "deflate" ELSE "await"]
  /\ IF Compressed THEN UNCHANGED <<promise, log>> ELSE Appended(c, s)
  /\ UNCHANGED <<accepted, settled, ret, applied, db, ap, view, bee, writable, files, direct>>
  /\ queue' = NULL \/ queue' \in Seq(Params)
  /\ IF IsOwnFlush(s) THEN QueuedRows = BatchRows(s) /\ QueuedRows' = <<>>
                      ELSE QueuedRows' = QueuedRows

LEMMA CallEnters ==
  ASSUME IInv, NEW c \in Calls,
         \/ \E p \in Params : CallExec(c, p) \/ CallRun(c, p)
         \/ CallFlush(c)
         \/ \E type \in WriterOps : CallWriter(c, type, "other")
  PROVE  \E s : Enters(c, s)
<1>0. queue = NULL \/ queue \in Seq(Params) BY DEF IInv, TypeOK
<1>1. ASSUME NEW p \in Params, NEW type \in {"EXEC", "RUN"}, Idle(c), Start(c, Single(c, type, p)),
             UNCHANGED <<queue, accepted>>
      PROVE  Enters(c, Single(c, type, p))
  <2> DEFINE s == Single(c, type, p)
  <2>1. Formed(s) /\ s[1].call = c /\ s[1].type = type BY SingleFormed DEF Rows
  <2>. HIDE DEF s
  <2>2. Start(c, s) BY <1>1 DEF s
  <2>3. ~IsOwnFlush(s) BY <2>1 DEF IsOwnFlush
  <2>4. QueuedRows' = QueuedRows BY <1>1 DEF QueuedRows
  <2>5. Enters(c, s) BY <1>0, <1>1, <2>1, <2>2, <2>3, <2>4 DEF Enters, Start
  <2>. QED BY <2>5 DEF s
<1>2. ASSUME CallFlush(c) PROVE \E s : Enters(c, s)
  <2> DEFINE s == FlushBatch(c, queue)
  <2>1. queue \in Seq(Params) BY <1>0, <1>2 DEF CallFlush
  <2>2. Formed(s) /\ s[1].call = c /\ s[1].type = "STMT" /\ BatchRows(s) = queue
    BY <2>1, FlushFormed
  <2>. HIDE DEF s
  <2>3. Start(c, s) BY <1>2 DEF CallFlush, s
  <2>4. queue' = <<>> /\ queue # NULL /\ queue' \in Seq(Params) /\ Idle(c) /\ accepted' = accepted
    BY <1>2 DEF CallFlush
  <2>5. queue' # NULL BY <2>4, WritePathAssumption
  <2>6. QueuedRows = queue /\ QueuedRows' = <<>> BY <2>4, <2>5 DEF QueuedRows
  <2>. QED BY <2>2, <2>3, <2>4, <2>6 DEF Enters, Start, IsOwnFlush
<1>3. ASSUME NEW type \in WriterOps, CallWriter(c, type, "other") PROVE \E s : Enters(c, s)
  <2> DEFINE s == Single(c, type, "other")
  <2>1. type \in {"WRITER_ADD", "WRITER_DEL"} BY WritePathAssumption
  <2>2. Formed(s) /\ s[1].call = c /\ s[1].type = type BY <2>1, SingleFormed DEF Rows, Writers
  <2>3. CallWriter(c, type, "other") BY <1>3
  <2>. HIDE DEF s
  <2>4. /\ Idle(c) /\ sent' = [sent EXCEPT ![c] = s]
        /\ IF Compressed
             THEN pc' = [pc EXCEPT ![c] = "deflate"] /\ UNCHANGED <<promise, log>>
             ELSE pc' = [pc EXCEPT ![c] = "await"] /\ Appended(c, s)
        /\ UNCHANGED <<queue, accepted, interactive, settled, waitOn, ret, applied, db, ap,
                       view, bee, writable, files, direct>>
    BY <2>3 DEF CallWriter, s
  <2>5. ~IsOwnFlush(s) BY <2>1, <2>2 DEF IsOwnFlush
  <2>6. QueuedRows' = QueuedRows BY <2>4 DEF QueuedRows
  <2>. QED BY <1>0, <2>1, <2>2, <2>4, <2>5, <2>6 DEF Enters
<1>4. ASSUME NEW p \in Params, CallExec(c, p) \/ CallRun(c, p) PROVE \E s : Enters(c, s)
  BY <1>1, <1>4 DEF CallExec, CallRun
<1>. QED BY <1>2, <1>3, <1>4

LEMMA EntersStep ==
  ASSUME IInv, NEW c \in Calls, NEW s, Enters(c, s)
  PROVE  IInv'
<1> DEFINE grows == ~Compressed /\ CanAppend
           at == IF Compressed THEN "deflate" ELSE "await"
<1>1. /\ Idle(c) /\ pc[c] = "idle" /\ Formed(s) /\ s[1].call = c /\ s \in Seq(Op) /\ s # <<>>
      /\ sent' = [sent EXCEPT ![c] = s] /\ pc' = [pc EXCEPT ![c] = at]
      /\ UNCHANGED <<accepted, settled, ret, applied, db, ap, view, bee, writable, files, direct>>
  BY DEF Enters, Idle, Formed
<1>2. /\ sent \in [Calls -> Seq(Op)] /\ pc \in [Calls -> {"idle", "deflate", "await", "returned"}]
      /\ promise \in [Calls -> {"none", "open", "done", "rejected"}]
      /\ waitOn \in [Calls -> Calls \cup {NULL}] /\ log \in Seq(Seq(Op)) /\ Len(log) \in Nat
  BY DEF IInv, TypeOK
<1>3. /\ sent'[c] = s /\ pc'[c] = at
      /\ \A d \in Calls : d # c => sent'[d] = sent[d] /\ pc'[d] = pc[d]
  BY <1>1, <1>2
<1>4. /\ grows => log' = Append(log, s) /\ promise' = [promise EXCEPT ![c] = "open"]
      /\ ~grows => log' = log
      /\ Compressed => promise' = promise
      /\ ~Compressed /\ ~grows => promise' = [promise EXCEPT ![c] = "rejected"]
  BY DEF Enters, Appended
<1>. HIDE DEF grows
<1>5. /\ promise' \in [Calls -> {"none", "open", "done", "rejected"}]
      /\ \A d \in Calls : d # c => promise'[d] = promise[d]
      /\ promise[c] = "none" /\ (grows => promise'[c] = "open")
      /\ Compressed => promise'[c] = "none"
      /\ ~Compressed /\ ~grows => promise'[c] = "rejected"
  <2>1. promise[c] = "none" BY <1>1 DEF IInv, Promises
  <2>2. grows => ~Compressed BY DEF grows
  <2>. QED BY <1>2, <1>4, <2>1, <2>2
<1>6. ~Logged(c) BY <1>1 DEF Logged, IInv, OwnSent, CallOf
<1>7. /\ log' \in Seq(Seq(Op)) /\ Len(log') \in Nat /\ Len(log') >= Len(log)
      /\ LogFormed' /\ LogOnce' /\ Replay'
      /\ \A b \in 1..Len(log) : log'[b] = log[b]
      /\ \A d \in Calls : d # c => (Logged(d)' <=> Logged(d))
      /\ Logged(c)' <=> grows
      /\ \A b \in 1..Len(log') : b \in 1..Len(log) \/ (grows /\ b = Len(log) + 1 /\ log'[b] = s)
      /\ FlushRows(log') = IF grows THEN RowsThen(FlushRows(log), s) ELSE FlushRows(log)
  <2>1. CASE grows
    <3>1. /\ log' \in Seq(Seq(Op)) /\ Len(log') = Len(log) + 1
          /\ log'[Len(log) + 1] = s
          /\ \A b \in 1..Len(log) : log'[b] = log[b]
          /\ LogFormed' /\ LogOnce' /\ Replay'
          /\ \A d \in Calls : Logged(d)' <=> Logged(d) \/ d = c
          /\ FlushRows(log') = RowsThen(FlushRows(log), s)
      BY <1>1, <1>4, <2>1, LogGrows
    <3>2. \A b \in 1..Len(log') : b \in 1..Len(log) \/ b = Len(log) + 1 BY <1>2, <3>1
    <3>. QED BY <1>2, <2>1, <3>1, <3>2
  <2>2. CASE ~grows
    <3>1. log' = log BY <1>4, <2>2
    <3>2. \A d \in Calls : Logged(d)' <=> Logged(d) BY <3>1 DEF Logged
    <3>3. Replay' BY <1>1, <3>1, ReplayFrame DEF IInv
    <3>. QED BY <1>2, <1>6, <2>2, <3>1, <3>2, <3>3, LogFrame DEF IInv
  <2>. QED BY <2>1, <2>2
<1>8. TypeOK' /\ DbTyped'
  <2>1. sent' \in [Calls -> Seq(Op)] BY <1>1, <1>2
  <2>2. pc' \in [Calls -> {"idle", "deflate", "await", "returned"}] BY <1>1, <1>2
  <2>3. waitOn' \in [Calls -> Calls \cup {NULL}] /\ interactive' \in Calls \cup {NULL}
    BY <1>2 DEF Enters, IInv, TypeOK
  <2>4. applied' \in 0..Len(log') BY <1>1, <1>2, <1>7 DEF IInv, TypeOK
  <2>5. ap' = NULL \/
          /\ ap' \in Applying
          /\ ap'.upto \in applied' + 1 .. Len(log') /\ ap'.b \in applied' + 1 .. ap'.upto + 1
          /\ ap'.k \in 1..IF ap'.b <= ap'.upto THEN Len(log'[ap'.b]) ELSE 1
    BY <1>1, <1>2, <1>7, ApInLongerLog DEF IInv
  <2>. QED BY <1>1, <1>5, <1>7, <2>1, <2>2, <2>3, <2>4, <2>5 DEF IInv, TypeOK, DbTyped, Enters
<1>9. OwnSent'
  <2>1. \A b \in 1..Len(log') : log'[b][1].call \in Calls =>
          log'[b] = sent'[log'[b][1].call] /\ pc'[log'[b][1].call] \in {"await", "returned"}
    <3>1. SUFFICES ASSUME NEW b \in 1..Len(log'), log'[b][1].call \in Calls
          PROVE log'[b] = sent'[log'[b][1].call] /\ pc'[log'[b][1].call] \in {"await", "returned"}
      OBVIOUS
    <3>2. CASE b \in 1..Len(log)
      <4>1. log'[b] = log[b] BY <1>7, <3>2
      <4>2. log[b][1].call # c BY <1>6, <3>2 DEF Logged
      <4>3. log[b] = sent[log[b][1].call] /\ pc[log[b][1].call] \in {"await", "returned"}
        BY <3>1, <3>2, <4>1 DEF IInv, OwnSent, CallOf
      <4>. QED BY <1>3, <3>1, <4>1, <4>2, <4>3
    <3>3. CASE grows /\ log'[b] = s BY <1>1, <1>3, <3>3 DEF grows
    <3>. QED BY <1>7, <3>2, <3>3
  <2>2. \A d \in Calls : sent'[d] # <<>> => Formed(sent'[d]) /\ sent'[d][1].call = d
    BY <1>1, <1>3 DEF IInv, OwnSent
  <2>3. \A d \in Calls : pc'[d] \in {"deflate", "await"} => sent'[d] # <<>>
    BY <1>1, <1>3 DEF IInv, OwnSent
  <2>. QED BY <2>1, <2>2, <2>3 DEF OwnSent, CallOf
<1>10. Promises'
  <2>1. SUFFICES ASSUME NEW d \in Calls
        PROVE  /\ pc'[d] # "returned" => ret[d] = NULL
               /\ pc'[d] \in {"idle", "deflate"} => promise'[d] = "none"
               /\ promise'[d] \in {"open", "done"} => Logged(d)'
               /\ promise'[d] = "rejected" /\ Logged(d)' => bee = "dead"
    BY <1>1 DEF Promises
  <2>2. CASE d = c BY <1>1, <1>3, <1>5, <1>7, <2>2 DEF grows, IInv, Promises
  <2>3. CASE d # c BY <1>3, <1>5, <1>7, <2>3 DEF IInv, Promises
  <2>. QED BY <2>2, <2>3
<1>14. Waits'
  <2>1. SUFFICES ASSUME NEW d \in Calls, pc'[d] = "await", ~IsWriterOp(d)'
                 PROVE  waitOn'[d] \in Calls
    BY DEF Waits
  <2>2. CASE d = c
    <3>1. ~Compressed /\ s[1].type \notin {"WRITER_ADD", "WRITER_DEL"}
      BY <1>3, <2>1, <2>2 DEF IsWriterOp
    <3>. QED BY <1>2, <2>2, <3>1 DEF Enters
  <2>3. CASE d # c
    <3>1. pc[d] = "await" /\ ~IsWriterOp(d) /\ waitOn'[d] = waitOn[d]
      BY <1>2, <1>3, <2>1, <2>3 DEF IsWriterOp, Enters
    <3>. QED BY <3>1 DEF IInv, Waits
  <2>. QED BY <2>2, <2>3
<1>11. Solo' /\ Slot'
  <2>1. SUFFICES ASSUME Sequential PROVE Solo' /\ Slot' BY DEF Solo, Slot
  <2>2. \A d \in Calls : pc[d] \in {"idle", "returned"} BY <1>1, <2>1 DEF Idle
  <2>3. Solo' BY <1>3, <2>2 DEF Solo
  <2>4. /\ IsWriterOp(c)' <=> s[1].type \in {"WRITER_ADD", "WRITER_DEL"}
        /\ \A d \in Calls : d # c => (IsWriterOp(d)' <=> IsWriterOp(d))
    BY <1>3 DEF IsWriterOp
  <2>5. interactive' = IF IsWriterOp(c)' THEN interactive ELSE c BY <2>4 DEF Enters
  <2>6. ~Compressed /\ ~IsWriterOp(c)' => waitOn'[c] = c BY <1>2, <2>4 DEF Enters
  <2>7. \A d \in Calls : interactive # d BY <2>1, <2>2 DEF IInv, Slot
  <2>8. SUFFICES ASSUME NEW d \in Calls
        PROVE  /\ interactive' = d <=> pc'[d] \in {"deflate", "await"} /\ ~IsWriterOp(d)'
               /\ pc'[d] = "await" /\ ~IsWriterOp(d)' => waitOn'[d] = d
               /\ pc'[d] = "idle" => settled[d] = NULL
    BY <1>1, <2>3 DEF Slot
  <2>9. CASE d = c BY <1>3, <2>4, <2>5, <2>6, <2>7, <2>9
  <2>10. CASE d # c BY <1>3, <2>1, <2>2, <2>5, <2>7, <2>10 DEF IInv, Slot
  <2>. QED BY <2>9, <2>10
<1>12. Own'
  <2>1. SUFFICES ASSUME Sequential, Alone' PROVE OwnOpen' /\ OwnSettled' /\ OwnReturned' /\ OwnTotals'
    BY DEF Own
  <2>2. Alone
    <3>1. \A b \in 1..Len(log) : b \in 1..Len(log') /\ log'[b] = log[b] BY <1>2, <1>7
    <3>. QED BY <2>1, <3>1 DEF Alone
  <2>3. OwnOpen /\ OwnSettled /\ OwnReturned /\ OwnTotals BY <2>1, <2>2 DEF IInv, Own
  <2>4. \A d \in Calls : pc[d] \in {"idle", "returned"} BY <1>1, <2>1 DEF Idle
  <2>5. settled[c] = NULL /\ ret[c] = NULL
    BY <1>1, <2>1 DEF IInv, Slot, Promises
  <2>6. \A d \in Calls : d # c => \A r : OwnResult(d, r) => OwnResult(d, r)'
    BY <1>3 DEF OwnResult
  <2>7. OwnOpen'
    <3>1. SUFFICES ASSUME bee = "up", NEW b \in applied + 1 .. Len(log')
          PROVE pc'[log'[b][1].call] = "await" /\ promise'[log'[b][1].call] = "open"
      BY <1>1 DEF OwnOpen, CallOf
    <3>2. applied \in Nat BY DEF IInv, TypeOK
    <3>3. CASE b \in 1..Len(log)
      <4>1. b \in applied + 1 .. Len(log) BY <1>2, <1>7, <3>1, <3>2, <3>3
      <4>2. pc[log[b][1].call] = "await" BY <2>3, <3>1, <4>1 DEF OwnOpen, CallOf
      <4>3. log[b][1].call \in Calls BY <2>2, <3>3 DEF Alone
      <4>. QED BY <2>4, <4>2, <4>3
    <3>4. CASE grows /\ log'[b] = s BY <1>1, <1>3, <1>5, <3>4 DEF grows
    <3>5. b \in 1..Len(log') BY <1>7, <3>1, <3>2
    <3>. QED BY <1>7, <3>3, <3>4, <3>5
  <2>8. OwnSettled' BY <1>1, <2>3, <2>5, <2>6 DEF OwnSettled
  <2>9. OwnReturned' BY <1>1, <2>3, <2>5, <2>6 DEF OwnReturned, IsOutcome
  <2>10. OwnTotals'
    <3>1. SUFFICES ASSUME ap # NULL, ap.b <= ap.upto PROVE OwnTotals' BY <1>1 DEF OwnTotals
    <3>2. ap.b \in 1..Len(log) BY <1>2, <3>1, Cursor DEF IInv
    <3>3. log'[ap.b] = log[ap.b] BY <1>7, <3>2
    <3>. QED BY <1>1, <2>3, <3>3 DEF OwnTotals
  <2>. QED BY <2>7, <2>8, <2>9, <2>10
<1>13. RowsKept'
  <2>1. Compressed \/ \A d \in Calls : pc'[d] # "deflate"
    BY <1>3 DEF IInv, RowsKept
  <2>2. SUFFICES ASSUME Sequential \/ ~Compressed, \A d \in Calls : promise'[d] # "rejected"
                 PROVE  accepted = FlushRows(log') \o DeflatingRows' \o QueuedRows'
    BY <1>1, <2>1 DEF RowsKept, NoRowLost
  <2>3. \A d \in Calls : promise[d] # "rejected" BY <1>5, <2>2
  <2>4. accepted = FlushRows(log) \o DeflatingRows \o QueuedRows
    BY <2>2, <2>3 DEF IInv, RowsKept, NoRowLost
  <2>5. Deflating = {} /\ DeflatingRows = <<>>
    <3>1. \A d \in Calls : pc[d] # "deflate" BY <1>1, <2>2 DEF Idle, IInv, RowsKept
    <3>. QED BY <3>1 DEF Deflating, DeflatingRows
  <2>6. FlushRows(log) \in Seq(Params)
    <3>1. Len(log) \in Nat /\ \A b \in 1..Len(log) : Formed(log[b]) BY <1>2 DEF IInv, LogFormed
    <3>. QED BY ONLY <3>1, FlushRowsType
  <2>7. QueuedRows \in Seq(Params) /\ QueuedRows' \in Seq(Params)
    BY DEF QueuedRows, Enters, IInv, TypeOK
  <2>8. accepted = FlushRows(log) \o QueuedRows BY <2>4, <2>5, <2>6
  <2>9. CASE Compressed
    <3>1. ~grows BY <2>9 DEF grows
    <3>2. Deflating' = IF s[1].type = "STMT" THEN {c} ELSE {}
      <4>1. \A d \in Calls : d # c => pc'[d] # "deflate" BY <1>1, <1>3, <2>2, <2>9 DEF Idle
      <4>. QED BY <1>3, <2>9, <4>1 DEF Deflating
    <3>3. DeflatingRows' = IF s[1].type = "STMT" THEN BatchRows(s) ELSE <<>>
      BY <1>3, <3>2 DEF DeflatingRows
    <3>4. CASE s[1].type = "STMT"
      <4>1. QueuedRows = BatchRows(s) /\ QueuedRows' = <<>> /\ DeflatingRows' = BatchRows(s)
        BY <1>1, <3>3, <3>4 DEF Enters, IsOwnFlush
      <4>. QED BY <1>7, <2>6, <2>7, <2>8, <3>1, <4>1
    <3>5. CASE s[1].type # "STMT"
      <4>1. QueuedRows = QueuedRows' /\ DeflatingRows' = <<>>
        BY <3>3, <3>5 DEF Enters, IsOwnFlush
      <4>. QED BY <1>7, <2>6, <2>7, <2>8, <3>1, <4>1
    <3>. QED BY <3>4, <3>5
  <2>10. CASE ~Compressed
    <3>1. grows BY <1>5, <2>2, <2>10
    <3>2. DeflatingRows' = <<>>
      <4>1. Deflating' = {} BY <2>1, <2>10 DEF Deflating
      <4>. QED BY <4>1 DEF DeflatingRows
    <3>3. CASE IsOwnFlush(s)
      <4>1. QueuedRows = BatchRows(s) /\ QueuedRows' = <<>> BY <3>3 DEF Enters
      <4>2. FlushRows(log') = FlushRows(log) \o QueuedRows BY <1>7, <3>1, <3>3, <4>1 DEF RowsThen
      <4>. QED BY <2>6, <2>7, <2>8, <3>2, <4>1, <4>2
    <3>4. CASE ~IsOwnFlush(s)
      <4>1. QueuedRows' = QueuedRows BY <3>4 DEF Enters
      <4>2. FlushRows(log') = FlushRows(log) BY <1>7, <3>1, <3>4 DEF RowsThen
      <4>. QED BY <2>6, <2>7, <2>8, <3>2, <4>1, <4>2
    <3>. QED BY <3>3, <3>4
  <2>. QED BY <2>9, <2>10
<1>. QED BY <1>7, <1>8, <1>9, <1>10, <1>11, <1>12, <1>13, <1>14 DEF IInv

LEMMA FlushNotBatchingStep ==
  ASSUME IInv, NEW c \in Calls, FlushNotBatching(c)
  PROVE  IInv'
<1>. USE DEF FlushNotBatching, callVars, applyVars
<1>1. /\ pc[c] = "idle" /\ pc \in [Calls -> {"idle", "deflate", "await", "returned"}]
      /\ ret \in [Calls -> {NULL, THREW} \cup OutcomeType]
  BY DEF Idle, IInv, TypeOK
<1>2. /\ pc'[c] = "returned" /\ ret'[c] = THREW
      /\ \A d \in Calls : d # c => pc'[d] = pc[d] /\ ret'[d] = ret[d]
  BY <1>1
<1>3. QueuedRows = <<>> /\ QueuedRows' = <<>> BY DEF QueuedRows
<1>4. TypeOK' /\ DbTyped'
  <2>1. pc' \in [Calls -> {"idle", "deflate", "await", "returned"}] BY <1>1
  <2>2. ret' \in [Calls -> {NULL, THREW} \cup OutcomeType] BY <1>1
  <2>. QED BY <2>1, <2>2 DEF IInv, TypeOK, DbTyped
<1>5. OwnSent' BY <1>1, <1>2 DEF IInv, OwnSent, CallOf
<1>6. Promises'
  <2>1. \A d \in Calls : Logged(d)' <=> Logged(d) BY DEF Logged
  <2>. QED BY <1>1, <1>2, <2>1 DEF IInv, Promises
<1>7. Solo' /\ Waits' /\ Slot'
  <2>1. \A d \in Calls : IsWriterOp(d)' <=> IsWriterOp(d) BY DEF IsWriterOp
  <2>2. Solo' BY <1>2 DEF IInv, Solo
  <2>3. Waits' BY <1>2, <2>1 DEF IInv, Waits
  <2>4. Slot'
    <3>1. SUFFICES ASSUME Sequential, NEW d \in Calls
          PROVE /\ interactive' = d <=> pc'[d] \in {"deflate", "await"} /\ ~IsWriterOp(d)'
                /\ pc'[d] = "await" /\ ~IsWriterOp(d)' => waitOn'[d] = d
                /\ pc'[d] = "idle" => settled'[d] = NULL
      BY DEF Slot
    <3>2. interactive' # d BY WritePathAssumption
    <3>3. pc'[d] \in {"idle", "returned"} BY <1>2, <3>1 DEF Idle
    <3>4. pc'[d] = "idle" => pc[d] = "idle" BY <1>2
    <3>. QED BY <3>1, <3>2, <3>3, <3>4 DEF IInv, Slot
  <2>. QED BY <2>2, <2>3, <2>4
<1>8. Own'
  <2>1. SUFFICES ASSUME Sequential, Alone PROVE OwnOpen' /\ OwnSettled' /\ OwnReturned' /\ OwnTotals'
    BY DEF Own, Alone
  <2>2. OwnOpen /\ OwnSettled /\ OwnReturned /\ OwnTotals BY <2>1 DEF IInv, Own
  <2>3. \A d, r : OwnResult(d, r)' <=> OwnResult(d, r) BY DEF OwnResult
  <2>4. OwnOpen'
    <3>1. SUFFICES ASSUME bee = "up", NEW b \in applied + 1 .. Len(log)
          PROVE pc'[log[b][1].call] = "await" /\ promise[log[b][1].call] = "open"
      BY DEF OwnOpen, CallOf
    <3>2. b \in 1..Len(log) BY <3>1 DEF IInv, TypeOK
    <3>3. log[b][1].call \in Calls BY <2>1, <3>2 DEF Alone
    <3>. QED BY <1>1, <1>2, <2>2, <3>1, <3>3 DEF OwnOpen, CallOf
  <2>5. OwnSettled' BY <2>2, <2>3 DEF OwnSettled
  <2>6. OwnReturned' BY <1>2, <2>2, <2>3 DEF OwnReturned, IsOutcome
  <2>7. OwnTotals' BY <2>2 DEF OwnTotals
  <2>. QED BY <2>4, <2>5, <2>6, <2>7
<1>9. RowsKept'
  <2>1. \A d \in Calls : pc'[d] = "deflate" <=> pc[d] = "deflate" BY <1>1, <1>2
  <2>2. Deflating' = Deflating BY <2>1 DEF Deflating
  <2>3. DeflatingRows' = DeflatingRows BY <2>2 DEF DeflatingRows
  <2>. QED BY <1>3, <2>1, <2>3 DEF IInv, RowsKept, NoRowLost
<1>10. LogFormed' /\ LogOnce' BY LogFrame DEF IInv
<1>11. Replay' BY ReplayFrame DEF IInv
<1>. QED BY <1>4, <1>5, <1>6, <1>7, <1>8, <1>9, <1>10, <1>11 DEF IInv

LEMMA ReturnStep ==
  ASSUME IInv, NEW c \in Calls, Return(c)
  PROVE  IInv'
<1>. USE DEF applyVars
<1>1. /\ pc[c] = "await" /\ promise[c] \in {"done", "rejected"}
      /\ pc' = [pc EXCEPT ![c] = "returned"]
      /\ UNCHANGED <<queue, accepted, settled, sent, waitOn, promise, applyVars, files, direct>>
  BY DEF Return
<1>2. /\ pc \in [Calls -> {"idle", "deflate", "await", "returned"}]
      /\ ret \in [Calls -> {NULL, THREW} \cup OutcomeType]
      /\ settled \in [Calls -> {NULL} \cup OutcomeType]
  BY DEF IInv, TypeOK
<1>3. PICK v : /\ ret' = [ret EXCEPT ![c] = v] /\ v \in {THREW} \cup OutcomeType
               /\ v = THREW \/ (IsWriterOp(c) /\ v = Outcome(sent[c][1], TRUE, 0, NULL, 0))
                  \/ (~IsWriterOp(c) /\ v = settled[waitOn[c]] /\ v # NULL)
  <2>1. CASE IsWriterOp(c)
    <3>1. Formed(sent[c]) /\ sent[c][1].call = c BY <1>1 DEF IInv, OwnSent
    <3>2. Outcome(sent[c][1], TRUE, 0, NULL, 0) \in OutcomeType
      BY <3>1 DEF Outcome, OutcomeType, Rows
    <3>. QED BY <2>1, <3>2 DEF Return
  <2>2. CASE ~IsWriterOp(c)
    <3>1. waitOn[c] \in Calls BY <1>1, <2>2 DEF IInv, Waits
    <3>2. settled[waitOn[c]] # NULL /\ settled[waitOn[c]] \in OutcomeType
      BY <1>2, <2>2, <3>1 DEF Return
    <3>. QED BY <2>2, <3>2 DEF Return
  <2>. QED BY <2>1, <2>2
<1>4. /\ pc'[c] = "returned" /\ ret'[c] = v
      /\ \A d \in Calls : d # c => pc'[d] = pc[d] /\ ret'[d] = ret[d]
  BY <1>1, <1>2, <1>3
<1>5. interactive' = IF IsWriterOp(c) THEN interactive ELSE NULL BY DEF Return
<1>6. TypeOK' /\ DbTyped'
  <2>1. pc' \in [Calls -> {"idle", "deflate", "await", "returned"}] BY <1>1, <1>2
  <2>2. ret' \in [Calls -> {NULL, THREW} \cup OutcomeType] BY <1>2, <1>3
  <2>. QED BY <1>1, <1>5, <2>1, <2>2 DEF IInv, TypeOK, DbTyped
<1>7. OwnSent' BY <1>1, <1>4 DEF IInv, OwnSent, CallOf
<1>8. Promises'
  <2>1. \A d \in Calls : Logged(d)' <=> Logged(d) BY <1>1 DEF Logged
  <2>. QED BY <1>1, <1>4, <2>1 DEF IInv, Promises
<1>9. Solo' /\ Waits' /\ Slot'
  <2>1. \A d \in Calls : IsWriterOp(d)' <=> IsWriterOp(d) BY <1>1 DEF IsWriterOp
  <2>2. Solo' BY <1>4 DEF IInv, Solo
  <2>3. Waits' BY <1>1, <1>4, <2>1 DEF IInv, Waits
  <2>4. Slot'
    <3>1. SUFFICES ASSUME Sequential, NEW d \in Calls
          PROVE /\ interactive' = d <=> pc'[d] \in {"deflate", "await"} /\ ~IsWriterOp(d)'
                /\ pc'[d] = "await" /\ ~IsWriterOp(d)' => waitOn'[d] = d
                /\ pc'[d] = "idle" => settled'[d] = NULL
      BY DEF Slot
    <3>2. \A e \in Calls : e # c => pc[e] \notin {"deflate", "await"} BY <1>1, <3>1 DEF IInv, Solo
    <3>3. interactive' # d BY <1>1, <1>5, <3>1, <3>2, WritePathAssumption DEF IInv, Slot
    <3>4. pc'[d] \notin {"deflate", "await"} BY <1>4, <3>2
    <3>5. pc'[d] = "idle" => pc[d] = "idle" BY <1>4
    <3>. QED BY <1>1, <3>1, <3>3, <3>4, <3>5 DEF IInv, Slot
  <2>. QED BY <2>2, <2>3, <2>4
<1>10. Own'
  <2>1. SUFFICES ASSUME Sequential, Alone PROVE OwnOpen' /\ OwnSettled' /\ OwnReturned' /\ OwnTotals'
    BY <1>1 DEF Own, Alone
  <2>2. OwnOpen /\ OwnSettled /\ OwnReturned /\ OwnTotals BY <2>1 DEF IInv, Own
  <2>3. \A d, r : OwnResult(d, r)' <=> OwnResult(d, r) BY <1>1 DEF OwnResult
  <2>4. OwnOpen'
    <3>1. SUFFICES ASSUME bee = "up", NEW b \in applied + 1 .. Len(log)
          PROVE pc'[log[b][1].call] = "await" /\ promise[log[b][1].call] = "open"
      BY <1>1 DEF OwnOpen, CallOf
    <3>2. b \in 1..Len(log) BY <3>1 DEF IInv, TypeOK
    <3>3. log[b][1].call \in Calls BY <2>1, <3>2 DEF Alone
    <3>. QED BY <1>1, <1>4, <2>2, <3>1, <3>3 DEF OwnOpen, CallOf
  <2>5. OwnSettled' BY <1>1, <2>2, <2>3 DEF OwnSettled
  <2>6. IsOutcome(v) => OwnResult(c, v)
    <3>1. CASE IsWriterOp(c) /\ v = Outcome(sent[c][1], TRUE, 0, NULL, 0)
      <4>1. sent[c][1].call = c BY <1>1 DEF IInv, OwnSent
      <4>. QED BY <3>1, <4>1 DEF OwnResult, Outcome, IsWriterOp
    <3>2. CASE ~IsWriterOp(c) /\ v = settled[waitOn[c]] /\ v # NULL
      <4>1. waitOn[c] = c BY <1>1, <2>1, <3>2 DEF IInv, Slot
      <4>. QED BY <2>2, <3>2, <4>1 DEF OwnSettled
    <3>. QED BY <1>3, <3>1, <3>2 DEF IsOutcome
  <2>7. OwnReturned' BY <1>4, <2>2, <2>3, <2>6 DEF OwnReturned, IsOutcome
  <2>8. OwnTotals' BY <1>1, <2>2 DEF OwnTotals
  <2>. QED BY <2>4, <2>5, <2>7, <2>8
<1>11. RowsKept'
  <2>1. \A d \in Calls : pc'[d] = "deflate" <=> pc[d] = "deflate" BY <1>1, <1>4
  <2>. QED BY <1>1, <2>1, RowsFrame DEF IInv
<1>12. LogFormed' /\ LogOnce' /\ Replay' BY <1>1, LogFrame, ReplayFrame DEF IInv
<1>. QED BY <1>6, <1>7, <1>8, <1>9, <1>10, <1>11, <1>12 DEF IInv

LEMMA DeflatedStep ==
  ASSUME IInv, NEW c \in Calls, Deflated(c)
  PROVE  IInv'
<1> DEFINE s == sent[c]
           awaits == IsWriterOp(c) \/ interactive # NULL
<1>1. /\ pc[c] = "deflate" /\ Formed(s) /\ s[1].call = c /\ s \in Seq(Op) /\ s # <<>>
      /\ Appended(c, s)
      /\ UNCHANGED <<queue, accepted, interactive, settled, sent, applied, db, ap, view, bee,
                     writable, files, direct>>
  BY DEF Deflated, IInv, OwnSent, Formed
<1>2. /\ pc \in [Calls -> {"idle", "deflate", "await", "returned"}]
      /\ promise \in [Calls -> {"none", "open", "done", "rejected"}]
      /\ waitOn \in [Calls -> Calls \cup {NULL}] /\ log \in Seq(Seq(Op)) /\ Len(log) \in Nat
      /\ ret \in [Calls -> {NULL, THREW} \cup OutcomeType] /\ interactive \in Calls \cup {NULL}
  BY DEF IInv, TypeOK
<1>3. /\ pc'[c] = IF awaits THEN "await" ELSE "returned"
      /\ ret'[c] = IF awaits THEN ret[c] ELSE THREW
      /\ awaits => waitOn'[c] = IF IsWriterOp(c) THEN NULL ELSE interactive
      /\ \A d \in Calls : d # c => pc'[d] = pc[d] /\ ret'[d] = ret[d] /\ waitOn'[d] = waitOn[d]
      /\ pc' \in [Calls -> {"idle", "deflate", "await", "returned"}]
      /\ ret' \in [Calls -> {NULL, THREW} \cup OutcomeType]
      /\ waitOn' \in [Calls -> Calls \cup {NULL}]
  BY <1>2 DEF Deflated
<1>4. /\ CanAppend => log' = Append(log, s) /\ promise' = [promise EXCEPT ![c] = "open"]
      /\ ~CanAppend => log' = log /\ promise' = [promise EXCEPT ![c] = "rejected"]
  BY <1>1 DEF Appended
<1>. HIDE DEF s, awaits
<1>5. /\ promise' \in [Calls -> {"none", "open", "done", "rejected"}]
      /\ \A d \in Calls : d # c => promise'[d] = promise[d]
      /\ promise'[c] = IF CanAppend THEN "open" ELSE "rejected"
  BY <1>2, <1>4
<1>6. ~Logged(c) BY <1>1 DEF Logged, IInv, OwnSent, CallOf
<1>7. /\ log' \in Seq(Seq(Op)) /\ Len(log') \in Nat /\ Len(log') >= Len(log)
      /\ LogFormed' /\ LogOnce' /\ Replay'
      /\ \A b \in 1..Len(log) : log'[b] = log[b]
      /\ \A d \in Calls : d # c => (Logged(d)' <=> Logged(d))
      /\ Logged(c)' <=> CanAppend
      /\ \A b \in 1..Len(log') : b \in 1..Len(log) \/ (CanAppend /\ b = Len(log) + 1 /\ log'[b] = s)
      /\ FlushRows(log') = IF CanAppend THEN RowsThen(FlushRows(log), s) ELSE FlushRows(log)
  <2>1. CASE CanAppend
    <3>1. /\ log' \in Seq(Seq(Op)) /\ Len(log') = Len(log) + 1
          /\ log'[Len(log) + 1] = s
          /\ \A b \in 1..Len(log) : log'[b] = log[b]
          /\ LogFormed' /\ LogOnce' /\ Replay'
          /\ \A d \in Calls : Logged(d)' <=> Logged(d) \/ d = c
          /\ FlushRows(log') = RowsThen(FlushRows(log), s)
      BY <1>1, <1>4, <2>1, LogGrows
    <3>2. \A b \in 1..Len(log') : b \in 1..Len(log) \/ b = Len(log) + 1 BY <1>2, <3>1
    <3>. QED BY <1>2, <2>1, <3>1, <3>2
  <2>2. CASE ~CanAppend
    <3>1. log' = log BY <1>4, <2>2
    <3>2. \A d \in Calls : Logged(d)' <=> Logged(d) BY <3>1 DEF Logged
    <3>3. Replay' BY <1>1, <3>1, ReplayFrame DEF IInv
    <3>. QED BY <1>2, <1>6, <2>2, <3>1, <3>2, <3>3, LogFrame DEF IInv
  <2>. QED BY <2>1, <2>2
<1>8. TypeOK' /\ DbTyped'
  <2>1. applied' \in 0..Len(log') BY <1>1, <1>2, <1>7 DEF IInv, TypeOK
  <2>2. ap' = NULL \/
          /\ ap' \in Applying
          /\ ap'.upto \in applied' + 1 .. Len(log') /\ ap'.b \in applied' + 1 .. ap'.upto + 1
          /\ ap'.k \in 1..IF ap'.b <= ap'.upto THEN Len(log'[ap'.b]) ELSE 1
    BY <1>1, <1>2, <1>7, ApInLongerLog DEF IInv
  <2>. QED BY <1>1, <1>3, <1>5, <1>7, <2>1, <2>2 DEF IInv, TypeOK, DbTyped
<1>9. OwnSent'
  <2>1. \A b \in 1..Len(log') : log'[b][1].call \in Calls =>
          log'[b] = sent[log'[b][1].call] /\ pc'[log'[b][1].call] \in {"await", "returned"}
    <3>1. SUFFICES ASSUME NEW b \in 1..Len(log'), log'[b][1].call \in Calls
          PROVE log'[b] = sent[log'[b][1].call] /\ pc'[log'[b][1].call] \in {"await", "returned"}
      OBVIOUS
    <3>2. CASE b \in 1..Len(log)
      <4>1. log'[b] = log[b] BY <1>7, <3>2
      <4>2. log[b][1].call # c BY <1>6, <3>2 DEF Logged
      <4>3. log[b] = sent[log[b][1].call] /\ pc[log[b][1].call] \in {"await", "returned"}
        BY <3>1, <3>2, <4>1 DEF IInv, OwnSent, CallOf
      <4>. QED BY <1>3, <3>1, <4>1, <4>2, <4>3
    <3>3. CASE log'[b] = s BY <1>1, <1>3, <3>3 DEF s
    <3>. QED BY <1>7, <3>2, <3>3
  <2>2. \A d \in Calls : sent[d] # <<>> => Formed(sent[d]) /\ sent[d][1].call = d
    BY DEF IInv, OwnSent
  <2>3. \A d \in Calls : pc'[d] \in {"deflate", "await"} => sent[d] # <<>>
    BY <1>1, <1>3 DEF IInv, OwnSent, s
  <2>. QED BY <1>1, <2>1, <2>2, <2>3 DEF OwnSent, CallOf
<1>10. Promises'
  <2>1. SUFFICES ASSUME NEW d \in Calls
        PROVE  /\ pc'[d] # "returned" => ret'[d] = NULL
               /\ pc'[d] \in {"idle", "deflate"} => promise'[d] = "none"
               /\ promise'[d] \in {"open", "done"} => Logged(d)'
               /\ promise'[d] = "rejected" /\ Logged(d)' => bee = "dead"
    BY <1>1 DEF Promises
  <2>2. CASE d = c BY <1>1, <1>3, <1>5, <1>7, <2>2 DEF IInv, Promises
  <2>3. CASE d # c BY <1>3, <1>5, <1>7, <2>3 DEF IInv, Promises
  <2>. QED BY <2>2, <2>3
<1>11. Sequential => awaits
  BY <1>1, WritePathAssumption DEF IInv, Slot, awaits
<1>12. Solo' /\ Waits' /\ Slot'
  <2>1. \A d \in Calls : IsWriterOp(d)' <=> IsWriterOp(d) BY <1>1 DEF IsWriterOp
  <2>2. Solo' BY <1>1, <1>3 DEF IInv, Solo
  <2>3. Waits'
    <3>1. SUFFICES ASSUME NEW d \in Calls, pc'[d] = "await", ~IsWriterOp(d)
                   PROVE  waitOn'[d] \in Calls
      BY <2>1 DEF Waits
    <3>2. CASE d = c BY <1>2, <1>3, <3>1, <3>2 DEF awaits
    <3>3. CASE d # c BY <1>3, <3>1, <3>3 DEF IInv, Waits
    <3>. QED BY <3>2, <3>3
  <2>4. Slot'
    <3>1. SUFFICES ASSUME Sequential, NEW d \in Calls
          PROVE /\ interactive' = d <=> pc'[d] \in {"deflate", "await"} /\ ~IsWriterOp(d)'
                /\ pc'[d] = "await" /\ ~IsWriterOp(d)' => waitOn'[d] = d
                /\ pc'[d] = "idle" => settled'[d] = NULL
      BY DEF Slot
    <3>2. CASE d = c BY <1>1, <1>3, <1>11, <2>1, <3>1, <3>2 DEF IInv, Slot
    <3>3. CASE d # c BY <1>1, <1>3, <2>1, <3>1, <3>3 DEF IInv, Slot
    <3>. QED BY <3>2, <3>3
  <2>. QED BY <2>2, <2>3, <2>4
<1>13. Own'
  <2>1. SUFFICES ASSUME Sequential, Alone' PROVE OwnOpen' /\ OwnSettled' /\ OwnReturned' /\ OwnTotals'
    BY DEF Own
  <2>2. Alone
    <3>1. \A b \in 1..Len(log) : b \in 1..Len(log') /\ log'[b] = log[b] BY <1>2, <1>7
    <3>. QED BY <2>1, <3>1 DEF Alone
  <2>3. OwnOpen /\ OwnSettled /\ OwnReturned /\ OwnTotals BY <2>1, <2>2 DEF IInv, Own
  <2>4. \A d \in Calls : d # c => pc[d] \notin {"deflate", "await"} BY <1>1, <2>1 DEF IInv, Solo
  <2>5. \A d, r : OwnResult(d, r)' <=> OwnResult(d, r) BY <1>1 DEF OwnResult
  <2>6. OwnOpen'
    <3>1. SUFFICES ASSUME bee = "up", NEW b \in applied + 1 .. Len(log')
          PROVE pc'[log'[b][1].call] = "await" /\ promise'[log'[b][1].call] = "open"
      BY <1>1 DEF OwnOpen, CallOf
    <3>2. applied \in Nat BY DEF IInv, TypeOK
    <3>3. CASE b \in 1..Len(log)
      <4>1. b \in applied + 1 .. Len(log) BY <1>2, <1>7, <3>1, <3>2, <3>3
      <4>2. pc[log[b][1].call] = "await" BY <2>3, <3>1, <4>1 DEF OwnOpen, CallOf
      <4>3. log[b][1].call \in Calls BY <2>2, <3>3 DEF Alone
      <4>. QED BY <1>1, <2>4, <4>2, <4>3
    <3>4. CASE CanAppend /\ log'[b] = s BY <1>1, <1>3, <1>5, <1>11, <2>1, <3>4
    <3>5. b \in 1..Len(log') BY <1>7, <3>1, <3>2
    <3>. QED BY <1>7, <3>3, <3>4, <3>5
  <2>7. OwnSettled' BY <1>1, <2>3, <2>5 DEF OwnSettled
  <2>8. OwnReturned' BY <1>3, <2>3, <2>5 DEF OwnReturned, IsOutcome
  <2>9. OwnTotals'
    <3>1. SUFFICES ASSUME ap # NULL, ap.b <= ap.upto PROVE OwnTotals' BY <1>1 DEF OwnTotals
    <3>2. ap.b \in 1..Len(log) BY <1>2, <3>1, Cursor DEF IInv
    <3>3. log'[ap.b] = log[ap.b] BY <1>7, <3>2
    <3>. QED BY <1>1, <2>3, <3>3 DEF OwnTotals
  <2>. QED BY <2>6, <2>7, <2>8, <2>9
<1>14. RowsKept'
  <2>1. Compressed BY <1>1 DEF IInv, RowsKept
  <2>2. SUFFICES ASSUME Sequential, \A d \in Calls : promise'[d] # "rejected"
                 PROVE  accepted = FlushRows(log') \o DeflatingRows' \o QueuedRows
    BY <1>1, <2>1 DEF RowsKept, NoRowLost, QueuedRows
  <2>3. CanAppend /\ \A d \in Calls : promise[d] # "rejected"
    BY <1>1, <1>5, <2>2 DEF IInv, Promises
  <2>4. accepted = FlushRows(log) \o DeflatingRows \o QueuedRows
    BY <2>2, <2>3 DEF IInv, RowsKept, NoRowLost
  <2>5. FlushRows(log) \in Seq(Params)
    <3>1. Len(log) \in Nat /\ \A b \in 1..Len(log) : Formed(log[b]) BY <1>2 DEF IInv, LogFormed
    <3>. QED BY ONLY <3>1, FlushRowsType
  <2>6. \A d \in Calls : d # c => pc[d] # "deflate" BY <1>1, <2>2 DEF IInv, Solo
  <2>7. DeflatingRows' = <<>>
    <3>1. Deflating' = {} BY <1>3, <2>6 DEF Deflating
    <3>. QED BY <3>1 DEF DeflatingRows
  <2>8. FlushRows(log') = FlushRows(log) \o DeflatingRows
    <3>1. CASE s[1].type = "STMT"
      <4>1. Deflating = {c} BY <1>1, <2>6, <3>1 DEF Deflating, s
      <4>2. DeflatingRows = BatchRows(s) BY <4>1 DEF DeflatingRows, s
      <4>. QED BY <1>1, <1>7, <2>3, <3>1, <4>2 DEF RowsThen, IsOwnFlush
    <3>2. CASE s[1].type # "STMT"
      <4>1. Deflating = {} BY <1>1, <2>6, <3>2 DEF Deflating, s
      <4>2. DeflatingRows = <<>> BY <4>1 DEF DeflatingRows
      <4>3. FlushRows(log') = FlushRows(log) BY <1>7, <2>3, <3>2 DEF RowsThen, IsOwnFlush
      <4>. QED BY <2>5, <4>2, <4>3
    <3>. QED BY <3>1, <3>2
  <2>9. FlushRows(log') \in Seq(Params) BY <2>5, <2>8, DeflatingRowsType, ConcatProperties
  <2>. QED BY <2>4, <2>7, <2>8, <2>9
<1>. QED BY <1>7, <1>8, <1>9, <1>10, <1>12, <1>13, <1>14 DEF IInv

-----------------------------------------------------------------------------
(* Apply.                                                                   *)

\* The operation at the cursor, and what its type says of its batch.
LEMMA CurrentFacts ==
  ASSUME IInv, ap # NULL, ap.b <= ap.upto
  PROVE  /\ ap.b \in 1..Len(log) /\ ap.b \in applied + 1 .. Len(log) /\ Formed(log[ap.b])
         /\ ap.k \in 1..Len(log[ap.b]) /\ Len(log[ap.b]) \in Nat
         /\ Current \in Op /\ Current.k = ap.k /\ Current.call = CallOf(ap.b)
         /\ IsAt(Current, ap.b)
         /\ Current.type \in {"EXEC", "RUN", "WRITER_ADD", "WRITER_DEL"} =>
              ap.k = 1 /\ Len(log[ap.b]) = 1 /\ log[ap.b][1].type # "STMT"
         /\ Current.type = "STMT" => ap.k = 1 /\ Len(log[ap.b]) > 1
         /\ Current.type = "BATCH" =>
              ap.k \in 2..Len(log[ap.b]) - 1 /\ Current.row \in Params
         /\ Current.type = "FLUSH" => ap.k = Len(log[ap.b]) /\ ap.k > 1
<1>1. /\ ap.upto \in Nat /\ ap.b \in Nat /\ ap.k \in Nat /\ applied \in Nat
      /\ ap.upto > applied /\ ap.upto <= Len(log) /\ ap.b > applied
      /\ ap.k >= 1 /\ ap.k <= Len(log[ap.b])
  BY Cursor DEF IInv
<1>2. log \in Seq(Seq(Op)) /\ Len(log) \in Nat BY DEF IInv, TypeOK
<1>3. ap.b \in 1..Len(log) /\ ap.b \in applied + 1 .. Len(log) BY <1>1, <1>2
<1>4. Formed(log[ap.b]) BY <1>3 DEF IInv, LogFormed
<1>5. Len(log[ap.b]) \in Nat /\ ap.k \in 1..Len(log[ap.b]) BY <1>1, <1>4 DEF Formed
<1>6. Current \in Op /\ Current.k = ap.k /\ Current.call = CallOf(ap.b)
  BY <1>4, <1>5 DEF Current, Formed, CallOf
<1>7. IsAt(Current, ap.b) BY <1>5, <1>6 DEF IsAt, Current
<1>8. CASE log[ap.b][1].type \in {"EXEC", "RUN", "WRITER_ADD", "WRITER_DEL"}
  <2>1. Len(log[ap.b]) = 1 /\ ap.k = 1 /\ Current = log[ap.b][1]
    BY <1>4, <1>5, <1>8 DEF Formed, Current
  <2>. QED BY <1>3, <1>4, <1>5, <1>6, <1>7, <1>8, <2>1
<1>9. CASE log[ap.b][1].type \notin {"EXEC", "RUN", "WRITER_ADD", "WRITER_DEL"}
  <2>1. /\ Len(log[ap.b]) > 1 /\ log[ap.b][1].type = "STMT"
        /\ log[ap.b][Len(log[ap.b])].type = "FLUSH"
        /\ \A k \in 2..Len(log[ap.b]) - 1 : log[ap.b][k].type = "BATCH" /\ log[ap.b][k].row \in Params
    BY <1>4, <1>9 DEF Formed
  <2>2. ap.k = 1 \/ ap.k \in 2..Len(log[ap.b]) - 1 \/ ap.k = Len(log[ap.b]) BY <1>5
  <2>3. CASE ap.k = 1
    <3>1. Current.type = "STMT" BY <2>1, <2>3 DEF Current
    <3>. QED BY <1>3, <1>4, <1>5, <1>6, <1>7, <2>1, <2>3, <3>1
  <2>4. CASE ap.k \in 2..Len(log[ap.b]) - 1
    <3>1. Current.type = "BATCH" /\ Current.row \in Params BY <2>1, <2>4 DEF Current
    <3>. QED BY <1>3, <1>4, <1>5, <1>6, <1>7, <2>4, <3>1
  <2>5. CASE ap.k = Len(log[ap.b])
    <3>1. Current.type = "FLUSH" BY <2>1, <2>5 DEF Current
    <3>. QED BY <1>3, <1>4, <1>5, <1>6, <1>7, <2>1, <2>5, <3>1
  <2>. QED BY <2>2, <2>3, <2>4, <2>5
<1>. QED BY <1>8, <1>9

\* The cursor moves on: the operation it was at is behind it now.
LEMMA AdvanceFacts ==
  ASSUME IInv, ap # NULL, ap.b <= ap.upto,
         NEW a \in Applying, a.upto = ap.upto, a.b = ap.b, a.k = ap.k,
         ap' = Advance(a), UNCHANGED <<log, applied>>
  PROVE  /\ ap' \in Applying /\ ap' # NULL
         /\ ap'.upto \in applied + 1 .. Len(log) /\ ap'.b \in applied + 1 .. ap'.upto + 1
         /\ ap'.k \in 1..IF ap'.b <= ap'.upto THEN Len(log[ap'.b]) ELSE 1
         /\ ap'.upto = ap.upto
         /\ \/ ap'.b = ap.b /\ ap'.k = ap.k + 1 /\ ap.k < Len(log[ap.b])
            \/ ap'.b = ap.b + 1 /\ ap'.k = 1 /\ ap.k = Len(log[ap.b])
         /\ ap'.changes = a.changes /\ ap'.last = a.last /\ ap'.errors = a.errors
         /\ \A b \in 1..Len(log) : \A k \in 1..Len(log[b]) :
              Done(b, k)' <=> Done(b, k) \/ (b = ap.b /\ k = ap.k)
<1>1. /\ ap.upto \in Nat /\ ap.b \in Nat /\ ap.k \in Nat /\ applied \in Nat /\ Len(log) \in Nat
      /\ ap.upto > applied /\ ap.upto <= Len(log) /\ ap.b > applied
      /\ ap.k >= 1 /\ ap.k <= Len(log[ap.b]) /\ Len(log[ap.b]) \in Nat
  BY Cursor, CurrentFacts DEF IInv
<1>2. \A b \in 1..Len(log) : Len(log[b]) \in Nat /\ Len(log[b]) >= 1
  BY DEF IInv, LogFormed, Formed
<1>3. /\ ap' \in Applying /\ ap'.upto = ap.upto
      /\ ap'.changes = a.changes /\ ap'.last = a.last /\ ap'.errors = a.errors
      /\ \/ ap'.b = ap.b /\ ap'.k = ap.k + 1 /\ ap.k < Len(log[ap.b])
         \/ ap'.b = ap.b + 1 /\ ap'.k = 1 /\ ap.k = Len(log[ap.b])
  <2>1. CASE ap.k < Len(log[ap.b])
    <3>1. ap' = [a EXCEPT !.k = ap.k + 1] BY <2>1 DEF Advance
    <3>2. ap.k + 1 \in Nat BY <1>1
    <3>3. /\ ap' \in Applying /\ ap'.upto = a.upto /\ ap'.b = a.b /\ ap'.k = ap.k + 1
          /\ ap'.changes = a.changes /\ ap'.last = a.last /\ ap'.errors = a.errors
      BY <3>1, <3>2 DEF Applying
    <3>. QED BY <2>1, <3>3
  <2>2. CASE ~(ap.k < Len(log[ap.b]))
    <3>1. ap' = [a EXCEPT !.b = ap.b + 1, !.k = 1] BY <2>2 DEF Advance
    <3>2. ap.b + 1 \in Nat /\ ap.k = Len(log[ap.b]) BY <1>1, <2>2
    <3> DEFINE n == ap.b + 1
               x == [a EXCEPT !.b = n]
    <3>. HIDE DEF n
    <3>4. n \in Nat /\ ap' = [x EXCEPT !.k = 1] BY <3>1, <3>2 DEF n
    <3>5. /\ x \in Applying /\ x.upto = a.upto /\ x.b = n
          /\ x.changes = a.changes /\ x.last = a.last /\ x.errors = a.errors
      BY <3>4 DEF Applying
    <3>. HIDE DEF x
    <3>6. /\ ap' \in Applying /\ ap'.upto = x.upto /\ ap'.b = x.b /\ ap'.k = 1
          /\ ap'.changes = x.changes /\ ap'.last = x.last /\ ap'.errors = x.errors
      BY <3>4, <3>5 DEF Applying
    <3>3. /\ ap' \in Applying /\ ap'.upto = a.upto /\ ap'.b = ap.b + 1 /\ ap'.k = 1
          /\ ap'.changes = a.changes /\ ap'.last = a.last /\ ap'.errors = a.errors
      BY <3>5, <3>6 DEF n
    <3>. QED BY <3>2, <3>3
  <2>. QED BY <2>1, <2>2
<1>4. ap' # NULL BY <1>3, NullAssumption
<1>5. ap'.upto \in applied + 1 .. Len(log) /\ ap'.b \in applied + 1 .. ap'.upto + 1
  BY <1>1, <1>3
<1>6. ap'.k \in 1..IF ap'.b <= ap'.upto THEN Len(log[ap'.b]) ELSE 1
  <2>1. CASE ap'.b = ap.b /\ ap'.k = ap.k + 1 /\ ap.k < Len(log[ap.b])
    <3>1. ap'.b <= ap'.upto /\ log[ap'.b] = log[ap.b] BY <1>3, <2>1
    <3>2. ap.k + 1 \in 1..Len(log[ap.b]) BY <1>1, <2>1
    <3>. QED BY <2>1, <3>1, <3>2
  <2>2. CASE ap'.b = ap.b + 1 /\ ap'.k = 1
    <3>1. ap'.b <= ap'.upto => ap'.b \in 1..Len(log) BY <1>1, <1>3, <2>2
    <3>2. ap'.b <= ap'.upto => Len(log[ap'.b]) \in Nat /\ Len(log[ap'.b]) >= 1 BY <1>2, <3>1
    <3>. QED BY <2>2, <3>2
  <2>. QED BY <1>3, <2>1, <2>2
<1>7. ASSUME NEW b \in 1..Len(log), NEW k \in 1..Len(log[b])
      PROVE  Done(b, k)' <=> Done(b, k) \/ (b = ap.b /\ k = ap.k)
  <2>1. b \in Nat /\ k \in Nat /\ k >= 1 /\ k <= Len(log[b]) BY <1>1, <1>2
  <2>2. Done(b, k)' <=> b <= applied \/ b < ap'.b \/ (b = ap'.b /\ k < ap'.k) BY <1>4 DEF Done
  <2>3. Done(b, k) <=> b <= applied \/ b < ap.b \/ (b = ap.b /\ k < ap.k) BY DEF Done
  <2>4. CASE ap'.b = ap.b /\ ap'.k = ap.k + 1 BY <1>1, <2>1, <2>2, <2>3, <2>4
  <2>5. CASE ap'.b = ap.b + 1 /\ ap'.k = 1 /\ ap.k = Len(log[ap.b])
    <3>1. b < ap'.b <=> b < ap.b \/ b = ap.b BY <1>1, <2>1, <2>5
    <3>2. ~(k < ap'.k) BY <2>1, <2>5
    <3>3. b = ap.b => k < ap.k \/ k = ap.k BY <1>1, <2>1, <2>5
    <3>. QED BY <2>2, <2>3, <3>1, <3>2, <3>3
  <2>. QED BY <1>3, <2>4, <2>5
<1>. QED BY <1>3, <1>4, <1>5, <1>6, <1>7

\* Of a lone writer that awaits its calls, at most one batch is unapplied:
\* that of the call in progress.
LEMMA OneUnapplied ==
  ASSUME IInv, Sequential, Alone, bee = "up",
         NEW a \in applied + 1 .. Len(log), NEW b \in applied + 1 .. Len(log)
  PROVE  a = b
<1>1. a \in 1..Len(log) /\ b \in 1..Len(log) BY DEF IInv, TypeOK
<1>2. CallOf(a) \in Calls /\ CallOf(b) \in Calls BY <1>1 DEF Alone, CallOf
<1>3. pc[CallOf(a)] = "await" /\ pc[CallOf(b)] = "await" BY DEF IInv, Own, OwnOpen
<1>4. CallOf(a) = CallOf(b) BY <1>2, <1>3 DEF IInv, Solo
<1>. QED BY <1>1, <1>4 DEF IInv, LogOnce

\* What a step of apply leaves alone.
LEMMA ApplyFrame ==
  ASSUME IInv, UNCHANGED <<queue, accepted, interactive, pc, sent, waitOn, ret, log, direct>>,
         \A c \in Calls : promise[c] = "rejected" => promise'[c] = "rejected"
  PROVE  LogFormed' /\ LogOnce' /\ OwnSent' /\ Solo' /\ Waits' /\ RowsKept'
<1>1. LogFormed' /\ LogOnce' /\ OwnSent' BY LogFrame, SentFrame DEF IInv
<1>2. Solo' /\ Waits' BY DEF IInv, Solo, Waits, IsWriterOp
<1>3. RowsKept' BY RowsFrame DEF IInv
<1>. QED BY <1>1, <1>2, <1>3

\* The cursor moves, or apply stops, and the view stays.
LEMMA ReplayMoves ==
  ASSUME IInv, UNCHANGED <<log, db, direct>>,
         bee' = "up" => bee = "up" /\ (direct = 0 => files' = "none"),
         bee' = "up" => \A b \in 1..Len(log) : \A k \in 1..Len(log[b]) :
                          Done(b, k) => Done(b, k)',
         \A b \in 1..Len(log) : \A k \in 1..Len(log[b]) :
           Done(b, k)' /\ Writes(log[b][k]) => Done(b, k)
  PROVE  Replay'
<1>1. SUFFICES ASSUME direct = 0
      PROVE (bee' = "up" => files' = "none") /\ InLogOrder' /\ Behind' /\ Caught'
  BY DEF Replay
<1>2. InLogOrder /\ Behind /\ Caught BY <1>1 DEF IInv, Replay
<1>3. InLogOrder' BY <1>2 DEF InLogOrder, IsAt
<1>4. Behind'
  <2>1. SUFFICES ASSUME bee' = "up", NEW i \in 1..Len(db)
                 PROVE  \E b \in 1..Len(log) : IsAt(db[i], b)' /\ Done(b, db[i].k)'
    BY DEF Behind
  <2>2. PICK b \in 1..Len(log) : IsAt(db[i], b) /\ Done(b, db[i].k) BY <1>2, <2>1 DEF Behind
  <2>3. db[i].k \in 1..Len(log[b]) BY <2>2 DEF IsAt
  <2>4. Done(b, db[i].k)' BY <2>1, <2>2, <2>3 DEF Done
  <2>. QED BY <2>2, <2>4 DEF IsAt
<1>5. Caught' BY <1>2 DEF Caught, Writes
<1>. QED BY <1>1, <1>3, <1>4, <1>5

LEMMA ApplyStartStep == ASSUME IInv, ApplyStart PROVE IInv'
<1>. USE DEF ApplyStart, callVars
<1>1. PICK g \in 1..MaxGroup :
        /\ applied + g <= Len(log)
        /\ ap' = [upto |-> applied + g, b |-> applied + 1, k |-> 1,
                  changes |-> 0, last |-> NULL, errors |-> 0]
  OBVIOUS
<1>2. applied \in Nat /\ Len(log) \in Nat /\ g \in Nat /\ g >= 1 /\ applied + g <= Len(log)
  BY <1>1, WritePathAssumption DEF IInv, TypeOK
<1>3. /\ ap' \in Applying /\ ap'.upto = applied + g /\ ap'.b = applied + 1 /\ ap'.k = 1
      /\ ap'.changes = 0 /\ ap'.last = NULL /\ ap'.errors = 0
  BY <1>1, <1>2 DEF Applying, Rows
<1>4. ap' # NULL BY <1>3, NullAssumption
<1>5. applied + 1 \in 1..Len(log) BY <1>2
<1>6. Len(log[applied + 1]) \in Nat /\ Len(log[applied + 1]) >= 1
  BY <1>5 DEF IInv, LogFormed, Formed
<1>7. /\ ap'.upto \in applied + 1 .. Len(log) /\ ap'.b \in applied + 1 .. ap'.upto + 1
      /\ ap'.k \in 1..IF ap'.b <= ap'.upto THEN Len(log[ap'.b]) ELSE 1
  BY <1>2, <1>3, <1>6
<1>8. TypeOK' /\ DbTyped' BY <1>3, <1>7 DEF IInv, TypeOK, DbTyped
<1>9. \A b \in 1..Len(log) : \A k \in 1..Len(log[b]) : Done(b, k)' <=> Done(b, k)
  <2>1. TAKE b \in 1..Len(log)
  <2>2. TAKE k \in 1..Len(log[b])
  <2>3. k \in Nat /\ k >= 1 /\ b \in Nat
    <3>1. Len(log[b]) \in Nat BY DEF IInv, LogFormed, Formed
    <3>. QED BY <1>2, <3>1
  <2>4. Done(b, k)' <=> b <= applied \/ b < applied + 1 BY <1>3, <1>4, <2>3 DEF Done
  <2>5. Done(b, k) <=> b <= applied BY DEF Done
  <2>. QED BY <1>2, <2>3, <2>4, <2>5
<1>10. Replay' BY <1>9, ReplayMoves DEF IInv, Replay
<1>11. Own'
  <2>1. SUFFICES ASSUME Sequential, Alone PROVE OwnOpen' /\ OwnSettled' /\ OwnReturned' /\ OwnTotals'
    BY DEF Own, Alone
  <2>2. OwnOpen' /\ OwnSettled' /\ OwnReturned'
    BY <2>1 DEF IInv, Own, OwnOpen, OwnSettled, OwnReturned, OwnResult, CallOf
  <2>3. OwnTotals' BY <1>3 DEF OwnTotals
  <2>. QED BY <2>2, <2>3
<1>12. Slot' /\ Promises' BY SlotFrame, PromisesFrame DEF IInv
<1>. QED BY <1>8, <1>10, <1>11, <1>12, ApplyFrame DEF IInv

LEMMA ApplyWriterStep == ASSUME IInv, ApplyWriter PROVE IInv'
<1>. USE DEF ApplyWriter, callVars
<1>1. bee = "up" /\ ap # NULL /\ ap.b <= ap.upto /\ Current.type \in {"WRITER_ADD", "WRITER_DEL"}
  BY DEF At
<1>2. ap \in Applying BY <1>1 DEF IInv, TypeOK
<1>3. /\ ap.k = 1 /\ Len(log[ap.b]) = 1 /\ ap.b \in applied + 1 .. Len(log)
  BY <1>1, CurrentFacts
<1>4. /\ ap' \in Applying /\ ap' # NULL
      /\ ap'.upto \in applied + 1 .. Len(log) /\ ap'.b \in applied + 1 .. ap'.upto + 1
      /\ ap'.k \in 1..IF ap'.b <= ap'.upto THEN Len(log[ap'.b]) ELSE 1
      /\ ap'.upto = ap.upto /\ (ap'.k = 1 \/ ap'.b = ap.b)
      /\ ap'.b = ap.b + 1
      /\ \A b \in 1..Len(log) : \A k \in 1..Len(log[b]) :
              Done(b, k)' <=> Done(b, k) \/ (b = ap.b /\ k = ap.k)
  BY <1>1, <1>2, <1>3, AdvanceFacts
<1>5. TypeOK' /\ DbTyped' BY <1>4 DEF IInv, TypeOK, DbTyped
<1>6. Replay'
  <2>1. \A b \in 1..Len(log) : \A k \in 1..Len(log[b]) : Done(b, k) => Done(b, k)' BY <1>4
  <2>2. \A b \in 1..Len(log) : \A k \in 1..Len(log[b]) :
          Done(b, k)' /\ Writes(log[b][k]) => Done(b, k)
    BY <1>1, <1>4 DEF Writes, Current
  <2>. QED BY <1>1, <2>1, <2>2, ReplayMoves DEF IInv, Replay
<1>7. Own'
  <2>1. SUFFICES ASSUME Sequential, Alone PROVE OwnOpen' /\ OwnSettled' /\ OwnReturned' /\ OwnTotals'
    BY DEF Own, Alone
  <2>2. OwnOpen' /\ OwnSettled' /\ OwnReturned'
    BY <2>1 DEF IInv, Own, OwnOpen, OwnSettled, OwnReturned, OwnResult, CallOf
  <2>3. OwnTotals'
    <3>1. SUFFICES ASSUME ap'.b <= ap'.upto PROVE FALSE BY DEF OwnTotals
    <3>2. ap'.b \in applied + 1 .. Len(log) /\ ap'.b # ap.b
      <4>1. applied \in Nat /\ Len(log) \in Nat BY DEF IInv, TypeOK
      <4>. QED BY ONLY <1>3, <1>4, <3>1, <4>1
    <3>. QED BY <1>1, <1>3, <2>1, <3>2, OneUnapplied
  <2>. QED BY <2>2, <2>3
<1>8. Slot' /\ Promises' BY SlotFrame, PromisesFrame DEF IInv
<1>. QED BY <1>5, <1>6, <1>7, <1>8, ApplyFrame DEF IInv

\* Apply threw: nothing is said of what the view would have held.
LEMMA DieFacts ==
  ASSUME IInv, Die, UNCHANGED <<log, pc, ret>>
  PROVE  /\ promise' \in [Calls -> {"none", "open", "done", "rejected"}]
         /\ \A c \in Calls : promise[c] = "rejected" => promise'[c] = "rejected"
         /\ Promises' /\ ap' = NULL /\ bee' = "dead" /\ applied' = applied /\ writable' = writable
         /\ \A b, k : Done(b, k)' => Done(b, k)
<1>. USE DEF Die
<1>1. promise \in [Calls -> {"none", "open", "done", "rejected"}] BY DEF IInv, TypeOK
<1>2. \A c \in Calls : promise'[c] = IF promise[c] = "open" THEN "rejected" ELSE promise[c]
  OBVIOUS
<1>3. promise' \in [Calls -> {"none", "open", "done", "rejected"}] BY <1>1
<1>4. \A c \in Calls : Logged(c)' <=> Logged(c) BY DEF Logged
<1>5. Promises' BY <1>1, <1>2, <1>4 DEF IInv, Promises
<1>6. \A b, k : Done(b, k)' => Done(b, k) BY DEF Done
<1>. QED BY <1>2, <1>3, <1>5, <1>6

LEMMA ApplyBadStmtStep == ASSUME IInv, ApplyBadStmt PROVE IInv'
<1>. USE DEF ApplyBadStmt
<1>1. /\ promise' \in [Calls -> {"none", "open", "done", "rejected"}]
      /\ \A c \in Calls : promise[c] = "rejected" => promise'[c] = "rejected"
      /\ Promises' /\ ap' = NULL /\ bee' = "dead" /\ applied' = applied /\ writable' = writable
      /\ \A b, k : Done(b, k)' => Done(b, k)
  BY DieFacts
<1>2. TypeOK' /\ DbTyped' BY <1>1 DEF IInv, TypeOK, DbTyped
<1>3. Replay' BY <1>1, ReplayMoves
<1>4. Own' BY <1>1 DEF IInv, Own, OwnOpen, OwnSettled, OwnReturned, OwnTotals, OwnResult, Alone
<1>5. Slot' BY SlotFrame DEF IInv
<1>. QED BY <1>1, <1>2, <1>3, <1>4, <1>5, ApplyFrame DEF IInv

LEMMA ApplyBeginStep == ASSUME IInv, ApplyBegin PROVE IInv'
<1>. USE DEF ApplyBegin
<1>1. CASE files # "none"
  <2>1. /\ promise' \in [Calls -> {"none", "open", "done", "rejected"}]
        /\ \A c \in Calls : promise[c] = "rejected" => promise'[c] = "rejected"
        /\ Promises' /\ ap' = NULL /\ bee' = "dead" /\ applied' = applied /\ writable' = writable
        /\ \A b, k : Done(b, k)' => Done(b, k)
    BY <1>1, DieFacts
  <2>2. TypeOK' /\ DbTyped' BY <1>1, <2>1 DEF IInv, TypeOK, DbTyped
  <2>3. Replay' BY <2>1, ReplayMoves
  <2>4. Own' BY <2>1 DEF IInv, Own, OwnOpen, OwnSettled, OwnReturned, OwnTotals, OwnResult, Alone
  <2>5. Slot' BY SlotFrame DEF IInv
  <2>. QED BY <2>1, <2>2, <2>3, <2>4, <2>5, ApplyFrame DEF IInv
<1>2. CASE files = "none"
  <2>1. TypeOK' /\ DbTyped' BY <1>2 DEF IInv, TypeOK, DbTyped
  <2>2. Slot' /\ Promises' /\ Own' /\ Replay'
    BY <1>2, SlotFrame, PromisesFrame, OwnFrame, ReplayFrame DEF IInv
  <2>. QED BY <1>2, <2>1, <2>2, ApplyFrame DEF IInv
<1>. QED BY <1>1, <1>2

LEMMA ApplyDoneStep == ASSUME IInv, ApplyDone PROVE IInv'
<1>. USE DEF ApplyDone
<1>1. /\ ap # NULL /\ bee = "up" /\ applied \in Nat /\ ap.upto \in Nat /\ Len(log) \in Nat
      /\ ap.upto > applied /\ ap.upto <= Len(log) /\ ap.b = ap.upto + 1 /\ ap.k = 1
  <2>1. ap # NULL /\ bee = "up" /\ ap.b > ap.upto /\ Len(log) \in Nat BY DEF IInv, TypeOK
  <2>2. /\ applied \in Nat /\ ap.upto \in Nat /\ ap.b \in Nat /\ ap.upto > applied
        /\ ap.upto <= Len(log) /\ ap.b <= ap.upto + 1 /\ ap.k = 1
    BY <2>1, Cursor DEF IInv
  <2>. QED BY <2>1, <2>2
<1>2. promise \in [Calls -> {"none", "open", "done", "rejected"}] BY DEF IInv, TypeOK
<1>3. promise' \in [Calls -> {"none", "open", "done", "rejected"}] BY <1>2
<1>4. \A c \in Calls :
        \/ promise'[c] = "done" /\ \E k \in applied + 1 .. ap.upto : log[k][1].call = c
        \/ promise'[c] = promise[c] /\ \A k \in applied + 1 .. ap.upto : log[k][1].call # c
  OBVIOUS
<1>5. applied + 1 .. ap.upto \subseteq 1..Len(log) BY <1>1
<1>6. \A c \in Calls : promise'[c] = promise[c] \/ (promise'[c] = "done" /\ Logged(c))
  BY <1>4, <1>5 DEF Logged
<1>7. \A c \in Calls : promise[c] = "rejected" => promise'[c] = "rejected"
  BY <1>1, <1>6 DEF IInv, Promises
<1>8. TypeOK' /\ DbTyped' BY <1>1, <1>3 DEF IInv, TypeOK, DbTyped
<1>9. Promises'
  <2>1. \A c \in Calls : Logged(c)' <=> Logged(c) BY DEF Logged
  <2>2. \A c \in Calls : Logged(c) => pc[c] \in {"await", "returned"}
    BY DEF Logged, IInv, OwnSent, CallOf
  <2>. QED BY <1>6, <2>1, <2>2 DEF IInv, Promises
<1>10. Replay'
  <2>1. \A b \in 1..Len(log) : \A k \in 1..Len(log[b]) : Done(b, k)' <=> Done(b, k)
    <3>1. TAKE b \in 1..Len(log)
    <3>2. TAKE k \in 1..Len(log[b])
    <3>3. b \in Nat /\ k \in Nat /\ k >= 1
      <4>1. Len(log[b]) \in Nat BY DEF IInv, LogFormed, Formed
      <4>. QED BY <1>1, <4>1
    <3>4. Done(b, k)' <=> b <= ap.upto BY DEF Done
    <3>5. Done(b, k) <=> b <= applied \/ b < ap.b \/ (b = ap.b /\ k < ap.k) BY <1>1 DEF Done
    <3>. QED BY <1>1, <3>3, <3>4, <3>5
  <2>. QED BY <2>1, ReplayMoves DEF IInv, Replay
<1>11. Own'
  <2>1. SUFFICES ASSUME Sequential, Alone PROVE OwnOpen' /\ OwnSettled' /\ OwnReturned' /\ OwnTotals'
    BY DEF Own, Alone
  <2>2. OwnSettled' /\ OwnReturned' /\ OwnTotals'
    BY <2>1 DEF IInv, Own, OwnSettled, OwnReturned, OwnTotals, OwnResult
  <2>3. OwnOpen'
    <3>1. SUFFICES ASSUME NEW b \in ap.upto + 1 .. Len(log)
          PROVE pc[log[b][1].call] = "await" /\ promise'[log[b][1].call] = "open"
      BY DEF OwnOpen, CallOf
    <3>2. b \in 1..Len(log) /\ b \in applied + 1 .. Len(log) /\ b > ap.upto BY <1>1
    <3>3. log[b][1].call \in Calls BY <2>1, <3>2 DEF Alone
    <3>4. pc[log[b][1].call] = "await" /\ promise[log[b][1].call] = "open"
      BY <1>1, <2>1, <3>2 DEF IInv, Own, OwnOpen, CallOf
    <3>5. \A k \in applied + 1 .. ap.upto : log[k][1].call # log[b][1].call
      <4>1. TAKE k \in applied + 1 .. ap.upto
      <4>2. k \in 1..Len(log) /\ k # b BY <1>1, <3>2
      <4>. QED BY <3>2, <4>2 DEF IInv, LogOnce, CallOf
    <3>6. promise'[log[b][1].call] = promise[log[b][1].call] BY <1>4, <3>3, <3>5
    <3>. QED BY <3>4, <3>6
  <2>. QED BY <2>2, <2>3
<1>12. Slot' BY SlotFrame DEF IInv
<1>. QED BY <1>7, <1>8, <1>9, <1>10, <1>11, <1>12, ApplyFrame DEF IInv

\* What settles goes to the call whose Deferred is in the slot.
LEMMA SettleFacts ==
  ASSUME IInv, NEW v \in OutcomeType, Settle(v), UNCHANGED <<pc, interactive, sent, waitOn>>
  PROVE  /\ settled' \in [Calls -> {NULL} \cup OutcomeType]
         /\ \A c \in Calls : settled'[c] = settled[c] \/ (interactive = c /\ settled'[c] = v)
         /\ Slot'
<1>1. settled \in [Calls -> {NULL} \cup OutcomeType] /\ interactive \in Calls \cup {NULL}
  BY DEF IInv, TypeOK
<1>2. settled' \in [Calls -> {NULL} \cup OutcomeType] BY <1>1 DEF Settle
<1>3. \A c \in Calls : settled'[c] = settled[c] \/ (interactive = c /\ settled'[c] = v)
  BY <1>1 DEF Settle
<1>4. Slot'
  <2>1. \A c \in Calls : IsWriterOp(c)' <=> IsWriterOp(c) BY DEF IsWriterOp
  <2>2. SUFFICES ASSUME Sequential, NEW c \in Calls
        PROVE /\ interactive' = c <=> pc'[c] \in {"deflate", "await"} /\ ~IsWriterOp(c)'
              /\ pc'[c] = "await" /\ ~IsWriterOp(c)' => waitOn'[c] = c
              /\ pc'[c] = "idle" => settled'[c] = NULL
    BY DEF Slot
  <2>3. pc[c] = "idle" => settled'[c] = NULL BY <1>3, <2>2 DEF IInv, Slot
  <2>. QED BY <2>1, <2>2, <2>3 DEF IInv, Slot
<1>. QED BY <1>2, <1>3, <1>4

\* Of a lone writer: it is the call whose operation is applied.
LEMMA SettledIsOwn ==
  ASSUME IInv, Sequential, Alone, bee = "up", ap # NULL, ap.b <= ap.upto,
         NEW v, OwnResult(CallOf(ap.b), v), UNCHANGED sent,
         \A c \in Calls : settled'[c] = settled[c] \/ (interactive = c /\ settled'[c] = v)
  PROVE  OwnSettled'
<1>1. ap.b \in 1..Len(log) /\ ap.b \in applied + 1 .. Len(log) BY CurrentFacts
<1>2. CallOf(ap.b) \in Calls /\ pc[CallOf(ap.b)] = "await"
  BY <1>1 DEF Alone, CallOf, IInv, Own, OwnOpen
<1>3. \A c \in Calls : interactive = c => c = CallOf(ap.b)
  <2>1. TAKE c \in Calls
  <2>2. interactive = c => pc[c] \in {"deflate", "await"} BY DEF IInv, Slot
  <2>. QED BY <1>2, <2>2 DEF IInv, Solo
<1>4. \A c, r : OwnResult(c, r)' <=> OwnResult(c, r) BY DEF OwnResult
<1>5. OwnSettled BY DEF IInv, Own
<1>. QED BY <1>3, <1>4, <1>5 DEF OwnSettled

LEMMA ApplyFlushStep == ASSUME IInv, ApplyFlush PROVE IInv'
<1>. USE DEF ApplyFlush
<1> DEFINE v == Outcome(Current, TRUE, ap.changes, ap.last, ap.errors)
<1>1. bee = "up" /\ ap # NULL /\ ap.b <= ap.upto /\ Current.type = "FLUSH" BY DEF At
<1>2. ap \in Applying BY <1>1 DEF IInv, TypeOK
<1>3. /\ ap.b \in applied + 1 .. Len(log) /\ Formed(log[ap.b]) /\ Len(log[ap.b]) \in Nat
      /\ ap.k = Len(log[ap.b]) /\ ap.k > 1 /\ Current \in Op /\ Current.call = CallOf(ap.b)
  BY <1>1, CurrentFacts
<1>4. log[ap.b][1].type = "STMT" BY <1>3 DEF Formed
<1>5. /\ ap' \in Applying /\ ap' # NULL
      /\ ap'.upto \in applied + 1 .. Len(log) /\ ap'.b \in applied + 1 .. ap'.upto + 1
      /\ ap'.k \in 1..IF ap'.b <= ap'.upto THEN Len(log[ap'.b]) ELSE 1
      /\ ap'.upto = ap.upto
      /\ \/ ap'.b = ap.b /\ ap'.k = ap.k + 1 /\ ap.k < Len(log[ap.b])
         \/ ap'.b = ap.b + 1 /\ ap'.k = 1 /\ ap.k = Len(log[ap.b])
      /\ \A b \in 1..Len(log) : \A k \in 1..Len(log[b]) :
              Done(b, k)' <=> Done(b, k) \/ (b = ap.b /\ k = ap.k)
  BY <1>1, <1>2, AdvanceFacts
<1>6. ap'.b = ap.b + 1 BY <1>3, <1>5
<1>7. v \in OutcomeType BY <1>2, <1>3 DEF Outcome, OutcomeType, Applying, Op
<1>8. Settle(v) OBVIOUS
<1>. HIDE DEF v
<1>9. /\ settled' \in [Calls -> {NULL} \cup OutcomeType]
      /\ \A c \in Calls : settled'[c] = settled[c] \/ (interactive = c /\ settled'[c] = v)
      /\ Slot'
  BY <1>7, <1>8, SettleFacts
<1>10. TypeOK' /\ DbTyped' BY <1>5, <1>9 DEF IInv, TypeOK, DbTyped
<1>11. Replay'
  <2>1. \A b \in 1..Len(log) : \A k \in 1..Len(log[b]) : Done(b, k) => Done(b, k)' BY <1>5
  <2>2. \A b \in 1..Len(log) : \A k \in 1..Len(log[b]) :
          Done(b, k)' /\ Writes(log[b][k]) => Done(b, k)
    BY <1>1, <1>5 DEF Writes, Current
  <2>. QED BY <1>1, <2>1, <2>2, ReplayMoves DEF IInv, Replay
<1>12. Own'
  <2>1. SUFFICES ASSUME Sequential, Alone PROVE OwnOpen' /\ OwnSettled' /\ OwnReturned' /\ OwnTotals'
    BY DEF Own, Alone
  <2>2. OwnOpen' /\ OwnReturned'
    BY <2>1 DEF IInv, Own, OwnOpen, OwnReturned, OwnResult, CallOf
  <2>3. OwnTotals'
    <3>1. SUFFICES ASSUME ap'.b <= ap'.upto PROVE FALSE BY DEF OwnTotals
    <3>3. applied \in Nat /\ Len(log) \in Nat BY DEF IInv, TypeOK
    <3>4. ap'.b \in Nat /\ ap'.upto \in Nat /\ ap.b \in Nat BY <1>2, <1>5 DEF Applying
    <3>2. ap'.b \in applied + 1 .. Len(log) /\ ap'.b # ap.b BY <1>5, <1>6, <3>1, <3>3, <3>4
    <3>. QED BY <1>1, <1>3, <2>1, <3>2, OneUnapplied
  <2>4. OwnResult(CallOf(ap.b), v)
    <3>1. CallOf(ap.b) \in Calls /\ sent[CallOf(ap.b)] = log[ap.b]
      <4>1. ap.b \in 1..Len(log) BY <1>1, CurrentFacts
      <4>. QED BY <2>1, <4>1 DEF Alone, CallOf, IInv, OwnSent
    <3>2. Len(BatchRows(log[ap.b])) = ap.k - 2 BY <1>3, <1>4, BatchRowsType
    <3>3. Totals(ap, BatchRows(log[ap.b]), ap.k - 2)
      <4>1. OwnTotals BY <2>1 DEF IInv, Own
      <4>3. ap.k > 1 /\ ap.k \in Nat BY <1>3
      <4>2. ap.k # 1 BY ONLY <4>3
      <4>. QED BY <1>1, <1>4, <4>1, <4>2 DEF OwnTotals
    <3>4. v.by = CallOf(ap.b) /\ v.changes = ap.changes /\ v.last = ap.last /\ v.errors = ap.errors
      BY <1>3 DEF v, Outcome
    <3>. QED BY <3>1, <3>2, <3>3, <3>4 DEF OwnResult, Totals
  <2>5. OwnSettled' BY <1>1, <1>9, <2>1, <2>4, SettledIsOwn
  <2>. QED BY <2>2, <2>3, <2>5
<1>13. Promises' BY PromisesFrame DEF IInv
<1>. QED BY <1>9, <1>10, <1>11, <1>12, <1>13, ApplyFrame DEF IInv

-----------------------------------------------------------------------------
(* The totals of a flush.                                                   *)

LEMMA GoodFacts ==
  ASSUME NEW rows, NEW n \in Nat
  PROVE  IsFiniteSet(Good(rows, n)) /\ Cardinality(Good(rows, n)) \in Nat
<1>1. IsFiniteSet(1..n) BY FS_Interval
<1>2. Good(rows, n) \in SUBSET (1..n) BY DEF Good
<1>3. IsFiniteSet(Good(rows, n)) BY <1>1, <1>2, FS_Subset
<1>. QED BY <1>3, FS_CardinalityType

\* Before the first row.
LEMMA TotalsFirst ==
  ASSUME NEW rows
  PROVE  Cardinality(Good(rows, 0)) = 0 /\ LastGood(rows, 0) = NULL
<1>1. Good(rows, 0) = {} BY DEF Good
<1>. QED BY <1>1, FS_EmptySet DEF LastGood

\* One row more.
LEMMA TotalsNext ==
  ASSUME NEW rows, NEW n \in Nat
  PROVE  /\ rows[n + 1] \notin BadParams =>
              /\ Cardinality(Good(rows, n + 1)) = Cardinality(Good(rows, n)) + 1
              /\ LastGood(rows, n + 1) = rows[n + 1]
         /\ rows[n + 1] \in BadParams =>
              /\ Cardinality(Good(rows, n + 1)) = Cardinality(Good(rows, n))
              /\ LastGood(rows, n + 1) = LastGood(rows, n)
<1>1. \A k : k \in 1..n + 1 <=> k \in 1..n \/ k = n + 1 OBVIOUS
<1>2. CASE rows[n + 1] \notin BadParams
  <2>1. Good(rows, n + 1) = Good(rows, n) \cup {n + 1} BY <1>1, <1>2 DEF Good
  <2>2. n + 1 \notin Good(rows, n) BY DEF Good
  <2>3. Cardinality(Good(rows, n + 1)) = Cardinality(Good(rows, n)) + 1
    BY <2>1, <2>2, GoodFacts, FS_AddElement
  <2> DEFINE G == Good(rows, n + 1)
             x == CHOOSE k \in G : \A j \in G : k >= j
  <2>4. n + 1 \in G /\ \A j \in G : j <= n + 1 /\ j \in Nat BY <1>2 DEF Good
  <2>. HIDE DEF G
  <2>5. x \in G /\ \A j \in G : x >= j BY <2>4
  <2>6. x = n + 1 BY <2>4, <2>5
  <2>7. Max(G) = n + 1 BY <2>6 DEF Max
  <2>8. LastGood(rows, n + 1) = rows[n + 1] BY <2>4, <2>7 DEF LastGood, G
  <2>. QED BY <1>2, <2>3, <2>8
<1>3. CASE rows[n + 1] \in BadParams
  <2>1. Good(rows, n + 1) = Good(rows, n) BY <1>1, <1>3 DEF Good
  <2>2. LastGood(rows, n + 1) = LastGood(rows, n) BY ONLY <2>1 DEF LastGood
  <2>3. Cardinality(Good(rows, n + 1)) = Cardinality(Good(rows, n)) BY ONLY <2>1
  <2>. QED BY <1>3, <2>2, <2>3
<1>. QED BY <1>2, <1>3

\* Apply adds up the operations of a flush as Totals does.
LEMMA CountedFacts ==
  ASSUME IInv, ap # NULL, ap.b <= ap.upto, Current.type \in {"EXEC", "RUN", "STMT", "BATCH"}
  PROVE  LET a == Counted(Current)
         IN  /\ a \in Applying /\ a.upto = ap.upto /\ a.b = ap.b /\ a.k = ap.k
             /\ Sequential /\ Alone /\ Current.type \in {"STMT", "BATCH"} =>
                  Totals(a, BatchRows(log[ap.b]), ap.k - 1)
<1> DEFINE a == Counted(Current)
           ok == Succeeds(Current)
           rows == BatchRows(log[ap.b])
<1>1. ap \in Applying BY DEF IInv, TypeOK
<1>2. Current \in Op BY CurrentFacts
<1>3. CASE Current.type \in {"EXEC", "RUN"}
  <2>1. a = ap BY <1>3 DEF Counted
  <2>. QED BY <1>1, <1>3, <2>1
<1>4. CASE Current.type \in {"STMT", "BATCH"}
  <2>1. a = IF ok THEN [ap EXCEPT !.changes = @ + 1, !.last = Current.row]
                  ELSE [ap EXCEPT !.errors = @ + 1]
    BY <1>4 DEF Counted
  <2>. HIDE DEF a, ok
  <2>2. Current.row \in Rows BY <1>2 DEF Op
  <2>3. /\ a \in Applying /\ a.upto = ap.upto /\ a.b = ap.b /\ a.k = ap.k
        /\ a.changes = IF ok THEN ap.changes + 1 ELSE ap.changes
        /\ a.last = IF ok THEN Current.row ELSE ap.last
        /\ a.errors = IF ok THEN ap.errors ELSE ap.errors + 1
    <3>1. CASE ok
      <4> DEFINE m == ap.changes + 1
                 r == Current.row
                 x == [ap EXCEPT !.changes = m]
      <4>1. m \in Nat /\ r \in Rows BY <1>1, <2>2 DEF Applying
      <4>. HIDE DEF m, r
      <4>2. a = [x EXCEPT !.last = r] BY <2>1, <3>1 DEF m, r
      <4>3. /\ x \in Applying /\ x.upto = ap.upto /\ x.b = ap.b /\ x.k = ap.k
            /\ x.changes = m /\ x.errors = ap.errors
        BY <1>1, <4>1 DEF Applying
      <4>. HIDE DEF x
      <4>4. /\ a \in Applying /\ a.upto = x.upto /\ a.b = x.b /\ a.k = x.k
            /\ a.changes = x.changes /\ a.errors = x.errors /\ a.last = r
        BY <4>1, <4>2, <4>3 DEF Applying
      <4>. QED BY <3>1, <4>3, <4>4 DEF m, r
    <3>2. CASE ~ok
      <4>1. ap.errors + 1 \in Nat BY <1>1 DEF Applying
      <4>2. a = [ap EXCEPT !.errors = ap.errors + 1] BY <2>1, <3>2
      <4>3. /\ a \in Applying /\ a.upto = ap.upto /\ a.b = ap.b /\ a.k = ap.k
            /\ a.changes = ap.changes /\ a.errors = ap.errors + 1 /\ a.last = ap.last
        BY <1>1, <4>1, <4>2 DEF Applying
      <4>. QED BY <3>2, <4>3
    <3>. QED BY <3>1, <3>2
  <2>4. ASSUME Sequential, Alone PROVE Totals(a, rows, ap.k - 1)
    <3>1. /\ Formed(log[ap.b]) /\ ap.k \in Nat /\ Len(log[ap.b]) \in Nat
          /\ Current.type = "STMT" => ap.k = 1 /\ Len(log[ap.b]) > 1
          /\ Current.type = "BATCH" =>
               ap.k \in 2..Len(log[ap.b]) - 1 /\ Current.row \in Params
      BY CurrentFacts
    <3>2. log[ap.b][1].type = "STMT" BY <1>4, <3>1 DEF Formed
    <3>3. OwnTotals BY <2>4 DEF IInv, Own
    <3>4. CASE Current.type = "STMT"
      <4>1. ap.k = 1 /\ ap.changes = 0 /\ ap.last = NULL /\ ap.errors = 0
        BY <3>1, <3>2, <3>3, <3>4 DEF OwnTotals
      <4>2. ~ok BY <3>4 DEF ok, Succeeds
      <4>3. a.changes = 0 /\ a.last = NULL /\ a.errors = 1 /\ ap.k - 1 = 0 BY <2>3, <4>1, <4>2
      <4>4. 0 - Cardinality(Good(rows, 0)) + 1 = 1 BY TotalsFirst
      <4>. HIDE DEF rows
      <4>. QED BY <4>3, <4>4, TotalsFirst DEF Totals
    <3>5. CASE Current.type = "BATCH"
      <4> DEFINE n == ap.k - 2
      <4>1. n \in Nat /\ ap.k # 1 /\ ap.k - 1 = n + 1 /\ n + 1 \in 1..Len(log[ap.b]) - 2
        BY <3>1, <3>5
      <4>2. Totals(ap, rows, n) BY <3>2, <3>3, <4>1 DEF OwnTotals
      <4>3. rows[n + 1] = Current.row
        <5>1. n + 1 + 1 = ap.k BY <3>1
        <5>. QED BY <4>1, <5>1 DEF BatchRows, Current
      <4>4. ok <=> rows[n + 1] \notin BadParams BY <3>5, <4>3 DEF ok, Succeeds
      <4>5. Cardinality(Good(rows, n)) \in Nat BY <4>1, GoodFacts
      <4>. HIDE DEF n, rows
      <4>6. CASE ok
        <5>1. /\ Cardinality(Good(rows, n + 1)) = Cardinality(Good(rows, n)) + 1
              /\ LastGood(rows, n + 1) = rows[n + 1]
          BY <4>1, <4>4, <4>6, TotalsNext
        <5>2. (n + 1) - (Cardinality(Good(rows, n)) + 1) + 1 = n - Cardinality(Good(rows, n)) + 1
          BY <4>1, <4>5
        <5>5. /\ ap.changes = Cardinality(Good(rows, n)) /\ ap.last = LastGood(rows, n)
              /\ ap.errors = n - Cardinality(Good(rows, n)) + 1
          BY <4>2 DEF Totals
        <5>6. /\ a.changes = Cardinality(Good(rows, n)) + 1 /\ a.last = rows[n + 1]
              /\ a.errors = n - Cardinality(Good(rows, n)) + 1
          BY <2>3, <4>3, <4>6, <5>5
        <5>7. a.errors = (n + 1) - Cardinality(Good(rows, n + 1)) + 1 BY <5>1, <5>2, <5>6
        <5>3. Totals(a, rows, n + 1) BY <5>1, <5>6, <5>7 DEF Totals
        <5>4. ap.k - 1 = n + 1 BY <4>1
        <5>. QED BY ONLY <5>3, <5>4
      <4>7. CASE ~ok
        <5>1. /\ Cardinality(Good(rows, n + 1)) = Cardinality(Good(rows, n))
              /\ LastGood(rows, n + 1) = LastGood(rows, n)
          BY <4>1, <4>4, <4>7, TotalsNext
        <5>2. (n + 1) - Cardinality(Good(rows, n)) + 1 = n - Cardinality(Good(rows, n)) + 1 + 1
          BY <4>1, <4>5
        <5>5. /\ ap.changes = Cardinality(Good(rows, n)) /\ ap.last = LastGood(rows, n)
              /\ ap.errors = n - Cardinality(Good(rows, n)) + 1
          BY <4>2 DEF Totals
        <5>6. /\ a.changes = Cardinality(Good(rows, n)) /\ a.last = LastGood(rows, n)
              /\ a.errors = n - Cardinality(Good(rows, n)) + 1 + 1
          BY <2>3, <4>7, <5>5
        <5>7. a.errors = (n + 1) - Cardinality(Good(rows, n + 1)) + 1 BY <5>1, <5>2, <5>6
        <5>3. Totals(a, rows, n + 1) BY <5>1, <5>6, <5>7 DEF Totals
        <5>4. ap.k - 1 = n + 1 BY <4>1
        <5>. QED BY ONLY <5>3, <5>4
      <4>. QED BY <4>6, <4>7
    <3>. QED BY <1>4, <3>4, <3>5
  <2>. QED BY <2>3, <2>4 DEF a
<1>. QED BY <1>3, <1>4

\* The view takes the operation at the cursor, which is behind none it holds.
LEMMA ViewGrows ==
  ASSUME IInv, direct = 0, bee = "up", ap # NULL, ap.b <= ap.upto,
         UNCHANGED log, db' = Append(db, Current)
  PROVE  /\ InLogOrder'
         /\ Len(db') = Len(db) + 1 /\ db'[Len(db) + 1] = Current
         /\ \A i \in 1..Len(db) : db'[i] = db[i]
<1>1. Len(db) \in Nat /\ db \in Seq([call : Calls \cup Remotes \cup {"direct"},
                       type : {"EXEC", "RUN", "BATCH"}, k : Nat, row : Rows])
  BY DEF IInv, DbTyped
<1>2. /\ Len(db') = Len(db) + 1 /\ db'[Len(db) + 1] = Current
      /\ \A i \in 1..Len(db) : db'[i] = db[i]
  BY <1>1
<1>3. /\ ap.b \in 1..Len(log) /\ IsAt(Current, ap.b) /\ Current.k = ap.k /\ ap.b \in Nat
      /\ ap.k \in Nat /\ applied \in Nat /\ ap.b > applied
  BY CurrentFacts, Cursor DEF IInv
<1>4. InLogOrder /\ Behind BY DEF IInv, Replay
<1>5. InLogOrder'
  <2>1. SUFFICES ASSUME NEW i \in 1..Len(db) + 1, NEW j \in 1..Len(db) + 1, i <= j
                 PROVE  \E a, b \in 1..Len(log) :
                          /\ IsAt(db'[i], a) /\ IsAt(db'[j], b)
                          /\ a < b \/ (a = b /\ (i < j => db'[i].k < db'[j].k))
    <3>1. Len(db') = Len(db) + 1 /\ log' = log BY <1>2
    <3>. QED BY ONLY <2>1, <3>1 DEF InLogOrder, IsAt
  <2>2. CASE j \in 1..Len(db)
    <3>1. i \in 1..Len(db) /\ db'[i] = db[i] /\ db'[j] = db[j] BY <1>1, <1>2, <2>1, <2>2
    <3>. QED BY <1>4, <2>1, <2>2, <3>1 DEF InLogOrder
  <2>3. CASE j = Len(db) + 1 /\ i = Len(db) + 1
    <3>1. db'[i] = Current /\ db'[j] = Current /\ ~(i < j) BY <1>1, <1>2, <2>3
    <3>. QED BY <1>3, <3>1
  <2>4. CASE j = Len(db) + 1 /\ i \in 1..Len(db)
    <3>1. db'[i] = db[i] /\ db'[j] = Current BY <1>2, <2>4
    <3>2. PICK a \in 1..Len(log) : IsAt(db[i], a) /\ Done(a, db[i].k) BY <1>4, <2>4 DEF Behind
    <3>3. a < ap.b \/ (a = ap.b /\ db[i].k < ap.k)
      <4>1. a \in Nat OBVIOUS
      <4>. QED BY <1>3, <3>2, <4>1 DEF Done
    <3>. QED BY <1>3, <3>1, <3>2, <3>3
  <2>5. j \in 1..Len(db) \/ j = Len(db) + 1 BY <1>1
  <2>6. i \in 1..Len(db) \/ i = Len(db) + 1 BY <1>1
  <2>. QED BY <2>2, <2>3, <2>4, <2>5, <2>6
<1>. QED BY <1>2, <1>5

LEMMA ApplyEndStep == ASSUME IInv, ApplyEnd PROVE IInv'
<1>. USE DEF ApplyEnd
<1> DEFINE grows == Succeeds(Current)
           a == Counted(Current)
           threw == ap' = NULL /\ bee' = "dead"
<1>1. bee = "up" /\ ap # NULL /\ ap.b <= ap.upto /\ Current.type \in {"EXEC", "RUN", "STMT", "BATCH"}
  BY DEF At
<1>2. ap \in Applying BY <1>1 DEF IInv, TypeOK
<1>3. /\ ap.b \in 1..Len(log) /\ ap.b \in applied + 1 .. Len(log) /\ Formed(log[ap.b])
      /\ Len(log[ap.b]) \in Nat
      /\ Current \in Op /\ Current.k = ap.k /\ Current.call = CallOf(ap.b) /\ IsAt(Current, ap.b)
      /\ Current.type \in {"EXEC", "RUN"} => log[ap.b][1].type # "STMT"
  BY <1>1, CurrentFacts
<1>4. /\ settled' \in [Calls -> {NULL} \cup OutcomeType] /\ Slot'
      /\ Sequential /\ Alone => OwnSettled'
  <2>1. CASE Current.type \in {"EXEC", "RUN"}
    <3> DEFINE v == Outcome(Current, Succeeds(Current),
                            IF Current.type = "RUN" /\ Succeeds(Current) THEN 1 ELSE 0,
                            IF Current.type = "RUN" /\ Succeeds(Current) THEN Current.row ELSE NULL, 0)
    <3>1. Settle(v) BY <2>1 DEF Executed
    <3>2. Succeeds(Current) \in BOOLEAN BY DEF Succeeds
    <3>3. v \in OutcomeType BY <1>3, <3>2 DEF Outcome, OutcomeType, Op, Rows
    <3>4. v.by = CallOf(ap.b) BY <1>3 DEF Outcome
    <3>. HIDE DEF v
    <3>5. /\ settled' \in [Calls -> {NULL} \cup OutcomeType] /\ Slot'
          /\ \A c \in Calls : settled'[c] = settled[c] \/ (interactive = c /\ settled'[c] = v)
      BY <3>1, <3>3, SettleFacts
    <3>6. ASSUME Sequential, Alone PROVE OwnSettled'
      <4>1. sent[CallOf(ap.b)] = log[ap.b] BY <1>3, <3>6 DEF Alone, CallOf, IInv, OwnSent
      <4>2. OwnResult(CallOf(ap.b), v) BY <1>3, <2>1, <3>4, <4>1 DEF OwnResult
      <4>. QED BY <1>1, <3>5, <3>6, <4>2, SettledIsOwn
    <3>. QED BY <3>5, <3>6
  <2>2. CASE Current.type \notin {"EXEC", "RUN"}
    <3>1. settled' = settled BY <2>2 DEF Executed
    <3>2. Slot' BY <3>1, SlotFrame DEF IInv
    <3>3. Sequential /\ Alone => OwnSettled' BY <3>1 DEF IInv, Own, OwnSettled, OwnResult
    <3>. QED BY <3>1, <3>2, <3>3 DEF IInv, TypeOK
  <2>. QED BY <2>1, <2>2
<1>5. /\ grows => db' = Append(db, Current) /\ Current.type \in {"EXEC", "RUN", "BATCH"}
      /\ ~grows => db' = db
  BY <1>1 DEF Executed, Succeeds
<1>6. DbTyped'
  <2>1. CASE grows
    <3>1. Current \in [call : Calls \cup Remotes \cup {"direct"},
                       type : {"EXEC", "RUN", "BATCH"}, k : Nat, row : Rows]
      BY <1>3, <1>5, <2>1 DEF Op
    <3> DEFINE T == [call : Calls \cup Remotes \cup {"direct"},
                     type : {"EXEC", "RUN", "BATCH"}, k : Nat, row : Rows]
    <3>2. db \in Seq(T) /\ Current \in T BY <3>1 DEF IInv, DbTyped
    <3>. HIDE DEF T
    <3>3. Append(db, Current) \in Seq(T) BY <3>2
    <3>. QED BY <1>5, <2>1, <3>3 DEF DbTyped, T
  <2>2. CASE ~grows BY <1>5, <2>2 DEF IInv, DbTyped
  <2>. QED BY <2>1, <2>2
<1>7. /\ a \in Applying /\ a.upto = ap.upto /\ a.b = ap.b /\ a.k = ap.k
      /\ Sequential /\ Alone /\ Current.type \in {"STMT", "BATCH"} =>
           Totals(a, BatchRows(log[ap.b]), ap.k - 1)
  BY <1>1, CountedFacts
<1>. HIDE DEF a
<1>8. \/ Die /\ view' = view /\ files' \in {"none", "view", "local"}
      \/ /\ view' = FALSE /\ ap' = Advance(a) /\ files = "none"
         /\ UNCHANGED <<applied, promise, bee, writable, files>>
  BY DEF a, IInv, TypeOK
<1>9. direct = 0 => InLogOrder'
  <2>1. CASE grows BY <1>1, <1>5, <2>1, ViewGrows
  <2>2. CASE ~grows BY <1>5, <2>2 DEF IInv, Replay, InLogOrder, IsAt
  <2>. QED BY <2>1, <2>2
<1>10. direct = 0 => \A b \in 1..Len(log) : \A k \in 1..Len(log[b]) :
         Done(b, k) /\ Writes(log[b][k]) => \E i \in 1..Len(db') : db'[i] = log[b][k]
  <2>1. SUFFICES ASSUME direct = 0, NEW b \in 1..Len(log), NEW k \in 1..Len(log[b]),
                        Done(b, k), Writes(log[b][k])
                 PROVE  \E i \in 1..Len(db') : db'[i] = log[b][k]
    OBVIOUS
  <2>2. PICK i \in 1..Len(db) : db[i] = log[b][k] BY <2>1 DEF IInv, Replay, Caught
  <2>3. CASE grows
    <3>1. Len(db') = Len(db) + 1 /\ db'[i] = db[i] BY <1>1, <1>5, <2>1, <2>3, ViewGrows
    <3>2. i \in 1..Len(db') BY <3>1 DEF IInv, DbTyped
    <3>. QED BY <2>2, <3>1, <3>2
  <2>4. CASE ~grows BY <1>5, <2>2, <2>4
  <2>. QED BY <2>3, <2>4
<1>11. CASE Die /\ view' = view /\ files' \in {"none", "view", "local"}
  <2>1. /\ promise' \in [Calls -> {"none", "open", "done", "rejected"}]
        /\ \A c \in Calls : promise[c] = "rejected" => promise'[c] = "rejected"
        /\ Promises' /\ ap' = NULL /\ bee' = "dead" /\ applied' = applied /\ writable' = writable
        /\ \A b, k : Done(b, k)' => Done(b, k)
    BY <1>11, DieFacts
  <2>2. TypeOK' BY <1>4, <1>11, <2>1 DEF IInv, TypeOK
  <2>3. Replay'
    <3>1. direct = 0 => Caught' BY <1>10, <2>1 DEF Caught, Writes
    <3>. QED BY <1>9, <2>1, <3>1 DEF Replay, Behind
  <2>4. Own'
    BY <1>4, <2>1 DEF IInv, Own, OwnOpen, OwnReturned, OwnTotals, OwnResult, Alone
  <2>. QED BY <1>4, <1>6, <2>1, <2>2, <2>3, <2>4, ApplyFrame DEF IInv
<1>12. CASE /\ view' = FALSE /\ ap' = Advance(a) /\ files = "none"
            /\ UNCHANGED <<applied, promise, bee, writable, files>>
  <2>1. /\ ap' \in Applying /\ ap' # NULL
        /\ ap'.upto \in applied + 1 .. Len(log) /\ ap'.b \in applied + 1 .. ap'.upto + 1
        /\ ap'.k \in 1..IF ap'.b <= ap'.upto THEN Len(log[ap'.b]) ELSE 1
        /\ ap'.upto = ap.upto
        /\ \/ ap'.b = ap.b /\ ap'.k = ap.k + 1 /\ ap.k < Len(log[ap.b])
           \/ ap'.b = ap.b + 1 /\ ap'.k = 1 /\ ap.k = Len(log[ap.b])
        /\ ap'.changes = a.changes /\ ap'.last = a.last /\ ap'.errors = a.errors
        /\ \A b \in 1..Len(log) : \A k \in 1..Len(log[b]) :
              Done(b, k)' <=> Done(b, k) \/ (b = ap.b /\ k = ap.k)
    BY <1>1, <1>7, <1>12, AdvanceFacts
  <2>2. TypeOK' BY <1>4, <1>12, <2>1 DEF IInv, TypeOK
  <2>3. Replay'
    <3>1. SUFFICES ASSUME direct = 0 PROVE Behind' /\ Caught' BY <1>9, <1>12 DEF Replay
    <3>2. Behind'
      <4>1. SUFFICES ASSUME NEW i \in 1..Len(db'), NEW n, n = db'[i]
                     PROVE  \E b \in 1..Len(log) : IsAt(n, b) /\ Done(b, n.k)'
        BY DEF Behind, IsAt, Done
      <4>2. \A b \in 1..Len(log) : IsAt(n, b) /\ Done(b, n.k) => Done(b, n.k)'
        BY <2>1 DEF IsAt
      <4>3. \A j \in 1..Len(db) : \E b \in 1..Len(log) : IsAt(db[j], b) /\ Done(b, db[j].k)
        BY <1>1, <3>1 DEF IInv, Replay, Behind
      <4>4. CASE i \in 1..Len(db) /\ n = db[i] BY <4>2, <4>3, <4>4
      <4>5. CASE n = Current
        <5>1. n.k = ap.k /\ IsAt(n, ap.b) /\ n.k \in 1..Len(log[ap.b]) BY <1>3, <4>5 DEF IsAt
        <5>2. \A b \in 1..Len(log) : b = ap.b => Done(b, n.k)' BY <2>1, <5>1
        <5>. QED BY <1>3, <5>1, <5>2
      <4>6. CASE grows
        <5>1. /\ Len(db') = Len(db) + 1 /\ db'[Len(db) + 1] = Current
              /\ \A j \in 1..Len(db) : db'[j] = db[j]
          BY <1>1, <1>5, <3>1, <4>6, ViewGrows
        <5>2. Len(db) \in Nat BY DEF IInv, DbTyped
        <5>3. i \in 1..Len(db) \/ i = Len(db) + 1 BY <5>1, <5>2
        <5>. QED BY <4>1, <4>4, <4>5, <5>1, <5>3
      <4>7. CASE ~grows BY <1>5, <4>1, <4>4, <4>7
      <4>. QED BY <4>6, <4>7
    <3>3. Caught'
      <4>1. SUFFICES ASSUME NEW b \in 1..Len(log), NEW k \in 1..Len(log[b]), Done(b, k)',
                            Writes(log[b][k])
                     PROVE  \E i \in 1..Len(db') : db'[i] = log[b][k]
        BY DEF Caught, Writes
      <4>2. CASE Done(b, k) BY <1>10, <3>1, <4>1, <4>2
      <4>3. CASE b = ap.b /\ k = ap.k
        <5>1. log[b][k] = Current BY <4>3 DEF Current
        <5>2. grows BY <4>1, <5>1 DEF Writes, Succeeds
        <5>3. Len(db') = Len(db) + 1 /\ db'[Len(db) + 1] = Current
          BY <1>1, <1>5, <3>1, <5>2, ViewGrows
        <5>4. Len(db) + 1 \in 1..Len(db') BY <5>3 DEF IInv, DbTyped
        <5>. QED BY <5>1, <5>3, <5>4
      <4>. QED BY <2>1, <4>1, <4>2, <4>3
    <3>. QED BY <3>2, <3>3
  <2>4. Own'
    <3>1. SUFFICES ASSUME Sequential, Alone PROVE OwnOpen' /\ OwnReturned' /\ OwnTotals'
      BY <1>4 DEF Own, Alone
    <3>2. OwnOpen' /\ OwnReturned'
      BY <1>12, <3>1 DEF IInv, Own, OwnOpen, OwnReturned, OwnResult, CallOf
    <3>3. OwnTotals'
      <4>1. SUFFICES ASSUME ap'.b <= ap'.upto, log[ap'.b][1].type = "STMT" PROVE OwnTotals'
        BY DEF OwnTotals
      <4>2. ap'.b \in Nat /\ ap'.upto \in Nat /\ ap.b \in Nat /\ ap.k \in Nat
        BY <1>2, <2>1 DEF Applying
      <4>3. applied \in Nat /\ Len(log) \in Nat BY DEF IInv, TypeOK
      <4>4. ap'.b \in applied + 1 .. Len(log) BY <2>1, <4>1, <4>2, <4>3
      <4>5. ap'.b = ap.b BY <1>1, <1>3, <3>1, <4>4, OneUnapplied
      <4>6. ap'.k = ap.k + 1 /\ ap.k >= 1
        <5>1. ap'.k = ap.k + 1 BY <2>1, <4>2, <4>5
        <5>2. ap.k >= 1 BY <1>1, Cursor DEF IInv
        <5>. QED BY <5>1, <5>2
      <4>7. ap'.k # 1 /\ ap'.k - 2 = ap.k - 1 BY <4>2, <4>6
      <4>8. Current.type \in {"STMT", "BATCH"} BY <1>1, <1>3, <4>1, <4>5
      <4>9. Totals(a, BatchRows(log[ap.b]), ap.k - 1) BY <1>7, <3>1, <4>8
      <4>10. Totals(ap', BatchRows(log[ap.b]), ap'.k - 2) BY <2>1, <4>7, <4>9 DEF Totals
      <4>. QED BY <4>5, <4>7, <4>10 DEF OwnTotals
    <3>. QED BY <3>2, <3>3
  <2>5. Promises' BY <1>12, PromisesFrame DEF IInv
  <2>. QED BY <1>4, <1>6, <1>12, <2>2, <2>3, <2>4, <2>5, ApplyFrame DEF IInv
<1>. QED BY <1>8, <1>11, <1>12

-----------------------------------------------------------------------------
(* The environment.                                                         *)

LEMMA RemoteFormed ==
  ASSUME NEW r \in Remotes, NEW batch \in RemoteBatches(r)
  PROVE  Formed(batch) /\ batch[1].call = r /\ ~IsOwnFlush(batch)
<1>1. r \notin Calls BY WritePathAssumption
<1>2. ASSUME NEW type \in {"EXEC", "RUN"}, NEW p \in Params, batch = Single(r, type, p)
      PROVE  Formed(batch) /\ batch[1].call = r
  BY <1>2, SingleFormed DEF Rows
<1>3. ASSUME NEW p \in Params, batch = FlushBatch(r, <<p>>)
      PROVE  Formed(batch) /\ batch[1].call = r
  <2>1. <<p>> \in Seq(Params) OBVIOUS
  <2> DEFINE rows == <<p>>
  <2>. HIDE DEF rows
  <2>2. rows \in Seq(Params) /\ batch = FlushBatch(r, rows) BY <1>3, <2>1 DEF rows
  <2>. QED BY <2>2, FlushFormed
<1>4. ASSUME batch = Single(r, "WRITER_DEL", "self")
      PROVE  Formed(batch) /\ batch[1].call = r
  BY <1>4, SingleFormed DEF Rows, Writers
<1>5. Formed(batch) /\ batch[1].call = r
  <2>1. \/ \E type \in {"EXEC", "RUN"}, p \in Params : batch = Single(r, type, p)
        \/ \E p \in Params : batch = FlushBatch(r, <<p>>)
        \/ batch = Single(r, "WRITER_DEL", "self")
    BY DEF RemoteBatches
  <2>2. CASE \E type \in {"EXEC", "RUN"}, p \in Params : batch = Single(r, type, p)
    BY ONLY <1>2, <2>2
  <2>3. CASE \E p \in Params : batch = FlushBatch(r, <<p>>) BY ONLY <1>3, <2>3
  <2>. QED BY ONLY <1>4, <2>1, <2>2, <2>3
<1>. QED BY <1>1, <1>5 DEF IsOwnFlush

LEMMA RemoteStep ==
  ASSUME IInv, NEW r \in Remotes, RemoteBatch(r)
  PROVE  IInv'
<1>. USE DEF callVars
<1>1. /\ bee = "up" /\ ap = NULL /\ ~Logged(r)
      /\ UNCHANGED <<queue, accepted, interactive, callVars, ap, view, files, direct, bee,
                     writable>>
  BY DEF RemoteBatch
<1>2. PICK m \in 1..Len(log) + 1, batch \in RemoteBatches(r), n \in 0..Len(db) :
        /\ log' = InsertAt(log, m, batch)
        /\ IF m <= applied
             THEN applied' = m - 1 /\ KeepsUpTo(n, m - 1) /\ db' = SubSeq(db, 1, n)
             ELSE n = Len(db) /\ UNCHANGED <<applied, db>>
  BY DEF RemoteBatch
<1>3. Formed(batch) /\ batch[1].call = r /\ ~IsOwnFlush(batch) /\ batch \in Seq(Op)
  BY RemoteFormed DEF Formed
<1>4. log \in Seq(Seq(Op)) /\ Len(log) \in Nat /\ applied \in Nat /\ applied <= Len(log)
      /\ m \in Nat /\ m >= 1 /\ m <= Len(log) + 1
  BY DEF IInv, TypeOK
<1>5. /\ log' \in Seq(Seq(Op)) /\ Len(log') = Len(log) + 1 /\ log'[m] = batch
      /\ \A i \in 1..m - 1 : log'[i] = log[i]
      /\ \A i \in m..Len(log) : log'[i + 1] = log[i]
  <2> DEFINE S == Seq(Op)
  <2>. HIDE DEF S
  <2>1. log \in Seq(S) /\ batch \in S /\ m \in 1..Len(log) + 1 BY <1>3, <1>4 DEF S
  <2>2. LET t == InsertAt(log, m, batch)
         IN  /\ t \in Seq(S) /\ Len(t) = Len(log) + 1 /\ t[m] = batch
             /\ \A i \in 1..m - 1 : t[i] = log[i]
             /\ \A i \in m..Len(log) : t[i + 1] = log[i]
    BY ONLY <2>1, InsertAtFacts
  <2>. QED BY <1>2, <2>2 DEF S
\* Where a batch of the log is after it.
<1> DEFINE Moved(b) == IF b < m THEN b ELSE b + 1
<1>6. /\ \A b \in 1..Len(log) : Moved(b) \in 1..Len(log') /\ log'[Moved(b)] = log[b] /\ Moved(b) # m
      /\ \A a, b \in 1..Len(log) : a < b => Moved(a) < Moved(b)
      /\ \A b \in 1..Len(log') : b = m \/ \E a \in 1..Len(log) : b = Moved(a)
  <2>1. ASSUME NEW b \in 1..Len(log)
        PROVE  Moved(b) \in 1..Len(log') /\ log'[Moved(b)] = log[b] /\ Moved(b) # m
    <3>1. CASE b < m
      <4>1. b \in 1..m - 1 /\ b \in 1..Len(log) + 1 BY <1>4, <3>1
      <4>. QED BY <1>4, <1>5, <3>1, <4>1
    <3>2. CASE ~(b < m)
      <4>1. b \in m..Len(log) /\ b + 1 \in 1..Len(log) + 1 /\ b + 1 # m BY <1>4, <3>2
      <4>. QED BY <1>5, <3>2, <4>1
    <3>. QED BY <3>1, <3>2
  <2>2. \A a, b \in 1..Len(log) : a < b => Moved(a) < Moved(b) BY <1>4
  <2>3. ASSUME NEW b \in 1..Len(log'), b # m PROVE \E a \in 1..Len(log) : b = Moved(a)
    <3>1. CASE b < m
      <4>1. b \in 1..Len(log) BY <1>4, <1>5, <3>1
      <4>. QED BY <3>1, <4>1
    <3>2. CASE b > m
      <4>0. m \in Nat /\ m >= 1 /\ Len(log) \in Nat /\ Len(log') = Len(log) + 1 BY ONLY <1>4, <1>5
      <4>1. b - 1 \in 1..Len(log) /\ ~(b - 1 < m) /\ (b - 1) + 1 = b
        BY ONLY <4>0, <3>2, b \in 1..Len(log')
      <4>. QED BY ONLY <4>1 DEF Moved
    <3>. QED BY <1>4, <1>5, <2>3, <3>1, <3>2
  <2>. QED BY <2>1, <2>2, <2>3
<1>7. /\ m \in 1..Len(log') /\ r \notin Calls
      /\ \A b \in 1..Len(log) : log[b][1].call # r
  BY <1>1, <1>4, <1>5, WritePathAssumption DEF Logged
<1>. HIDE DEF Moved
<1>8. LogFormed'
  <2>1. SUFFICES ASSUME NEW b \in 1..Len(log') PROVE Formed(log'[b]) BY DEF LogFormed
  <2>. QED BY <1>3, <1>5, <1>6 DEF IInv, LogFormed
<1>9. LogOnce'
  <2>1. SUFFICES ASSUME NEW a \in 1..Len(log'), NEW b \in 1..Len(log'),
                        log'[a][1].call = log'[b][1].call
                 PROVE  a = b
    BY DEF LogOnce, CallOf
  <2>4. \A x \in 1..Len(log') : x # m => log'[x][1].call # r
    <3>1. SUFFICES ASSUME NEW x \in 1..Len(log), log'[Moved(x)][1].call = r PROVE FALSE
      BY <1>6
    <3>. QED BY <1>6, <1>7, <3>1
  <2>2. (a = m /\ b = m) \/ (a # m /\ b # m) BY <1>3, <1>5, <2>1, <2>4
  <2>3. CASE a # m /\ b # m
    <3>1. PICK x \in 1..Len(log), y \in 1..Len(log) : a = Moved(x) /\ b = Moved(y)
      BY <1>6, <2>3
    <3>2. log[x][1].call = log[y][1].call BY <1>6, <2>1, <3>1
    <3>. QED BY <3>1, <3>2 DEF IInv, LogOnce, CallOf
  <2>. QED BY <2>2, <2>3
<1>10. \A d \in Calls : Logged(d)' <=> Logged(d)
  <2>1. TAKE d \in Calls
  <2>2. Logged(d) => Logged(d)' BY <1>6 DEF Logged
  <2>3. ASSUME NEW b \in 1..Len(log'), log'[b][1].call = d PROVE Logged(d)
    <3>1. b # m BY <1>3, <1>5, <1>7, <2>3
    <3>2. PICK a \in 1..Len(log) : b = Moved(a) BY <1>6, <3>1
    <3>3. log[a][1].call = d BY <1>6, <2>3, <3>2
    <3>. QED BY <3>3 DEF Logged
  <2>. QED BY <2>2, <2>3 DEF Logged
<1>11. OwnSent'
  <2>1. \A b \in 1..Len(log') : log'[b][1].call \in Calls =>
          log'[b] = sent[log'[b][1].call] /\ pc[log'[b][1].call] \in {"await", "returned"}
    <3>1. SUFFICES ASSUME NEW b \in 1..Len(log'), log'[b][1].call \in Calls
          PROVE log'[b] = sent[log'[b][1].call] /\ pc[log'[b][1].call] \in {"await", "returned"}
      OBVIOUS
    <3>2. b # m BY <1>3, <1>5, <1>7, <3>1
    <3>3. PICK a \in 1..Len(log) : b = Moved(a) BY <1>6, <3>2
    <3>4. log'[b] = log[a] BY <1>6, <3>3
    <3>. QED BY <3>1, <3>4 DEF IInv, OwnSent, CallOf
  <2>. QED BY <1>1, <2>1 DEF OwnSent, CallOf, IInv
<1>12. Promises' BY <1>1, <1>10 DEF IInv, Promises
<1>13. Solo' /\ Waits' /\ Slot' BY <1>1, SlotFrame DEF IInv
<1>14. Own'
  <2>1. ~Alone' BY <1>3, <1>5, <1>7 DEF Alone
  <2>. QED BY <2>1 DEF Own
<1>15. RowsKept'
  <2>1. FlushRows(log') = FlushRows(log) BY <1>3, <1>4, <1>5, <1>7, FlushRowsInsert
  <2>2. Deflating' = Deflating BY <1>1 DEF Deflating
  <2>3. DeflatingRows' = DeflatingRows BY <1>1, <2>2 DEF DeflatingRows
  <2>4. QueuedRows' = QueuedRows BY <1>1 DEF QueuedRows
  <2>. QED BY <1>1, <2>1, <2>3, <2>4 DEF IInv, RowsKept, NoRowLost
<1>16. /\ applied' \in Nat /\ applied' < m /\ applied' <= applied
       /\ Len(db) \in Nat /\ n \in Nat /\ n <= Len(db)
       /\ Len(db') = n /\ \A i \in 1..n : db'[i] = db[i] /\ i \in 1..Len(db)
  <2>1. Len(db) \in Nat /\ n \in Nat /\ n <= Len(db) BY DEF IInv, DbTyped
  <2>2. CASE m <= applied
    <3>1. Len(SubSeq(db, 1, n)) = n /\ \A i \in 1..n : SubSeq(db, 1, n)[i] = db[i]
      BY <2>1 DEF IInv, DbTyped
    <3>. QED BY <1>2, <1>4, <2>1, <2>2, <3>1
  <2>3. CASE ~(m <= applied) BY <1>2, <1>4, <2>1, <2>3
  <2>. QED BY <2>2, <2>3
<1>17. TypeOK' /\ DbTyped'
  <2>1. DbTyped'
    <3> DEFINE T == [call : Calls \cup Remotes \cup {"direct"},
                     type : {"EXEC", "RUN", "BATCH"}, k : Nat, row : Rows]
    <3>1. db \in Seq(T) BY DEF IInv, DbTyped
    <3>. HIDE DEF T
    <3>2. SubSeq(db, 1, n) \in Seq(T) BY <1>16, <3>1
    <3>3. db' \in Seq(T) BY <1>2, <3>1, <3>2
    <3>. QED BY <3>3 DEF DbTyped, T
  <2>2. applied' \in 0..Len(log') BY <1>4, <1>5, <1>16
  <2>. QED BY <1>1, <1>5, <2>1, <2>2 DEF IInv, TypeOK
<1>18. Replay'
  <2>1. SUFFICES ASSUME direct = 0 PROVE InLogOrder' /\ Behind' /\ Caught'
    BY <1>1 DEF Replay, IInv
  <2>2. InLogOrder /\ Behind /\ Caught BY <2>1 DEF IInv, Replay
  <2>3. \A b \in 1..Len(log) : \A e : IsAt(e, b) =>
          e.k \in 1..Len(log'[Moved(b)]) /\ log'[Moved(b)][e.k] = e
    BY <1>6 DEF IsAt
  <2>4. \A b, k : Done(b, k) <=> b <= applied BY <1>1 DEF Done
  <2>5. \A b, k : Done(b, k)' <=> b <= applied' BY <1>1 DEF Done
  <2>6. InLogOrder'
    <3>6. SUFFICES ASSUME NEW i \in 1..Len(db'), NEW j \in 1..Len(db'), i <= j
                   PROVE  \E a, b \in 1..Len(log') :
                            /\ db'[i].k \in 1..Len(log'[a]) /\ log'[a][db'[i].k] = db'[i]
                            /\ db'[j].k \in 1..Len(log'[b]) /\ log'[b][db'[j].k] = db'[j]
                            /\ a < b \/ (a = b /\ (i < j => db'[i].k < db'[j].k))
      BY DEF InLogOrder, IsAt
    <3>7. i \in 1..n /\ j \in 1..n /\ db'[i] = db[i] /\ db'[j] = db[j] BY <1>16
    <3>1. SUFFICES \E a, b \in 1..Len(log') :
                            /\ db[i].k \in 1..Len(log'[a]) /\ log'[a][db[i].k] = db[i]
                            /\ db[j].k \in 1..Len(log'[b]) /\ log'[b][db[j].k] = db[j]
                            /\ a < b \/ (a = b /\ (i < j => db[i].k < db[j].k))
      BY <3>7
    <3>2. PICK a \in 1..Len(log), b \in 1..Len(log) :
            /\ IsAt(db[i], a) /\ IsAt(db[j], b)
            /\ a < b \/ (a = b /\ (i < j => db[i].k < db[j].k))
      BY <1>16, <2>2, <3>6, <3>7 DEF InLogOrder
    <3>3. /\ db[i].k \in 1..Len(log'[Moved(a)]) /\ log'[Moved(a)][db[i].k] = db[i]
          /\ db[j].k \in 1..Len(log'[Moved(b)]) /\ log'[Moved(b)][db[j].k] = db[j]
      BY <2>3, <3>2
    <3>4. Moved(a) \in 1..Len(log') /\ Moved(b) \in 1..Len(log') BY <1>6
    <3>5. Moved(a) < Moved(b) \/ (Moved(a) = Moved(b) /\ (i < j => db[i].k < db[j].k))
      BY <1>6, <3>2
    <3>. QED BY <3>3, <3>4, <3>5
  <2>7. ASSUME NEW i \in 1..n
        PROVE  \E b \in 1..Len(log) : IsAt(db[i], b) /\ b < m /\ b <= applied'
    <3>1. CASE m <= applied
      <4>1. n > 0 /\ n \in 1..Len(db) /\ i \in 1..Len(db) /\ i <= n BY <1>16, <2>7
      <4>2. PICK b0 \in 1..m - 1 : log[b0][1].call = db[n].call BY <1>2, <3>1, <4>1 DEF KeepsUpTo
      <4>3. PICK a \in 1..Len(log), b \in 1..Len(log) : IsAt(db[i], a) /\ IsAt(db[n], b) /\ (a < b \/ a = b)
        BY <2>2, <4>1 DEF InLogOrder
      <4>4. db[n].call = log[b][1].call
        <5>1. db[n].k \in 1..Len(log[b]) /\ log[b][db[n].k] = db[n] BY <4>3 DEF IsAt
        <5>. QED BY <5>1 DEF IInv, LogFormed, Formed
      <4>5. b0 \in 1..Len(log) BY <1>4
      <4>6. b = b0 BY <4>2, <4>4, <4>5 DEF IInv, LogOnce, CallOf
      <4>7. a < m /\ a <= m - 1 BY <1>4, <4>3, <4>6
      <4>. QED BY <1>2, <3>1, <4>3, <4>7
    <3>2. CASE ~(m <= applied)
      <4>1. PICK b \in 1..Len(log) : IsAt(db[i], b) /\ Done(b, db[i].k)
        BY <1>1, <1>16, <2>2 DEF Behind
      <4>2. b <= applied /\ applied' = applied BY <1>2, <2>4, <3>2, <4>1
      <4>3. b < m BY <1>4, <3>2, <4>2
      <4>. QED BY <4>1, <4>2, <4>3
    <3>. QED BY <3>1, <3>2
  <2>8. Behind'
    <3>1. SUFFICES ASSUME NEW i \in 1..n
                   PROVE  \E b \in 1..Len(log') :
                            /\ db[i].k \in 1..Len(log'[b]) /\ log'[b][db[i].k] = db[i]
                            /\ b <= applied'
      BY <1>1, <1>16 DEF Behind, IsAt, Done
    <3>2. PICK b \in 1..Len(log) : IsAt(db[i], b) /\ b < m /\ b <= applied' BY <2>7
    <3>3. Moved(b) = b BY <3>2 DEF Moved
    <3>. QED BY <1>6, <2>3, <3>2, <3>3
  <2>9. Caught'
    <3>1. SUFFICES ASSUME NEW b \in 1..Len(log'), NEW k \in 1..Len(log'[b]), b <= applied',
                          Writes(log'[b][k])
                   PROVE  \E i \in 1..Len(db') : db'[i] = log'[b][k]
      BY <2>5 DEF Caught, Writes
    <3>2. b < m /\ b \in 1..m - 1 /\ b \in 1..Len(log) /\ b <= applied BY <1>4, <1>16, <3>1
    <3>3. log'[b] = log[b] BY <1>5, <3>2
    <3>4. PICK i \in 1..Len(db) : db[i] = log[b][k] BY <2>2, <2>4, <3>1, <3>2, <3>3 DEF Caught
    <3>5. CASE m <= applied
      <4>1. log[b][1].call = db[i].call BY <3>1, <3>2, <3>3, <3>4 DEF IInv, LogFormed, Formed
      <4>2. i \notin n + 1 .. Len(db) BY <1>2, <3>2, <3>5, <4>1 DEF KeepsUpTo
      <4>3. i \in 1..n BY <1>16, <4>2
      <4>. QED BY <1>16, <3>3, <3>4, <4>3
    <3>6. CASE ~(m <= applied) BY <1>2, <3>3, <3>4, <3>6
    <3>. QED BY <3>5, <3>6
  <2>. QED BY <2>6, <2>8, <2>9
<1>. QED BY <1>8, <1>9, <1>11, <1>12, <1>13, <1>14, <1>15, <1>17, <1>18 DEF IInv

LEMMA DirectStep == ASSUME IInv, DirectWrite \/ DirectSync PROVE IInv'
<1>1. UNCHANGED <<queue, accepted, interactive, callVars, log, applied, ap, view, bee, writable>>
  BY DEF DirectWrite, DirectSync, applyVars
<1>. USE DEF callVars
<1>2. direct \in Nat /\ direct' \in 0..MaxDirect /\ files' \in {"none", "view", "local"}
  BY WritePathAssumption DEF DirectWrite, DirectSync, IInv, TypeOK
<1>3. Replay'
  <2>1. direct' # 0
    <3>1. CASE DirectWrite BY <1>2, <3>1 DEF DirectWrite
    <3>2. CASE DirectSync BY <3>2 DEF DirectSync, IInv, Replay
    <3>. QED BY <3>1, <3>2
  <2>. QED BY <2>1 DEF Replay
<1>4. DbTyped'
  <2> DEFINE T == [call : Calls \cup Remotes \cup {"direct"},
                   type : {"EXEC", "RUN", "BATCH"}, k : Nat, row : Rows]
             e == Node("direct", "RUN", direct, NULL)
  <2>1. db \in Seq(T) BY DEF IInv, DbTyped
  <2>2. e \in T BY <1>2 DEF Node, Rows
  <2>3. db' = db \/ db' = Append(db, e) BY DEF DirectWrite, DirectSync, applyVars
  <2>. HIDE DEF T, e
  <2>4. db' \in Seq(T) BY <2>1, <2>2, <2>3
  <2>. QED BY <2>4 DEF DbTyped, T
<1>5. TypeOK' BY <1>1, <1>2 DEF IInv, TypeOK
<1>. QED BY <1>1, <1>3, <1>4, <1>5, LogFrame, SentFrame, PromisesFrame, SlotFrame, OwnFrame, RowsFrame
         DEF IInv

-----------------------------------------------------------------------------
(* The invariant.                                                           *)

LEMMA InitIInv == ASSUME Init PROVE IInv
<1>. USE DEF Init
<1>1. TypeOK /\ DbTyped
  <2>1. \A S : <<>> \in Seq(S) /\ Len(<<>>) = 0 OBVIOUS
  <2>2. accepted \in Seq(Params) /\ log \in Seq(Seq(Op)) /\ applied \in 0..Len(log) BY <2>1
  <2>3. direct \in 0..MaxDirect BY WritePathAssumption
  <2>4. sent \in [Calls -> Seq(Op)] BY <2>1
  <2>5. DbTyped BY <2>1 DEF DbTyped
  <2>. QED BY <2>2, <2>3, <2>4, <2>5 DEF TypeOK
<1>2. LogFormed /\ LogOnce /\ OwnSent /\ Promises /\ Solo /\ Waits
  BY DEF LogFormed, LogOnce, OwnSent, Promises, Solo, Waits
<1>3. Slot BY WritePathAssumption DEF Slot
<1>4. Own BY DEF Own, OwnOpen, OwnSettled, OwnReturned, OwnTotals, IsOutcome
<1>5. RowsKept
  <2>1. DeflatingRows = <<>> /\ QueuedRows = <<>> BY DEF DeflatingRows, Deflating, QueuedRows
  <2>2. FlushRows(<<>>) = <<>>
    <3>1. PICK rows : IsRows(rows, <<>>, Len(<<>>)) /\ FlushRows(<<>>) = rows[Len(<<>>)]
      BY FlushRowsEquation
    <3>. QED BY <3>1, RowsStep
  <2>. QED BY <2>1, <2>2 DEF RowsKept, NoRowLost
<1>6. Replay BY DEF Replay, InLogOrder, Behind, Caught
<1>. QED BY <1>1, <1>2, <1>3, <1>4, <1>5, <1>6 DEF IInv

LEMMA NextIInv == ASSUME IInv, [Next]_vars PROVE IInv'
<1>1. CASE BatchOn \/ BatchOff \/ \E p \in Params : RunQueued(p) BY <1>1, QueueStep
<1>2. ASSUME NEW c \in Calls, Call(c) PROVE IInv'
  <2>1. CASE FlushNotBatching(c) BY <2>1, FlushNotBatchingStep
  <2>2. CASE \/ \E p \in Params : CallExec(c, p) \/ CallRun(c, p)
             \/ CallFlush(c)
             \/ \E type \in WriterOps : CallWriter(c, type, "other")
    BY <2>2, CallEnters, EntersStep
  <2>. QED BY <1>2, <2>1, <2>2 DEF Call
<1>3. ASSUME NEW c \in Calls, Deflated(c) PROVE IInv' BY <1>3, DeflatedStep
<1>4. ASSUME NEW c \in Calls, Return(c) PROVE IInv' BY <1>4, ReturnStep
<1>5. CASE Apply
  BY <1>5, ApplyStartStep, ApplyWriterStep, ApplyBadStmtStep, ApplyBeginStep, ApplyEndStep,
     ApplyFlushStep, ApplyDoneStep DEF Apply
<1>6. ASSUME NEW r \in Remotes, RemoteBatch(r) PROVE IInv' BY <1>6, RemoteStep
<1>7. CASE DirectWrite \/ DirectSync BY <1>7, DirectStep
<1>8. CASE UNCHANGED vars
  <2>. USE <1>8 DEF vars, callVars, applyVars
  <2>1. TypeOK' /\ DbTyped' BY DEF IInv, TypeOK, DbTyped
  <2>. QED BY <2>1, LogFrame, SentFrame, PromisesFrame, SlotFrame, OwnFrame, RowsFrame, ReplayFrame
           DEF IInv
<1>. QED BY <1>1, <1>2, <1>3, <1>4, <1>5, <1>6, <1>7, <1>8 DEF Next

LEMMA AlwaysIInv == Spec => []IInv
BY InitIInv, NextIInv, PTL DEF Spec

-----------------------------------------------------------------------------
(* The theorems.                                                            *)

\* The state is well typed: the cursor of apply is at an operation of the log.
THEOREM TypesCorrect == Spec => []TypeOK
<1>1. IInv => TypeOK BY DEF IInv
<1>. QED BY <1>1, AlwaysIInv, PTL

\* No call of a lone writer takes the outcome of another call for its own.
THEOREM ResultIsOwnAloneAlways == Spec => []ResultIsOwnAlone
<1>1. IInv => ResultIsOwnAlone BY DEF IInv, Own, OwnReturned, OwnResult, ResultIsOwnAlone, ResultIsOwn
<1>. QED BY <1>1, AlwaysIInv, PTL

\* What flush() returns to a lone writer counts the rows of its own queue.
THEOREM FlushTotalsAlways == Spec => []FlushTotals
<1>1. IInv => FlushTotals
  BY DEF IInv, Own, OwnReturned, OwnResult, Totals, FlushTotals, FlushReturned
<1>. QED BY <1>1, AlwaysIInv, PTL

\* No row that stmt.run() queued is lost, repeated or reordered.
THEOREM NoRowLostAlways == Spec => []NoRowLost
<1>1. IInv => NoRowLost BY DEF IInv, RowsKept
<1>. QED BY <1>1, AlwaysIInv, PTL

\* The view holds the operations of the log, in its order, and of what is
\* applied every one that SQLite accepted.
THEOREM ViewIsReplayAlways == Spec => []ViewIsReplay
<1>1. IInv => ViewIsReplay
  <2>1. SUFFICES ASSUME IInv, direct = 0 PROVE InLogOrder /\ Complete
    BY DEF ViewIsReplay
  <2>2. InLogOrder /\ Caught BY <2>1 DEF IInv, Replay
  <2>3. applied \in Nat /\ applied <= Len(log) /\ Len(log) \in Nat BY <2>1 DEF IInv, TypeOK
  <2>4. \A b \in 1..applied : b \in 1..Len(log) /\ b <= applied BY <2>3
  <2>5. Complete BY <2>2, <2>4 DEF Complete, Caught, Done
  <2>. QED BY <2>2, <2>5
<1>. QED BY <1>1, AlwaysIInv, PTL

\* A call returns a result only once its batch is applied.
THEOREM AckedAfterApplyAlways == Spec => AckedAfterApply
<1>1. ASSUME IInv, [Next]_vars
      PROVE  [\A c \in Calls : pc[c] # "returned" /\ pc'[c] = "returned" /\ IsOutcome(ret'[c])
                => promise[c] = "done" /\ Logged(c)]_vars
  <2>1. SUFFICES ASSUME Next, NEW c \in Calls,
                        pc[c] # "returned", pc'[c] = "returned", IsOutcome(ret'[c])
                 PROVE  promise[c] = "done" /\ Logged(c)
    BY <1>1
  <2>2. Return(c)
    <3>. USE DEF callVars, applyVars
    <3>1. TypeOK /\ pc \in [Calls -> {"idle", "deflate", "await", "returned"}]
          /\ ret \in [Calls -> {NULL, THREW} \cup OutcomeType]
      BY <1>1 DEF IInv, TypeOK
    <3>2. pc' # pc BY <2>1
    <3>3. ~(BatchOn \/ BatchOff \/ \E p \in Params : RunQueued(p))
      BY <3>2 DEF BatchOn, BatchOff, RunQueued
    <3>4. ASSUME NEW d \in Calls, Call(d) PROVE FALSE
      <4>1. CASE FlushNotBatching(d)
        <5>1. d = c BY <2>1, <3>1, <4>1 DEF FlushNotBatching
        <5>2. ret'[c] = THREW BY <3>1, <4>1, <5>1 DEF FlushNotBatching
        <5>. QED BY <2>1, <5>2 DEF IsOutcome
      <4>2. CASE \/ \E p \in Params : CallExec(d, p) \/ CallRun(d, p)
                 \/ CallFlush(d)
                 \/ \E type \in WriterOps : CallWriter(d, type, "other")
        <5>1. PICK s : Enters(d, s) BY <1>1, <4>2, CallEnters
        <5>. QED BY <2>1, <3>1, <5>1 DEF Enters
      <4>. QED BY <3>4, <4>1, <4>2 DEF Call
    <3>5. ASSUME NEW d \in Calls, Deflated(d) PROVE FALSE
      <4>1. d = c BY <2>1, <3>1, <3>5 DEF Deflated
      <4>2. ret'[c] = THREW BY <2>1, <3>1, <3>5, <4>1 DEF Deflated
      <4>. QED BY <2>1, <4>2 DEF IsOutcome
    <3>6. ASSUME NEW d \in Calls, Return(d) PROVE d = c BY <2>1, <3>1, <3>6 DEF Return
    <3>7. ~Apply
      BY <3>2 DEF Apply, ApplyStart, ApplyWriter, ApplyBadStmt, ApplyBegin, ApplyEnd, ApplyFlush,
                  ApplyDone
    <3>8. ~\E r \in Remotes : RemoteBatch(r) BY <3>2 DEF RemoteBatch
    <3>9. ~(DirectWrite \/ DirectSync) BY <3>2 DEF DirectWrite, DirectSync
    <3>. QED BY <2>1, <3>3, <3>4, <3>5, <3>6, <3>7, <3>8, <3>9 DEF Next
  <2>3. promise[c] = "done"
    <3>1. ret \in [Calls -> {NULL, THREW} \cup OutcomeType] BY <1>1 DEF IInv, TypeOK
    <3>2. promise[c] # "done" => ret'[c] = THREW BY <2>2, <3>1 DEF Return
    <3>. QED BY <2>1, <3>2 DEF IsOutcome
  <2>. QED BY <1>1, <2>3 DEF IInv, Promises
<1>. QED BY <1>1, AlwaysIInv, PTL DEF Spec, AckedAfterApply
=============================================================================
