-------------------------- MODULE StatementUseProofs --------------------------
(***************************************************************************)
(* Proofs about StatementUse, for every number of callers, every statement *)
(* and every call of it.                                                   *)
(*                                                                         *)
(* What a caller may rely on while it is alone (OwnOutcome, PointersLive)  *)
(* is not inductive: it needs to know that alone means that the statement  *)
(* is open and everybody else is idle (Solo), where in its execution the   *)
(* statement is at each of the caller's steps, and which rows the caller   *)
(* has by then (OwnStatement).  What ends clean (CleanWhenIdle) needs that *)
(* whoever leaves the statement bound or stepped has its reset to come     *)
(* (Soiled), and that a freed statement is never written to.               *)
(***************************************************************************)
EXTENDS StatementUse, BindParamsProofs

Pcs == {"idle", "parse", "parsed", "bind", "bound", "step", "stepped", "yield",
        "run", "ran", "reset", "resetted"}

StmtTyped ==
  /\ stmt = [phase |-> stmt.phase, row |-> stmt.row, bound |-> stmt.bound]
  /\ stmt.phase \in {"ready", "row", "halt"} /\ stmt.row \in 0..MaxRows
  /\ Len(stmt.bound) = Len(names)

Types ==
  /\ names \in Sqls /\ blank \in BOOLEAN
  /\ life \in {"open", "closing", "freed", "closed"}
  /\ StmtTyped
  /\ pc \in [Callers -> Pcs] /\ out \in [Callers -> {NULL} \cup Outcomes]
  /\ call = [c \in Callers |-> call[c]] /\ values = [c \in Callers |-> values[c]]
  /\ row = [c \in Callers |-> row[c]] /\ rows = [c \in Callers |-> rows[c]]
  /\ fresh \in [Callers -> BOOLEAN] /\ alone \in [Callers -> BOOLEAN]

\* On a statement that says nothing a call goes from the failed bind to the
\* failed reset, alone or not.
OnBlank(c) ==
  /\ pc[c] \in {"idle", "parse", "parsed", "reset", "resetted"} /\ rows[c] = <<>>
  /\ out[c] \in {NULL, "unset", "crash", "MISUSE"}
  /\ pc[c] \in {"parsed", "reset"} => out[c] \in {"unset", "crash"}
  /\ pc[c] = "resetted" => out[c] = "MISUSE"

\* A call is one of those the statement may get.
Asks(c) == pc[c] # "idle" =>
  \E u \in Uses : u[1] = names /\ call[c].named = u[2] /\ call[c].positional = u[3]

\* The values of a call are those that parsing it gave.
Parsed(c) ==
  /\ pc[c] \in {"idle", "parse", "parsed"} => values[c] = NULL
  /\ pc[c] \in {"bind", "bound", "step", "stepped", "yield", "run", "ran"} => values[c] # NULL
  /\ values[c] # NULL => values[c] = Given(c)
  /\ rows[c] # <<>> => values[c] # NULL
  /\ out[c] = "TypeError" => pc[c] # "idle" /\ Given(c) = NULL
  /\ pc[c] = "idle" => out[c] \in {NULL, "crash"}

Soiling == {"bound", "step", "stepped", "yield", "run", "ran", "reset"}

Soiled ==
  /\ stmt # AtStart => \E c \in Callers : pc[c] \in Soiling
  /\ NoHandle => stmt = AtStart

Solo(c) == pc[c] # "idle" => life = "open" /\ \A d \in Callers \ {c} : pc[d] = "idle"

\* The first n rows of an execution with the values v.
RowsOf(v, n) == [k \in 1..n |-> [with |-> v, n |-> k]]

OwnStatement(c) ==
  /\ pc[c] \in {"idle", "parse", "parsed", "bind", "bound", "run"} => rows[c] = <<>>
  /\ pc[c] \in {"idle", "parse", "parsed", "bind", "bound", "step", "yield", "run"} =>
       out[c] = NULL
  /\ pc[c] \in {"parsed", "stepped"} => fresh[c]
  /\ pc[c] \in {"parsed", "bind"} => stmt = AtStart
  /\ pc[c] = "bound" => stmt.row = 0
  /\ pc[c] \in {"bound", "step", "stepped", "yield", "run"} /\ out[c] = NULL =>
       stmt.bound = values[c]
  /\ pc[c] \in {"step", "yield"} => rows[c] = RowsOf(values[c], stmt.row)
  /\ pc[c] = "stepped" =>
       /\ out[c] \in {NULL, "SQLite"}
       /\ out[c] = NULL /\ row[c] # NULL =>
            row[c] = stmt.row /\ row[c] \in Nat \ {0} /\ rows[c] = RowsOf(values[c], row[c] - 1)
  /\ pc[c] = "ran" => out[c] \in {"done", "SQLite"}
  /\ pc[c] \in {"reset", "resetted"} => out[c] \in {"done", "TypeError", "SQLite"}
  /\ pc[c] \in {"stepped", "ran", "reset", "resetted"} =>
       \E n \in Nat : rows[c] = RowsOf(values[c], n)

IInv ==
  /\ Types
  /\ \A c \in Callers : Asks(c) /\ Parsed(c)
  /\ Soiled
  /\ \A c \in Callers : alone[c] /\ ~blank => Solo(c) /\ OwnStatement(c)

-----------------------------------------------------------------------------
(* Values and rows.                                                         *)

\* A call that is accepted has one value for each parameter.
LEMMA ParsedLength ==
  ASSUME NEW ns, Len(ns) \in Nat, NEW named, NEW positional, Len(positional) \in Nat,
         Parse(ns, named, positional) # NULL
  PROVE  Len(Parse(ns, named, positional)) = Len(ns)
<1> DEFINE r == Scan(ns, named, positional)
<1>1. r.ok => r.values = [j \in 1..Len(ns) |-> ParseValue(Source(j, ns, named, positional))]
  BY ScanInvariant DEF ScanInv
<1>2. r.ok => Len(r.values) = Len(ns)
  <2>. HIDE DEF r
  <2>. QED BY <1>1
<1>. QED BY <1>2 DEF Parse

\* An execution goes from one row to the next.
LEMMA RowsOfNext ==
  ASSUME NEW v
  PROVE  /\ RowsOf(v, 0) = <<>>
         /\ RowsOf(v, 1) = <<[with |-> v, n |-> 1]>>
         /\ \A n \in Nat : /\ Len(RowsOf(v, n)) = n
                           /\ Append(RowsOf(v, n), [with |-> v, n |-> n + 1]) = RowsOf(v, n + 1)
<1>1. RowsOf(v, 0) = <<>> BY DEF RowsOf
<1>3. RowsOf(v, 1) = <<[with |-> v, n |-> 1]>>
  <2>1. 1..1 = {1} OBVIOUS
  <2>. QED BY <2>1 DEF RowsOf
<1>2. ASSUME NEW n \in Nat
      PROVE  /\ Len(RowsOf(v, n)) = n
             /\ Append(RowsOf(v, n), [with |-> v, n |-> n + 1]) = RowsOf(v, n + 1)
  <2>1. RowsOf(v, n) \in Seq([with : {v}, n : Nat]) /\ Len(RowsOf(v, n)) = n
    BY DEF RowsOf
  <2>2. RowsOf(v, n + 1) \in Seq([with : {v}, n : Nat]) /\ Len(RowsOf(v, n + 1)) = n + 1
    BY DEF RowsOf
  <2>3. \A i \in 1..(n + 1) :
          Append(RowsOf(v, n), [with |-> v, n |-> n + 1])[i] = RowsOf(v, n + 1)[i]
    BY <2>1 DEF RowsOf
  <2>. QED BY <2>1, <2>2, <2>3
<1>. QED BY <1>1, <1>2, <1>3

\* The parameters of a statement, and what a caller gives for them.
LEMMA UsesTyped ==
  /\ \A s \in Sqls : Len(s) \in Nat
  /\ \A u \in Uses : /\ u[3] \in Seq(STRING) /\ Len(HandedAll(u[3])) \in Nat
                     /\ u[2] # NULL => Handed(u[2]) # NULL
BY StatementUseAssumption DEF Sqls, HandedAll

\* The values that a caller binds are as many as the statement has parameters.
LEMMA BoundLength ==
  ASSUME IInv, NEW c \in Callers, values[c] # NULL
  PROVE  Len(values[c]) = Len(names)
<1>1. values[c] = Given(c) /\ pc[c] # "idle"
  BY DEF IInv, Parsed
<1>2. Len(names) \in Nat
  BY UsesTyped DEF IInv, Types
<1>3. Len(HandedAll(call[c].positional)) \in Nat
  BY <1>1, UsesTyped DEF IInv, Asks
<1>. QED BY <1>1, <1>2, <1>3, ParsedLength DEF Given

\* A statement that was reset.
LEMMA AtStartTyped ==
  ASSUME IInv
  PROVE  /\ AtStart = [phase |-> "ready", row |-> 0, bound |-> AtStart.bound]
         /\ Len(AtStart.bound) = Len(names) /\ 0 \in 0..MaxRows
<1>1. Len(names) \in Nat
  BY UsesTyped DEF IInv, Types
<1>. QED BY <1>1, StatementUseAssumption DEF AtStart, Unbound

-----------------------------------------------------------------------------
(* One caller's step.                                                       *)

\* Nothing changes for the other callers, except what their requests point at.
OnlyAt(c) ==
  /\ names' = names /\ blank' = blank /\ life' = life
  /\ \A d \in Callers \ {c} :
       /\ pc'[d] = pc[d] /\ call'[d] = call[d] /\ values'[d] = values[d] /\ out'[d] = out[d]
       /\ rows'[d] = rows[d] /\ alone'[d] = alone[d]

\* While one caller is in a call, a step of it leaves the others as they were.
LEMMA OthersStay ==
  ASSUME IInv, NEW c \in Callers, pc[c] # "idle", OnlyAt(c), NEW d \in Callers \ {c}
  PROVE  /\ Asks(d)' /\ Parsed(d)'
         /\ alone'[d] /\ ~blank' => Solo(d)' /\ OwnStatement(d)'
<1>1. Given(d)' = Given(d) BY DEF Given, OnlyAt
<1>2. Asks(d)' /\ Parsed(d)'
  <2>. HIDE DEF Given
  <2>. QED BY <1>1 DEF IInv, Asks, Parsed, OnlyAt
<1>3. alone'[d] /\ ~blank' => pc[d] = "idle"
  BY DEF IInv, Solo, OnlyAt
<1>4. alone'[d] /\ ~blank' => Solo(d)' /\ OwnStatement(d)'
  BY <1>3 DEF IInv, Solo, OwnStatement, OnlyAt
<1>. QED BY <1>2, <1>4

\* Whoever soils the statement, or finds it so, has its reset to come.
LEMMA SoiledStep ==
  ASSUME IInv, NEW c \in Callers, OnlyAt(c),
         \/ stmt' = AtStart
         \/ stmt' = stmt /\ (pc[c] \in Soiling => pc'[c] \in Soiling)
         \/ ~NoHandle /\ pc'[c] \in Soiling
  PROVE  Soiled'
<1>1. AtStart' = AtStart /\ (NoHandle' <=> NoHandle)
  BY DEF OnlyAt, AtStart, Unbound, NoHandle, Freed
<1>2. stmt' # AtStart => \E d \in Callers : pc'[d] \in Soiling
  <2>. HIDE DEF AtStart, Soiling
  <2>1. CASE stmt' = stmt /\ (pc[c] \in Soiling => pc'[c] \in Soiling)
    <3>1. SUFFICES ASSUME stmt # AtStart PROVE \E d \in Callers : pc'[d] \in Soiling
      BY <2>1
    <3>2. PICK d \in Callers : pc[d] \in Soiling BY <3>1 DEF IInv, Soiled
    <3>3. CASE d = c BY <2>1, <3>2, <3>3
    <3>4. CASE d # c BY <3>2, <3>4 DEF OnlyAt
    <3>. QED BY <3>3, <3>4
  <2>. QED BY <2>1
<1>3. NoHandle => stmt' = AtStart
  <2>. HIDE DEF NoHandle, AtStart
  <2>. QED BY DEF IInv, Soiled
<1>. QED BY <1>1, <1>2, <1>3 DEF Soiled

\* So such a step preserves the invariant when it does for the caller itself.
LEMMA OwnStep ==
  ASSUME IInv, NEW c \in Callers, pc[c] # "idle", OnlyAt(c),
         Types', Soiled', Asks(c)', Parsed(c)', alone'[c] /\ ~blank' => Solo(c)' /\ OwnStatement(c)'
  PROVE  IInv'
BY OthersStay DEF IInv

\* OnBeforeParse: the statement is reset, and its names are read.
LEMMA OnBeforeParseStep == ASSUME IInv, NEW c \in Callers, OnBeforeParse(c) PROVE IInv'
<1>. USE DEF OnBeforeParse, Moved, ResetStmt
<1>1. pc[c] # "idle" /\ OnlyAt(c)
  BY DEF OnlyAt, IInv, Types
<1>2. Types'
  <2>1. StmtTyped'
    BY AtStartTyped, StatementUseAssumption DEF IInv, Types, StmtTyped
  <2>. HIDE DEF StmtTyped
  <2>. QED BY <2>1 DEF IInv, Types, Pcs, Outcomes
<1>3. Asks(c)' /\ Parsed(c)'
  <2>1. Given(c)' = Given(c) BY DEF Given, OnlyAt
  <2>. HIDE DEF Given
  <2>. QED BY <2>1 DEF IInv, Types, Asks, Parsed
<1>4. Soiled'
  <2>. HIDE DEF OnlyAt
  <2>1. \/ stmt' = AtStart
        \/ stmt' = stmt /\ (pc[c] \in Soiling => pc'[c] \in Soiling)
        \/ ~NoHandle /\ pc'[c] \in Soiling
    BY DEF IInv, Types, Soiling
  <2>. QED BY <1>1, <2>1, SoiledStep
<1>5. ASSUME alone'[c], ~blank' PROVE Solo(c)' /\ OwnStatement(c)'
  <2>1. alone[c] /\ Solo(c) /\ OwnStatement(c) /\ ~NoHandle /\ life # "closed"
    BY <1>1, <1>5 DEF IInv, Types, Solo, OnlyAt, NoHandle, Freed
  <2>2. Solo(c)' BY <1>1, <2>1 DEF Solo, OnlyAt
  <2>3. rows[c] = <<>> /\ out[c] = NULL
    BY <2>1, StatementUseAssumption DEF OwnStatement, AtStart, Outcomes
  <2>4. pc'[c] = "parsed" /\ rows'[c] = <<>> /\ out'[c] = NULL /\ fresh'[c]
    BY <2>1, <2>3, RowsOfNext, StatementUseAssumption DEF IInv, Types, StmtTyped, Outcomes, AtStart, Unbound
  <2>5. stmt' = AtStart'
    BY <2>1, <2>3, <2>4, RowsOfNext, StatementUseAssumption DEF IInv, Types, StmtTyped, Outcomes, AtStart, Unbound
  <2>6. OwnStatement(c)'
    <3>. HIDE DEF OnBeforeParse, Moved, ResetStmt
    <3>. QED BY <2>4, <2>5, StatementUseAssumption DEF OwnStatement, Outcomes
  <2>. QED BY <2>2, <2>6
<1>. QED BY <1>1, <1>2, <1>3, <1>4, <1>5, OwnStep

\* OnAfterParse: the values are parsed, or do not fit.
LEMMA OnAfterParseStep == ASSUME IInv, NEW c \in Callers, OnAfterParse(c) PROVE IInv'
<1>. USE DEF OnAfterParse, MakeError, Finally
<1>1. pc[c] # "idle" /\ OnlyAt(c)
  BY DEF OnlyAt, IInv, Types
<1>6. /\ pc[c] = "parsed" /\ stmt' = stmt /\ names' = names /\ call' = call /\ values[c] = NULL
      /\ rows' = rows
      /\ \/ pc'[c] = "bind" /\ values'[c] = Given(c) /\ Given(c) # NULL /\ out[c] = NULL /\ out'[c] = NULL
         \/ pc'[c] = "reset" /\ values'[c] = NULL /\ Given(c) = NULL /\ out[c] = NULL /\ out'[c] = "TypeError"
         \/ pc'[c] = "reset" /\ values'[c] = NULL /\ out[c] # NULL /\ out'[c] = out[c]
         \/ pc'[c] = "parsed" /\ values'[c] = NULL /\ out'[c] = "crash"
            /\ (life = "closed" \/ out[c] # NULL)
  <2>. HIDE DEF Given
  <2>0. pc[c] = "parsed" /\ values[c] = NULL BY DEF IInv, Parsed
  <2>1. CASE out[c] # NULL
    BY <2>0, <2>1 DEF IInv, Types
  <2>2. CASE out[c] = NULL /\ Given(c) = NULL
    BY <2>0, <2>2 DEF IInv, Types
  <2>3. CASE out[c] = NULL /\ Given(c) # NULL
    BY <2>0, <2>3 DEF IInv, Types
  <2>. QED BY <2>1, <2>2, <2>3
<1>2. Types'
  BY DEF IInv, Types, StmtTyped, Pcs, Parsed, Outcomes
<1>3. Asks(c)' /\ Parsed(c)'
  <2>1. Given(c)' = Given(c) BY DEF Given, OnlyAt
  <2>. HIDE DEF Given, OnAfterParse
  <2>. QED BY <1>6, <2>1 DEF IInv, Types, Asks, Parsed
<1>4. Soiled'
  <2>. HIDE DEF OnlyAt
  <2>1. \/ stmt' = AtStart
        \/ stmt' = stmt /\ (pc[c] \in Soiling => pc'[c] \in Soiling)
        \/ ~NoHandle /\ pc'[c] \in Soiling
    BY DEF IInv, Types, Soiling
  <2>. QED BY <1>1, <2>1, SoiledStep
<1>5. ASSUME alone'[c], ~blank' PROVE Solo(c)' /\ OwnStatement(c)'
  <2>1. alone[c] /\ Solo(c) /\ OwnStatement(c) /\ ~NoHandle /\ life # "closed"
    BY <1>1, <1>5 DEF IInv, Types, Solo, OnlyAt, NoHandle, Freed
  <2>2. Solo(c)' BY <1>1, <2>1 DEF Solo, OnlyAt
  <2>3. rows[c] = <<>> /\ out[c] = NULL /\ stmt = AtStart
    BY <2>1, StatementUseAssumption DEF OwnStatement, AtStart, Outcomes
  <2>4. rows'[c] = <<>> /\ rows'[c] = RowsOf(values'[c], 0) /\ stmt' = AtStart'
    BY <1>6, <2>1, <2>3, RowsOfNext, StatementUseAssumption DEF IInv, Types, StmtTyped, Outcomes, AtStart, Unbound
  <2>5. \/ pc'[c] = "reset" /\ out'[c] = "TypeError"
        \/ pc'[c] = "bind" /\ out'[c] = NULL
    BY <1>6, <2>1, <2>3, <2>4, RowsOfNext, StatementUseAssumption DEF IInv, Types, StmtTyped, Outcomes, AtStart, Unbound
  <2>6. OwnStatement(c)'
    <3>. HIDE DEF OnAfterParse, MakeError, Finally
    <3>. QED BY <2>4, <2>5, StatementUseAssumption DEF OwnStatement, Outcomes
  <2>. QED BY <2>2, <2>6
<1>. QED BY <1>1, <1>2, <1>3, <1>4, <1>5, OwnStep

\* OnBeforeBind: the values are bound.
LEMMA OnBeforeBindStep == ASSUME IInv, NEW c \in Callers, OnBeforeBind(c) PROVE IInv'
<1>. USE DEF OnBeforeBind
<1>1. pc[c] # "idle" /\ OnlyAt(c)
  BY DEF OnlyAt, IInv, Types
<1>2. Types'
  <2>1. StmtTyped'
    BY BoundLength, StatementUseAssumption DEF IInv, Types, StmtTyped, Parsed
  <2>. HIDE DEF StmtTyped
  <2>. QED BY <2>1 DEF IInv, Types, Pcs, Outcomes
<1>3. Asks(c)' /\ Parsed(c)'
  <2>1. Given(c)' = Given(c) BY DEF Given, OnlyAt
  <2>. HIDE DEF Given
  <2>. QED BY <2>1 DEF IInv, Types, Asks, Parsed
<1>4. Soiled'
  <2>. HIDE DEF OnlyAt
  <2>1. \/ stmt' = AtStart
        \/ stmt' = stmt /\ (pc[c] \in Soiling => pc'[c] \in Soiling)
        \/ ~NoHandle /\ pc'[c] \in Soiling
    BY DEF IInv, Types, Soiling
  <2>. QED BY <1>1, <2>1, SoiledStep
<1>5. ASSUME alone'[c], ~blank' PROVE Solo(c)' /\ OwnStatement(c)'
  <2>1. alone[c] /\ Solo(c) /\ OwnStatement(c) /\ ~NoHandle /\ life # "closed"
    BY <1>1, <1>5 DEF IInv, Types, Solo, OnlyAt, NoHandle, Freed
  <2>2. Solo(c)' BY <1>1, <2>1 DEF Solo, OnlyAt
  <2>3. rows[c] = <<>> /\ out[c] = NULL /\ stmt.phase = "ready" /\ stmt.row = 0
    BY <2>1, StatementUseAssumption DEF OwnStatement, AtStart, Outcomes
  <2>4. pc'[c] = "bound" /\ rows'[c] = <<>> /\ out'[c] = NULL
    BY <2>1, <2>3, RowsOfNext, StatementUseAssumption DEF IInv, Types, StmtTyped, Outcomes
  <2>5. stmt'.row = 0 /\ stmt'.bound = values'[c]
    BY <2>1, <2>3, <2>4, RowsOfNext, StatementUseAssumption DEF IInv, Types, StmtTyped, Outcomes
  <2>6. OwnStatement(c)'
    <3>. HIDE DEF OnBeforeBind
    <3>. QED BY <2>4, <2>5, StatementUseAssumption DEF OwnStatement, Outcomes
  <2>. QED BY <2>2, <2>6
<1>. QED BY <1>1, <1>2, <1>3, <1>4, <1>5, OwnStep

\* OnAfterBind: the execution starts.
LEMMA OnAfterBindStep == ASSUME IInv, NEW c \in Callers, OnAfterBind(c) PROVE IInv'
<1>. USE DEF OnAfterBind, Request, Finally
<1>1. pc[c] # "idle" /\ OnlyAt(c)
  BY DEF OnlyAt, IInv, Types
<1>2. Types'
  BY DEF IInv, Types, StmtTyped, Pcs, Parsed, Outcomes
<1>3. Asks(c)' /\ Parsed(c)'
  <2>1. Given(c)' = Given(c) BY DEF Given, OnlyAt
  <2>. HIDE DEF Given
  <2>. QED BY <2>1 DEF IInv, Types, Asks, Parsed
<1>4. Soiled'
  <2>. HIDE DEF OnlyAt
  <2>1. \/ stmt' = AtStart
        \/ stmt' = stmt /\ (pc[c] \in Soiling => pc'[c] \in Soiling)
        \/ ~NoHandle /\ pc'[c] \in Soiling
    BY DEF IInv, Types, Soiling
  <2>. QED BY <1>1, <2>1, SoiledStep
<1>5. ASSUME alone'[c], ~blank' PROVE Solo(c)' /\ OwnStatement(c)'
  <2>1. alone[c] /\ Solo(c) /\ OwnStatement(c) /\ ~NoHandle /\ life # "closed"
    BY <1>1, <1>5 DEF IInv, Types, Solo, OnlyAt, NoHandle, Freed
  <2>2. Solo(c)' BY <1>1, <2>1 DEF Solo, OnlyAt
  <2>3. rows[c] = <<>> /\ out[c] = NULL /\ stmt.row = 0 /\ stmt.bound = values[c]
    BY <2>1, StatementUseAssumption DEF OwnStatement, AtStart, Outcomes
  <2>4. pc'[c] \in {"run", "step"} /\ rows'[c] = <<>> /\ out'[c] = NULL
    BY <2>1, <2>3, RowsOfNext, StatementUseAssumption DEF IInv, Types, StmtTyped, Outcomes
  <2>5. stmt'.row = 0 /\ stmt'.bound = values'[c] /\ rows'[c] = RowsOf(values'[c], 0)
    BY <2>1, <2>3, <2>4, RowsOfNext, StatementUseAssumption DEF IInv, Types, StmtTyped, Outcomes
  <2>6. OwnStatement(c)'
    <3>. HIDE DEF OnAfterBind, Request
    <3>. QED BY <2>4, <2>5, StatementUseAssumption DEF OwnStatement, Outcomes
  <2>. QED BY <2>2, <2>6
<1>. QED BY <1>1, <1>2, <1>3, <1>4, <1>5, OwnStep

\* OnBeforeStep: a row is read, or the execution ends.
LEMMA OnBeforeStepStep == ASSUME IInv, NEW c \in Callers, OnBeforeStep(c) PROVE IInv'
<1>. USE DEF OnBeforeStep, Moved
<1>1. pc[c] # "idle" /\ OnlyAt(c)
  BY DEF OnlyAt, IInv, Types
<1>2. Types'
  <2>1. StmtTyped /\ names' = names /\ 0 \in 0..MaxRows
    BY StatementUseAssumption DEF IInv, Types
  <2>2. StmtTyped'
    <3>1. \/ stmt' = stmt
          \/ stmt.row < MaxRows /\ stmt' = [stmt EXCEPT !.phase = "row", !.row = @ + 1]
          \/ stmt' = [stmt EXCEPT !.phase = "halt", !.row = 0]
      OBVIOUS
    <3>. HIDE DEF OnBeforeStep, Moved
    <3>2. stmt' = [phase |-> stmt'.phase, row |-> stmt'.row, bound |-> stmt'.bound]
          /\ stmt'.phase \in {"ready", "row", "halt"} /\ stmt'.bound = stmt.bound
      BY <2>1, <3>1 DEF StmtTyped
    <3>3. \/ stmt'.row = stmt.row
          \/ stmt.row < MaxRows /\ stmt'.row = stmt.row + 1
          \/ stmt'.row = 0
      BY <2>1, <3>1 DEF StmtTyped
    <3>4. stmt.row \in 0..MaxRows /\ MaxRows \in Nat
      BY <2>1, StatementUseAssumption DEF StmtTyped
    <3>5. stmt'.row \in 0..MaxRows
      BY <3>3, <3>4
    <3>. QED BY <2>1, <3>2, <3>5 DEF StmtTyped
  <2>. HIDE DEF StmtTyped
  <2>. QED BY <2>2 DEF IInv, Types, Pcs, Outcomes
<1>3. Asks(c)' /\ Parsed(c)'
  <2>1. Given(c)' = Given(c) BY DEF Given, OnlyAt
  <2>. HIDE DEF Given
  <2>. QED BY <2>1 DEF IInv, Types, Asks, Parsed
<1>4. Soiled'
  <2>. HIDE DEF OnlyAt
  <2>1. \/ stmt' = AtStart
        \/ stmt' = stmt /\ (pc[c] \in Soiling => pc'[c] \in Soiling)
        \/ ~NoHandle /\ pc'[c] \in Soiling
    BY DEF IInv, Types, Soiling
  <2>. QED BY <1>1, <2>1, SoiledStep
<1>5. ASSUME alone'[c], ~blank' PROVE Solo(c)' /\ OwnStatement(c)'
  <2>1. alone[c] /\ Solo(c) /\ OwnStatement(c) /\ ~NoHandle /\ life # "closed"
    BY <1>1, <1>5 DEF IInv, Types, Solo, OnlyAt, NoHandle, Freed
  <2>2. Solo(c)' BY <1>1, <2>1 DEF Solo, OnlyAt
  <2>3. out[c] = NULL /\ stmt.bound = values[c] /\ rows[c] = RowsOf(values[c], stmt.row)
    BY <2>1, StatementUseAssumption DEF OwnStatement, AtStart, Outcomes
  <2>4. pc'[c] = "stepped" /\ fresh'[c] /\ values'[c] = values[c] /\ stmt'.bound = values'[c]
    BY <2>1, <2>3, RowsOfNext, StatementUseAssumption DEF IInv, Types, StmtTyped, Outcomes
  <2>5. stmt.row \in Nat /\ rows'[c] = RowsOf(values'[c], stmt.row)
    BY <2>1, <2>3, <2>4, RowsOfNext, StatementUseAssumption DEF IInv, Types, StmtTyped, Outcomes
  <2>6. \/ row'[c] = stmt.row + 1 /\ stmt'.row = stmt.row + 1 /\ out'[c] = NULL
        \/ row'[c] = NULL /\ out'[c] \in {NULL, "SQLite"}
    BY <2>1, <2>3, <2>4, <2>5, RowsOfNext, StatementUseAssumption DEF IInv, Types, StmtTyped, Outcomes
  <2>7. OwnStatement(c)'
    <3>. HIDE DEF OnBeforeStep, Moved
    <3>. QED BY <2>4, <2>5, <2>6, StatementUseAssumption DEF OwnStatement, Outcomes
  <2>. QED BY <2>2, <2>7
<1>. QED BY <1>1, <1>2, <1>3, <1>4, <1>5, OwnStep

\* OnAfterStep: the row is handed on.
LEMMA OnAfterStepStep == ASSUME IInv, NEW c \in Callers, OnAfterStep(c) PROVE IInv'
<1>. USE DEF OnAfterStep, Finally, Seen, Row
<1>1. pc[c] # "idle" /\ OnlyAt(c)
  BY DEF OnlyAt, IInv, Types
<1>2. Types'
  BY DEF IInv, Types, StmtTyped, Pcs, Parsed, Outcomes
<1>3. Asks(c)' /\ Parsed(c)'
  <2>1. Given(c)' = Given(c) BY DEF Given, OnlyAt
  <2>. HIDE DEF Given
  <2>. QED BY <2>1 DEF IInv, Types, Asks, Parsed
<1>4. Soiled'
  <2>. HIDE DEF OnlyAt
  <2>1. \/ stmt' = AtStart
        \/ stmt' = stmt /\ (pc[c] \in Soiling => pc'[c] \in Soiling)
        \/ ~NoHandle /\ pc'[c] \in Soiling
    BY DEF IInv, Types, Soiling
  <2>. QED BY <1>1, <2>1, SoiledStep
<1>5. ASSUME alone'[c], ~blank' PROVE Solo(c)' /\ OwnStatement(c)'
  <2>1. alone[c] /\ Solo(c) /\ OwnStatement(c) /\ ~NoHandle /\ life # "closed"
    BY <1>1, <1>5 DEF IInv, Types, Solo, OnlyAt, NoHandle, Freed
  <2>2. Solo(c)' BY <1>1, <2>1 DEF Solo, OnlyAt
  <2>3. /\ out[c] \in {NULL, "SQLite"} /\ (out[c] = NULL => stmt.bound = values[c])
        /\ out[c] = NULL /\ row[c] # NULL =>
             row[c] = stmt.row /\ row[c] \in Nat \ {0} /\ rows[c] = RowsOf(values[c], row[c] - 1)
        /\ \E n \in Nat : rows[c] = RowsOf(values[c], n)
    BY <2>1, StatementUseAssumption DEF OwnStatement, AtStart, Outcomes
  <2>4. values'[c] = values[c] /\ stmt' = stmt
    OBVIOUS
  <2>5. CASE out[c] = NULL /\ row[c] # NULL
    <3> DEFINE n == row[c] - 1
    <3>1. n \in Nat /\ n + 1 = row[c]
      BY <2>3, <2>5
    <3>2. rows'[c] = Append(RowsOf(values[c], n), [with |-> values[c], n |-> row[c]])
      BY <2>1, <2>3, <2>5 DEF IInv, Types
    <3>3. row[c] \in Nat /\ rows'[c] = RowsOf(values'[c], row[c])
      <4>. HIDE DEF n, OnAfterStep
      <4>1. Append(RowsOf(values[c], n), [with |-> values[c], n |-> n + 1])
              = RowsOf(values[c], n + 1)
        BY <3>1, RowsOfNext
      <4>. QED BY <2>3, <2>4, <2>5, <3>1, <3>2, <4>1
    <3>4. \/ pc'[c] = "reset" /\ out'[c] = "done"
          \/ pc'[c] = "yield" /\ out'[c] = NULL
      BY <2>1, <2>5 DEF IInv, Types
    <3>5. stmt'.row = row[c] /\ stmt'.bound = values'[c]
      BY <2>3, <2>4, <2>5
    <3>. HIDE DEF OnAfterStep, Finally, Seen, Row
    <3>. QED BY <2>2, <3>3, <3>4, <3>5, StatementUseAssumption DEF OwnStatement, Outcomes
  <2>6. CASE ~(out[c] = NULL /\ row[c] # NULL)
    <3>1. pc'[c] = "reset" /\ out'[c] \in {"done", "SQLite"} /\ rows'[c] = rows[c]
      BY <2>1, <2>3, <2>6 DEF IInv, Types
    <3>2. \E n \in Nat : rows'[c] = RowsOf(values'[c], n)
      BY <2>3, <2>4, <3>1
    <3>. HIDE DEF OnAfterStep, Finally, Seen, Row
    <3>. QED BY <2>2, <3>1, <3>2 DEF OwnStatement
  <2>. QED BY <2>5, <2>6
<1>. QED BY <1>1, <1>2, <1>3, <1>4, <1>5, OwnStep

\* Pull: the consumer of iterate wants the next row.
LEMMA PullStep == ASSUME IInv, NEW c \in Callers, Pull(c) PROVE IInv'
<1>. USE DEF Pull, Request
<1>1. pc[c] # "idle" /\ OnlyAt(c)
  BY DEF OnlyAt, IInv, Types
<1>2. Types'
  BY DEF IInv, Types, StmtTyped, Pcs, Parsed, Outcomes
<1>3. Asks(c)' /\ Parsed(c)'
  <2>1. Given(c)' = Given(c) BY DEF Given, OnlyAt
  <2>. HIDE DEF Given
  <2>. QED BY <2>1 DEF IInv, Types, Asks, Parsed
<1>4. Soiled'
  <2>. HIDE DEF OnlyAt
  <2>1. \/ stmt' = AtStart
        \/ stmt' = stmt /\ (pc[c] \in Soiling => pc'[c] \in Soiling)
        \/ ~NoHandle /\ pc'[c] \in Soiling
    BY DEF IInv, Types, Soiling
  <2>. QED BY <1>1, <2>1, SoiledStep
<1>5. ASSUME alone'[c], ~blank' PROVE Solo(c)' /\ OwnStatement(c)'
  <2>1. alone[c] /\ Solo(c) /\ OwnStatement(c) /\ ~NoHandle /\ life # "closed"
    BY <1>1, <1>5 DEF IInv, Types, Solo, OnlyAt, NoHandle, Freed
  <2>2. Solo(c)' BY <1>1, <2>1 DEF Solo, OnlyAt
  <2>3. out[c] = NULL /\ stmt.bound = values[c] /\ rows[c] = RowsOf(values[c], stmt.row)
    BY <2>1, StatementUseAssumption DEF OwnStatement, AtStart, Outcomes
  <2>4. pc'[c] = "step" /\ out'[c] = NULL /\ stmt'.bound = values'[c]
    BY <2>1, <2>3, RowsOfNext, StatementUseAssumption DEF IInv, Types, StmtTyped, Outcomes
  <2>5. rows'[c] = RowsOf(values'[c], stmt'.row)
    BY <2>1, <2>3, <2>4, RowsOfNext, StatementUseAssumption DEF IInv, Types, StmtTyped, Outcomes
  <2>6. OwnStatement(c)'
    <3>. HIDE DEF Pull, Request
    <3>. QED BY <2>4, <2>5, StatementUseAssumption DEF OwnStatement, Outcomes
  <2>. QED BY <2>2, <2>6
<1>. QED BY <1>1, <1>2, <1>3, <1>4, <1>5, OwnStep

\* Break: the consumer of iterate leaves.
LEMMA BreakStep == ASSUME IInv, NEW c \in Callers, Break(c) PROVE IInv'
<1>. USE DEF Break, Finally
<1>1. pc[c] # "idle" /\ OnlyAt(c)
  BY DEF OnlyAt, IInv, Types
<1>2. Types'
  BY DEF IInv, Types, StmtTyped, Pcs, Parsed, Outcomes
<1>3. Asks(c)' /\ Parsed(c)'
  <2>1. Given(c)' = Given(c) BY DEF Given, OnlyAt
  <2>. HIDE DEF Given
  <2>. QED BY <2>1 DEF IInv, Types, Asks, Parsed
<1>4. Soiled'
  <2>. HIDE DEF OnlyAt
  <2>1. \/ stmt' = AtStart
        \/ stmt' = stmt /\ (pc[c] \in Soiling => pc'[c] \in Soiling)
        \/ ~NoHandle /\ pc'[c] \in Soiling
    BY DEF IInv, Types, Soiling
  <2>. QED BY <1>1, <2>1, SoiledStep
<1>5. ASSUME alone'[c], ~blank' PROVE Solo(c)' /\ OwnStatement(c)'
  <2>1. alone[c] /\ Solo(c) /\ OwnStatement(c) /\ ~NoHandle /\ life # "closed"
    BY <1>1, <1>5 DEF IInv, Types, Solo, OnlyAt, NoHandle, Freed
  <2>2. Solo(c)' BY <1>1, <2>1 DEF Solo, OnlyAt
  <2>3. rows[c] = RowsOf(values[c], stmt.row)
    BY <2>1, StatementUseAssumption DEF OwnStatement, AtStart, Outcomes
  <2>4. pc'[c] = "reset" /\ out'[c] = "done"
    BY <2>1, <2>3, RowsOfNext, StatementUseAssumption DEF IInv, Types, StmtTyped, Outcomes
  <2>5. stmt.row \in Nat /\ rows'[c] = RowsOf(values'[c], stmt.row)
    BY <2>1, <2>3, <2>4, RowsOfNext, StatementUseAssumption DEF IInv, Types, StmtTyped, Outcomes
  <2>6. OwnStatement(c)'
    <3>. HIDE DEF Break, Finally
    <3>. QED BY <2>4, <2>5, StatementUseAssumption DEF OwnStatement, Outcomes
  <2>. QED BY <2>2, <2>6
<1>. QED BY <1>1, <1>2, <1>3, <1>4, <1>5, OwnStep

\* OnBeforeRun: the statement is run to its end.
LEMMA OnBeforeRunStep == ASSUME IInv, NEW c \in Callers, OnBeforeRun(c) PROVE IInv'
<1>. USE DEF OnBeforeRun, Moved, Seen, Row
<1>1. pc[c] # "idle" /\ OnlyAt(c)
  BY DEF OnlyAt, IInv, Types
<1>2. Types'
  <2>1. StmtTyped /\ names' = names /\ 0 \in 0..MaxRows
    BY StatementUseAssumption DEF IInv, Types
  <2>2. StmtTyped'
    <3>1. \/ stmt' = stmt
          \/ stmt.row < MaxRows /\ stmt' = [stmt EXCEPT !.phase = "row", !.row = @ + 1]
          \/ stmt' = [stmt EXCEPT !.phase = "halt", !.row = 0]
      OBVIOUS
    <3>. HIDE DEF OnBeforeRun, Moved, Seen, Row
    <3>2. stmt' = [phase |-> stmt'.phase, row |-> stmt'.row, bound |-> stmt'.bound]
          /\ stmt'.phase \in {"ready", "row", "halt"} /\ stmt'.bound = stmt.bound
      BY <2>1, <3>1 DEF StmtTyped
    <3>3. \/ stmt'.row = stmt.row
          \/ stmt.row < MaxRows /\ stmt'.row = stmt.row + 1
          \/ stmt'.row = 0
      BY <2>1, <3>1 DEF StmtTyped
    <3>4. stmt.row \in 0..MaxRows /\ MaxRows \in Nat
      BY <2>1, StatementUseAssumption DEF StmtTyped
    <3>5. stmt'.row \in 0..MaxRows
      BY <3>3, <3>4
    <3>. QED BY <2>1, <3>2, <3>5 DEF StmtTyped
  <2>. HIDE DEF StmtTyped
  <2>. QED BY <2>2 DEF IInv, Types, Pcs, Outcomes
<1>3. Asks(c)' /\ Parsed(c)'
  <2>1. Given(c)' = Given(c) BY DEF Given, OnlyAt
  <2>. HIDE DEF Given
  <2>. QED BY <2>1 DEF IInv, Types, Asks, Parsed
<1>4. Soiled'
  <2>. HIDE DEF OnlyAt
  <2>1. \/ stmt' = AtStart
        \/ stmt' = stmt /\ (pc[c] \in Soiling => pc'[c] \in Soiling)
        \/ ~NoHandle /\ pc'[c] \in Soiling
    BY DEF IInv, Types, Soiling
  <2>. QED BY <1>1, <2>1, SoiledStep
<1>5. ASSUME alone'[c], ~blank' PROVE Solo(c)' /\ OwnStatement(c)'
  <2>1. alone[c] /\ Solo(c) /\ OwnStatement(c) /\ ~NoHandle /\ life # "closed"
    BY <1>1, <1>5 DEF IInv, Types, Solo, OnlyAt, NoHandle, Freed
  <2>2. Solo(c)' BY <1>1, <2>1 DEF Solo, OnlyAt
  <2>3. rows[c] = <<>> /\ stmt.bound = values[c]
    BY <2>1, StatementUseAssumption DEF OwnStatement, AtStart, Outcomes
  <2>4. pc'[c] = "ran" /\ out'[c] \in {"done", "SQLite"}
    BY <2>1, <2>3, RowsOfNext, StatementUseAssumption DEF IInv, Types, StmtTyped, Outcomes
  <2>5. rows'[c] = <<[with |-> values'[c], n |-> 1]>> /\ rows'[c] = RowsOf(values'[c], 1)
    BY <2>1, <2>3, <2>4, RowsOfNext, StatementUseAssumption DEF IInv, Types, StmtTyped, Outcomes
  <2>6. \E n \in Nat : rows'[c] = RowsOf(values'[c], n)
    BY <2>1, <2>3, <2>4, <2>5, RowsOfNext, StatementUseAssumption DEF IInv, Types, StmtTyped, Outcomes
  <2>7. OwnStatement(c)'
    <3>. HIDE DEF OnBeforeRun, Moved, Seen, Row
    <3>. QED BY <2>4, <2>5, <2>6, StatementUseAssumption DEF OwnStatement, Outcomes
  <2>. QED BY <2>2, <2>7
<1>. QED BY <1>1, <1>2, <1>3, <1>4, <1>5, OwnStep

\* OnAfterRun: the run is over.
LEMMA OnAfterRunStep == ASSUME IInv, NEW c \in Callers, OnAfterRun(c) PROVE IInv'
<1>. USE DEF OnAfterRun, Finally
<1>1. pc[c] # "idle" /\ OnlyAt(c)
  BY DEF OnlyAt, IInv, Types
<1>2. Types'
  BY DEF IInv, Types, StmtTyped, Pcs, Parsed, Outcomes
<1>3. Asks(c)' /\ Parsed(c)'
  <2>1. Given(c)' = Given(c) BY DEF Given, OnlyAt
  <2>. HIDE DEF Given
  <2>. QED BY <2>1 DEF IInv, Types, Asks, Parsed
<1>4. Soiled'
  <2>. HIDE DEF OnlyAt
  <2>1. \/ stmt' = AtStart
        \/ stmt' = stmt /\ (pc[c] \in Soiling => pc'[c] \in Soiling)
        \/ ~NoHandle /\ pc'[c] \in Soiling
    BY DEF IInv, Types, Soiling
  <2>. QED BY <1>1, <2>1, SoiledStep
<1>5. ASSUME alone'[c], ~blank' PROVE Solo(c)' /\ OwnStatement(c)'
  <2>1. alone[c] /\ Solo(c) /\ OwnStatement(c) /\ ~NoHandle /\ life # "closed"
    BY <1>1, <1>5 DEF IInv, Types, Solo, OnlyAt, NoHandle, Freed
  <2>2. Solo(c)' BY <1>1, <2>1 DEF Solo, OnlyAt
  <2>3. out[c] \in {"done", "SQLite"} /\ \E n \in Nat : rows[c] = RowsOf(values[c], n)
    BY <2>1, StatementUseAssumption DEF OwnStatement, AtStart, Outcomes
  <2>4. pc'[c] = "reset" /\ out'[c] \in {"done", "SQLite"}
    BY <2>1, <2>3, RowsOfNext, StatementUseAssumption DEF IInv, Types, StmtTyped, Outcomes
  <2>5. \E n \in Nat : rows'[c] = RowsOf(values'[c], n)
    BY <2>1, <2>3, <2>4, RowsOfNext, StatementUseAssumption DEF IInv, Types, StmtTyped, Outcomes
  <2>6. OwnStatement(c)'
    <3>. HIDE DEF OnAfterRun, Finally
    <3>. QED BY <2>4, <2>5, StatementUseAssumption DEF OwnStatement, Outcomes
  <2>. QED BY <2>2, <2>6
<1>. QED BY <1>1, <1>2, <1>3, <1>4, <1>5, OwnStep

\* OnBeforeReset: the statement is reset and unbound.
LEMMA OnBeforeResetStep == ASSUME IInv, NEW c \in Callers, OnBeforeReset(c) PROVE IInv'
<1>. USE DEF OnBeforeReset, Moved, ResetStmt
<1>1. pc[c] # "idle" /\ OnlyAt(c)
  BY DEF OnlyAt, IInv, Types
<1>2. Types'
  <2>1. StmtTyped'
    BY AtStartTyped, StatementUseAssumption DEF IInv, Types, StmtTyped
  <2>. HIDE DEF StmtTyped
  <2>. QED BY <2>1 DEF IInv, Types, Pcs, Outcomes
<1>3. Asks(c)' /\ Parsed(c)'
  <2>1. Given(c)' = Given(c) BY DEF Given, OnlyAt
  <2>. HIDE DEF Given
  <2>. QED BY <2>1 DEF IInv, Types, Asks, Parsed
<1>4. Soiled'
  <2>. HIDE DEF OnlyAt
  <2>1. \/ stmt' = AtStart
        \/ stmt' = stmt /\ (pc[c] \in Soiling => pc'[c] \in Soiling)
        \/ ~NoHandle /\ pc'[c] \in Soiling
    BY DEF IInv, Types, Soiling, Soiled
  <2>. QED BY <1>1, <2>1, SoiledStep
<1>5. ASSUME alone'[c], ~blank' PROVE Solo(c)' /\ OwnStatement(c)'
  <2>1. alone[c] /\ Solo(c) /\ OwnStatement(c) /\ ~NoHandle /\ life # "closed"
    BY <1>1, <1>5 DEF IInv, Types, Solo, OnlyAt, NoHandle, Freed
  <2>2. Solo(c)' BY <1>1, <2>1 DEF Solo, OnlyAt
  <2>3. out[c] \in {"done", "TypeError", "SQLite"} /\ \E n \in Nat : rows[c] = RowsOf(values[c], n)
    BY <2>1, StatementUseAssumption DEF OwnStatement, AtStart, Outcomes
  <2>4. pc'[c] = "resetted" /\ out'[c] \in {"done", "TypeError", "SQLite"}
    BY <2>1, <2>3, RowsOfNext, StatementUseAssumption DEF IInv, Types, StmtTyped, Outcomes
  <2>5. \E n \in Nat : rows'[c] = RowsOf(values'[c], n)
    BY <2>1, <2>3, <2>4, RowsOfNext, StatementUseAssumption DEF IInv, Types, StmtTyped, Outcomes
  <2>6. OwnStatement(c)'
    <3>. HIDE DEF OnBeforeReset, Moved, ResetStmt
    <3>. QED BY <2>4, <2>5, StatementUseAssumption DEF OwnStatement, Outcomes
  <2>. QED BY <2>2, <2>6
<1>. QED BY <1>1, <1>2, <1>3, <1>4, <1>5, OwnStep

\* OnAfterReset: the call is over.
LEMMA OnAfterResetStep == ASSUME IInv, NEW c \in Callers, OnAfterReset(c) PROVE IInv'
<1>. USE DEF OnAfterReset
<1>1. pc[c] = "resetted" /\ pc'[c] = "idle" /\ OnlyAt(c)
  BY DEF OnlyAt, IInv, Types
<1>2. Types'
  BY DEF IInv, Types, StmtTyped, Pcs, Outcomes
<1>3. Asks(c)' /\ Parsed(c)'
  <2>1. values'[c] = NULL /\ out'[c] = NULL /\ rows'[c] = <<>> BY DEF IInv, Types
  <2>. QED BY <1>1, <2>1, StatementUseAssumption DEF Asks, Parsed, Outcomes
<1>4. Soiled'
  <2>1. stmt' = stmt /\ pc[c] \notin Soiling BY <1>1 DEF Soiling
  <2>. QED BY <1>1, <2>1, SoiledStep
<1>5. Solo(c)' /\ OwnStatement(c)'
  <2>1. rows'[c] = <<>> /\ out'[c] = NULL BY DEF IInv, Types
  <2>. QED BY <1>1, <2>1 DEF Solo, OwnStatement
<1>. QED BY <1>1, <1>2, <1>3, <1>4, <1>5, OwnStep

-----------------------------------------------------------------------------
(* Steps that concern every caller.                                         *)

\* A call starts.  It is alone when nobody else is in a call, and whoever is
\* in one is alone no more.
LEMMA CallStep ==
  ASSUME IInv, NEW u \in Uses, u[1] = names, NEW c \in Callers, NEW kind,
         Call(c, kind, u[2], u[3])
  PROVE  IInv'
<1>. USE DEF Call, Disturb, Request
<1>1. pc[c] = "idle" /\ names' = names /\ blank' = blank /\ life' = life /\ stmt' = stmt /\ values' = values
  OBVIOUS
<1>2. pc'[c] = IF life = "closed" THEN "idle" ELSE "parse"
  BY DEF IInv, Types
<1>3. out'[c] = IF life = "closed" THEN "crash" ELSE out[c]
  BY DEF IInv, Types
<1>4. \A d \in Callers \ {c} : pc'[d] = pc[d] /\ out'[d] = out[d] /\ call'[d] = call[d]
  BY DEF IInv, Types
<1>5. Types'
  BY DEF IInv, Types, StmtTyped, Pcs, Outcomes
<1>6. Asks(c)' /\ Parsed(c)'
  <2>1. call'[c].named = u[2] /\ call'[c].positional = u[3] BY DEF IInv, Types
  <2>2. values[c] = NULL /\ out[c] \in {NULL, "crash"} /\ out[c] # "TypeError" /\ out[c] # "crash"
    BY <1>1, StatementUseAssumption DEF IInv, Parsed, Running, Outcomes
  <2>3. rows[c] = <<>> /\ rows'[c] = <<>>
    BY <2>2 DEF IInv, Parsed
  <2>. QED BY <1>1, <1>2, <1>3, <2>1, <2>2, <2>3 DEF Asks, Parsed
<1>7. ASSUME NEW d \in Callers \ {c} PROVE Asks(d)' /\ Parsed(d)'
  <2>1. Given(d)' = Given(d) BY <1>1, <1>4 DEF Given
  <2>. HIDE DEF Given
  <2>. QED BY <1>1, <1>4, <2>1 DEF IInv, Asks, Parsed
<1>8. Soiled'
  <2>1. AtStart' = AtStart /\ (NoHandle' <=> NoHandle) BY <1>1 DEF AtStart, Unbound, NoHandle, Freed
  <2>2. \A d \in Callers : pc[d] \in Soiling => pc'[d] \in Soiling
    BY <1>1, <1>4 DEF Soiling
  <2>. HIDE DEF AtStart, NoHandle, Soiling
  <2>. QED BY <1>1, <2>1, <2>2 DEF IInv, Soiled
<1>9. ASSUME NEW d \in Callers \ {c}, alone'[d], ~blank' PROVE Solo(d)' /\ OwnStatement(d)'
  <2>1. pc'[d] = "idle" /\ alone[d] /\ ~blank /\ rows'[d] = rows[d]
    BY <1>4, <1>9 DEF IInv, Types
  <2>2. rows[d] = <<>> /\ out[d] = NULL
    BY <1>4, <2>1 DEF IInv, OwnStatement
  <2>. QED BY <1>1, <1>4, <2>1, <2>2 DEF Solo, OwnStatement
<1>10. ASSUME alone'[c], ~blank' PROVE Solo(c)' /\ OwnStatement(c)'
  <2>1. ~Busy /\ life = "open" /\ alone[c] /\ ~blank /\ rows'[c] = rows[c]
    BY <1>1, <1>10 DEF IInv, Types
  <2>2. rows[c] = <<>> /\ out[c] = NULL
    BY <1>1, <2>1 DEF IInv, OwnStatement
  <2>3. \A d \in Callers \ {c} : pc'[d] = "idle"
    BY <1>4, <2>1 DEF Busy
  <2>. QED BY <1>1, <1>2, <1>3, <2>1, <2>2, <2>3 DEF Solo, OwnStatement
<1>. QED BY <1>5, <1>6, <1>7, <1>8, <1>9, <1>10 DEF IInv

\* finalize: whoever is in a call is alone no more.
LEMMA FinalizeStep == ASSUME IInv, Finalize PROVE IInv'
<1>. USE DEF Finalize, Disturb
<1>1. Types' BY DEF IInv, Types, StmtTyped
<1>2. \A c \in Callers : Given(c)' = Given(c) BY DEF Given
<1>3. \A c \in Callers : Asks(c)' /\ Parsed(c)'
  <2>. HIDE DEF Given
  <2>. QED BY <1>2 DEF IInv, Asks, Parsed
<1>4. Soiled'
  <2>1. AtStart' = AtStart /\ (NoHandle' => NoHandle) BY DEF AtStart, Unbound, NoHandle, Freed
  <2>. QED BY <2>1 DEF IInv, Soiled
<1>5. ASSUME NEW c \in Callers, alone'[c], ~blank' PROVE Solo(c)' /\ OwnStatement(c)'
  <2>1. alone[c] /\ ~blank /\ pc[c] = "idle" /\ rows'[c] = rows[c] BY <1>5 DEF IInv, Types
  <2>. QED BY <2>1 DEF IInv, Solo, OwnStatement
<1>. QED BY <1>1, <1>3, <1>4, <1>5 DEF IInv

\* The pool frees the statement, and with it what it holds.
LEMMA OnBeforeFinalizeStep == ASSUME IInv, OnBeforeFinalize PROVE IInv'
<1>. USE DEF OnBeforeFinalize
<1>0. AtStart' = AtStart /\ StmtTyped'
  BY AtStartTyped DEF IInv, Types, StmtTyped, AtStart, Unbound
<1>1. Types' BY <1>0 DEF IInv, Types
<1>2. \A c \in Callers : Given(c)' = Given(c) BY DEF Given
<1>3. \A c \in Callers : Asks(c)' /\ Parsed(c)'
  <2>. HIDE DEF Given
  <2>. QED BY <1>2 DEF IInv, Asks, Parsed
<1>4. Soiled' BY <1>0 DEF Soiled
<1>5. ASSUME NEW c \in Callers, alone'[c], ~blank' PROVE Solo(c)' /\ OwnStatement(c)'
  <2>1. alone[c] /\ ~blank /\ pc[c] = "idle" /\ rows'[c] = rows[c] BY <1>5 DEF IInv, Types, Solo
  <2>. QED BY <2>1 DEF IInv, Solo, OwnStatement
<1>. QED BY <1>1, <1>3, <1>4, <1>5 DEF IInv

\* this._handle is null from here on.
LEMMA OnAfterFinalizeStep == ASSUME IInv, OnAfterFinalize PROVE IInv'
<1>. USE DEF OnAfterFinalize
<1>1. Types' BY DEF IInv, Types, StmtTyped
<1>2. \A c \in Callers : Given(c)' = Given(c) BY DEF Given
<1>3. \A c \in Callers : Asks(c)' /\ Parsed(c)'
  <2>. HIDE DEF Given
  <2>. QED BY <1>2 DEF IInv, Asks, Parsed
<1>4. Soiled'
  <2>1. AtStart' = AtStart /\ NoHandle BY DEF AtStart, Unbound, NoHandle, Freed
  <2>. QED BY <2>1 DEF IInv, Soiled
<1>5. ASSUME NEW c \in Callers, alone'[c], ~blank' PROVE Solo(c)' /\ OwnStatement(c)'
  <2>1. alone[c] /\ ~blank /\ pc[c] = "idle" BY <1>5 DEF IInv, Types, Solo
  <2>. QED BY <2>1 DEF IInv, Solo, OwnStatement
<1>. QED BY <1>1, <1>3, <1>4, <1>5 DEF IInv

-----------------------------------------------------------------------------
(* The theorems.                                                            *)

LEMMA InitIInv == Init => IInv
<1>. SUFFICES ASSUME Init PROVE IInv OBVIOUS
<1>1. Len(names) \in Nat
  BY UsesTyped DEF Init
<1>2. Types
  <2>1. StmtTyped
    BY <1>1, StatementUseAssumption DEF Init, StmtTyped, AtStart, Unbound
  <2>. QED BY <2>1 DEF Init, Types, Pcs
<1>3. \A c \in Callers : Asks(c) /\ Parsed(c)
  BY StatementUseAssumption DEF Init, Asks, Parsed, Outcomes
<1>4. Soiled BY DEF Init, Soiled
<1>5. \A c \in Callers : Solo(c) /\ OwnStatement(c)
  BY DEF Init, Solo, OwnStatement
<1>. QED BY <1>2, <1>3, <1>4, <1>5 DEF IInv

LEMMA NextIInv == IInv /\ [Next]_vars => IInv'
<1>. SUFFICES ASSUME IInv, [Next]_vars PROVE IInv' OBVIOUS
<1>1. CASE CallAny
  BY <1>1, CallStep DEF CallAny, Callers
<1>2. ASSUME NEW c \in Callers, Continue(c) \/ Pull(c) \/ Break(c) PROVE IInv'
  BY <1>2, OnBeforeParseStep, OnAfterParseStep, OnBeforeBindStep, OnAfterBindStep,
     OnBeforeStepStep, OnAfterStepStep, OnBeforeRunStep, OnAfterRunStep,
     OnBeforeResetStep, OnAfterResetStep, PullStep, BreakStep DEF Continue
<1>3. CASE Finalize \/ OnBeforeFinalize \/ OnAfterFinalize
  BY <1>3, FinalizeStep, OnBeforeFinalizeStep, OnAfterFinalizeStep
<1>4. CASE UNCHANGED vars
  <2>. USE <1>4 DEF vars
  <2>1. Types' BY DEF IInv, Types, StmtTyped
  <2>2. \A c \in Callers : Given(c)' = Given(c) BY DEF Given
  <2>3. \A c \in Callers : Asks(c)' /\ Parsed(c)'
    <3>. HIDE DEF Given
    <3>. QED BY <2>2 DEF IInv, Asks, Parsed
  <2>4. Soiled' BY DEF IInv, Soiled, AtStart, Unbound, NoHandle, Freed
  <2>5. \A c \in Callers : alone'[c] /\ ~blank' => Solo(c)' /\ OwnStatement(c)'
    BY DEF IInv, Solo, OwnStatement, AtStart, Unbound
  <2>. QED BY <2>1, <2>3, <2>4, <2>5 DEF IInv
<1>. QED BY <1>1, <1>2, <1>3, <1>4 DEF Next

LEMMA Invariance == Spec => []IInv
BY InitIInv, NextIInv, PTL DEF Spec

\* What a caller gives is what its parameters are meant to be.
LEMMA GivenIsIntended ==
  ASSUME IInv, NEW c \in Callers, pc[c] # "idle", Plain(c)
  PROVE  Given(c) = IntendedBy(c)
<1>1. Len(names) \in Nat
  BY UsesTyped DEF IInv, Types
<1>2. /\ call[c].positional \in Seq(STRING)
      /\ call[c].named # NULL => Handed(call[c].named) # NULL
  BY UsesTyped DEF IInv, Asks
<1>. QED BY <1>1, <1>2, ParseIsIntended DEF Plain, Given, IntendedBy

\* The state of the statement and of the calls on it is of its types: with the
\* pool and the JavaScript thread interleaved in any way, a value for each
\* parameter is bound before anything is executed.
THEOREM TypesCorrect == Spec => []TypeOK
<1>1. IInv => TypeOK
  <2>. SUFFICES ASSUME IInv PROVE TypeOK OBVIOUS
  <2>1. \A c \in Callers :
          pc[c] \in {"step", "stepped", "yield", "run", "ran"} => Len(values[c]) = Len(names)
    BY BoundLength DEF IInv, Parsed
  <2>. QED BY <2>1 DEF IInv, Types, StmtTyped, TypeOK, Pcs
<1>. QED BY <1>1, Invariance, PTL

\* paraql__on_after_parse gives each parameter of a call the value meant for
\* it, and rejects exactly the calls whose values do not fit, for statements
\* of any number of parameters and any calls without bigints.
THEOREM BindsExactlyAlways == Spec => []BindsExactly
<1>1. IInv => BindsExactly
  <2>. SUFFICES ASSUME IInv, NEW c \in Callers
                PROVE  /\ values[c] # NULL /\ Plain(c) => values[c] = IntendedBy(c)
                       /\ out[c] = "TypeError" /\ Plain(c) => IntendedBy(c) = NULL
    BY DEF BindsExactly
  <2>1. values[c] # NULL => values[c] = Given(c) /\ pc[c] # "idle"
    BY DEF IInv, Parsed
  <2>2. out[c] = "TypeError" => Given(c) = NULL /\ pc[c] # "idle"
    BY DEF IInv, Parsed
  <2>. QED BY <2>1, <2>2, GivenIsIntended
<1>. QED BY <1>1, Invariance, PTL

\* One step of any caller on a statement that says nothing.
LEMMA BlankStep ==
  ASSUME Types, blank, \A c \in Callers : OnBlank(c), [Next]_vars
  PROVE  \A c \in Callers : OnBlank(c)'
<1>. USE StatementUseAssumption
<1>1. ASSUME NEW c \in Callers, Continue(c) \/ Pull(c) \/ Break(c)
      PROVE  \A d \in Callers : OnBlank(d)'
  <2>1. OnBlank(c) /\ NoHandle BY DEF NoHandle
  <2>2. OnBeforeParse(c) \/ OnAfterParse(c) \/ OnBeforeReset(c) \/ OnAfterReset(c)
    BY <1>1, <2>1 DEF OnBlank, Continue, OnBeforeBind, OnAfterBind, OnBeforeStep, OnAfterStep,
       OnBeforeRun, OnAfterRun, Pull, Break
  <2>3. CASE OnBeforeParse(c)
    BY <2>1, <2>3 DEF Types, OnBlank, OnBeforeParse
  <2>4. CASE OnAfterParse(c)
    <3>1. pc[c] = "parsed" /\ out[c] \in {"unset", "crash"} /\ out[c] # NULL
      BY <2>1, <2>4 DEF OnBlank, OnAfterParse, Outcomes
    <3>2. MakeError(c) /\ rows' = rows
      BY <2>4, <3>1 DEF OnAfterParse
    <3>. QED BY <2>1, <3>1, <3>2 DEF Types, OnBlank, MakeError, Finally
  <2>5. CASE OnBeforeReset(c)
    BY <2>1, <2>5 DEF Types, OnBlank, OnBeforeReset
  <2>6. CASE OnAfterReset(c)
    BY <2>1, <2>6 DEF Types, OnBlank, OnAfterReset
  <2>. QED BY <2>2, <2>3, <2>4, <2>5, <2>6
<1>2. CASE CallAny
  <2>1. PICK u \in Uses, c \in Callers, kind \in {"get", "iterate", "run"} : Call(c, kind, u[2], u[3])
    BY <1>2 DEF CallAny, Callers
  <2>. QED BY <2>1 DEF Types, OnBlank, Call, Request, Disturb
<1>3. CASE Finalize \/ OnBeforeFinalize \/ OnAfterFinalize
  BY <1>3 DEF Types, OnBlank, Finalize, OnBeforeFinalize, OnAfterFinalize, Disturb
<1>4. CASE UNCHANGED vars
  BY <1>4 DEF vars, OnBlank
<1>. QED BY <1>1, <1>2, <1>3, <1>4 DEF Next

LEMMA BlankInvariance == Spec => [](blank => \A c \in Callers : OnBlank(c))
<1>1. Init => \A c \in Callers : OnBlank(c)
  BY DEF Init, OnBlank
<1>2. IInv /\ (blank => \A c \in Callers : OnBlank(c)) /\ [Next]_vars
        => (blank => \A c \in Callers : OnBlank(c))'
  <2>. SUFFICES ASSUME IInv, blank => \A c \in Callers : OnBlank(c), [Next]_vars, blank'
                PROVE  \A c \in Callers : OnBlank(c)'
    OBVIOUS
  <2>1. blank' = blank
    BY DEF Next, vars, CallAny, Call, Continue, Finalize, OnBeforeFinalize, OnAfterFinalize,
       OnBeforeParse, OnAfterParse, OnBeforeReset, OnAfterReset, OnBeforeBind, OnAfterBind,
       OnBeforeStep, OnAfterStep, OnBeforeRun, OnAfterRun, Pull, Break
  <2>. QED BY <2>1, BlankStep DEF IInv
<1>. QED BY <1>1, <1>2, Invariance, PTL DEF Spec

\* A call during which nobody else used the statement gets the rows of one
\* execution with its own parameters, in order, and no error but its own,
\* whatever went on before it among any number of callers.  Every call on a
\* statement whose SQL is empty or a comment fails at bind with a message that
\* was never set, and its reset with "Statement has already been finalized".
THEOREM OwnOutcomeAlways == Spec => []OwnOutcome
<1>1. IInv /\ (blank => \A c \in Callers : OnBlank(c)) => OwnOutcome
  <2>. SUFFICES ASSUME IInv, blank => \A d \in Callers : OnBlank(d),
                       NEW c \in Callers, alone[c]
                PROVE  /\ rows[c] # <<>> /\ Plain(c) =>
                            rows[c] = [k \in 1..Len(rows[c]) |-> [with |-> IntendedBy(c), n |-> k]]
                       /\ ~blank => out[c] \notin {"MISUSE", "unset", "crash"}
                       /\ blank => /\ out[c] \in {NULL, "unset", "crash", "MISUSE"} /\ rows[c] = <<>>
                                   /\ pc[c] = "resetted" => out[c] = "MISUSE"
    BY DEF OwnOutcome
  <2>1. CASE blank
    BY <2>1 DEF OnBlank
  <2>2. ASSUME ~blank PROVE OwnStatement(c) /\ pc[c] \in Pcs /\ stmt.row \in Nat
    BY <2>2, StatementUseAssumption DEF IInv, Types, StmtTyped
  <2>3. ASSUME ~blank PROVE out[c] \notin {"MISUSE", "unset", "crash"}
    BY <2>2, <2>3, StatementUseAssumption DEF OwnStatement, Pcs, Outcomes
  <2>4. ASSUME ~blank, rows[c] # <<>>, Plain(c)
        PROVE  rows[c] = [k \in 1..Len(rows[c]) |-> [with |-> IntendedBy(c), n |-> k]]
    <3>1. values[c] # NULL /\ values[c] = Given(c) /\ pc[c] # "idle"
      BY <2>4 DEF IInv, Parsed
    <3>2. values[c] = IntendedBy(c)
      BY <2>4, <3>1, GivenIsIntended
    <3>3. \E n \in Nat : rows[c] = RowsOf(values[c], n)
      BY <2>2, <2>4 DEF OwnStatement, Pcs
    <3>4. rows[c] = RowsOf(values[c], Len(rows[c]))
      BY <3>3, RowsOfNext
    <3>. QED BY <3>2, <3>4 DEF RowsOf
  <2>. QED BY <2>1, <2>3, <2>4
<1>. QED BY <1>1, Invariance, BlankInvariance, PTL

\* In such a call the JavaScript thread reads parameter names and columns
\* that SQLite still holds as the pool thread left them.
THEOREM PointersLiveAlways == Spec => []PointersLive
<1>1. IInv /\ (blank => \A c \in Callers : OnBlank(c)) => PointersLive
  BY StatementUseAssumption DEF IInv, OwnStatement, OnBlank, PointersLive, Outcomes
<1>. QED BY <1>1, Invariance, BlankInvariance, PTL

\* However any number of calls overlap, fail or are left early, and whenever
\* the statement is finalized: with nobody in a call it is reset and unbound.
THEOREM CleanWhenIdleAlways == Spec => []CleanWhenIdle
<1>1. IInv => CleanWhenIdle
  BY DEF IInv, Soiled, Soiling, CleanWhenIdle, Busy
<1>. QED BY <1>1, Invariance, PTL
=============================================================================
