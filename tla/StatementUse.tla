----------------------------- MODULE StatementUse -----------------------------
(***************************************************************************)
(* One prepared statement and the calls that use it: get, all, iterate and *)
(* _run of lib/statement.js over the bind, step, run and reset requests of *)
(* binding.c.                                                              *)
(*                                                                         *)
(* prepare() hands the same statement to everybody who asks for its SQL,   *)
(* the apply callback included, and nothing keeps two calls on it apart.   *)
(* Each call is a series of requests with an await between any two: bind,  *)
(* in two passes with the JavaScript thread between them, then step or     *)
(* run, then reset.  A request has a half that runs on a pool thread       *)
(* (OnBefore...) and a half that runs on the JavaScript thread             *)
(* (OnAfter...), which still reads names, columns and messages that SQLite *)
(* owns.                                                                   *)
(*                                                                         *)
(* A pool half is one step.  Two of them on one statement could mix more   *)
(* finely, but only in calls that overlap, of which nothing is promised    *)
(* here but that they leave the statement as they found it.                *)
(***************************************************************************)
EXTENDS BindParams

CONSTANTS
  Readers,      \* callers of get, all and iterate: the application
  Runners,      \* callers of _run: the apply callback
  Uses,         \* what may be called: parameter names of a statement, object of
                \* named values (a function from keys, or NULL), positional array
  Shared,       \* the statements on which a call, or finalize, may start while
                \* another call runs; the others are used by one call at a time
  MaxRows       \* bound: rows of one execution

Callers == Readers \cup Runners
Sqls == {u[1] : u \in Uses}

\* How a call ends: with its rows, with an error of its own or of SQLite, with
\* an error whose message was never set, or with the process: an assertion of
\* the binding, or the read of that message.
Outcomes == {"done", "TypeError", "MISUSE", "SQLite", "unset", "crash"}

ASSUME StatementUseAssumption ==
  /\ Readers \cap Runners = {}
  /\ MaxRows \in Nat
  /\ Shared \subseteq Sqls
  /\ NULL \notin Outcomes
  /\ \A u \in Uses : /\ u[1] \in Seq({NULL} \cup (STRING \X STRING)) /\ u[3] \in Seq(STRING)
                     /\ u[2] # NULL => Handed(u[2]) # NULL

VARIABLES
  names,   \* the statement's parameters; never changes
  blank,   \* its SQL is empty or a comment; never changes
  life,    \* open, closing (finalize queued), freed (by the pool thread),
           \* closed (and this._handle is null)
  stmt,    \* sqlite3_stmt: its phase, the row it is at, its bindings
  pc,      \* [caller -> the half that comes next]
  call,    \* [caller -> what it calls]
  values,  \* [caller -> req->values of its bind]
  row,     \* [caller -> what its step read, for the half on the JS thread]
  out,     \* [caller -> how its call ends, once known]
  alone,   \* history: [caller -> nobody else used the statement so far]
  rows,    \* history: [caller -> the rows of its call, with the bindings behind
           \* each, as long as it is alone]
  fresh    \* history: [caller -> what its request points at in SQLite is there]

vars == <<names, blank, life, stmt, pc, call, values, row, out, alone, rows, fresh>>

-----------------------------------------------------------------------------
(* The statement.                                                           *)

Freed == life \in {"freed", "closed"}

\* sqlite3_prepare_v2 answers SQLITE_OK and a NULL handle to SQL that says
\* nothing; every request finds the same NULL as after finalize.
NoHandle == blank \/ Freed

Unbound == [i \in 1..Len(names) |-> "null"]
AtStart == [phase |-> "ready", row |-> 0, bound |-> Unbound]

\* Mutant: reset without clear_bindings.
ResetKeepsBindings == [stmt EXCEPT !.phase = "ready", !.row = 0]

\* sqlite3_reset and sqlite3_clear_bindings.
ResetStmt == AtStart

\* The callers in S are not alone any more.
Disturb(S) ==
  /\ alone' = [d \in Callers |-> alone[d] /\ d \notin S]
  /\ rows' = [d \in Callers |-> IF d \in S THEN <<>> ELSE rows[d]]

\* Rows that other requests read are gone once the statement moves.
Moved(c) == [d \in Callers |-> fresh[d] /\ (d = c \/ pc[d] # "stepped")]

Busy == \E d \in Callers : pc[d] # "idle"
CanStart == names \in Shared \/ (~Busy /\ life \in {"open", "closed"})
Running == \A c \in Callers : out[c] # "crash"

-----------------------------------------------------------------------------
(* A request made with this._handle.  It is null once the statement has     *)
(* been finalized, and the binding asserts that it is a handle.             *)

Request(c, half) ==
  IF life = "closed"
    THEN out' = [out EXCEPT ![c] = "crash"] /\ UNCHANGED pc
    ELSE pc' = [pc EXCEPT ![c] = half] /\ UNCHANGED out

\* The call is over, well or not: finally, binding.reset.
Finally(c, how) ==
  IF life = "closed"
    THEN out' = [out EXCEPT ![c] = "crash"] /\ UNCHANGED pc
    ELSE pc' = [pc EXCEPT ![c] = "reset"] /\ out' = [out EXCEPT ![c] = how]

\* get, all and iterate look at closed first, and throw; _run does not.
Call(c, kind, named, positional) ==
  /\ Running
  /\ pc[c] = "idle" /\ CanStart
  /\ c \in Readers => life # "closed"
  /\ call' = [call EXCEPT ![c] = [kind |-> kind, named |-> named, positional |-> positional]]
  /\ Disturb({d \in Callers : pc[d] # "idle"} \cup (IF Busy \/ life # "open" THEN {c} ELSE {}))
  /\ Request(c, "parse")
  /\ UNCHANGED <<names, blank, life, stmt, values, row, fresh>>

-----------------------------------------------------------------------------
(* bind: reset, read the names; parse on the JS thread; bind the values.     *)

\* A statement without a handle is reported with a message that is not set.
OnBeforeParse(c) ==
  /\ Running /\ pc[c] = "parse"
  /\ pc' = [pc EXCEPT ![c] = "parsed"]
  /\ IF NoHandle
       THEN /\ out' = [out EXCEPT ![c] = "unset"]
            /\ UNCHANGED <<stmt, fresh>>
       ELSE /\ stmt' = ResetStmt
            /\ fresh' = [Moved(c) EXCEPT ![c] = TRUE]
            /\ UNCHANGED out
  /\ UNCHANGED <<names, blank, life, call, values, row, rows, alone>>

Given(c) == Parse(names, Handed(call[c].named), HandedAll(call[c].positional))

\* Mutant: values that do not fit reject nothing.
ParseErrorUnsettled(c) ==
  /\ Running /\ pc[c] = "parsed" /\ out[c] = NULL /\ Given(c) # NULL
  /\ values' = [values EXCEPT ![c] = Given(c)]
  /\ pc' = [pc EXCEPT ![c] = "bind"]
  /\ UNCHANGED <<names, blank, life, stmt, call, row, rows, out, fresh, alone>>

\* paraql__make_error makes a string of the message that is not set: a string
\* of whatever is there, or the end of the process.
MakeError(c) ==
  \/ Finally(c, out[c])
  \/ out' = [out EXCEPT ![c] = "crash"] /\ UNCHANGED pc

OnAfterParse(c) ==
  /\ Running /\ pc[c] = "parsed"
  /\ CASE out[c] # NULL -> MakeError(c) /\ UNCHANGED values
       [] out[c] = NULL /\ Given(c) = NULL -> Finally(c, "TypeError") /\ UNCHANGED values
       [] out[c] = NULL /\ Given(c) # NULL ->
            /\ values' = [values EXCEPT ![c] = Given(c)]
            /\ pc' = [pc EXCEPT ![c] = "bind"]
            /\ UNCHANGED out
  /\ UNCHANGED <<names, blank, life, stmt, call, row, rows, fresh, alone>>

\* Mutant: the values are bound from the last to the first.
BindReversed(c) ==
  /\ Running /\ pc[c] = "bind"
  /\ pc' = [pc EXCEPT ![c] = "bound"]
  /\ stmt' = [stmt EXCEPT !.bound = Reverse(values[c])]
  /\ UNCHANGED <<names, blank, life, call, values, row, rows, out, fresh, alone>>

\* sqlite3_bind_* refuses a statement that was stepped and not reset.
OnBeforeBind(c) ==
  /\ Running /\ pc[c] = "bind"
  /\ pc' = [pc EXCEPT ![c] = "bound"]
  /\ IF NoHandle \/ (stmt.phase # "ready" /\ values[c] # <<>>)
       THEN out' = [out EXCEPT ![c] = "MISUSE"] /\ UNCHANGED stmt
       ELSE stmt' = [stmt EXCEPT !.bound = values[c]] /\ UNCHANGED out
  /\ UNCHANGED <<names, blank, life, call, values, row, rows, fresh, alone>>

OnAfterBind(c) ==
  /\ Running /\ pc[c] = "bound"
  /\ IF out[c] # NULL THEN Finally(c, out[c])
     ELSE Request(c, IF call[c].kind = "run" THEN "run" ELSE "step")
  /\ UNCHANGED <<names, blank, life, stmt, call, values, row, rows, fresh, alone>>

-----------------------------------------------------------------------------
(* step and run.  A statement that came to its end starts again.             *)

Row(n) == [with |-> stmt.bound, n |-> n]
Seen(c, r) == rows' = IF alone[c] THEN [rows EXCEPT ![c] = Append(@, r)] ELSE rows

\* Mutant: the pool half of step resets the statement when it has the row.
StepResets(c) ==
  /\ Running /\ pc[c] = "step" /\ ~NoHandle
  /\ pc' = [pc EXCEPT ![c] = "stepped"]
  /\ stmt' = ResetStmt
  /\ row' = [row EXCEPT ![c] = 1]
  /\ fresh' = [Moved(c) EXCEPT ![c] = FALSE]
  /\ UNCHANGED <<names, blank, life, call, values, rows, out, alone>>

OnBeforeStep(c) ==
  /\ Running /\ pc[c] = "step"
  /\ pc' = [pc EXCEPT ![c] = "stepped"]
  /\ IF NoHandle
       THEN /\ out' = [out EXCEPT ![c] = "MISUSE"]
            /\ UNCHANGED <<stmt, row, fresh>>
       ELSE /\ fresh' = [Moved(c) EXCEPT ![c] = TRUE]
            /\ \/ /\ stmt.row < MaxRows
                  /\ stmt' = [stmt EXCEPT !.phase = "row", !.row = @ + 1]
                  /\ row' = [row EXCEPT ![c] = stmt.row + 1]
                  /\ UNCHANGED out
               \/ /\ stmt' = [stmt EXCEPT !.phase = "halt", !.row = 0]
                  /\ row' = [row EXCEPT ![c] = NULL]
                  /\ out' \in {out, [out EXCEPT ![c] = "SQLite"]}
  /\ UNCHANGED <<names, blank, life, call, values, rows, alone>>

\* get returns the first row; iterate yields each.
OnAfterStep(c) ==
  /\ Running /\ pc[c] = "stepped"
  /\ IF out[c] = NULL /\ row[c] # NULL
       THEN /\ Seen(c, Row(row[c]))
            /\ IF call[c].kind = "get" THEN Finally(c, "done")
               ELSE pc' = [pc EXCEPT ![c] = "yield"] /\ UNCHANGED out
       ELSE /\ Finally(c, IF out[c] = NULL THEN "done" ELSE out[c])
            /\ UNCHANGED rows
  /\ row' = [row EXCEPT ![c] = NULL]
  /\ UNCHANGED <<names, blank, life, stmt, call, values, fresh, alone>>

\* The consumer of iterate asks for the next row, or breaks out of its loop.
Pull(c) ==
  /\ Running /\ pc[c] = "yield"
  /\ Request(c, "step")
  /\ UNCHANGED <<names, blank, life, stmt, call, values, row, rows, fresh, alone>>

Break(c) ==
  /\ Running /\ pc[c] = "yield"
  /\ Finally(c, "done")
  /\ UNCHANGED <<names, blank, life, stmt, call, values, row, rows, fresh, alone>>

\* All steps of a run, to the end.
OnBeforeRun(c) ==
  /\ Running /\ pc[c] = "run"
  /\ pc' = [pc EXCEPT ![c] = "ran"]
  /\ IF NoHandle
       THEN /\ out' = [out EXCEPT ![c] = "MISUSE"]
            /\ UNCHANGED <<stmt, rows, fresh>>
       ELSE /\ stmt' = [stmt EXCEPT !.phase = "halt", !.row = 0]
            /\ Seen(c, Row(1))
            /\ out' \in {[out EXCEPT ![c] = "done"], [out EXCEPT ![c] = "SQLite"]}
            /\ fresh' = Moved(c)
  /\ UNCHANGED <<names, blank, life, call, values, row, alone>>

OnAfterRun(c) ==
  /\ Running /\ pc[c] = "ran"
  /\ Finally(c, out[c])
  /\ UNCHANGED <<names, blank, life, stmt, call, values, row, rows, fresh, alone>>

-----------------------------------------------------------------------------
(* reset, which ends every call.                                            *)

OnBeforeReset(c) ==
  /\ Running /\ pc[c] = "reset"
  /\ pc' = [pc EXCEPT ![c] = "resetted"]
  /\ IF NoHandle
       THEN out' = [out EXCEPT ![c] = "MISUSE"] /\ UNCHANGED <<stmt, fresh>>
       ELSE stmt' = ResetStmt /\ fresh' = Moved(c) /\ UNCHANGED out
  /\ UNCHANGED <<names, blank, life, call, values, row, rows, alone>>

OnAfterReset(c) ==
  /\ Running /\ pc[c] = "resetted"
  /\ pc' = [pc EXCEPT ![c] = "idle"]
  /\ call' = [call EXCEPT ![c] = NULL]
  /\ values' = [values EXCEPT ![c] = NULL]
  /\ rows' = [rows EXCEPT ![c] = <<>>]
  /\ out' = [out EXCEPT ![c] = NULL]
  /\ fresh' = [fresh EXCEPT ![c] = TRUE]
  /\ alone' = [alone EXCEPT ![c] = TRUE]
  /\ UNCHANGED <<names, blank, life, stmt, row>>

-----------------------------------------------------------------------------
(* finalize(): called by the application, by an eviction, by close().        *)

Finalize ==
  /\ Running
  /\ life = "open" /\ (names \in Shared \/ ~Busy)
  /\ life' = "closing"
  /\ Disturb({c \in Callers : pc[c] # "idle"})
  /\ UNCHANGED <<names, blank, stmt, pc, call, values, row, out, fresh>>

OnBeforeFinalize ==
  /\ Running /\ life = "closing"
  /\ life' = "freed"
  /\ stmt' = AtStart
  /\ fresh' = [c \in Callers |-> pc[c] = "idle"]
  /\ UNCHANGED <<names, blank, pc, call, values, row, rows, out, alone>>

OnAfterFinalize ==
  /\ Running /\ life = "freed"
  /\ life' = "closed"
  /\ UNCHANGED <<names, blank, stmt, pc, call, values, row, rows, out, fresh, alone>>

-----------------------------------------------------------------------------
Init ==
  /\ names \in Sqls
  /\ blank \in BOOLEAN /\ (blank => names = <<>>)
  /\ life = "open" /\ stmt = AtStart
  /\ pc = [c \in Callers |-> "idle"]
  /\ call = [c \in Callers |-> NULL]
  /\ values = [c \in Callers |-> NULL]
  /\ row = [c \in Callers |-> NULL]
  /\ rows = [c \in Callers |-> <<>>]
  /\ out = [c \in Callers |-> NULL]
  /\ fresh = [c \in Callers |-> TRUE]
  /\ alone = [c \in Callers |-> TRUE]

CallAny ==
  \E u \in Uses :
    /\ u[1] = names
    /\ \/ \E c \in Readers, kind \in {"get", "iterate"} : Call(c, kind, u[2], u[3])
       \/ \E c \in Runners : Call(c, "run", u[2], u[3])

Continue(c) ==
  \/ OnBeforeParse(c) \/ OnAfterParse(c) \/ OnBeforeBind(c) \/ OnAfterBind(c)
  \/ OnBeforeStep(c) \/ OnAfterStep(c) \/ OnBeforeRun(c) \/ OnAfterRun(c)
  \/ OnBeforeReset(c) \/ OnAfterReset(c)

Next ==
  \/ CallAny
  \/ \E c \in Callers : Continue(c) \/ Pull(c) \/ Break(c)
  \/ Finalize \/ OnBeforeFinalize \/ OnAfterFinalize

\* The pool runs every request and the event loop every completion.  Nobody
\* need call, and the consumer of iterate may stop asking for rows.
Fairness == \A c \in Callers : WF_vars(Continue(c))

Spec == Init /\ [][Next]_vars
FairSpec == Spec /\ Fairness

-----------------------------------------------------------------------------
(* Properties.                                                              *)

IntendedBy(c) == Intended(names, call[c].named, call[c].positional)
Plain(c) == PlainNamed(call[c].named) /\ PlainPositional(call[c].positional)

\* Type correctness of the statement and of the calls on it.
TypeOK ==
  /\ names \in Sqls /\ blank \in BOOLEAN
  /\ life \in {"open", "closing", "freed", "closed"}
  /\ stmt.phase \in {"ready", "row", "halt"} /\ stmt.row \in 0..MaxRows
  /\ Len(stmt.bound) = Len(names)
  /\ \A c \in Callers :
       /\ pc[c] \in {"idle", "parse", "parsed", "bind", "bound", "step", "stepped", "yield",
                     "run", "ran", "reset", "resetted"}
       /\ pc[c] \in {"step", "stepped", "yield", "run", "ran"} => Len(values[c]) = Len(names)
       /\ out[c] \in {NULL} \cup Outcomes
  /\ fresh \in [Callers -> BOOLEAN] /\ alone \in [Callers -> BOOLEAN]

\* The loop over the parameters accepts a call exactly when its values fit the
\* statement, and gives each parameter the value meant for it: positional ones
\* in order to the nameless, named ones by name with or without the sigil.  The
\* exception is a bigint.
BindsExactly ==
  \A c \in Callers :
    /\ values[c] # NULL /\ Plain(c) => values[c] = IntendedBy(c)
    /\ out[c] = "TypeError" /\ Plain(c) => IntendedBy(c) = NULL

\* A call during which nobody else used the statement executes it with its own
\* parameters and gets the rows of one execution, from the first on, none
\* twice, whatever calls came before it, failed, or overlapped each other.  It
\* fails only on its own parameters or in its own execution: not because the
\* statement was busy, finalized or gone.  Of a statement that says nothing the
\* opposite holds: it was prepared, and yet no call on it gets anywhere.
OwnOutcome ==
  \A c \in Callers : alone[c] =>
    /\ rows[c] # <<>> /\ Plain(c) =>
         rows[c] = [k \in 1..Len(rows[c]) |-> [with |-> IntendedBy(c), n |-> k]]
    /\ ~blank => out[c] \notin {"MISUSE", "unset", "crash"}
    /\ blank => /\ out[c] \in {NULL, "unset", "crash", "MISUSE"} /\ rows[c] = <<>>
                /\ pc[c] = "resetted" => out[c] = "MISUSE"

\* In such a call the parameter names and the columns that the JavaScript
\* thread reads are still those the pool thread found.
PointersLive ==
  \A c \in Callers :
    alone[c] /\ pc[c] \in {"parsed", "stepped"} /\ out[c] = NULL => fresh[c]

\* Every row that apply runs is executed with the parameters of the operation
\* in the log: the database is a function of the log and of nothing else.
AppliedAsLogged ==
  [][\A c \in Runners : pc[c] = "run" /\ pc'[c] = "ran" /\ out'[c] # "MISUSE"
       => stmt.bound = IntendedBy(c)]_vars

\* However calls overlap, fail, or are left early, with the last of them gone
\* the statement is reset and unbound: it holds no read transaction open and
\* no values for a later call to find.
CleanWhenIdle == ~Busy => stmt = AtStart

\* A call comes to its end, or to a row that its consumer has to take.
CallsReturn ==
  \A c \in Callers :
    (pc[c] \notin {"idle", "yield"}) ~> (pc[c] \in {"idle", "yield"} \/ ~Running)

=============================================================================
