------------------------------ MODULE WritePath ------------------------------
(***************************************************************************)
(* The write path of one ParaQL instance: lib/vfs.js (exec, run, flush,    *)
(* addWriter, removeWriter, _apply, _write), lib/deferred.js, the          *)
(* operations of lib/codecs.js and the batching half of lib/statement.js.  *)
(*                                                                         *)
(* A local call appends one batch of operations to the oplog and waits for *)
(* a Deferred that the apply callback settles.  There is one slot for that *)
(* Deferred, this._interactive, whatever the number of calls, and apply    *)
(* settles whatever the slot holds, whichever operation it is applying.    *)
(*                                                                         *)
(* Autobee is external: it linearises the batches of all writers, calls    *)
(* apply on the unapplied suffix one call at a time, truncates the view    *)
(* when a remote batch sorts before applied ones, and settles the promise  *)
(* of an append once its batch is applied.                                 *)
(***************************************************************************)
EXTENDS Naturals, Sequences, FiniteSets, SequencesExt

CONSTANTS
  Calls,       \* local calls of db.exec, stmt.run, stmt.flush, add/removeWriter
  Remotes,     \* batches appended by other writers (bounds their number)
  Params,      \* what a row binds: the SQL and its parameters
  BadParams,   \* those whose execution SQLite refuses (constraint, syntax)
  Compressed,  \* the compressed option: operations are deflated before append
  Sequential,  \* the application awaits each call before it makes the next
  Faults,      \* subset of {"open", "stmt", "del"}: what may go wrong
  WriterOps,   \* subset of {"WRITER_ADD", "WRITER_DEL"}: the writer calls made
  MaxQueue,    \* bound: rows queued by a batching statement
  MaxGroup,    \* bound: batches Autobee hands to one apply
  MaxDirect,   \* bound: writes made by get / all / iterate
  NULL, THREW  \* no value; an error that no operation produced

ASSUME WritePathAssumption ==
  /\ BadParams \subseteq Params
  /\ Compressed \in BOOLEAN /\ Sequential \in BOOLEAN
  /\ Faults \subseteq {"open", "stmt", "del"}
  /\ WriterOps \subseteq {"WRITER_ADD", "WRITER_DEL"}
  /\ MaxQueue \in Nat /\ MaxGroup \in Nat \ {0} /\ MaxDirect \in Nat
  /\ Calls \cap Remotes = {}
  /\ NULL # THREW /\ NULL \notin Calls \cup Remotes \cup Params \cup Seq(Params)
  /\ "direct" \notin Calls \cup Remotes

VARIABLES
  queue,       \* ParaQLStatement._queue of the batching statement
  accepted,    \* history: the rows queue took and did not drop
  interactive, \* ParaVFS._interactive: the call whose Deferred is in the slot
  settled,     \* [call -> what its Deferred was settled with]
  pc,          \* [call -> where it is]
  sent,        \* [call -> the operations it appends]
  waitOn,      \* [call -> the Deferred it awaits]
  promise,     \* [call -> the promise bee.append returned]
  ret,         \* [call -> what it returned or threw]
  log,         \* the batches of all writers in linearised order
  applied,     \* how many batches of log the view holds
  db,          \* history: the writes the replicated view holds, in order
  ap,          \* the running _apply: the batches handed to it, up to the upto-th
               \* of log; its node, the k-th operation of the b-th batch; totals
  view,        \* ParaVFS._view is set
  files,       \* ParaVFS._files: whose unflushed batch it holds
  direct,      \* how many direct writes were made (bound)
  bee,         \* Autobee runs, or an apply threw
  writable     \* bee.writable

callVars  == <<settled, pc, sent, waitOn, promise, ret>>
applyVars == <<log, applied, db, ap, view, bee, writable>>
vars == <<queue, accepted, interactive, callVars, applyVars, files, direct>>

-----------------------------------------------------------------------------
(* Operations.  A node is one entry of the oplog; its row is what it binds, *)
(* or the writer an add or delete is about.                                 *)

Writers == {"self", "other"}
Rows == Params \cup Writers \cup {NULL}

\* What a running _apply keeps: its cursor and its totals.
Applying == [upto : Nat, b : Nat, k : Nat, changes : Nat, last : Rows, errors : Nat]

ASSUME NullAssumption == NULL \notin Applying

Node(c, type, k, row) == [call |-> c, type |-> type, k |-> k, row |-> row]

\* One operation, or the STMT, BATCH ..., FLUSH of a flush: appended atomically.
Single(c, type, row) == <<Node(c, type, 1, row)>>
FlushBatch(c, rows) ==
  <<Node(c, "STMT", 1, NULL)>>
    \o [k \in 1..Len(rows) |-> Node(c, "BATCH", k + 1, rows[k])]
    \o <<Node(c, "FLUSH", Len(rows) + 2, NULL)>>

\* The rows between the STMT and the FLUSH of a batch.
BatchRows(b) == [k \in 1..Len(b) - 2 |-> b[k + 1].row]

Logged(c) == \E b \in 1..Len(log) : log[b][1].call = c

\* What a Deferred is settled with: the node that did it and its outcome.
Outcome(n, ok, changes, last, errors) ==
  [by |-> n.call, ok |-> ok, changes |-> changes, last |-> last, errors |-> errors]

IsOutcome(r) == r # NULL /\ r # THREW

\* Deferred: the first settlement wins; settling an empty slot does nothing.
Settle(value) ==
  settled' = IF interactive # NULL /\ settled[interactive] = NULL
               THEN [settled EXCEPT ![interactive] = value]
               ELSE settled

-----------------------------------------------------------------------------
(* ParaQLStatement: batch, run and finalize on the batching statement.      *)

Idle(c) == pc[c] = "idle" /\ (Sequential => \A d \in Calls : pc[d] \in {"idle", "returned"})

BatchOn ==
  /\ queue = NULL
  /\ queue' = <<>>
  /\ UNCHANGED <<accepted, interactive, callVars, applyVars, files, direct>>

\* batch(false) and finalize() drop the queued rows; so does prepare() of another
\* statement, unasked, when it evicts a batching one (index.js:136).
BatchOff ==
  /\ queue # NULL
  /\ queue' = NULL
  /\ accepted' = SubSeq(accepted, 1, Len(accepted) - Len(queue))
  /\ UNCHANGED <<interactive, callVars, applyVars, files, direct>>

RunQueued(p) ==
  /\ queue # NULL /\ Len(accepted) < MaxQueue
  /\ queue' = Append(queue, p)
  /\ accepted' = Append(accepted, p)
  /\ UNCHANGED <<interactive, callVars, applyVars, files, direct>>

-----------------------------------------------------------------------------
(* ParaVFS.exec, run, flush: put a Deferred in the slot, deflate when       *)
(* compressed, append, await the Deferred in the slot, await the append.    *)

\* bee.append is async: a refused append is a rejected promise, not a throw.
CanAppend == bee = "up" /\ writable

Appended(c, nodes) ==
  IF CanAppend
    THEN log' = Append(log, nodes) /\ promise' = [promise EXCEPT ![c] = "open"]
    ELSE UNCHANGED log /\ promise' = [promise EXCEPT ![c] = "rejected"]

\* Mutant: one Deferred for the life of the instance instead of one per call.
StartSharedDeferred(c, nodes) ==
  /\ sent' = [sent EXCEPT ![c] = nodes]
  /\ interactive' = CHOOSE d \in Calls : TRUE
  /\ pc' = [pc EXCEPT ![c] = "deflate"]
  /\ UNCHANGED <<settled, waitOn, promise, ret, applyVars, files, direct>>

Start(c, nodes) ==
  /\ sent' = [sent EXCEPT ![c] = nodes]
  /\ interactive' = c
  /\ IF Compressed
       THEN /\ pc' = [pc EXCEPT ![c] = "deflate"]
            /\ UNCHANGED <<waitOn, promise, log>>
       ELSE /\ pc' = [pc EXCEPT ![c] = "await"]
            /\ waitOn' = [waitOn EXCEPT ![c] = c]
            /\ Appended(c, nodes)
  /\ UNCHANGED <<settled, ret, applied, db, ap, view, bee, writable, files, direct>>

\* db.exec(sql), and stmt.run(...) when the statement is not batching.
CallExec(c, p) ==
  /\ Idle(c)
  /\ Start(c, Single(c, "EXEC", p))
  /\ UNCHANGED <<queue, accepted>>

CallRun(c, p) ==
  /\ Idle(c)
  /\ queue = NULL
  /\ Start(c, Single(c, "RUN", p))
  /\ UNCHANGED <<queue, accepted>>

\* Mutant: the queue is flushed and not emptied.
CallFlushKeepsQueue(c) ==
  /\ Idle(c)
  /\ queue # NULL
  /\ Start(c, FlushBatch(c, queue))
  /\ UNCHANGED <<queue, accepted>>

\* stmt.flush(): the queue is replaced before the operations are appended.
CallFlush(c) ==
  /\ Idle(c)
  /\ queue # NULL
  /\ queue' = <<>>
  /\ Start(c, FlushBatch(c, queue))
  /\ UNCHANGED accepted

\* stmt.flush() when not batching: _queue becomes [], null.map throws inside
\* the try, and finally clears the slot.
FlushNotBatching(c) ==
  /\ Idle(c)
  /\ queue = NULL
  /\ queue' = <<>>
  /\ pc' = [pc EXCEPT ![c] = "returned"]
  /\ ret' = [ret EXCEPT ![c] = THREW]
  /\ interactive' = NULL
  /\ UNCHANGED <<accepted, settled, sent, waitOn, promise, applyVars, files, direct>>

\* addWriter and removeWriter append and await the append only.
CallWriter(c, type, who) ==
  /\ Idle(c)
  /\ sent' = [sent EXCEPT ![c] = Single(c, type, who)]
  /\ IF Compressed
       THEN pc' = [pc EXCEPT ![c] = "deflate"] /\ UNCHANGED <<promise, log>>
       ELSE /\ pc' = [pc EXCEPT ![c] = "await"]
            /\ Appended(c, Single(c, type, who))
  /\ UNCHANGED <<queue, accepted, interactive, settled, waitOn, ret, applied, db, ap,
                 view, bee, writable, files, direct>>

IsWriterOp(c) == sent[c][1].type \in {"WRITER_ADD", "WRITER_DEL"}

\* deflate resolved: the append is made, then the slot is read again.  It may
\* hold the Deferred of another call, or null, and null.promise throws.
Deflated(c) ==
  /\ pc[c] = "deflate"
  /\ Appended(c, sent[c])
  /\ IF IsWriterOp(c) \/ interactive # NULL
       THEN /\ pc' = [pc EXCEPT ![c] = "await"]
            /\ waitOn' = [waitOn EXCEPT ![c] = IF IsWriterOp(c) THEN NULL ELSE interactive]
            /\ UNCHANGED ret
       ELSE /\ pc' = [pc EXCEPT ![c] = "returned"]
            /\ ret' = [ret EXCEPT ![c] = THREW]
            /\ UNCHANGED waitOn
  /\ UNCHANGED <<queue, accepted, interactive, settled, sent, applied, db, ap, view, bee,
                 writable, files, direct>>

\* Mutant: the call returns with the Deferred, without awaiting the append.
ReturnBeforeAppend(c) ==
  /\ pc[c] = "await"
  /\ ~IsWriterOp(c)
  /\ settled[waitOn[c]] # NULL
  /\ ret' = [ret EXCEPT ![c] = settled[waitOn[c]]]
  /\ interactive' = NULL
  /\ pc' = [pc EXCEPT ![c] = "returned"]
  /\ UNCHANGED <<queue, accepted, settled, sent, waitOn, promise, applyVars, files, direct>>

\* The Deferred is settled and so is the append: return, and clear the slot.
Return(c) ==
  /\ pc[c] = "await"
  /\ promise[c] \in {"done", "rejected"}
  /\ IF IsWriterOp(c)
       THEN /\ ret' = [ret EXCEPT ![c] = IF promise[c] = "done"
                                           THEN Outcome(sent[c][1], TRUE, 0, NULL, 0)
                                           ELSE THREW]
            /\ UNCHANGED interactive
       ELSE /\ settled[waitOn[c]] # NULL
            /\ ret' = [ret EXCEPT ![c] = IF promise[c] = "done" THEN settled[waitOn[c]]
                                                                ELSE THREW]
            /\ interactive' = NULL
  /\ pc' = [pc EXCEPT ![c] = "returned"]
  /\ UNCHANGED <<queue, accepted, settled, sent, waitOn, promise, applyVars, files, direct>>

-----------------------------------------------------------------------------
(* ParaVFS._apply: one action per stretch between two awaits that other      *)
(* code can observe.                                                         *)

ApplyStart ==
  /\ bee = "up" /\ ap = NULL
  /\ \E g \in 1..MaxGroup :
       /\ applied + g <= Len(log)
       /\ ap' = [upto |-> applied + g, b |-> applied + 1, k |-> 1,
                 changes |-> 0, last |-> NULL, errors |-> 0]
  /\ UNCHANGED <<queue, accepted, interactive, callVars, log, applied, db, view, files,
                 direct, bee, writable>>

Current == log[ap.b][ap.k]
At(types) == bee = "up" /\ ap # NULL /\ ap.b <= ap.upto /\ Current.type \in types

\* for (const node of nodes): on to the next operation, of the next batch.
Advance(a) ==
  IF a.k < Len(log[a.b]) THEN [a EXCEPT !.k = @ + 1] ELSE [a EXCEPT !.b = @ + 1, !.k = 1]

\* apply threw: Autobee stops, and the appends it has not applied reject.
Die ==
  /\ bee' = "dead"
  /\ ap' = NULL
  /\ promise' = [c \in Calls |-> IF promise[c] = "open" THEN "rejected" ELSE promise[c]]
  /\ UNCHANGED <<applied, writable>>

\* WRITER_ADD and WRITER_DEL: host.addWriter / removeWriter in a view batch.
ApplyWriter ==
  /\ At({"WRITER_ADD", "WRITER_DEL"}) /\ ~view
  /\ writable' = IF Current.row = "self" THEN Current.type = "WRITER_ADD" ELSE writable
  /\ ap' = Advance(ap)
  /\ UNCHANGED <<queue, accepted, interactive, callVars, log, applied, db, view, files,
                 direct, bee>>

\* STMT that does not prepare: the catch throws, and so does apply.
ApplyBadStmt ==
  /\ "stmt" \in Faults
  /\ At({"STMT"}) /\ ~view
  /\ Die
  /\ UNCHANGED <<queue, accepted, interactive, settled, pc, sent, waitOn, ret, log, db, view,
                 files, direct>>

\* _write(view): refuses while a batch of another transaction is unflushed.
ApplyBegin ==
  /\ At({"EXEC", "RUN", "STMT", "BATCH"}) /\ ~view
  /\ IF files # "none"
       THEN Die /\ UNCHANGED view
       ELSE /\ view' = TRUE
            /\ UNCHANGED <<applied, ap, promise, bee, writable>>
  /\ UNCHANGED <<queue, accepted, interactive, settled, pc, sent, waitOn, ret, log, db, files,
                 direct>>

\* The statement ran.  EXEC and RUN settle the slot.  STMT falls through to
\* BATCH without parameters: _bind throws on null, which counts as an error.
Succeeds(n) == n.type # "STMT" /\ n.row \notin BadParams

\* Mutant: lastInsertRowid is taken from a failed row too.
CountedLastOfAll(n) ==
  IF n.type \in {"EXEC", "RUN"} THEN ap
  ELSE IF Succeeds(n) THEN [ap EXCEPT !.changes = @ + 1, !.last = n.row]
  ELSE [ap EXCEPT !.errors = @ + 1, !.last = n.row]

Counted(n) ==
  IF n.type \in {"EXEC", "RUN"} THEN ap
  ELSE IF Succeeds(n) THEN [ap EXCEPT !.changes = @ + 1, !.last = n.row]
  ELSE [ap EXCEPT !.errors = @ + 1]

\* Mutants: EXEC falls through to RUN; the catch does not reject.
ExecutedTwice(n) ==
  /\ Settle(Outcome(n, Succeeds(n), 0, NULL, 0))
  /\ db' = IF n.type = "EXEC" /\ Succeeds(n) THEN db \o <<n, n>> ELSE db
ExecutedNoReject(n) ==
  /\ IF n.type \in {"EXEC", "RUN"} /\ Succeeds(n)
       THEN Settle(Outcome(n, TRUE, 0, NULL, 0))
       ELSE UNCHANGED settled
  /\ db' = IF Succeeds(n) THEN Append(db, n) ELSE db

Executed(n) ==
  /\ IF n.type \in {"EXEC", "RUN"}
       THEN Settle(Outcome(n, Succeeds(n), IF n.type = "RUN" /\ Succeeds(n) THEN 1 ELSE 0,
                           IF n.type = "RUN" /\ Succeeds(n) THEN n.row ELSE NULL, 0))
       ELSE UNCHANGED settled
  /\ db' = IF Succeeds(n) THEN Append(db, n) ELSE db

\* Then _write(null): it throws when SQL left a transaction open, or when a
\* direct write is unflushed.
ApplyEnd ==
  /\ At({"EXEC", "RUN", "STMT", "BATCH"}) /\ view
  /\ Executed(Current)
  /\ \E open \in {FALSE} \cup (IF "open" \in Faults /\ Current.type = "EXEC" THEN {TRUE} ELSE {}) :
       IF open \/ files # "none"
         THEN /\ Die
              /\ files' = IF files = "none" THEN "view" ELSE files
              /\ UNCHANGED view
         ELSE /\ view' = FALSE
              /\ ap' = Advance(Counted(Current))
              /\ UNCHANGED <<applied, promise, bee, writable, files>>
  /\ UNCHANGED <<queue, accepted, interactive, pc, sent, waitOn, ret, log, direct>>

\* FLUSH settles the slot with the totals of this apply so far.
ApplyFlush ==
  /\ At({"FLUSH"}) /\ ~view
  /\ Settle(Outcome(Current, TRUE, ap.changes, ap.last, ap.errors))
  /\ ap' = Advance(ap)
  /\ UNCHANGED <<queue, accepted, interactive, pc, sent, waitOn, promise, ret, log, applied,
                 db, view, files, direct, bee, writable>>

\* Mutant: the view claims one batch more than it holds.
ApplyDoneOneMore ==
  /\ bee = "up" /\ ap # NULL /\ ap.b > ap.upto
  /\ applied' = ap.b
  /\ ap' = NULL
  /\ UNCHANGED <<queue, accepted, interactive, callVars, log, db, view, files, direct, bee,
                 writable>>

\* _apply returned: Autobee settles the appends of the batches it held.
ApplyDone ==
  /\ bee = "up" /\ ap # NULL /\ ap.b > ap.upto
  /\ applied' = ap.upto
  /\ promise' = [c \in Calls |->
                   IF \E k \in applied + 1 .. ap.upto : log[k][1].call = c
                     THEN "done" ELSE promise[c]]
  /\ ap' = NULL
  /\ UNCHANGED <<queue, accepted, interactive, settled, pc, sent, waitOn, ret, log, db, view,
                 files, direct, bee, writable>>

-----------------------------------------------------------------------------
(* The environment.                                                         *)

RemoteBatches(r) ==
  {Single(r, type, p) : type \in {"EXEC", "RUN"}, p \in Params}
    \cup {FlushBatch(r, <<p>>) : p \in Params}
    \cup {Single(r, "WRITER_DEL", "self") : x \in Faults \cap {"del"}}

\* The view up to the last write of the first m batches.
KeepsUpTo(n, m) ==
  LET FromKept(i) == \E b \in 1..m : log[b][1].call = db[i].call
  IN  (n > 0 => FromKept(n)) /\ \A i \in n + 1 .. Len(db) : ~FromKept(i)

\* A batch of another writer takes its place in the linearised order.  Batches
\* behind it are truncated from the view and will be applied again.
RemoteBatch(r) ==
  /\ bee = "up" /\ ap = NULL
  /\ ~Logged(r)
  /\ \E m \in 1..Len(log) + 1, batch \in RemoteBatches(r), n \in 0..Len(db) :
       /\ log' = InsertAt(log, m, batch)
       /\ IF m <= applied
            THEN applied' = m - 1 /\ KeepsUpTo(n, m - 1) /\ db' = SubSeq(db, 1, n)
            ELSE n = Len(db) /\ UNCHANGED <<applied, db>>
  /\ UNCHANGED <<queue, accepted, interactive, callVars, ap, view, files, direct, bee,
                 writable>>

\* get / all / iterate of a statement that writes (INSERT ... RETURNING): the
\* pages go to _view when an apply has set it, else to bee.view; never logged.
DirectWrite ==
  /\ direct < MaxDirect /\ files = "none"
  /\ direct' = direct + 1
  /\ files' = IF view THEN "view" ELSE "local"
  /\ UNCHANGED <<queue, accepted, interactive, callVars, applyVars>>

\* Its transaction commits: xSync flushes the batch where it was opened.
DirectSync ==
  /\ files # "none" /\ bee = "up"
  /\ files' = "none"
  /\ db' = IF files = "view" THEN Append(db, Node("direct", "RUN", direct, NULL)) ELSE db
  /\ UNCHANGED <<queue, accepted, interactive, callVars, log, applied, ap, view, bee,
                 writable, direct>>

-----------------------------------------------------------------------------
Init ==
  /\ queue = NULL /\ accepted = <<>> /\ interactive = NULL
  /\ settled = [c \in Calls |-> NULL]
  /\ pc = [c \in Calls |-> "idle"]
  /\ sent = [c \in Calls |-> <<>>]
  /\ waitOn = [c \in Calls |-> NULL]
  /\ promise = [c \in Calls |-> "none"]
  /\ ret = [c \in Calls |-> NULL]
  /\ log = <<>> /\ applied = 0 /\ db = <<>> /\ ap = NULL
  /\ view = FALSE /\ files = "none" /\ direct = 0
  /\ bee = "up" /\ writable = TRUE

Apply == \/ ApplyStart \/ ApplyWriter \/ ApplyBadStmt \/ ApplyBegin \/ ApplyEnd
         \/ ApplyFlush \/ ApplyDone

Call(c) ==
  \/ \E p \in Params : CallExec(c, p) \/ CallRun(c, p)
  \/ CallFlush(c)
  \/ FlushNotBatching(c)
  \/ \E type \in WriterOps : CallWriter(c, type, "other")

Next ==
  \/ BatchOn \/ BatchOff \/ \E p \in Params : RunQueued(p)
  \/ \E c \in Calls : Call(c) \/ Deflated(c) \/ Return(c)
  \/ Apply
  \/ \E r \in Remotes : RemoteBatch(r)
  \/ DirectWrite \/ DirectSync

\* The event loop runs what is ready: Autobee applies appended batches, a
\* deflate completes, a settled promise resumes the call that awaits it.
\* Nothing obliges the application to call, nor another writer to append.
Fairness ==
  /\ WF_vars(Apply)
  /\ \A c \in Calls : WF_vars(Deflated(c)) /\ WF_vars(Return(c))

Spec == Init /\ [][Next]_vars
FairSpec == Spec /\ Fairness

-----------------------------------------------------------------------------
(* Properties.                                                              *)

Op == [call : Calls \cup Remotes,
       type : {"EXEC", "RUN", "STMT", "BATCH", "FLUSH", "WRITER_ADD", "WRITER_DEL"},
       k : Nat \ {0}, row : Rows]

OutcomeType ==
  [by : Calls \cup Remotes, ok : BOOLEAN, changes : Nat,
   last : Rows, errors : Nat]

\* Type correctness of the write path's state.
TypeOK ==
  /\ queue = NULL \/ queue \in Seq(Params)
  /\ accepted \in Seq(Params)
  /\ interactive \in Calls \cup {NULL}
  /\ settled \in [Calls -> {NULL} \cup OutcomeType]
  /\ pc \in [Calls -> {"idle", "deflate", "await", "returned"}]
  /\ sent \in [Calls -> Seq(Op)]
  /\ waitOn \in [Calls -> Calls \cup {NULL}]
  /\ promise \in [Calls -> {"none", "open", "done", "rejected"}]
  /\ ret \in [Calls -> {NULL, THREW} \cup OutcomeType]
  /\ log \in Seq(Seq(Op)) /\ applied \in 0..Len(log)
  /\ ap = NULL \/
       /\ ap \in Applying
       /\ ap.upto \in applied + 1 .. Len(log) /\ ap.b \in applied + 1 .. ap.upto + 1
       /\ ap.k \in 1..IF ap.b <= ap.upto THEN Len(log[ap.b]) ELSE 1
  /\ view \in BOOLEAN /\ files \in {"none", "view", "local"} /\ direct \in 0..MaxDirect
  /\ bee \in {"up", "dead"} /\ writable \in BOOLEAN

\* The result an exec, run or flush call returns, or the SQL error it throws,
\* is the outcome of the very operation it appended, although apply settles
\* the slot without looking at whose operation it applied.
ResultIsOwn == \A c \in Calls : IsOutcome(ret[c]) => ret[c].by = c

\* That holds while calls are made one after the other and no other writer's
\* batch is in the log (with one it is violated): no result and no error of a
\* call is taken for that of the call after it, although nothing in the slot
\* says whose Deferred it holds.
Alone == \A b \in 1..Len(log) : log[b][1].call \in Calls
ResultIsOwnAlone == Sequential /\ Alone => ResultIsOwn

\* What flush() returns counts the rows of its own queue: changes those that
\* succeeded, lastInsertRowid the last of them, errors those that failed and
\* the parameterless run of the STMT operation itself.  An apply that also
\* holds another writer's flush adds the two up, so only a lone writer may
\* rely on it.
Good(rows, n) == {k \in 1..n : rows[k] \notin BadParams}
LastGood(rows, n) == IF Good(rows, n) = {} THEN NULL ELSE rows[Max(Good(rows, n))]
FlushReturned(c) == IsOutcome(ret[c]) /\ sent[c][1].type = "STMT"
FlushTotals == Sequential /\ Alone =>
  \A c \in Calls : FlushReturned(c) =>
    LET rows == BatchRows(sent[c])
        good == Cardinality(Good(rows, Len(rows)))
    IN  /\ ret[c].changes = good
        /\ ret[c].last = LastGood(rows, Len(rows))
        /\ ret[c].errors = Len(rows) - good + 1

\* No row that stmt.run() queued is lost, repeated or reordered on its way to
\* the oplog: the logged rows, the rows being deflated and the queue are, in
\* this order, all the rows that were accepted, unless Autobee refused an
\* append.  Compressed, it takes calls that are made one after the other: two
\* flushes may be deflated in either order.
FlushRows(bs) ==
  LET rows[n \in 0..Len(bs)] ==
        IF n = 0 THEN <<>>
        ELSE IF bs[n][1].call \in Calls /\ bs[n][1].type = "STMT"
               THEN rows[n - 1] \o BatchRows(bs[n])
               ELSE rows[n - 1]
  IN  rows[Len(bs)]
Deflating == {c \in Calls : pc[c] = "deflate" /\ sent[c][1].type = "STMT"}
DeflatingRows ==
  IF Deflating = {} THEN <<>> ELSE BatchRows(sent[CHOOSE c \in Deflating : TRUE])
QueuedRows == IF queue = NULL THEN <<>> ELSE queue
NoRowLost == (Sequential \/ ~Compressed) /\ (\A c \in Calls : promise[c] # "rejected") =>
  accepted = FlushRows(log) \o DeflatingRows \o QueuedRows

\* The view is a replay of the log, as long as nobody writes through get, all
\* or iterate.  What it holds are operations of the log, once, in the log's
\* order: re-applying after a reorder repeats nothing, and nothing reaches the
\* view without having been logged.  And of the batches that are applied it
\* holds every operation that SQLite accepted.
Writes(n) == n.type \in {"EXEC", "RUN", "BATCH"} /\ n.row \notin BadParams
IsAt(n, b) == n.k \in 1..Len(log[b]) /\ log[b][n.k] = n
InLogOrder ==
  \A i, j \in 1..Len(db) : i <= j =>
    \E a, b \in 1..Len(log) :
      IsAt(db[i], a) /\ IsAt(db[j], b) /\ (a < b \/ (a = b /\ (i < j => db[i].k < db[j].k)))
Complete ==
  \A b \in 1..applied : \A k \in 1..Len(log[b]) :
    Writes(log[b][k]) => \E i \in 1..Len(db) : db[i] = log[b][k]
ViewIsReplay == direct = 0 => InLogOrder /\ Complete

\* A call returns a result only once the view holds the batch it appended:
\* it waits for the append after the Deferred, whoever settled the Deferred.
AckedAfterApply ==
  [][\A c \in Calls : pc[c] # "returned" /\ pc'[c] = "returned" /\ IsOutcome(ret'[c])
       => promise[c] = "done" /\ Logged(c)]_vars

\* A call whose batch Autobee took returns, unless an apply throws.
CallsReturn ==
  \A c \in Calls : (pc[c] = "await" /\ promise[c] # "rejected")
                       ~> (pc[c] = "returned" \/ bee = "dead")

=============================================================================
