----------------------------- MODULE StatementList -----------------------------
(***************************************************************************)
(* binding.c: the doubly linked list of a database's statements            *)
(* (paraql__insert_statement, paraql__remove_statement,                    *)
(* paraql__finalize_statements) and the pool jobs that change it: prepare, *)
(* finalize, and what the collector queues for a statement or a database   *)
(* that JavaScript no longer reaches.                                      *)
(*                                                                         *)
(* A job runs on a pool thread and takes no lock: the connection mutex     *)
(* covers the calls of SQLite in it, not the list.  A step is one C        *)
(* statement.  JavaScript keeps a statement while a request on it is in    *)
(* flight, and a database while one of its requests is.                    *)
(*                                                                         *)
(* Jobs that overlap corrupt the list.  overlapped records that two did;   *)
(* until then the list is what a queue of one thread would make it.        *)
(***************************************************************************)
EXTENDS Naturals, FiniteSets

CONSTANTS
  Threads,     \* threads of the pool
  Stmts,       \* paraql_statement_t objects (bounds how many are allocated)
  NULL

ASSUME StatementListAssumption == IsFiniteSet(Stmts) /\ NULL \notin Stmts

VARIABLES
  dbMem,       \* paraql_t: alloc or freed
  head,        \* db->statements
  mem,         \* [statement -> none, alloc or freed]
  handle,      \* [statement -> its handle: live or null]
  linked,      \* [statement -> stmt->db is the database]
  prev, next,  \* [statement -> stmt->prev, stmt->next]
  js,          \* [statement -> what JavaScript knows of it]
  dbJs,        \* the external of the database: held or collected
  job,         \* [thread -> the job it runs: kind, statement, place, local next]
  listed,      \* history: the statements inserted and not removed
  finals,      \* history: [statement -> calls of sqlite3_finalize on its handle]
  overlapped,  \* history: two jobs ran at the same time
  fault        \* freed memory was used

fields == <<head, linked, prev, next>>
vars == <<dbMem, fields, mem, handle, js, dbJs, job, listed, finals, overlapped, fault>>

Idle == [kind |-> "none", s |-> NULL, at |-> "idle", next |-> NULL]

\* Where a job is; its first step.
At(t, place) == ~fault /\ job[t].at = place
Me(t) == job[t].s
Goto(t, place) == job' = [job EXCEPT ![t].at = place]

Begin(t, kind, s, place) ==
  /\ ~fault /\ job[t] = Idle
  /\ job' = [job EXCEPT ![t] = [kind |-> kind, s |-> s, at |-> place, next |-> NULL]]
  /\ overlapped' = (overlapped \/ \E u \in Threads : job[u] # Idle)

Done(t) == job' = [job EXCEPT ![t] = Idle]

\* An access to a statement that was freed, or to the freed database.
Bad(s) == s # NULL /\ mem[s] = "freed"

-----------------------------------------------------------------------------
(* prepare and paraql__insert_statement.                                    *)

\* The statement compiles (to nothing, when the SQL is a comment), or prepare
\* rejects and the memory is lost.
PrepareStmt(t, s) ==
  /\ dbJs = "held" /\ mem[s] = "none"
  /\ Begin(t, "prepare", s, "insert")
  /\ \E h \in {"live", "null"} : handle' = [handle EXCEPT ![s] = h]
  /\ mem' = [mem EXCEPT ![s] = "alloc"]
  /\ js' = [js EXCEPT ![s] = "preparing"]
  /\ UNCHANGED <<dbMem, fields, dbJs, listed, finals, fault>>

PrepareFails(t, s) ==
  /\ dbJs = "held" /\ mem[s] = "none"
  /\ Begin(t, "prepare", s, "return")
  /\ mem' = [mem EXCEPT ![s] = "alloc"]
  /\ UNCHANGED <<dbMem, fields, handle, js, dbJs, listed, finals, fault>>

\* stmt->db = db, prev = NULL, next = db->statements.
InsertFields(t) ==
  /\ At(t, "insert")
  /\ linked' = [linked EXCEPT ![Me(t)] = TRUE]
  /\ prev' = [prev EXCEPT ![Me(t)] = NULL]
  /\ next' = [next EXCEPT ![Me(t)] = head]
  /\ Goto(t, "insertPrev")
  /\ UNCHANGED <<dbMem, head, mem, handle, js, dbJs, listed, finals, overlapped, fault>>

\* Mutant: the old head does not learn of its new neighbour.
InsertNoPrev(t) ==
  /\ At(t, "insertPrev")
  /\ Goto(t, "insertHead")
  /\ UNCHANGED <<dbMem, fields, mem, handle, js, dbJs, listed, finals, overlapped, fault>>

\* if (db->statements != NULL) db->statements->prev = stmt.
InsertPrev(t) ==
  /\ At(t, "insertPrev")
  /\ fault' = Bad(head)
  /\ prev' = IF head # NULL THEN [prev EXCEPT ![head] = Me(t)] ELSE prev
  /\ Goto(t, "insertHead")
  /\ UNCHANGED <<dbMem, head, linked, next, mem, handle, js, dbJs, listed, finals, overlapped>>

InsertHead(t) ==
  /\ At(t, "insertHead")
  /\ head' = Me(t)
  /\ listed' = listed \cup {Me(t)}
  /\ js' = [js EXCEPT ![Me(t)] = "held"]
  /\ Done(t)
  /\ UNCHANGED <<dbMem, linked, prev, next, mem, handle, dbJs, finals, overlapped, fault>>

-----------------------------------------------------------------------------
(* finalize, the finalizer of a statement, and paraql__remove_statement.    *)

Finalize(t, s) ==
  /\ js[s] = "held" /\ dbJs = "held"
  /\ Begin(t, "finalize", s, "finalize")
  /\ js' = [js EXCEPT ![s] = "finalizing"]
  /\ UNCHANGED <<dbMem, fields, mem, handle, dbJs, listed, finals, fault>>

\* Nobody reaches the statement: its wrapper dropped the handle when it was
\* finalized, or was dropped itself by cache and application.
CollectStmt(t, s) ==
  /\ js[s] \in {"held", "released"}
  /\ Begin(t, "collect", s, "finalize")
  /\ js' = [js EXCEPT ![s] = "collected"]
  /\ UNCHANGED <<dbMem, fields, mem, handle, dbJs, listed, finals, fault>>

\* if (stmt->handle != NULL) sqlite3_finalize(stmt->handle).
FinalizeHandle(t) ==
  /\ At(t, "finalize")
  /\ fault' = Bad(Me(t))
  /\ finals' = IF handle[Me(t)] = "live" THEN [finals EXCEPT ![Me(t)] = @ + 1] ELSE finals
  /\ Goto(t, IF job[t].kind = "finalize" THEN "null" ELSE "remove")
  /\ UNCHANGED <<dbMem, fields, mem, handle, js, dbJs, listed, overlapped>>

\* Mutant: finalize() leaves the handle, for the collector to find.
NullHandleForgotten(t) ==
  /\ At(t, "null")
  /\ Goto(t, "remove")
  /\ UNCHANGED <<dbMem, fields, mem, handle, js, dbJs, listed, finals, overlapped, fault>>

\* finalize() sets stmt->handle = NULL; the collector's job does not.
NullHandle(t) ==
  /\ At(t, "null")
  /\ handle' = [handle EXCEPT ![Me(t)] = "null"]
  /\ Goto(t, "remove")
  /\ UNCHANGED <<dbMem, fields, mem, js, dbJs, listed, finals, overlapped, fault>>

\* if (stmt->db == NULL) return; the neighbour before learns of the one after.
RemoveFromPrev(t) ==
  LET s == Me(t) IN
  /\ At(t, "remove")
  /\ IF ~linked[s]
       THEN Goto(t, "removed") /\ UNCHANGED <<head, next, fault>>
       ELSE /\ IF prev[s] # NULL
                 THEN /\ fault' = Bad(prev[s])
                      /\ next' = [next EXCEPT ![prev[s]] = next[s]]
                      /\ UNCHANGED head
                 ELSE /\ fault' = (dbMem = "freed")
                      /\ head' = next[s]
                      /\ UNCHANGED next
            /\ Goto(t, "removeNext")
  /\ UNCHANGED <<dbMem, linked, prev, mem, handle, js, dbJs, listed, finals, overlapped>>

\* if (stmt->next != NULL) stmt->next->prev = stmt->prev.
RemoveFromNext(t) ==
  LET s == Me(t) IN
  /\ At(t, "removeNext")
  /\ fault' = Bad(next[s])
  /\ prev' = IF next[s] # NULL THEN [prev EXCEPT ![next[s]] = prev[s]] ELSE prev
  /\ Goto(t, "unlink")
  /\ UNCHANGED <<dbMem, head, linked, next, mem, handle, js, dbJs, listed, finals, overlapped>>

\* stmt->db, stmt->prev and stmt->next = NULL.
Unlink(t) ==
  LET s == Me(t) IN
  /\ At(t, "unlink")
  /\ linked' = [linked EXCEPT ![s] = FALSE]
  /\ prev' = [prev EXCEPT ![s] = NULL]
  /\ next' = [next EXCEPT ![s] = NULL]
  /\ listed' = listed \ {s}
  /\ Goto(t, "removed")
  /\ UNCHANGED <<dbMem, head, mem, handle, js, dbJs, finals, overlapped, fault>>

\* finalize() returns to JavaScript, which drops the handle; the collector's
\* job frees the statement.
Removed(t) ==
  LET s == Me(t) IN
  /\ At(t, "removed")
  /\ IF job[t].kind = "finalize"
       THEN js' = [js EXCEPT ![s] = "released"] /\ UNCHANGED mem
       ELSE mem' = [mem EXCEPT ![s] = "freed"] /\ UNCHANGED js
  /\ Done(t)
  /\ UNCHANGED <<dbMem, fields, handle, dbJs, listed, finals, overlapped, fault>>

\* A failed prepare has nothing to do.
Return(t) ==
  /\ At(t, "return")
  /\ Done(t)
  /\ UNCHANGED <<dbMem, fields, mem, handle, js, dbJs, listed, finals, overlapped, fault>>

-----------------------------------------------------------------------------
(* The finalizer of the database: paraql__finalize_statements, close, free. *)

CollectDb(t) ==
  /\ dbJs = "held" /\ \A s \in Stmts : js[s] \notin {"preparing", "finalizing"}
  /\ \A u \in Threads : job[u].kind # "prepare"
  /\ Begin(t, "collectDb", head, "walk")
  /\ dbJs' = "collected"
  /\ UNCHANGED <<dbMem, fields, mem, handle, js, listed, finals, fault>>

\* next = stmt->next; if (stmt->handle != NULL) sqlite3_finalize(stmt->handle).
Walk(t) ==
  LET s == Me(t) IN
  /\ At(t, "walk") /\ s # NULL
  /\ fault' = Bad(s)
  /\ finals' = IF handle[s] = "live" THEN [finals EXCEPT ![s] = @ + 1] ELSE finals
  /\ job' = [job EXCEPT ![t].next = next[s], ![t].at = "clear"]
  /\ UNCHANGED <<dbMem, fields, mem, handle, js, dbJs, listed, overlapped>>

\* The statement's fields become NULL; go on with next.
Clear(t) ==
  LET s == Me(t) IN
  /\ At(t, "clear")
  /\ fault' = Bad(s)
  /\ handle' = [handle EXCEPT ![s] = "null"]
  /\ linked' = [linked EXCEPT ![s] = FALSE]
  /\ prev' = [prev EXCEPT ![s] = NULL]
  /\ next' = [next EXCEPT ![s] = NULL]
  /\ listed' = listed \ {s}
  /\ job' = [job EXCEPT ![t].s = job[t].next, ![t].at = "walk"]
  /\ UNCHANGED <<dbMem, head, mem, js, dbJs, finals, overlapped>>

\* db->statements = NULL; sqlite3_close_v2; free(db).
FreeDb(t) ==
  /\ At(t, "walk") /\ Me(t) = NULL
  /\ head' = NULL
  /\ dbMem' = "freed"
  /\ Done(t)
  /\ UNCHANGED <<linked, prev, next, mem, handle, js, dbJs, listed, finals, overlapped, fault>>

-----------------------------------------------------------------------------
Init ==
  /\ dbMem = "alloc" /\ head = NULL /\ dbJs = "held"
  /\ mem = [s \in Stmts |-> "none"]
  /\ handle = [s \in Stmts |-> "null"]
  /\ linked = [s \in Stmts |-> FALSE]
  /\ prev = [s \in Stmts |-> NULL] /\ next = [s \in Stmts |-> NULL]
  /\ js = [s \in Stmts |-> "none"]
  /\ job = [t \in Threads |-> Idle]
  /\ listed = {} /\ finals = [s \in Stmts |-> 0]
  /\ overlapped = FALSE /\ fault = FALSE

Next ==
  \E t \in Threads :
    \/ \E s \in Stmts : PrepareStmt(t, s) \/ PrepareFails(t, s) \/ Finalize(t, s)
                          \/ CollectStmt(t, s)
    \/ CollectDb(t)
    \/ InsertFields(t) \/ InsertPrev(t) \/ InsertHead(t) \/ Return(t)
    \/ FinalizeHandle(t) \/ NullHandle(t)
    \/ RemoveFromPrev(t) \/ RemoveFromNext(t) \/ Unlink(t) \/ Removed(t)
    \/ Walk(t) \/ Clear(t) \/ FreeDb(t)

Spec == Init /\ [][Next]_vars

-----------------------------------------------------------------------------
(* Properties.                                                              *)

\* The statements met on the way from db->statements along next.
Met[n \in 0..Cardinality(Stmts)] ==
  IF n = 0 THEN head ELSE IF Met[n - 1] = NULL THEN NULL ELSE next[Met[n - 1]]
OnList == {Met[n] : n \in 0..Cardinality(Stmts)} \ {NULL}

\* Between jobs, while no two have overlapped, the list is what it stands for:
\* walking it meets exactly the statements prepared and not removed, each once
\* and none of them freed, and prev is the way back.
ListIntact ==
  ~overlapped /\ (\A t \in Threads : job[t] = Idle) =>
    /\ Met[Cardinality(Stmts)] = NULL
    /\ OnList = listed /\ listed = {s \in Stmts : linked[s]}
    /\ \A s \in listed : /\ mem[s] = "alloc"
                         /\ (prev[s] = NULL) <=> (s = head)
                         /\ next[s] # NULL => prev[next[s]] = s

\* No job touches freed memory, in whatever order prepare, finalize and the
\* two kinds of finalizers run, as long as they run one after the other.
NoUseAfterFree == ~overlapped => ~fault

\* Every statement that compiled is finalized in SQLite: once at most whatever
\* overlaps, until the database is collected at the same time; and exactly
\* once when the database is gone and no jobs overlapped.
FinalizedOnce ==
  /\ (overlapped /\ dbJs = "collected") \/ \A s \in Stmts : finals[s] <= 1
  /\ ~overlapped /\ dbMem = "freed" => \A s \in Stmts : handle[s] = "live" => finals[s] = 1

=============================================================================
