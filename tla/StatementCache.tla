---------------------------- MODULE StatementCache ----------------------------
(***************************************************************************)
(* index.js (prepare, _close) with the life cycle of lib/statement.js: the *)
(* cache of prepared statements, a Map from SQL to statement in insertion  *)
(* order, used as a least-recently-prepared cache of cacheSize entries.    *)
(*                                                                         *)
(* prepare() awaits the binding twice, to compile the statement and to     *)
(* finalize the one it evicts, and looks at the cache before, between and  *)
(* after.  The callers are the application and the apply callback of       *)
(* lib/vfs.js, which prepares the SQL of RUN and STMT operations on the    *)
(* same database.  A caller awaits each call before it makes the next.     *)
(*                                                                         *)
(* ReadyResource is external: close() runs _close once, whoever calls it   *)
(* and however often, and a statement whose _open failed counts as closed. *)
(***************************************************************************)
EXTENDS Naturals, Sequences, FiniteSets, SequencesExt

CONSTANTS
  Callers,     \* the application, and apply
  Sqls,
  Stmts,       \* ParaQLStatement objects (bounds how many are created)
  cacheSize,
  NULL

ASSUME StatementCacheAssumption ==
  /\ cacheSize \in Nat
  /\ NULL \notin Stmts \cup Sqls

VARIABLES
  db,          \* the database: open, closing (close() was called), shutting
               \* (the connection is being closed) or closed
  cache,       \* ParaQL._cache: <<sql, statement>> pairs in insertion order
  state,       \* [statement -> its life cycle]
  sqlOf,       \* [statement -> its source SQL]
  pc,          \* [caller -> what it awaits]
  stmt,        \* [caller -> the statement its call is about]
  waitFor,     \* [caller -> the statement whose finalization it awaits]
  recent,      \* history: the SQL prepared, most recent last
  overlapped   \* history: a call was made while another was in progress

vars == <<db, cache, state, sqlOf, pc, stmt, waitFor, recent, overlapped>>

-----------------------------------------------------------------------------
(* The Map.                                                                 *)

Has(sql) == \E k \in 1..Len(cache) : cache[k][1] = sql
Place(sql) == CHOOSE k \in 1..Len(cache) : cache[k][1] = sql
Get(sql) == cache[Place(sql)][2]

\* Map.delete.
Without(sql) == IF Has(sql) THEN RemoveAt(cache, Place(sql)) ELSE cache

\* Mutant: an entry is added beside the one that is there.
SetEntryTwice(sql, s) == Append(cache, <<sql, s>>)

\* Map.set: a key that is present keeps its place.
SetEntry(sql, s) ==
  IF Has(sql) THEN [k \in 1..Len(cache) |-> IF cache[k][1] = sql THEN <<sql, s>> ELSE cache[k]]
              ELSE Append(cache, <<sql, s>>)

Oldest(c) == c[1][2]

Rank(sql) == CHOOSE k \in 1..Len(recent) : recent[k] = sql
Prepared(sql) ==
  Append(IF sql \in ToSet(recent) THEN RemoveAt(recent, Rank(sql)) ELSE recent, sql)

\* Mutant: finalize() awaits the statement's close and does not start it.
FinalizeOnlyWaits(s) == state

\* close() on a statement: its _close calls binding.finalize, once.
StartFinalize(s) == IF state[s] = "open" THEN [state EXCEPT ![s] = "closing"] ELSE state

-----------------------------------------------------------------------------
(* prepare(sql).  The guard looks at closed, which is false while closing.   *)

\* Mutant: a hit leaves the entry where it is.
PrepareHitInPlace(c, sql) ==
  /\ pc[c] = "idle" /\ db # "closed"
  /\ Has(sql)
  /\ stmt' = [stmt EXCEPT ![c] = Get(sql)]
  /\ recent' = Prepared(sql)
  /\ UNCHANGED <<db, cache, state, sqlOf, pc, waitFor>>

\* A hit moves the entry to the end and returns the statement, whatever its state.
PrepareHit(c, sql) ==
  /\ pc[c] = "idle" /\ db # "closed"
  /\ Has(sql)
  /\ cache' = Append(Without(sql), <<sql, Get(sql)>>)
  /\ stmt' = [stmt EXCEPT ![c] = Get(sql)]
  /\ recent' = Prepared(sql)
  /\ UNCHANGED <<db, state, sqlOf, pc, waitFor>>

\* A miss creates a statement object; those not created yet are all alike.
Uncreated == {s \in Stmts : state[s] = "none"}
Created == CHOOSE s \in Uncreated : TRUE

PrepareMiss(c, sql) ==
  /\ pc[c] = "idle" /\ db # "closed"
  /\ ~Has(sql)
  /\ Uncreated # {}
  /\ state' = [state EXCEPT ![Created] = "opening"]
  /\ sqlOf' = [sqlOf EXCEPT ![Created] = sql]
  /\ stmt' = [stmt EXCEPT ![c] = Created]
  /\ pc' = [pc EXCEPT ![c] = "opening"]
  /\ UNCHANGED <<db, cache, waitFor, recent>>

\* binding.prepare failed, or the connection was closed first: prepare throws.
OpenFailed(c) ==
  /\ pc[c] = "opening"
  /\ state' = [state EXCEPT ![stmt[c]] = "closed"]
  /\ pc' = [pc EXCEPT ![c] = "idle"]
  /\ stmt' = [stmt EXCEPT ![c] = NULL]
  /\ UNCHANGED <<db, cache, sqlOf, waitFor, recent>>

\* Mutants: the newest entry is evicted; nothing is evicted; the
\* statement is not cached.
OpenedEvictsNewest(c) ==
  /\ pc[c] = "opening" /\ db # "closed"
  /\ LET s == stmt[c] IN
       /\ cache' = SetEntry(sqlOf[s], s)
       /\ recent' = Prepared(sqlOf[s])
       /\ IF Len(cache) = cacheSize
            THEN /\ state' = [state EXCEPT ![s] = "closing"]
                 /\ waitFor' = [waitFor EXCEPT ![c] = s]
                 /\ pc' = [pc EXCEPT ![c] = "evicting"]
            ELSE /\ state' = [state EXCEPT ![s] = "open"]
                 /\ pc' = [pc EXCEPT ![c] = "idle"]
                 /\ UNCHANGED waitFor
  /\ UNCHANGED <<db, sqlOf, stmt>>
OpenedNeverEvicts(c) ==
  /\ pc[c] = "opening" /\ db # "closed"
  /\ cache' = SetEntry(sqlOf[stmt[c]], stmt[c])
  /\ recent' = Prepared(sqlOf[stmt[c]])
  /\ state' = [state EXCEPT ![stmt[c]] = "open"]
  /\ pc' = [pc EXCEPT ![c] = "idle"]
  /\ UNCHANGED <<db, sqlOf, stmt, waitFor>>
OpenedUncached(c) ==
  /\ pc[c] = "opening" /\ db # "closed"
  /\ state' = [state EXCEPT ![stmt[c]] = "open"]
  /\ pc' = [pc EXCEPT ![c] = "idle"]
  /\ UNCHANGED <<db, cache, sqlOf, stmt, waitFor, recent>>

\* The statement is cached; over the limit, the oldest entry is finalized.
Opened(c) ==
  /\ pc[c] = "opening" /\ db # "closed"
  /\ LET s == stmt[c]
         filled == SetEntry(sqlOf[s], s)
         opened == [state EXCEPT ![s] = "open"]
     IN  /\ cache' = filled
         /\ recent' = Prepared(sqlOf[s])
         /\ IF Len(filled) > cacheSize
              THEN /\ waitFor' = [waitFor EXCEPT ![c] = Oldest(filled)]
                   /\ state' = IF opened[Oldest(filled)] = "open"
                                 THEN [opened EXCEPT ![Oldest(filled)] = "closing"]
                                 ELSE opened
                   /\ pc' = [pc EXCEPT ![c] = "evicting"]
              ELSE /\ state' = opened
                   /\ pc' = [pc EXCEPT ![c] = "idle"]
                   /\ UNCHANGED waitFor
  /\ UNCHANGED <<db, sqlOf, stmt>>

-----------------------------------------------------------------------------
(* ParaQLStatement: finalize and _close.                                     *)

FinalizeCall(c, s) ==
  /\ pc[c] = "idle"
  /\ state[s] \in {"open", "closing"}
  /\ state' = StartFinalize(s)
  /\ waitFor' = [waitFor EXCEPT ![c] = s]
  /\ pc' = [pc EXCEPT ![c] = "finalizing"]
  /\ UNCHANGED <<db, cache, sqlOf, stmt, recent>>

\* Mutant: the entry of the cache stays.
FinalizedKeepsEntry(s) ==
  /\ state[s] = "closing"
  /\ state' = [state EXCEPT ![s] = "closed"]
  /\ UNCHANGED <<db, cache, sqlOf, pc, stmt, waitFor, recent>>

\* binding.finalize resolved: the entry of the SQL leaves the cache, whichever
\* statement it holds by now.
Finalized(s) ==
  /\ state[s] = "closing"
  /\ state' = [state EXCEPT ![s] = "closed"]
  /\ cache' = Without(sqlOf[s])
  /\ UNCHANGED <<db, sqlOf, pc, stmt, waitFor, recent>>

\* The caller that evicted or finalized a statement goes on.
Resume(c) ==
  /\ pc[c] \in {"evicting", "finalizing"}
  /\ state[waitFor[c]] = "closed"
  /\ pc' = [pc EXCEPT ![c] = "idle"]
  /\ waitFor' = [waitFor EXCEPT ![c] = NULL]
  /\ UNCHANGED <<db, cache, state, sqlOf, stmt, recent>>

-----------------------------------------------------------------------------
(* ParaQL._close: finalize the cached statements one by one, clear, close.   *)

CloseCall(c) ==
  /\ pc[c] = "idle" /\ db = "open"
  /\ db' = "closing"
  /\ pc' = [pc EXCEPT ![c] = "closing"]
  /\ UNCHANGED <<cache, state, sqlOf, stmt, waitFor, recent>>

\* Mutant: the cache is cleared and nothing is finalized.
CloseDropsCache(c) ==
  /\ pc[c] = "closing"
  /\ db' = "shutting"
  /\ pc' = [pc EXCEPT ![c] = "shutting"]
  /\ cache' = <<>>
  /\ UNCHANGED <<state, sqlOf, stmt, waitFor, recent>>

\* A finalized statement has left the Map, so its iterator comes to the first
\* entry that is still there, entries added meanwhile included.
CloseNext(c) ==
  /\ pc[c] = "closing"
  /\ waitFor[c] # NULL => state[waitFor[c]] = "closed"
  /\ IF cache # <<>>
       THEN /\ state' = StartFinalize(Oldest(cache))
            /\ waitFor' = [waitFor EXCEPT ![c] = Oldest(cache)]
            /\ UNCHANGED <<db, pc>>
       ELSE /\ db' = "shutting"
            /\ pc' = [pc EXCEPT ![c] = "shutting"]
            /\ waitFor' = [waitFor EXCEPT ![c] = NULL]
            /\ UNCHANGED state
  /\ UNCHANGED <<cache, sqlOf, stmt, recent>>

\* binding.close resolved.  A prepare the binding took before it has its
\* statement, and caches it, in a Map that was cleared.
Closed(c) ==
  /\ pc[c] = "shutting"
  /\ db' = "closed"
  /\ pc' = [pc EXCEPT ![c] = "idle"]
  /\ UNCHANGED <<cache, state, sqlOf, stmt, waitFor, recent>>

-----------------------------------------------------------------------------
Init ==
  /\ db = "open" /\ cache = <<>> /\ recent = <<>>
  /\ state = [s \in Stmts |-> "none"]
  /\ sqlOf = [s \in Stmts |-> NULL]
  /\ pc = [c \in Callers |-> "idle"]
  /\ stmt = [c \in Callers |-> NULL]
  /\ waitFor = [c \in Callers |-> NULL]
  /\ overlapped = FALSE

Call(c) ==
  /\ \/ \E sql \in Sqls : PrepareHit(c, sql) \/ PrepareMiss(c, sql)
     \/ \E s \in Stmts : FinalizeCall(c, s)
     \/ CloseCall(c)
  /\ overlapped' = (overlapped \/ \E d \in Callers : pc[d] # "idle")

Continue(c) ==
  /\ OpenFailed(c) \/ Opened(c) \/ Resume(c) \/ CloseNext(c) \/ Closed(c)
  /\ UNCHANGED overlapped

FinalizeDone(s) == Finalized(s) /\ UNCHANGED overlapped

Next == \/ \E c \in Callers : Call(c) \/ Continue(c)
        \/ \E s \in Stmts : FinalizeDone(s)

\* The binding answers every request (VfsBridge, EveryRequestSettles) and the
\* event loop resumes what awaits it.
Fairness == /\ \A c \in Callers : WF_vars(Continue(c))
            /\ \A s \in Stmts : WF_vars(FinalizeDone(s))

Spec == Init /\ [][Next]_vars
FairSpec == Spec /\ Fairness

-----------------------------------------------------------------------------
(* Properties.                                                              *)

\* Type correctness of the cache and of the statements' life cycles.
TypeOK ==
  /\ db \in {"open", "closing", "shutting", "closed"}
  /\ cache \in Seq(Sqls \X Stmts)
  /\ \A j, k \in 1..Len(cache) : cache[j][1] = cache[k][1] => j = k
  /\ state \in [Stmts -> {"none", "opening", "open", "closing", "closed"}]
  /\ sqlOf \in [Stmts -> Sqls \cup {NULL}]
  /\ pc \in [Callers -> {"idle", "opening", "evicting", "finalizing", "closing", "shutting"}]
  /\ stmt \in [Callers -> Stmts \cup {NULL}] /\ waitFor \in [Callers -> Stmts \cup {NULL}]
  /\ overlapped \in BOOLEAN
  /\ recent \in Seq(Sqls)
  /\ \A j, k \in 1..Len(recent) : recent[j] = recent[k] => j = k

\* What the cache promises to calls that are made one after the other, by
\* whichever caller, holds until two calls have overlapped; the last two
\* properties hold whatever overlaps.

\* Between calls the cache holds at most cacheSize statements.
CacheBound ==
  ~overlapped /\ (\A c \in Callers : pc[c] = "idle") => Len(cache) <= cacheSize

\* Preparing the same SQL twice gives the same statement: no two statements of
\* one SQL are open at the same time.
OneLivePerSql == ~overlapped =>
  \A s, t \in Stmts : state[s] = "open" /\ state[t] = "open" /\ sqlOf[s] = sqlOf[t] => s = t

\* Once close() is through, every prepared statement has been finalized.
AllFinalized ==
  ~overlapped /\ db = "closed" => \A s \in Stmts : state[s] \in {"none", "opening", "closed"}

\* A cached statement has been opened and not finalized, whoever finalizes
\* what at the same time: a hit of prepare() never finds a dead statement.
HitsAreLive == \A k \in 1..Len(cache) : state[cache[k][2]] \in {"open", "closing"}

\* The cache is in the order of preparation, so what prepare() evicts is the
\* statement prepared longest ago.
Before(a, b) == \E i, j \in 1..Len(recent) : i <= j /\ recent[i] = a /\ recent[j] = b
LeastRecentFirst == ~overlapped =>
  \A j, k \in 1..Len(cache) : j <= k => Before(cache[j][1], cache[k][1])

\* prepare() returns a statement that is open, if the cache holds any.
Returns(c) == pc[c] \in {"opening", "evicting"} /\ pc'[c] = "idle" /\ stmt'[c] # NULL
ReturnsOpen ==
  [][\A c \in Callers :
       ~overlapped' /\ cacheSize > 0 /\ (Returns(c) \/ \E sql \in Sqls : PrepareHit(c, sql))
         => state'[stmt'[c]] = "open"]_vars

\* Every call returns: no eviction, finalization or close waits for ever.
CallsReturn == \A c \in Callers : (pc[c] # "idle") ~> (pc[c] = "idle")

=============================================================================
