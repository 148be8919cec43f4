------------------------------- MODULE Instances -------------------------------
(***************************************************************************)
(* Several ParaQL instances in one process: index.js (_open, _close,       *)
(* _exec), lib/vfs.js (_open, _close) and, in binding.c, paravfs_init,     *)
(* paravfs_destroy, paraql_open and paraql_close, with the apply callback  *)
(* that Autobee may run at any time between the two.                       *)
(*                                                                         *)
(* Every instance registers a VFS under the one name "paravfs" and opens   *)
(* "paraql.db" by that name on a pool thread.  SQLite's registry is        *)
(* process-wide: sqlite3_vfs_register puts a VFS that is not to be the     *)
(* default before the others of its name, and sqlite3_vfs_find takes the   *)
(* first.                                                                  *)
(*                                                                         *)
(* Autobee is external: it applies what its log holds from the moment      *)
(* bee.ready() resolves until bee.close() is called, keeps log and view    *)
(* over a close, and close() waits for an apply that is running.           *)
(*                                                                         *)
(* What the code does not provide for is not excluded but recorded in      *)
(* mishaps, and each property names the mishaps it excepts.                *)
(***************************************************************************)
EXTENDS Naturals, Sequences, FiniteSets, Functions

CONSTANTS
  Inst,        \* the instances of the process, each with a store of its own
  MaxOps,      \* bound: operations in the logs of all instances
  MaxReopens,  \* bound: instances opened on a store that was closed before
  NULL

ASSUME InstancesAssumption ==
  MaxOps \in Nat /\ MaxReopens \in Nat /\ NULL \notin Inst

VARIABLES
  life,        \* [instance -> where opening and closing are]
  registry,    \* SQLite's VFSes named "paravfs": [instance -> the how manieth
               \* was its own to be registered, 0 when it is not]
  registered,  \* how many were
  conn,        \* [instance -> its connection: none, open, zombie or closed]
  uses,        \* [instance -> the instance whose VFS its connection calls]
  stray,       \* [instance -> a statement is open that the cache has lost]
  apply,       \* [instance -> what its _apply awaits]
  ops,         \* [instance -> the types of the operations in its log]
  applied,     \* [instance -> how many of them Autobee counts as applied]
  stored,      \* history: [instance -> the operations its store holds]
  reopens,     \* how many stores were opened again (bound)
  fault,       \* none; assert: a NULL handle; dead: a call on a destroyed VFS
  mishaps      \* history, a subset of Mishaps

natVars == <<registry, registered, conn, uses>>
logVars == <<apply, ops, applied, stored>>
vars == <<life, natVars, stray, logVars, reopens, fault, mishaps>>

Lives == {"new", "bee", "vfs", "connected", "failed", "open", "shutting", "shut",
          "ending", "closed"}
Opening == {"bee", "vfs", "connected"}
BeeRuns == {"vfs", "connected", "failed", "open", "shutting", "shut"}

\* opens: an instance began to open while another was opening; failed: an open
\* failed; busy: an instance was closed while an apply ran, or one ran while it
\* was closed; stray: a statement was open that the cache had lost.
Mishaps == {"opens", "failed", "busy", "stray"}

\* A VFS works from paravfs_init until paravfs_destroy.
Works(i) == registry[i] > 0

\* sqlite3_vfs_find("paravfs"): the last one registered comes first.
Found == CHOOSE i \in Inst : Works(i) /\ \A j \in Inst : registry[j] <= registry[i]

\* The pool thread of i calls into the VFS of its connection.
VfsCall(i) == fault' = IF Works(uses[i]) THEN fault ELSE "dead"

Note(x, happened) == mishaps' = IF happened THEN mishaps \cup {x} ELSE mishaps

-----------------------------------------------------------------------------
(* ready(): ParaVFS._open, then binding.open.                               *)

Ready(i) ==
  /\ life[i] = "new"
  /\ life' = [life EXCEPT ![i] = "bee"]
  /\ Note("opens", \E j \in Inst : life[j] \in Opening)
  /\ UNCHANGED <<natVars, stray, logVars, reopens, fault>>

\* bee.ready() resolved: register the VFS, and queue the open.
VfsInit(i) ==
  /\ life[i] = "bee"
  /\ registered' = registered + 1
  /\ registry' = [registry EXCEPT ![i] = registered + 1]
  /\ life' = [life EXCEPT ![i] = "vfs"]
  /\ UNCHANGED <<conn, uses, stray, logVars, reopens, fault, mishaps>>

\* Mutant: the VFS found is the one that was registered first.
FoundFirst ==
  CHOOSE i \in Inst : Works(i) /\ \A j \in Inst : Works(j) => registry[i] <= registry[j]
OnBeforeOpenFirst(i) ==
  /\ life[i] = "vfs"
  /\ uses' = [uses EXCEPT ![i] = FoundFirst]
  /\ conn' = [conn EXCEPT ![i] = "open"]
  /\ life' = [life EXCEPT ![i] = "connected"]
  /\ UNCHANGED <<registry, registered, stray, logVars, reopens, fault, mishaps>>

\* On a pool thread: sqlite3_open_v2 finds a VFS by name.
OnBeforeOpen(i) ==
  /\ life[i] = "vfs"
  /\ uses' = [uses EXCEPT ![i] = Found]
  /\ conn' = [conn EXCEPT ![i] = "open"]
  /\ life' = [life EXCEPT ![i] = "connected"]
  /\ UNCHANGED <<registry, registered, stray, logVars, reopens, fault, mishaps>>

\* It fails (out of memory): the connection is closed, ready() rejects, and the
\* VFS and Autobee run on until close().
OpenFails(i) ==
  /\ life[i] = "vfs"
  /\ life' = [life EXCEPT ![i] = "failed"]
  /\ Note("failed", TRUE)
  /\ UNCHANGED <<natVars, stray, logVars, reopens, fault>>

\* Back in JavaScript: _handle is set, ready() resolves.
OnAfterOpen(i) ==
  /\ life[i] = "connected"
  /\ life' = [life EXCEPT ![i] = "open"]
  /\ UNCHANGED <<natVars, stray, logVars, reopens, fault, mishaps>>

-----------------------------------------------------------------------------
(* close().                                                                 *)

\* Mutant: whichever VFS is found first is unregistered.
UnregisterFound(i) == registry' = [registry EXCEPT ![Found] = 0] /\ UNCHANGED registered

Unregister(i) == registry' = [registry EXCEPT ![i] = 0] /\ UNCHANGED registered

\* Mutant: the VFS is destroyed before the connection is closed.
CloseDestroysFirst(i) ==
  /\ life[i] = "open"
  /\ life' = [life EXCEPT ![i] = "shutting"]
  /\ Unregister(i)
  /\ Note("busy", apply[i] # "idle")
  /\ UNCHANGED <<conn, uses, stray, logVars, reopens, fault>>

\* The statements of the cache are finalized (StatementCache); then
\* binding.close is queued.  An instance that did not open closes its VFS only.
Close(i) ==
  /\ life[i] \in {"open", "failed"}
  /\ life' = [life EXCEPT ![i] = IF life[i] = "open" THEN "shutting" ELSE "ending"]
  /\ IF life[i] = "open" THEN UNCHANGED <<registry, registered>> ELSE Unregister(i)
  /\ Note("busy", apply[i] # "idle")
  /\ UNCHANGED <<conn, uses, stray, logVars, reopens, fault>>

\* On a pool thread: sqlite3_close_v2.  It rolls an open transaction back,
\* which calls the VFS; with a statement open the connection lives on.
OnBeforeClose(i) ==
  /\ life[i] = "shutting"
  /\ conn' = [conn EXCEPT ![i] = IF stray[i] \/ apply[i] = "inside" THEN "zombie" ELSE "closed"]
  /\ VfsCall(i) \/ UNCHANGED fault
  /\ life' = [life EXCEPT ![i] = "shut"]
  /\ UNCHANGED <<registry, registered, uses, stray, logVars, reopens, mishaps>>

\* ParaVFS._close: the VFS is unregistered and its threadsafe functions and
\* semaphore are gone, whoever may still use them; bee.close() is called.
VfsDestroy(i) ==
  /\ life[i] = "shut"
  /\ Unregister(i)
  /\ life' = [life EXCEPT ![i] = "ending"]
  /\ UNCHANGED <<conn, uses, stray, logVars, reopens, fault, mishaps>>

BeeClosed(i) ==
  /\ life[i] = "ending" /\ apply[i] = "idle"
  /\ life' = [life EXCEPT ![i] = "closed"]
  /\ UNCHANGED <<natVars, stray, logVars, reopens, fault, mishaps>>

\* A new instance on the store of one that was closed.
Reopen(i) ==
  /\ life[i] = "closed" /\ conn[i] # "zombie" /\ reopens < MaxReopens
  /\ reopens' = reopens + 1
  /\ life' = [life EXCEPT ![i] = "new"]
  /\ conn' = [conn EXCEPT ![i] = "none"]
  /\ uses' = [uses EXCEPT ![i] = NULL]
  /\ stray' = [stray EXCEPT ![i] = FALSE]
  /\ UNCHANGED <<registry, registered, logVars, fault, mishaps>>

-----------------------------------------------------------------------------
(* Statements the cache has lost: two calls prepared one SQL at a time, and *)
(* the second replaced the first (StatementCache).                          *)

LoseStatement(i) ==
  /\ life[i] = "open" /\ ~stray[i]
  /\ stray' = [stray EXCEPT ![i] = TRUE]
  /\ Note("stray", TRUE)
  /\ UNCHANGED <<life, natVars, logVars, reopens, fault>>

\* get() looks at the statement's closed only.
UseStray(i) ==
  /\ stray[i] /\ conn[i] \in {"open", "zombie"}
  /\ VfsCall(i)
  /\ UNCHANGED <<life, natVars, stray, logVars, reopens, mishaps>>

-----------------------------------------------------------------------------
(* Autobee and ParaVFS._apply.                                              *)

\* An operation reaches the log: a local call, or another writer's.
Arrive(i, type) ==
  /\ life[i] \in BeeRuns
  /\ FoldFunction(LAMBDA log, n : Len(log) + n, 0, ops) < MaxOps
  /\ ops' = [ops EXCEPT ![i] = Append(@, type)]
  /\ UNCHANGED <<life, natVars, stray, apply, applied, stored, reopens, fault, mishaps>>

\* The operation that is being applied is over: _apply settles and goes on,
\* whether it succeeded or not.
Counted(i) ==
  /\ apply' = [apply EXCEPT ![i] = "idle"]
  /\ applied' = [applied EXCEPT ![i] = @ + 1]

\* EXEC passes _handle to the binding as it is; RUN prepares, which waits for
\* ready(), and an instance that failed to open rejects it.
ApplyExec(i) ==
  /\ life[i] \in BeeRuns /\ apply[i] = "idle" /\ applied[i] < Len(ops[i])
  /\ ops[i][applied[i] + 1] = "EXEC"
  /\ IF life[i] \in {"vfs", "connected", "failed"}
       THEN fault' = "assert" /\ UNCHANGED apply
       ELSE apply' = [apply EXCEPT ![i] = "queued"] /\ UNCHANGED fault
  /\ Note("busy", life[i] \in {"shutting", "shut"})
  /\ UNCHANGED <<life, natVars, stray, ops, applied, stored, reopens>>

\* Mutant: prepare() does not wait for ready().
ApplyRunUnready(i) ==
  /\ life[i] \in BeeRuns /\ apply[i] = "idle" /\ applied[i] < Len(ops[i])
  /\ ops[i][applied[i] + 1] = "RUN"
  /\ apply' = [apply EXCEPT ![i] = "queued"]
  /\ Note("busy", life[i] \in {"shutting", "shut"})
  /\ UNCHANGED <<life, natVars, stray, ops, applied, stored, reopens, fault>>

ApplyRun(i) ==
  /\ life[i] \in BeeRuns /\ apply[i] = "idle" /\ applied[i] < Len(ops[i])
  /\ ops[i][applied[i] + 1] = "RUN"
  /\ apply' = [apply EXCEPT ![i] = IF life[i] \in {"vfs", "connected", "failed"}
                                     THEN "ready" ELSE "queued"]
  /\ Note("busy", life[i] \in {"shutting", "shut"})
  /\ UNCHANGED <<life, natVars, stray, ops, applied, stored, reopens, fault>>

\* Mutant: prepare() waits for opened and does not see the rejection.
ApplyReadyOpened(i) ==
  /\ apply[i] = "ready" /\ life[i] \in {"open", "shutting", "shut"}
  /\ apply' = [apply EXCEPT ![i] = "queued"]
  /\ UNCHANGED <<life, natVars, stray, ops, applied, stored, reopens, fault, mishaps>>

ApplyReady(i) ==
  /\ apply[i] = "ready"
  /\ \/ /\ life[i] \in {"open", "shutting", "shut"}
        /\ apply' = [apply EXCEPT ![i] = "queued"]
        /\ UNCHANGED applied
     \/ /\ life[i] \in {"failed", "ending"}
        /\ Counted(i)
  /\ UNCHANGED <<life, natVars, stray, ops, stored, reopens, fault, mishaps>>

\* On a pool thread: with db->handle NULL SQLite answers SQLITE_MISUSE, which
\* _apply takes for an error of the operation.
OnBeforeExec(i) ==
  /\ apply[i] = "queued"
  /\ IF conn[i] = "open"
       THEN apply' = [apply EXCEPT ![i] = "inside"] /\ UNCHANGED applied
       ELSE Counted(i)
  /\ UNCHANGED <<life, natVars, stray, ops, stored, reopens, fault, mishaps>>

\* The statement writes through the VFS of the connection and is finalized; a
\* connection that only waited for it is closed.
Inside(i) ==
  /\ apply[i] = "inside"
  /\ VfsCall(i)
  /\ stored' = [stored EXCEPT ![uses[i]] = Append(@, <<i, applied[i] + 1>>)]
  /\ Counted(i)
  /\ conn' = [conn EXCEPT ![i] = IF @ = "zombie" /\ ~stray[i] THEN "closed" ELSE @]
  /\ UNCHANGED <<life, registry, registered, uses, stray, ops, reopens, mishaps>>

-----------------------------------------------------------------------------
Init ==
  /\ life = [i \in Inst |-> "new"]
  /\ registry = [i \in Inst |-> 0] /\ registered = 0
  /\ conn = [i \in Inst |-> "none"]
  /\ uses = [i \in Inst |-> NULL]
  /\ stray = [i \in Inst |-> FALSE]
  /\ apply = [i \in Inst |-> "idle"]
  /\ ops = [i \in Inst |-> <<>>]
  /\ applied = [i \in Inst |-> 0]
  /\ stored = [i \in Inst |-> <<>>]
  /\ reopens = 0 /\ fault = "none" /\ mishaps = {}

\* A fault ends the process, or leaves it undefined.
Step(i) ==
  /\ fault = "none"
  /\ \/ VfsInit(i) \/ OnBeforeOpen(i) \/ OnAfterOpen(i)
     \/ OnBeforeClose(i) \/ VfsDestroy(i) \/ BeeClosed(i)
     \/ ApplyExec(i) \/ ApplyRun(i) \/ ApplyReady(i) \/ OnBeforeExec(i) \/ Inside(i)

User(i) ==
  /\ fault = "none"
  /\ \/ Ready(i) \/ Close(i) \/ Reopen(i) \/ OpenFails(i)
     \/ LoseStatement(i) \/ UseStray(i)
     \/ \E type \in {"EXEC", "RUN"} : Arrive(i, type)

Next == \E i \in Inst : Step(i) \/ User(i)

\* The pool and the event loop run, and Autobee applies what it has; nobody
\* has to open, close or write, and SQLite need not run out of memory.
Fairness == \A i \in Inst : WF_vars(Step(i))

Spec == Init /\ [][Next]_vars
FairSpec == Spec /\ Fairness

-----------------------------------------------------------------------------
(* Properties.                                                              *)

\* Type correctness of the instances' state.
TypeOK ==
  /\ life \in [Inst -> Lives]
  /\ registry \in [Inst -> 0..registered] /\ registered \in Nat
  /\ \A i \in Inst : Works(i) <=> life[i] \in BeeRuns
  /\ conn \in [Inst -> {"none", "open", "zombie", "closed"}]
  /\ uses \in [Inst -> Inst \cup {NULL}]
  /\ stray \in [Inst -> BOOLEAN]
  /\ apply \in [Inst -> {"idle", "ready", "queued", "inside"}]
  /\ \A i \in Inst : ops[i] \in Seq({"EXEC", "RUN"}) /\ applied[i] \in 0..Len(ops[i])
  /\ reopens \in 0..MaxReopens /\ fault \in {"none", "assert", "dead"}
  /\ mishaps \subseteq Mishaps

\* The connection of an instance calls the VFS of that instance, although all
\* have one name: `store` is what the instance stores its database in.
OwnVfs == \A i \in Inst : conn[i] = "open" => uses[i] = i

\* That holds as long as every ready() is awaited before the next, whatever is
\* closed and opened again in between.
OwnVfsOneByOne == "opens" \notin mishaps => OwnVfs

\* What Autobee counts as applied on an instance its store holds, once, in
\* order, and nothing of another instance's: also operations that were
\* applied before the instance was open, or left over by a close.
Own(i) == [k \in 1..applied[i] |-> <<i, k>>]
AppliedIsStored ==
  mishaps \cap {"opens", "failed", "busy"} = {} => \A i \in Inst : stored[i] = Own(i)

\* No pool thread calls into a VFS whose threadsafe functions were released:
\* the order in which close() takes things down is right, unless somebody else
\* still uses the connection.
NoDeadVfs == mishaps \cap {"opens", "busy", "stray"} = {} => fault # "dead"

\* An operation that prepares does not reach the binding before the connection
\* does, however early Autobee applies it.
NoNullHandle ==
  \A i \in Inst : apply[i] \in {"queued", "inside"} => life[i] \notin Opening \cup {"failed"}

\* ready() and close() settle, whatever is applied meanwhile, unless the
\* process has failed.
OpensAndCloses ==
  \A i \in Inst :
    life[i] \notin {"new", "open", "failed", "closed"}
      ~> life[i] \in {"open", "failed", "closed"} \/ fault # "none"

=============================================================================
