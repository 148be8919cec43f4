------------------------------ MODULE VfsBridge ------------------------------
(***************************************************************************)
(* binding.c: the bridge that lets SQLite, running on libuv pool threads,  *)
(* use a VFS whose methods are asynchronous JavaScript functions.          *)
(*                                                                         *)
(* Every binding call queues a uv_work_t.  Its "before" half runs on a     *)
(* pool thread and makes SQLite API calls, each under the mutex of the     *)
(* connection.  A VFS method called from there sends a record on its own   *)
(* stack to the JavaScript thread through a threadsafe function and blocks *)
(* in uv_sem_wait on the one semaphore of its paravfs_t.  The JavaScript   *)
(* handler ends by calling done, which fills the record and posts the      *)
(* semaphore.  The "after" half runs on the JavaScript thread and settles  *)
(* the promise.  Nothing ties a post to a waiter: that the right worker    *)
(* wakes up rests on the connection mutex and on one connection per VFS.   *)
(*                                                                         *)
(* Abstracted: what SQLite computes and stores.  An API call makes any     *)
(* number of VFS calls, up to a bound, and the error codes that end it     *)
(* early are among these numbers.  The record's result fields are filled   *)
(* exactly when stage is "done".                                           *)
(***************************************************************************)
EXTENDS Naturals, Sequences, FiniteSets

CONSTANTS
  Reqs,        \* the uv_work_t requests
  Conns,       \* paraql_t: SQLite connections
  Vfses,       \* paravfs_t
  ConnOf,      \* [Reqs -> Conns]
  VfsOf,       \* [Conns -> Vfses]
  PoolSize,    \* threads of the libuv pool (UV_THREADPOOL_SIZE)
  PooledFns,   \* VFS methods whose handler itself needs a pool thread (zlib)
  MaxApis,     \* bound: SQLite API calls of one pass over the pool
  MaxIos,      \* bound: VFS calls of one request
  NoReq

Fns == {"delete", "access", "read", "write", "truncate", "sync", "size"}

ASSUME BridgeAssumption ==
  /\ ConnOf \in [Reqs -> Conns]
  /\ VfsOf \in [Conns -> Vfses]
  /\ PoolSize \in Nat \ {0}
  /\ PooledFns \subseteq Fns
  /\ MaxApis \in Nat \ {0} /\ MaxIos \in Nat
  /\ NoReq \notin Reqs

\* Each ParaQL instance opens one connection on the VFS it registered.
ASSUME OneConnectionPerVfs ==
  \A c, d \in Conns : VfsOf[c] = VfsOf[d] => c = d

VARIABLES
  pc,      \* [request -> where it is]
  apis,    \* [request -> SQLite API calls it may still make in this pass]
  passes,  \* [request -> passes over the pool it has left: bind has two]
  ios,     \* [request -> VFS calls made (bound)]
  stage,   \* [request -> where the record of its VFS call is]
  pooled,  \* [request -> the handler of that call needs a pool thread]
  pool,    \* the queue of the libuv pool
  busy,    \* what the pool threads are running
  mutex,   \* [connection -> the request inside SQLite, or NoReq]
  sem      \* [VFS -> value of its semaphore]

vars == <<pc, apis, passes, ios, stage, pooled, pool, busy, mutex, sem>>

Vfs(r) == VfsOf[ConnOf[r]]

Work(r) == [job |-> "work", req |-> r]      \* the before half of request r
Zlib(r) == [job |-> "zlib", req |-> r]      \* deflate or inflate for its VFS call
Jobs == [job : {"work", "zlib"}, req : Reqs]

-----------------------------------------------------------------------------
(* The binding calls: each queues a request with uv_queue_work.             *)

\* calls: how many SQLite API calls the before half may turn out to make.
Submit(r, calls, p) ==
  /\ pc[r] = "idle"
  /\ pc' = [pc EXCEPT ![r] = "queued"]
  /\ \E n \in calls : apis' = [apis EXCEPT ![r] = n]
  /\ passes' = [passes EXCEPT ![r] = p]
  /\ pool' = Append(pool, Work(r))
  /\ UNCHANGED <<ios, stage, pooled, busy, mutex, sem>>

Open(r)    == Submit(r, 1..MaxApis, 1)
Close(r)   == Submit(r, 1..MaxApis, 1)
Exec(r)    == Submit(r, 0..MaxApis, 1)      \* none when the SQL is empty
Prepare(r) == Submit(r, 1..MaxApis, 1)
\* On a statement: none when it was finalized before (SQLITE_MISUSE).
Finalize(r) == Submit(r, 0..1, 1)
Reset(r)    == Submit(r, 0..MaxApis, 1)     \* reset, clear bindings
Bind(r)     == Submit(r, 0..MaxApis, 2)     \* before_parse, then before_bind
Step(r)     == Submit(r, 0..MaxApis, 1)     \* step, then the columns
Run(r)      == Submit(r, 0..MaxApis, 1)     \* step until done
\* The garbage collector's finalizers of a database and of a statement.
CollectDb(r)        == Submit(r, 0..MaxApis, 1)
CollectStatement(r) == Submit(r, 0..1, 1)

BindingCall(r) ==
  \/ Open(r) \/ Close(r) \/ Exec(r) \/ Prepare(r) \/ Finalize(r) \/ Reset(r) \/ Bind(r)
  \/ Step(r) \/ Run(r) \/ CollectDb(r) \/ CollectStatement(r)

-----------------------------------------------------------------------------
(* The libuv pool: first in, first out, PoolSize at a time.                 *)

TakeJob ==
  /\ pool # <<>>
  /\ Cardinality(busy) < PoolSize
  /\ pool' = Tail(pool)
  /\ busy' = busy \cup {Head(pool)}
  /\ LET r == Head(pool).req IN
       IF Head(pool).job = "work"
         THEN pc' = [pc EXCEPT ![r] = "run"] /\ UNCHANGED stage
         ELSE stage' = [stage EXCEPT ![r] = "working"] /\ UNCHANGED pc
  /\ UNCHANGED <<apis, passes, ios, pooled, mutex, sem>>

-----------------------------------------------------------------------------
(* A request inside SQLite, on its pool thread.                             *)

\* Mutants: SQLite built without its mutexes; a do-while in place of the while.
EnterNoMutex(r) ==
  /\ pc[r] = "run" /\ apis[r] > 0
  /\ mutex' = [mutex EXCEPT ![ConnOf[r]] = r]
  /\ apis' = [apis EXCEPT ![r] = @ - 1]
  /\ pc' = [pc EXCEPT ![r] = "locked"]
  /\ UNCHANGED <<passes, ios, stage, pooled, pool, busy, sem>>
EnterUnchecked(r) ==
  /\ pc[r] = "run"
  /\ mutex[ConnOf[r]] = NoReq
  /\ mutex' = [mutex EXCEPT ![ConnOf[r]] = r]
  /\ apis' = [apis EXCEPT ![r] = @ - 1]
  /\ pc' = [pc EXCEPT ![r] = "locked"]
  /\ UNCHANGED <<passes, ios, stage, pooled, pool, busy, sem>>

\* sqlite3_step, sqlite3_prepare_v2, ...: enter the mutex of the connection.
Enter(r) ==
  /\ pc[r] = "run" /\ apis[r] > 0
  /\ mutex[ConnOf[r]] = NoReq
  /\ mutex' = [mutex EXCEPT ![ConnOf[r]] = r]
  /\ apis' = [apis EXCEPT ![r] = @ - 1]
  /\ pc' = [pc EXCEPT ![r] = "locked"]
  /\ UNCHANGED <<passes, ios, stage, pooled, pool, busy, sem>>

\* js_call_threadsafe_function, then uv_sem_wait.
CallVfs(r, fn) ==
  /\ pc[r] = "locked" /\ ios[r] < MaxIos
  /\ pc' = [pc EXCEPT ![r] = "sem"]
  /\ ios' = [ios EXCEPT ![r] = @ + 1]
  /\ stage' = [stage EXCEPT ![r] = "queued"]
  /\ pooled' = [pooled EXCEPT ![r] = fn \in PooledFns]
  /\ UNCHANGED <<apis, passes, pool, busy, mutex, sem>>

OnRead(r)     == CallVfs(r, "read")
OnWrite(r)    == CallVfs(r, "write")
OnTruncate(r) == CallVfs(r, "truncate")
OnSync(r)     == CallVfs(r, "sync")
OnSize(r)     == CallVfs(r, "size")
OnDelete(r)   == CallVfs(r, "delete")
OnAccess(r)   == CallVfs(r, "access")

VfsCall(r) ==
  \/ OnRead(r) \/ OnWrite(r) \/ OnTruncate(r) \/ OnSync(r) \/ OnSize(r) \/ OnDelete(r)
  \/ OnAccess(r)

\* uv_sem_wait returns to whichever waiter it likes when the value is positive.
Wake(r) ==
  /\ pc[r] = "sem" /\ sem[Vfs(r)] > 0
  /\ sem' = [sem EXCEPT ![Vfs(r)] = @ - 1]
  /\ pc' = [pc EXCEPT ![r] = "awake"]
  /\ UNCHANGED <<apis, passes, ios, stage, pooled, pool, busy, mutex>>

\* return data.status: the record leaves scope and SQLite goes on.
Resume(r) ==
  /\ pc[r] = "awake"
  /\ pc' = [pc EXCEPT ![r] = "locked"]
  /\ stage' = [stage EXCEPT ![r] = "none"]
  /\ UNCHANGED <<apis, passes, ios, pooled, pool, busy, mutex, sem>>

\* The API call returns and the mutex is left.  An error ends the request.
Leave(r) ==
  /\ pc[r] = "locked"
  /\ mutex' = [mutex EXCEPT ![ConnOf[r]] = NoReq]
  /\ pc' = [pc EXCEPT ![r] = "run"]
  /\ \E n \in {0, apis[r]} : apis' = [apis EXCEPT ![r] = n]
  /\ UNCHANGED <<passes, ios, stage, pooled, pool, busy, sem>>

\* The before half returns and the thread is free again.
Finish(r) ==
  /\ pc[r] = "run" /\ apis[r] = 0
  /\ busy' = busy \ {Work(r)}
  /\ pc' = [pc EXCEPT ![r] = "after"]
  /\ UNCHANGED <<apis, passes, ios, stage, pooled, pool, mutex, sem>>

-----------------------------------------------------------------------------
(* The JavaScript thread.                                                   *)

\* A threadsafe function dispatches the record to its handler (_xRead, ...).
Dispatch(r) ==
  /\ stage[r] = "queued"
  /\ stage' = [stage EXCEPT ![r] = "handler"]
  /\ UNCHANGED <<pc, apis, passes, ios, pooled, pool, busy, mutex, sem>>

\* The handler deflates or inflates a page: zlib queues work on the same pool.
QueueZlib(r) ==
  /\ stage[r] = "handler" /\ pooled[r]
  /\ stage' = [stage EXCEPT ![r] = "pooled"]
  /\ pool' = Append(pool, Zlib(r))
  /\ UNCHANGED <<pc, apis, passes, ios, pooled, busy, mutex, sem>>

ZlibDone(r) ==
  /\ stage[r] = "working"
  /\ busy' = busy \ {Zlib(r)}
  /\ stage' = [stage EXCEPT ![r] = "ready"]
  /\ UNCHANGED <<pc, apis, passes, ios, pooled, pool, mutex, sem>>

\* Mutant: done posts in the handler's try block and again in its catch.
OnDoneTwice(r) ==
  /\ stage[r] = "ready" \/ (stage[r] = "handler" /\ ~pooled[r])
  /\ stage' = [stage EXCEPT ![r] = "done"]
  /\ sem' = [sem EXCEPT ![Vfs(r)] = @ + 2]
  /\ UNCHANGED <<pc, apis, passes, ios, pooled, pool, busy, mutex>>

\* Mutant: done returns early on an error, without posting.
OnDoneNoPost(r) ==
  /\ stage[r] = "ready" \/ (stage[r] = "handler" /\ ~pooled[r])
  /\ stage' = [stage EXCEPT ![r] = "done"]
  /\ sem' \in {sem, [sem EXCEPT ![Vfs(r)] = @ + 1]}
  /\ UNCHANGED <<pc, apis, passes, ios, pooled, pool, busy, mutex>>

\* The handler calls done: the record is filled and the semaphore posted.
OnDone(r) ==
  /\ stage[r] = "ready" \/ (stage[r] = "handler" /\ ~pooled[r])
  /\ stage' = [stage EXCEPT ![r] = "done"]
  /\ sem' = [sem EXCEPT ![Vfs(r)] = @ + 1]
  /\ UNCHANGED <<pc, apis, passes, ios, pooled, pool, busy, mutex>>

\* The after half settles the promise; or, between the two passes of a bind
\* whose parameters parse, queues the second one.
OnAfter(r) ==
  /\ pc[r] = "after"
  /\ pc' = [pc EXCEPT ![r] = "settled"]
  /\ UNCHANGED <<apis, passes, ios, stage, pooled, pool, busy, mutex, sem>>

OnAfterParse(r) ==
  /\ pc[r] = "after" /\ passes[r] > 1
  /\ passes' = [passes EXCEPT ![r] = @ - 1]
  /\ \E n \in 0..MaxApis : apis' = [apis EXCEPT ![r] = n]
  /\ pc' = [pc EXCEPT ![r] = "queued"]
  /\ pool' = Append(pool, Work(r))
  /\ UNCHANGED <<ios, stage, pooled, busy, mutex, sem>>

-----------------------------------------------------------------------------
Init ==
  /\ pc = [r \in Reqs |-> "idle"]
  /\ apis = [r \in Reqs |-> 0]
  /\ passes = [r \in Reqs |-> 0]
  /\ ios = [r \in Reqs |-> 0]
  /\ stage = [r \in Reqs |-> "none"]
  /\ pooled = [r \in Reqs |-> FALSE]
  /\ pool = <<>>
  /\ busy = {}
  /\ mutex = [c \in Conns |-> NoReq]
  /\ sem = [v \in Vfses |-> 0]

\* What the pool threads and the JavaScript thread do for a queued request.
Progress(r) ==
  \/ Enter(r) \/ VfsCall(r) \/ Wake(r) \/ Resume(r) \/ Leave(r) \/ Finish(r)
  \/ Dispatch(r) \/ QueueZlib(r) \/ ZlibDone(r) \/ OnDone(r) \/ OnAfter(r) \/ OnAfterParse(r)

\* No request is in flight: the event loop has nothing to do.
Quiet ==
  /\ \A r \in Reqs : pc[r] \in {"idle", "settled"}
  /\ UNCHANGED vars

Next ==
  \/ TakeJob
  \/ \E r \in Reqs : BindingCall(r) \/ Progress(r)
  \/ Quiet

\* Threads are scheduled and the event loop runs what is ready.  Nothing
\* obliges the application to make a call.
Fairness == WF_vars(TakeJob) /\ \A r \in Reqs : WF_vars(Progress(r))

Spec == Init /\ [][Next]_vars
FairSpec == Spec /\ Fairness

-----------------------------------------------------------------------------
(* Properties.                                                              *)

PCs == {"idle", "queued", "run", "locked", "sem", "awake", "after", "settled"}
Stages == {"none", "queued", "handler", "pooled", "working", "ready", "done"}

\* Type correctness of the requests, the records, the pool and the locks.
TypeOK ==
  /\ pc \in [Reqs -> PCs]
  /\ apis \in [Reqs -> Nat]
  /\ passes \in [Reqs -> Nat]
  /\ ios \in [Reqs -> Nat]
  /\ stage \in [Reqs -> Stages]
  /\ pooled \in [Reqs -> BOOLEAN]
  /\ pool \in Seq(Jobs)
  /\ busy \in SUBSET Jobs
  /\ mutex \in [Conns -> Reqs \cup {NoReq}]
  /\ sem \in [Vfses -> Nat]

\* A worker that uv_sem_wait lets through reads a record its own handler has
\* filled: no VFS call returns with the completion of another call, although
\* the semaphore does not say whose call was completed.
OwnCompletion == \A r \in Reqs : pc[r] = "awake" => stage[r] = "done"

\* While JavaScript still works on a record, the worker that owns the stack
\* frame it lives on, and SQLite's buffer it points to, is blocked in the
\* call: done never writes into a frame that has been left.
CallerWaits ==
  \A r \in Reqs :
    stage[r] \in {"queued", "handler", "pooled", "working", "ready"} => pc[r] = "sem"

\* At most one record per VFS is outstanding, so a threadsafe function never
\* holds more than one entry (its limit is paraql__queue_limit) and the
\* semaphore never counts beyond one.
OneOutstanding ==
  /\ \A q, r \in Reqs : Vfs(q) = Vfs(r) /\ stage[q] # "none" /\ stage[r] # "none" => q = r
  /\ \A v \in Vfses : sem[v] <= 1

\* Every promise a binding call returns is settled.
EveryRequestSettles == \A r \in Reqs : (pc[r] = "queued") ~> (pc[r] = "settled")

=============================================================================
